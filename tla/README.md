# A TLA+ model of MVVM

MVVM checkpoints a running WebAssembly guest (WAMR, compiled ahead of time or
interpreted), writes an image of all its threads, its memory and its file
descriptors, and restores it in another process, possibly on another host; a
gateway keeps the guest's connections alive in between.  The modules here model
the protocols of that life cycle, the analysis that tells the compiler which
loops need a checkpoint, and the Python programs that migrate guests and measure
them.  They are translated from the code in `src/src`, `src/include`, `src/wasm_static_analysis.py`
and `src/artifact`, not from its documents.

## 1. The system

| Component | Code | State it keeps | Operations | Talks to |
|---|---|---|---|---|
| Checkpoint coordination | `wamr.cpp` (`serialize_to_file`), `wamr_export.cpp` (signal handlers, `lightweight_checkpoint`, `lightweight_uncheckpoint`) | `as_mtx`, `as_cv`, `ready`, `lwcp_list`, `should_snapshot`, `as` | SIGINT, trap at a stable point, entry and return of a native call, arrival, wait, dump, exit | the guest's threads (signals), gateway (TCP), snapshot stream |
| Stable-point patching | `wamr_mvvm.cpp`, `wamr_export.cpp` (`sigtrap_handler`, `sigint_handler`, segfault handler) | the code's int3/nop bytes, page protection, `int3_mtx`, `int3_cv` | patch, unpatch, fault | every guest thread |
| Snapshot streams | `wamr_read_write.h` | position in the image; for RDMA a connection and a registered buffer per chunk | write, read, connect, answer, disconnect | the other host |
| Restore of threads | `wamr.cpp` (`recover`, `spawn_child`, `restore_env`, `wamr_wait`) | `execEnv`, a static iterator, `child_env`, `child_tid_map`, `tid_start_arg_map`, the semaphores `thread_init` and `wakeup` | sort, spawn, hand over, release, replay, invoke | WAMR's thread manager |
| Synchronisation log | `wamr.cpp`, `wamr_export.cpp` (`insert_sync_op*`, `replay_sync_ops`) | `sync_ops`, `tid_map`, `syncop_mutex`, `syncop_cv` | append, replay in order | all restored threads |
| File descriptor tracker | `wamr_export.cpp` (`insert_fd`, `rename_fd`, `remove_fd`), `wamr_wasi_context.cpp` | `fd_map_` | open, seek, read, write, renumber, close; dump; replay | WASI |
| Socket log and drain | `wamr_export.cpp` (`insert_socket`, `insert_sock_*`), `wamr_wasi_context.cpp` | `socket_fd_map_` | record, drain the datagrams under way, replay | gateway, guest |
| Gateway | `gateway/main.cpp` | the list of forwarding pairs, relay threads | INIT, SUSPEND, RESUME, relay | MVVM on both hosts, clients |
| Control-stack replay | `wamr_interp_frame.cpp`, `wamr_branch_block.cpp` | none (a function of the bytecode and a target address) | `wasm_replay_csp_bytecode` | restore |
| Checkpoint-pass analysis | `wasm_static_analysis.py` | the token stream, the tree, what each pass has found | text to tokens, tokens to tree, simple functions, modified locals, loops without a checkpoint | the compiler, which reads its lists by function and loop number |
| Migration scripts | `artifact/common_util.py`, the use cases | log files, snapshot files, processes on two hosts | start, sleep, signal, supervise, move and read logs | `MVVM_checkpoint`, `MVVM_restore`, criu, qemu |
| Core allocator | `artifact/devcontainer/bench.py` | `available_cores`, a mutex, the results | take a core, submit, run, give it back, gather | a pool of processes |
| Result tables | `artifact/bench_*.py`, the use cases | lists of results, csv files | measure in a pool, read the times, write, read again | the benchmarks |
| Images of module, memory, frames | `wamr_module_instance.cpp`, `wamr_memory_instance.cpp`, `wamr_exec_env.cpp` | copies of WAMR's structures | dump, restore | streams |

What is hard here is almost all concurrency: all threads must stop at the same
instant although each finds out by itself that it should; a count of threads is
read before the mutex that protects the arrivals; condition variables are
waited on without a predicate; a global carries a value from a creator to the
thread it has created; an RDMA write lands when it likes; the process may be
told to checkpoint twice.  `hazards` in `PROJECT.json` lists these points line
by line with the properties that watch them, or the reason why none does yet.

What makes the components correct:

* Checkpoint: the image shows all threads and the memory at one instant; no
  thread comes back into the guest while it is written; nothing is counted
  twice or under the wrong thread; a requested checkpoint is taken; connections
  are suspended first.
* Streams: the bytes that arrive are those that were sent, the reader stops at
  the end and only there, and a one-sided write never goes to freed memory.
* Restore: each thread gets the environment it had, all of them come back if
  their creators are there to spawn them, and none runs before the others.
* Synchronisation log: operations are replayed in the order they were logged.
* Descriptors and sockets: the replay of the log gives the descriptors back
  with their positions; no datagram is lost or reordered.
* Gateway: no packet goes to the old host after the move; a second move works.
* Analysis: the tree is that of the code; a function said to be simple ends; no
  way round a loop is without a checkpoint; the numbers are the compiler's.
* Scripts: what is restored is what was checkpointed, a time stands where it
  belongs, a core has one command, and nothing waits for ever.

## 2. The modules

| Module | What it is |
|---|---|
| `AtomicSnapshot` | the promise of a checkpoint: threads run, and at one instant frames and memory are copied and the process is gone |
| `Checkpoint` | the protocol between SIGINT and exit |
| `MCCheckpoint` | its instances and their symmetry |
| `CheckpointProofs` | its theorems |
| `RdmaStream`, `MCRdmaStream`, `RdmaStreamProofs` | both ends of the chunked RDMA transfer, and its theorems |
| `Restore`, `MCRestore`, `RestoreProofs` | the respawning of the threads, and its theorems |
| `ControlStack`, `MCControlStack`, `ControlStackProofs` | how the label stack of an interpreted frame is rebuilt from the bytecode, and its theorems |
| `BasicProofs` | lemmas for the other proofs: least counterexamples, recursive functions on intervals, `FlattenSeq`, sums over finite sets |
| `StaticAnalysis`, `MCStaticAnalysis` | from the text of a module to the loops that need no checkpoint |
| `Migration`, `MCMigration`, `MigrationProofs` | the scripts that move a guest, and the processes they start, and two theorems about them |
| `CoreAllocator`, `CoreAllocatorProofs` | `bench.py`: a core for each command, and its theorems |
| `ResultTables`, `ResultTablesProofs` | the scripts that fill a table with times, and their theorems |
| `MCEvaluation` | `CoreAllocator` or `ResultTables`: one of the programs is started |

### Checkpoint

`pc[t]` says where a thread is: `wasm` (guest code), `enter`, `native`, `leave`
(around a native call that `lightweight_checkpoint` counted; `uncounted` when
it declined to), `lock`, `gateway`, `asking`, `decide`, `parked`, `dump` (the
stations of `serialize_to_file`), `stuck` (the wait in `lightweight_uncheckpoint`
that nobody ends), `gone`.

| Action | Code |
|---|---|
| `RequestCheckpoint`, `Sigint` | `sigint_handler`, the first time and every later time |
| `SigintAmidCounting` | the same, while a thread that has just taken `as_mtx` changes `ready` and `lwcp_list` |
| `Trap` | `sigtrap_handler` |
| `BeginSerialize` | `serialize_to_file` up to the request for `as_mtx`: `all_count` is read here, before the lock |
| `Arrive` | from the lock to the test whether the gateway must be told |
| `TellGateway`, `GatewayFails` | the SUSPEND message; every failure exits the process |
| `GatewayAsksGuest` | `invoke_sock_getsockname`, before the message: guest code runs in the handler, under `as_mtx` |
| `WaitForOthers`, `WakeSpuriously`, `BeginDump` | `as_cv.wait(as_ul)` and what is behind it |
| `DumpEnv`, `ExitSuccess` | `dump` for each environment, serialization, `exit` |
| `LightweightCheckpoint`, `LightweightSkip`, `LightweightUncheckpoint` | the functions of these names |
| `Compute`, `Spawn`, `ThreadExit`, `Unlock`, `EnterNative`, `NativeReturns`, `MainReturns` | the guest and WAMR, outside of `src/src` |

Between two of these stations the code holds no lock and reads nothing that
another thread writes, or it holds `as_mtx`; so one station is one step.  The
exception is a second SIGINT, whose handler runs on the very thread that holds
the mutex: it may find `ready` changed and `lwcp_list` not, or the other way
round (`Unfinished`).  The thread then asks for the mutex it holds and keeps it
for good (`SelfLocked`), so that nobody reads the two counters again.

A socket whose destination is not in the log is asked of the guest
(`wamr.cpp:886-909`).  The call may come back and `TellGateway` follow.  It may
also reach a stable point, where SIGTRAP is masked because the thread is in its
handler, and the process is killed; or a counted native call, where the thread
asks for `as_mtx` again and stays (`asking`).
`get_exec_env()` returns the main thread's environment for whichever thread
calls it, and the model keeps that (`Instance(t) == Main`).
The guest's data is one counter for each thread: the frames of a thread are its
own counter, the shared memory is all of them, which is what is needed to see
an image that was not taken at one instant.

Four flags say what the environment does: threads come and go after the request
(`DynamicThreads`), SIGINT comes again (`RepeatSigint`; `artifact/common_util.py`
lines 1026-1028 send it twice), condition variables wake without being notified
(`SpuriousWakeups`), native calls wait for a mutex of the guest (`GuestMutex`).

### RdmaStream

One action for each side's blocking point: `Connect`/`ConnectFails`, `Ask`,
`Write`, `Rewrite`, `Disconnect` for the destructor of `RDMAWriteStream`;
`Listen`, `Answer`, `Copy`, `Leave` for the constructor of `RDMAReadStream`.
The code synchronises two of these pairs with sleeps (1 us before the copy,
200 ms before the next connection); durations are not modelled, so each sleep
may be too short.  A write of a chunk is atomic: when the copy overtakes it,
the bytes copied are the zeroes of the fresh buffer.  That a writer whose
connection was refused waits for ever is derived from the code, which ignores
the error and then waits for a disconnect event.  `position = 0` is left out:
a serialized image is never empty.

In a build of type Debug (`debug`; `CMakeLists.txt:85-92` makes it the default)
the destructor logs some bytes of the image (`Logged`, four in the code) in front
of each exchange, and reads past the end of the image to get them: in front of
the first chunk those at `BUFFER_SIZE`, for every image that does not reach as
far, and in front of a last chunk of fewer than four bytes.  `PastTheEnd` says
when; the read is undefined, so it may do no harm or be the writer's end
(`ReadPastTheEnd`, `crashed`).  `ReaderEnds` claims nothing of such images
(`LogsWithin`); the safety properties hold for them too.  The reader logs the
first bytes of its own buffer in the same way, which can only read past a
buffer of fewer than four bytes; this is not modelled.

### Restore

A thread carries the name of the environment it was created for.  `Init` ranges
over all creation trees, all list orders the two sorts of `recover` can produce,
compiled and interpreted guests, and guests with and without `tid_start_arg_map`
(wasi-threads).  A thread's creator may have ended before the
checkpoint (`Ended`): no restored thread has its handle.  What `spawn_child`
looks creators up in is `child_tid_map` as it comes out of the image, and there
it is a `map<int, int>` (`wamr_wasi_context.h:83`): the identifiers of
wasi-threads fit, handles of pthreads are addresses, and if they do not fit the
lookup finds nothing and gives 0 (`Transferred`, `NoEnv`).  `MyTurn` has both
sides of the test at `wamr.cpp:592`: a thread spawns those whose creator it is,
and the main thread, for which `!main` is 0, those whose creator is unknown.

The main thread's environment is first in the list because `_start`, at the
bottom of its stack, is assumed to have the least function index.  Handles are
those of the dump, as `wamr_exec_env.cpp:114` sets them.  `parent`, the third
static of `spawn_child`, is a function of the iterator and is not a variable.

| Action | Code |
|---|---|
| `Lock`, `WaitTurn`, `WakeSpuriously`, `Spawn`, `SpawnFails`, `Advance`, `SpawnDone` | `spawn_child` |
| `RestoreEnv` | `restore_env` |
| `Announce`, `WakeUp` | `wamr_wait` |
| `ReleaseWakeup`, `RecoverFails`, `Interpret`, `InvokeMain` | the end of `recover` |

`replay_sync_ops` is behind an `exit(-1)` in this revision and so is nothing
the system does; the model stops where the code does.

### ControlStack

A frame dumped by compiled code has no label stack; restored into the
interpreter (the guests of `Restore` that are not `is_aot`) it gets one from a
replay of its function up to the instruction it stands at.  The module has the
loop of `wasm_replay_csp_bytecode`, one action for each group of its `case`s,
and `Restore` for the rest of `restore_impl`.  Every instruction takes one
address; its immediates are not modelled, but for the labels of a `br_table`.  `EndOf` and `ElseOf` stand for
`wasm_loader_find_block_addr`, which is WAMR's and gives a null pointer where an
`if` has no `else`.  The address and the function index of a dump are taken to
be those of the same module, so the tests for them in `restore_impl` never fail.

The replay reads how many labels a `br_table` has and does not skip them
(`wamr_interp_frame.cpp:379-382`), so it takes each for an opcode.  A label is
therefore an instruction of its own here (`label`).  0 and 1 are `unreachable`
and `nop` and do nothing; all others are opcodes that push, pop, jump or take
operands from what follows (2 `block`, 3 `loop`, 4 `if`, 5 `else`, 11 `end`).
There the model stops, with the status `astray` (`Misread`), and nothing is
claimed of what the code makes of the rest: it may restore a label stack with
entries nobody opened, or exit.

| Action | Code |
|---|---|
| `Block`, `Loop`, `IfThen`, `IfElse`, `IfSkip`, `End` | the `case`s that push and pop |
| `NopOrElse`, `Branch`, `Call`, `Variable`, `Memory`, `Numeric` | the `case`s that only count the operand stack |
| `Misread` | the same `switch`, at a label of 2 or more |
| `Fault` | the `exit(-1)`s |
| `Restore` | `restore_impl`, `WAMRBranchBlock::restore_impl` |

A body is what WAMR's loader has validated before there is a frame of it
(`Valid`): an `end` for each opener and one more; each `else` belongs to the
`if` around it, which has no other; a `br_table` has labels, and they name blocks
around it (`LabelsMatch`); and a block without any instruction of `Miscounted`
leaves its results on the stack and nothing else (`Balanced`).  `CodesAssumption`
says so of `Codes`, TLC evaluates it, and the proofs use nothing else about the
bodies.

The reference is the nesting alone: `Enclosing` and `LabelOf` say what the
interpreter's label stack is at an address, whatever way it got there, and
`Height` what is on its operand stack - the cells of the instructions that stand
outside of closed blocks, and for each closed block its results, whatever is in
it.  The replay, which adds up every effect before the address, closed blocks
included, agrees with it (`BlocksRestored`, `HeightsRestored`) except where it
does not do what it should, and the properties say exactly where that is:

* a label of 2 or more of a `br_table` before the address leads the replay
  astray; no property speaks of what is restored then;
* an `if` without `else` that is open at the address is skipped, and with it all
  the blocks inside (`Kept`);
* the condition of an `if`, the arguments and results of a call, the argument
  of `memory.grow` and the instructions with the prefix byte are not counted; a
  `br` or `br_table` may leave more on the stack than its label takes, and what is
  behind one of them, or behind `unreachable`, is never reached and valid at any
  height.  All of these are `Miscounted`, and from the first of them on no
  height is claimed;
* `return`, sign extension and atomic instructions before the address end the
  process (`FaultsOnlyWhereUnsupported`).

### StaticAnalysis

A module is its imports, whether it has names, and the instructions of its
functions; an instruction is its kind and one number (label, local or callee).
The script is deterministic, so a behaviour is one module taken through it.

| Action | Code |
|---|---|
| `IndexNames` | `func_name_to_idx` |
| `EmitFunc`, `EmitBlock`, `EmitLoop`, `EmitBranch`, `EmitSet`, `EmitCall`, `EmitEnd` | `wat_to_inst`, one action for each alternative |
| `ParseBranch`, `ParseCall`, `ParseSet`, `ParseLoop`, `ParseBlock`, `ParseEnd`, `BeginFunction`, `EndFunction`, `ParseFails`, `ParsedAll` | the classes `Wasm*`; the calls of `parse` that have not returned are the stack `open` |
| `VisitFunc`, `NextIteration`, `FixedPoint` | `SimpleFuncPass`, one function at a time |
| `ModifiedLocals`, `ModifiedLocalsEnd` | `ModifiedLocalsPass` |
| `LoopCkpt`, `WriteResults` | `LoopCkptPass`, the files |

Because a node is visited once and `visit_call` sets its verdict to `False`
after setting it to `True`, the fixed point never adds anything in its second
round; the model has both, and keeps them apart.

The reference is the code as an engine runs it: `Target`, `Successors` and
`ReachedFrom` are branches and reachability from the instructions alone, with no
tree.  What the analysis says is compared with that:

* the tree is that of the code, or there is none: the script fails exactly where
  there is an `if`, an import that is no function, or a call and no names;
* a simple function has no way round and calls only simple ones; a tail call is
  taken for a return (`SimpleTerminates` says so);
* a loop whose checkpoint is left out has another on every way round - unless a
  branch comes before the first call or loop in it.  Such a branch may lead to
  the head or out of the loop to one further out; `visit_block` does not look at
  it, and `BranchesFirst` is exactly that case.

`visit_call` takes every callee that is not simple for one with a checkpoint.  Of
a function of the module the pass has seen that; of an imported one nothing in
the script shows it, and the model takes it for granted as the script does
(`PointsOf`): `EveryCycleHasAPoint` holds if the host's functions have one.

### Migration

A script is the sequence of its `os.system` and `subprocess` calls (`StepsOf`):
start something in the background, run it in the foreground, run it and poll for
it, sleep, SIGINT or SIGTERM to whatever has the name on a host, remove, move and
read logs.  There is one interpreter for these steps and one action for each
thing a process can do: start (connect, bind, read a file), receive a snapshot,
snapshot, finish.  What a process does is read from `checkpoint.cpp`,
`restore.cpp` and the streams: the output file is opened, and emptied, when the
process starts; a socket is bound and accepts one connection; a snapshot that
arrives is resumed from; a snapshot that nobody reads is lost.

Sleeps of ten seconds and more are assumed to cover the start of a process, and
nothing else: a guest may reach its checkpoint, or finish, before, during or
after any of them, and the second of sleep before criu is assumed to cover
nothing.  bind may fail while the last connection to the address lingers.  A
process that hangs takes no steps.

`run_checkpoint_restore_burst` ends with a `NameError` in its middle
(`sleep(1)`, which the module does not import); the model ends there as well, and the
steps behind it are kept for the day it is imported.  The monitoring scripts
that are started next to the processes read their cpu time and are left out.

A function of `common_util.py` is invoked once at a time, as `__main__` of the
modelled scripts does: the snapshot file has the guest's name and nothing else in
it, so two invocations at once for one guest would share it (section 5).

### CoreAllocator

| Action | Code |
|---|---|
| `ResetResults` | `async_results[v] = []`, `results[v] = []` |
| `Acquire`, `ReleaseAndSleep`, `TakeCore`, `Submit` | the loop that waits for a core, `pop`, `apply_async` |
| `Join`, `Gather` | `pool.join`, the results of each test |
| `Begin`, `Finish`, `Return` | `runner` up to its first use of the mutex, its command, its second use |
| `Raise` | output that is not UTF-8: the core is not given back |

`Program` is the order in which the loops over tests, repetitions and variants
reset and submit.  The workers' critical sections read and append only, so each
is one step that needs the mutex to be free.

### ResultTables

Thirteen scripts (two of them in `bench_loop_counter.py`) in one form: the
functions that measure, in the order of `__main__`, each with what its runs print
and how the time is read (`Column`), and the lists that are put side by side.
The measuring calls that are commented out in `__main__` are in place.  A time is
the number of the run it was read from, so the shortening of centiseconds by
`int(...) / 1000` is not visible.  Runs may print no time, a line of their own
with the word that is looked for, a time above an hour or a day, or bytes that are
not UTF-8; or they may raise.  The scripts without a pool measure one run after
the other.  In the use cases the snapshot times of the burst are listed by
benchmark and the other columns by repetition, and the optimistic ones are
repeated in both functions: `CellsAreTheRowsOwn` is about which run a cell has by
its position, and does not compare the benchmarks of two columns.

No row is ever written by the three `bench_policy` scripts: the list for
`-ckpt-loop-dirty.aot` stays empty, as no variant of that name is measured, and
`zip` stops at the shortest.  A second execution appends a second header, and
`read_from_csv` raises on it (`float`).  Both are in the model.

## 3. The runs

| Run | Question | Bound and why it is enough |
|---|---|---|
| `checkpoint_quiet` | Is the image of one instant, is everyone at rest, does the gateway know? | 3 threads, 1 step each: the dumper, a waiter and a thread in a native call are three roles; one step is enough to tell two instants apart |
| `checkpoint_hostile` | What survives when all four flags are set? | 3 threads, each interrupted at most once: two may wait, or be in a call, while a third dumps |
| `checkpoint_live` | Is a requested checkpoint taken? | 3 threads, no gateway, native calls that return |
| `checkpoint_lastarriver` | Does somebody "finish the job"? No: see findings | 2 threads |
| `checkpoint_spurious` | Is a waiting thread woken only when all are there? No | 2 threads |
| `rdma_stream` | Does the image arrive, and the transfer end? | chunks of 3, images of 1 to 10: shorter than a chunk, exact multiples, one byte more, one byte less, up to four connections; 2 bytes logged: last chunks that have them and that have not; both builds |
| `restore` | Do all threads come back as they were, and if not, what happens? | main and 3 children: chains, stars and mixed trees, creators that have ended, handles that fit or do not, both sorts, both builds |
| `control_stack` | Is the label stack the one the nesting calls for? | all validated bodies of up to 5 instructions and the final `end`: two nested blocks with something between, or both branches of an `if`; of up to 8 with only openers, `else`, `end` and a push: a block in the second branch of an `if`, three nested blocks with a push; of up to 7 with a `br_table` added, with labels 0, 0 and 1, or 2: tables inside and behind blocks |
| `static_analysis` | Are the lists the compiler reads true of the code? | 1 import, 2 functions; bodies of up to 3 lines with every kind of instruction, of up to 5 with blocks, loops, branches and a call, and four longer ones: two loops in one another and one behind, a loop in a loop, a branch before a call |
| `migration` | Is the right guest restored, the right time read, and does a script return? | all fifteen scripts, `trial = 2` as in the code; both jobs of the burst (whose logs have their own names) and one of the other use case (whose logs are appended to) |
| `evaluation` | Are cores shared or lost, runs forgotten, cells shifted? | `bench.py`: 2 cores, a pool of 2, 2 tests with a variant in common, 2 repetitions, 6 commands: more commands than cores.  Tables: 1 benchmark, 2 repetitions, 2 runs that go wrong (`MaxOdd`), 2 executions (`Sessions`), of a pool the two processes that are furthest apart, of the six counters of `aot_variant_freq`, which are treated alike, two |
| `restore_readme` | Does a compiled guest run after `MVVM_restore`? No | 1 thread |

The three runs that end in a violation are the findings of `PROJECT.json`:

* the arrival that completes the count may be `lightweight_checkpoint`, which
  compares nothing and notifies no one; a waiting thread then waits for ever;
* `as_cv.wait` has no predicate, so a spurious wakeup dumps a running guest;
* `recover` calls `exit(-1)` before it invokes a compiled guest in every build
  with `WASM_ENABLE_LIB_PTHREAD`, the only kind `CMakeLists.txt` configures.

`Quiescence` is claimed without `DynamicThreads` and `RepeatSigint` as well, and
either of them violates it (the configuration of `checkpoint_spurious`, with that
flag in place of `SpuriousWakeups`; the first needs three threads):

* `all_count` is read at `wamr.cpp:812`, before `as_mtx` is taken.  The main thread
  reads 2; t1 starts t2 and then enters a native call that is counted; the main
  thread arrives, finds `ready` equal to 2, and dumps while t2 runs.
* The main thread is in a native call and has been counted when the second SIGINT
  comes (`common_util.py` sends two, lines 1026-1028): `serialize_to_file` counts it
  again, finds `ready` equal to 2, and dumps while t1 runs.

Deadlock is checked for `control_stack` and `static_analysis` only, where `Done`
is the one way to stop: no instruction, line or token is without an action.  In the other runs guests end,
processes exit, and waits that nobody ends are part of what is modelled
(`JobFinished`, `EveryoneIsSpawned` and `ReaderEnds` are the properties about
them).  `EveryoneIsSpawned` has the precondition `CreatorsCome`: the creator of
every thread, as far as it is known, has not ended and comes before it in the
list.  The code establishes neither for pthread guests.
`NothingRunsWithoutCreators` says what happens otherwise: everyone waits in
`spawn_child`, and no thread of the guest runs again.

`MultipleIsNotNoticed` states what the reader's loop test does for an image
whose size is a multiple of the chunk size: it never stops.

### Fairness

* Checkpoint: a running thread keeps reaching stable points, and mutexes do not
  starve a thread (strong fairness of the steps that need one of the two);
  straight-line code in `serialize_to_file` goes on (weak); native calls return
  when what they wait for is there (weak).  Nothing is assumed of signals,
  thread creation or spurious wakeups.
* RdmaStream: two sequential programs that wait only for each other: weak
  fairness for each.
* Migration: the interpreter goes on, and a process that has been started gets
  as far as its start goes while the script runs (weak).  Nothing is assumed of
  guests: `ScriptReturns` holds for the scripts that never wait for one.
* CoreAllocator: the main program goes on, a command ends (weak); of those who
  wait for the mutex somebody gets it (strong), which the second of sleep
  without it in each round justifies.  Nothing is assumed of `ResultTables`.
* Restore: strong fairness for the mutex, weak for the rest of each thread;
  spurious wakeups are not counted on, so it is `notify_all` that has to wake
  a thread.

## 4. The proofs

`CheckpointProofs`, for every finite set of threads and every `MaxWork`:

* Whatever the flags: `TypeCorrect`, `SerializerAlone`, `NobodyIsStuck`,
  `NoReturn`.  The invariant is `Safe`: the type, `OneSerializer`, that a thread
  in a counted call has its own counter set, and that `ready` is at least the
  number of such threads; the last part is what keeps `ready` from going below
  zero, which `TypeOK` alone cannot show.  `Members` ties `live` to `pc`.
  `CountsAgree` (`ready` is the sum over `lwcp_list`, unless a signal has caught a
  thread amid counting) needs that such a thread waits for its own mutex for good
  (`LockedForever`), `TypeOK` for the step that takes a count away, and
  `SumChange` for what one changed value does to a sum.
* Under `Calm` (`~DynamicThreads /\ ~RepeatSigint /\ ~SpuriousWakeups`):
  `DumpIsQuiescent`, `SuspendedAtRest`, `GatewayTold`, `SnapshotIsAtomic`.  Their invariant adds
  `Gathering` (`ready` is exactly the number of counted threads, and an
  `all_count` in use is the number of live threads: it is read outside the lock,
  and right only because nobody joins or leaves any more), `Settled` (a raised
  `should_snapshot` means that all are counted and one of them holds the mutex)
  and `Imaged` (what is dumped so far is what is there now).  `SnapshotIsAtomic` is the
  refinement of `AtomicSnapshot`: every step of the protocol is a step of it or
  changes nothing there, and the exit is its `Snapshot`.

`RestoreProofs`, for every finite set of environments and every list order:
`TypeCorrect`, `RightEnvironment`, `TurnsSeen`, `PermitsMatch`, `AllThere`,
`NobodyComesBack`.  The invariant `Inv` says where the iterator is compared with the
threads: those behind it have announced themselves, those ahead of it do not
exist, and the one it stands at is under way exactly while one thread, holding
the mutex, waits for it, with `child_env` naming it and the permit there as soon
as it has restored (`Behind`, `Ahead`, `Handing`, `Idle`, `Exclusive`).  None of
the six properties is inductive alone.  For `NobodyComesBack` it says that whoever has
been created has a creator that comes (`CreatorsThere`), and that nobody leaves
`spawn_child` before the end of the list (`Finished`).  The list is a permutation
because it is as long as the set is large (`FS_Injection`).

`CoreAllocatorProofs`, for every set of cores, size of the pool and list of
tests: `TypeCorrect`, `CoresNeverShared` and `EveryRunIsGathered`.  That no two
commands share a core is not inductive: `Submit` hands out the core in the hand,
and begins an entry of `st`.  `HandOff` adds that the hand holds a core exactly
when the main program is about to submit, and that the entries from the next step
on have not begun.  `Collected` is the invariant behind the results: what has
been kept of a variant of one test is what has been launched so far, in order.
It needs where in the program the steps of such a variant are: `OfTestShape`
says it of the two inner loops, `Places` of the whole program (one launch in each
repetition, after the reset), and `IncreasingCardinality` counts them.  A variant
that two tests claim is reset between its launches, and its results are listed
twice; the property does not speak of it.

`RdmaStreamProofs`, for every chunk length and every image size: `TypeCorrect`,
`ReceivedIntact`, `ReaderEndsAtTheEnd`, `WritesFindTheirBuffer`,
`FullLastChunkIsNotNoticed`.  The properties speak of the end or of one chunk;
the invariant `IInv` says for every pair of places the two ends can be in together
(`Together`) how many bytes lie on each side and what is in the registered
buffer: whole chunks have been sent before the writer is done (`WriterInv`), the
reader's count is the writer's, or lags behind it by the chunk under way
(`ReaderInv`), and the buffer, once written, is the part of the image that comes
next (`BufferInv`).  That the reader stops at the end, and never does for a
multiple of the chunk length, are two sides of its part for `rpc = "done"`.  A
writer that crashes leaves the reader with a chunk it never gets.

`ControlStackProofs`, for every set of validated bodies: `TypeCorrect`,
`LabelStackRestored`, `StackHeightsRestored`, `ElsesArePassedBy`,
`NoEndWithoutEntry`.  First come facts about nesting: an opener has one end,
blocks that overlap lie in one another, an `if` has at most one `else`, and from
one address to the next the set of open blocks (`Around`) gains the opener or
loses the innermost block.  The invariant `IInv` says that the entries are those
of the blocks around the replay as long as it is on the way, and those of `Kept`
once it has been carried past the target by skipping an `if` (`Stack`); that
none of the blocks around it is an `if` without `else`, and that where it is in
the first branch of an `if` the target is there too (`OnTheWay`).  The last is
why no `else` is met.  Once the replay is astray `IInv` keeps to the type.
`Heights` adds, on the way and for each entry, that the height is the sum of the
effects before it (`SumTo`) as long as nothing miscounted was among them.  That
this sum is the height the nesting gives is a fact about bodies and not about
the replay (`HeightIsSum`): up to the first miscounted instruction a straight one
changes both alike (`HeightStraight`), and at an `end` the sum has grown by the
results of its block (`SumClosed`, from `Balanced`), which is what takes the
place of the block in `Height` (`HeightClosed`).

`ResultTablesProofs`, for every number of benchmarks, trials, executions and runs
that do not print what one expects, and for all thirteen scripts:
`CellsBelongToTheirRows` and `NoRowAfterALoss`, from `TablesInvariant`.  The loops
over the lines of a run and over the runs of a column are recursive functions;
`Recursion` of `BasicProofs` shows that such a function exists.  `RunExact` says what a run adds to
the entries in each way of reading, `SoFar` is the invariant of the loop, and
`ReadFaithful` its result: up to the first run that made no entry, or two, the
k-th entry is of the k-th run, or of an earlier one if nothing was understood.
`TablesInv` carries this (`Faithful`) for every complete column, and that nothing
of a session is in the file before its columns are complete (`FileInv`): that is
why a lost run leaves no row.  `NthOfFives` finds the place of an entry among
those of five variants by counting; for the `bench_policy` scripts the proof is
that there is no row (`NobodyIsLoopDirty`).

`MigrationProofs`, for any choice of the fifteen scripts, every number of trials
and every list of jobs: `RestoredIsRight` and `SnapshotIsOwn`.  A script is a
sequence put together with `FlattenSeq` from the steps of its iterations, so the
first part of the module says what is at which place of it: every step of a
script is `Proper` (the wiring of the two use cases, where no file is read and an
address tells the job), the iterations of `checkpoint_restore` and `criu` are
blocks of `Three` steps, and those of the overhead scripts blocks of eight or
seven (`BlockAt`), each with a log of its own for the burst (`OverheadScript`).
`Scripted` collects these facts and nothing else is used of the scripts.  Then the
invariant `IInv`, whose parts need one another:

* `Common`, for all scripts: the type, every process is one of a step (`Planned`),
  the guest of a process is of its job, and of its iteration unless it came from a
  file (`GuestOK`), and who is accepted is of the same job and iteration
  (`AcceptOK`).  The last is preserved because only processes of one iteration can
  be connected (`WiredOK`), which follows from the wiring - and for the overhead
  scripts, which use the same address again and again, from `InTheirBlock`: the
  restore of an iteration lives only between the second step of its block and the
  `pkill`, and its checkpoint is still starting only in the sleep behind it.
* `OneAtATime`, for `checkpoint_restore`: one process is at work, and once a
  checkpoint has started what is in the file is empty or its own.  This is where
  the truncation on opening counts.
* `DumpedOK`, for `criu`: while the images of an iteration that has dumped can be
  read they are those of its own dump.
* `Written`, for the overhead scripts: a line of a log is by a checkpoint that
  names that log and has ended, no two lines are by the same one (`LogsOK`), and
  what has been read for an iteration is still the beginning of its log and by
  checkpoints of this or earlier iterations (`ResultsOK`).

From `Written` alone follows `SnapshotIsItsOwn` (`Reported`): the burst's log
names are those of one iteration each, and in a log that is appended to a line
that an earlier iteration has read comes before those of the iteration itself.
The steps are proved part by part: what a step does to the processes there are
(`Fixed`, `Frame`, `Steady`), what a new one is (`SpawnsNew`), and where the
script stands in its block (`Here`, `WindowMoves`).  TLC has checked `IInv` on the
instance of the run `migration`.

`BasicProofs` has what a fold over a finite set is (`SumUnfold`, `SumChange`), that
a recursive function on an interval exists (`Recursion`), and where in
`FlattenSeq(seqs)` the members of `seqs` are (`FlattenInPlace`, `InPlaceOrder`,
`FlattenOne`).  The library's induction
theorems cannot be used (they take an operator), but a least counterexample can:
a non-empty set of natural numbers, or of subsets of a finite set, has a minimal
member (`LeastNatural`, `MinimalSubset`, from `WFMin`), and a set comprehension
takes the place of the predicate.

The only assumptions are those on the constants, named in the modules that
declare them; those of `Migration` say that there is at least one trial, that the
lists `cmd` of the use cases are not empty, and that the burst's names two
different jobs, as `usecase_burst_computing.py` has it.  Only model-checked are:

* liveness under fairness, which needs `ENABLED`: `CheckpointTaken`, `ReaderEnds`,
  `EveryoneIsSpawned`, `ScriptReturns`, `EveryTestStarts`;
* `StaticAnalysis`, which compares recursive functions of a tree with reachability
  in a graph and is written with `RECURSIVE` operators: `TreeKeepsTheCode`,
  `SimpleTerminates`, `ModifiedLocalsExact` and `EveryCycleHasAPoint`.

## 5. Not modelled, and what comes next

What is open, in the order of its weight:

1. The patching of the code, the two handlers around it, and the segfault
   handler's `int3_mtx`/`int3_cv`; it would take the place of the flag
   `checkpoint` in `Checkpoint`.
2. The gateway: forwarding pairs, relay threads, INIT, SUSPEND, RESUME.
3. The socket log and the drain of UDP sockets with a lossy network; composes
   with the gateway.  Claim to examine: the comment at `wamr_export.cpp:120-121`
   that datagrams are in the same order.
4. The descriptor log under both policies and its replay; abstract
   specification: a map from descriptors to path and position.
5. The synchronisation log and its replay, for the day the `exit(-1)` before it
   goes; composes with `Restore`.
6. `StaticAnalysis` with recursive functions in place of `RECURSIVE` operators,
   and theorems about its tree.

Of the Python programs, what is left out computes and draws: plots, averages,
the time lines of cpu and energy in the two use cases, `ckpt_restore_latency.py`
(its calls of `common_util.py` are commented out; what is left reads a CSV file
and plots it) and `create_mvvm_metadata.py`.  `memory_footprint_overhead.py` would
run `run_checkpoint_restore` in a pool of ten, with `bfs` in its list twice (lines
127 and 135-143), so that two pairs would use one snapshot file at once; the call
is commented out there, and `Migration` does not speak of such a use.

Left out for good: the bytes in the file and socket streams (loops around one
system call; who connects to whom is in `Migration`), the copies of WAMR's
structures field by field, the natives for BLAS, the empty neural-network
context and option parsing.  The profiler alternates the patches of item 1 and
has no protocol of its own.
