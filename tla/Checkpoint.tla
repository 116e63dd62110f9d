----------------------------- MODULE Checkpoint -----------------------------
(***************************************************************************)
(* How the threads of one guest agree to be checkpointed.                  *)
(*                                                                         *)
(* A SIGINT turns the nops at the stable points of the compiled guest back *)
(* into int3.  Every thread that reaches one traps into sigtrap_handler    *)
(* and calls serialize_to_file, which counts the thread in `ready'; the    *)
(* arrival that makes ready equal to the number of threads dumps them all  *)
(* and exits the process.  A thread blocked in a native call is counted by *)
(* lightweight_checkpoint when the call begins and taken out again by      *)
(* lightweight_uncheckpoint when it returns.                               *)
(*                                                                         *)
(* The guest is abstracted to what the snapshot has to capture: work[t]    *)
(* counts the steps thread t has made.  The frames of t are a copy of      *)
(* work[t], the shared linear memory is a copy of the whole of work.       *)
(*                                                                         *)
(* Four flags say which of its environment's hazards the guest meets.      *)
(***************************************************************************)
EXTENDS Integers, FiniteSets, FiniteSetsExt

CONSTANTS
  Thread,          \* every thread the guest may ever run
  Main,            \* the thread of wamr->exec_env, which is also wamr->cur_env
  NoThread,        \* the owner of a free mutex
  MaxWork,         \* bound on the steps a thread makes
  DynamicThreads,  \* threads start and end after the checkpoint is requested
  RepeatSigint,    \* SIGINT is sent again while a checkpoint is under way
  SpuriousWakeups, \* condition variables wake up without being notified
  HasSockets,      \* socket_fd_map_ is not empty
  GuestMutex       \* native calls wait for a mutex of the guest

ASSUME ThreadAssumption ==
  IsFiniteSet(Thread) /\ Main \in Thread /\ NoThread \notin Thread
ASSUME WorkAssumption == MaxWork \in Nat
ASSUME FlagAssumption ==
  /\ DynamicThreads \in BOOLEAN /\ RepeatSigint \in BOOLEAN
  /\ SpuriousWakeups \in BOOLEAN /\ HasSockets \in BOOLEAN
  /\ GuestMutex \in BOOLEAN

VARIABLES
  process,         \* "running", or how the process ended
  live,            \* cluster->exec_env_list
  pc,              \* where each thread is
  interrupted,     \* threads a second SIGINT has interrupted
  as_mtx,          \* owner of wamr->as_mtx
  ready,           \* wamr->ready
  lwcp_list,       \* wamr->lwcp_list
  all_count,       \* serialize_to_file's local, one for each thread
  checkpoint,      \* the handlers' `checkpoint' flag, or its threshold reached
  should_snapshot, \* wamr->should_snapshot
  gateway,         \* what the gateway was last told
  owner,           \* owner of the guest's own mutex
  work,            \* the progress of each thread
  as,              \* the frames dumped so far
  as_memory        \* the linear memory dumped

guest  == <<live, owner, work>>
counts == <<ready, lwcp_list>>
image  == <<as, as_memory>>
vars   == <<process, live, pc, interrupted, as_mtx, ready, lwcp_list,
            all_count, checkpoint, should_snapshot, gateway, owner, work, as,
            as_memory>>

Progress  == 0..MaxWork
NotDumped == -1

(***************************************************************************)
(* The places a thread can be in.  Blocked: inside a native call that      *)
(* lightweight_checkpoint has counted.  Arriving: in serialize_to_file and *)
(* holding as_mtx; "asking": for ever, since it has asked for as_mtx again.*)
(***************************************************************************)
Blocked  == {"native", "leave"}
Arriving == {"gateway", "asking", "decide", "dump"}
Places   == {"gone", "wasm", "enter", "uncounted", "lock", "parked", "stuck"}
              \cup Blocked \cup Arriving

TypeOK ==
  /\ process \in {"running", "finished", "failed", "exited"}
  /\ live \in SUBSET Thread
  /\ pc \in [Thread -> Places]
  /\ interrupted \in SUBSET Thread
  /\ as_mtx \in Thread \cup {NoThread}
  /\ ready \in Nat
  /\ lwcp_list \in [Thread -> Nat]
  /\ all_count \in [Thread -> Nat]
  /\ checkpoint \in BOOLEAN
  /\ should_snapshot \in BOOLEAN
  /\ gateway \in {"serving", "suspended"}
  /\ owner \in Thread \cup {NoThread}
  /\ work \in [Thread -> Progress]
  /\ as \in [Thread -> Progress \cup {NotDumped}]
  /\ as_memory \in [Thread -> Progress]

Init ==
  /\ process = "running"
  /\ live = {Main}
  /\ pc = [t \in Thread |-> IF t = Main THEN "wasm" ELSE "gone"]
  /\ interrupted = {}
  /\ as_mtx = NoThread
  /\ ready = 0
  /\ lwcp_list = [t \in Thread |-> 0]
  /\ all_count = [t \in Thread |-> 0]
  /\ checkpoint = FALSE
  /\ should_snapshot = FALSE
  /\ gateway = "serving"
  /\ owner = NoThread
  /\ work = [t \in Thread |-> 0]
  /\ as = [t \in Thread |-> NotDumped]
  /\ as_memory = [t \in Thread |-> 0]

At(t, place)   == process = "running" /\ pc[t] = place
GoTo(t, place) == pc' = [pc EXCEPT ![t] = place]

(* Wrong: one of the two counters is forgotten.                            *)
CountInReady(handle) == ready' = ready + 1 /\ UNCHANGED lwcp_list
CountInList(handle) ==
  UNCHANGED ready /\ lwcp_list' = [lwcp_list EXCEPT ![handle] = @ + 1]

(* A thread is counted, under a handle, with as_mtx held.  The two lines   *)
(* are one step here unless a signal comes between them, which             *)
(* SigintAmidCounting is about: without one, nobody else gets to see half  *)
(* of it.                                                                  *)
Count(handle) ==
  /\ ready' = ready + 1
  /\ lwcp_list' = [lwcp_list EXCEPT ![handle] = @ + 1]

-----------------------------------------------------------------------------
(***************************************************************************)
(* The guest's own steps.  Its threads come and go freely before the       *)
(* checkpoint is requested, and afterwards if DynamicThreads.              *)
(***************************************************************************)
MayChangeThreads == DynamicThreads \/ ~checkpoint

Compute(t) ==
  /\ At(t, "wasm")
  /\ work[t] < MaxWork
  /\ work' = [work EXCEPT ![t] = @ + 1]
  /\ UNCHANGED <<process, live, pc, interrupted, as_mtx, counts, all_count,
                 checkpoint, should_snapshot, gateway, owner, image>>

Unlock(t) ==
  /\ At(t, "wasm")
  /\ owner = t
  /\ owner' = NoThread
  /\ UNCHANGED <<process, live, pc, interrupted, as_mtx, counts, all_count,
                 checkpoint, should_snapshot, gateway, work, image>>

Spawn(t, child) ==
  /\ At(t, "wasm")
  /\ MayChangeThreads
  /\ child \notin live
  /\ live' = live \cup {child}
  /\ GoTo(child, "wasm")
  /\ UNCHANGED <<process, interrupted, as_mtx, counts, all_count, checkpoint,
                 should_snapshot, gateway, owner, work, image>>

ThreadExit(t) ==
  /\ At(t, "wasm")
  /\ MayChangeThreads
  /\ t # Main /\ owner # t
  /\ live' = live \ {t}
  /\ GoTo(t, "gone")
  /\ UNCHANGED <<process, interrupted, as_mtx, counts, all_count, checkpoint,
                 should_snapshot, gateway, owner, work, image>>

(* invoke_main returns: the process ends without having been checkpointed. *)
MainReturns ==
  /\ At(Main, "wasm")
  /\ MayChangeThreads
  /\ process' = "finished"
  /\ UNCHANGED <<guest, pc, interrupted, as_mtx, counts, all_count, checkpoint,
                 should_snapshot, gateway, image>>

-----------------------------------------------------------------------------
(***************************************************************************)
(* Native calls bracketed by the lightweight checkpoint.  A call that the  *)
(* thread makes while it is being restored, or without a frame, is not     *)
(* counted.                                                                *)
(***************************************************************************)
EnterNative(t) ==
  /\ At(t, "wasm")
  /\ owner # t
  /\ GoTo(t, "enter")
  /\ UNCHANGED <<process, guest, interrupted, as_mtx, counts, all_count,
                 checkpoint, should_snapshot, gateway, image>>

LightweightSkip(t) ==
  /\ At(t, "enter")
  /\ GoTo(t, "uncounted")
  /\ UNCHANGED <<process, guest, interrupted, as_mtx, counts, all_count,
                 checkpoint, should_snapshot, gateway, image>>

(* Wrong: the handle of the global cur_env.                                *)
GlobalHandle(t) == Main

(* exec_env->handle of the calling thread.                                 *)
OwnHandle(t) == t

LightweightCheckpoint(t) ==
  /\ At(t, "enter")
  /\ as_mtx = NoThread
  /\ Count(OwnHandle(t))
  /\ GoTo(t, "native")
  /\ UNCHANGED <<process, guest, interrupted, as_mtx, all_count, checkpoint,
                 should_snapshot, gateway, image>>

NativeReturns(t) ==
  /\ At(t, "native") \/ At(t, "uncounted")
  /\ IF GuestMutex
       THEN owner = NoThread /\ owner' = t
       ELSE UNCHANGED owner
  /\ GoTo(t, IF pc[t] = "native" THEN "leave" ELSE "wasm")
  /\ UNCHANGED <<process, live, interrupted, as_mtx, counts, all_count,
                 checkpoint, should_snapshot, gateway, work, image>>

(* Wrong: the counters are changed without as_mtx.                         *)
AlwaysEnter == TRUE

(* as_mtx can be taken.                                                    *)
MayEnter == as_mtx = NoThread

(* An empty counter means that the thread has been serialized: wait on a   *)
(* condition variable of this call, which nothing notifies.                *)
LightweightUncheckpoint(t) ==
  /\ At(t, "leave")
  /\ MayEnter
  /\ IF lwcp_list[t] = 0
       THEN /\ GoTo(t, "stuck")
            /\ UNCHANGED counts
       ELSE /\ GoTo(t, "wasm")
            /\ ready' = ready - 1
            /\ lwcp_list' = [lwcp_list EXCEPT ![t] = @ - 1]
  /\ UNCHANGED <<process, guest, interrupted, as_mtx, all_count, checkpoint,
                 should_snapshot, gateway, image>>

-----------------------------------------------------------------------------
(***************************************************************************)
(* Signals.                                                                *)
(***************************************************************************)

(* The first SIGINT arms the stable points (the patching of the code is    *)
(* not modelled here).  The counting mode of sigtrap_handler arms itself   *)
(* at the threshold: the same step, since how many stable points the guest *)
(* passes before is its own affair.                                        *)
RequestCheckpoint ==
  /\ process = "running"
  /\ ~checkpoint
  /\ checkpoint' = TRUE
  /\ UNCHANGED <<process, guest, pc, interrupted, as_mtx, counts, all_count,
                 should_snapshot, gateway, image>>

(* Wrong: the main thread is counted once more.                            *)
MainAndList == Cardinality(live) + 1

(* bh_list_length(&cluster->exec_env_list).                                *)
ListLength == Cardinality(live)

(* serialize_to_file begins: it reads the number of threads and only then  *)
(* asks for as_mtx.                                                        *)
BeginSerialize(t) ==
  /\ all_count' = [all_count EXCEPT ![t] = ListLength]
  /\ GoTo(t, "lock")

Trap(t) ==
  /\ At(t, "wasm")
  /\ checkpoint
  /\ BeginSerialize(t)
  /\ UNCHANGED <<process, guest, interrupted, as_mtx, counts, checkpoint,
                 should_snapshot, gateway, image>>

(* A second SIGINT serializes on whatever thread it interrupts, wherever   *)
(* that thread is; the handler does not return, so a thread that holds     *)
(* as_mtx goes on holding it.  A thread does not take the signal again in  *)
(* its handler (the signal is masked there).                               *)
Sigint(t) ==
  /\ process = "running" /\ t \in live
  /\ RepeatSigint /\ checkpoint
  /\ t \notin interrupted
  /\ interrupted' = interrupted \cup {t}
  /\ BeginSerialize(t)
  /\ UNCHANGED <<process, guest, as_mtx, counts, checkpoint, should_snapshot,
                 gateway, image>>

(* get_exec_env returns the main thread's environment whoever asks, so the *)
(* main thread's counter is the one that grows.                            *)
Instance(t) == Main

(* What a thread that has just taken as_mtx may have added to ready and to *)
(* its counter in lwcp_list by the time the signal comes.                  *)
Unfinished(t) ==
  CASE pc[t] = "lock"  -> {<<0, 0>>, <<1, 0>>, <<1, 1>>}
    [] pc[t] = "enter" -> {<<0, 0>>, <<0, 1>>, <<1, 1>>}
    [] pc[t] = "leave" -> {<<0, 0>>, <<0, -1>>, <<-1, -1>>}
    [] OTHER           -> {}

(* A second SIGINT comes while the thread counts itself, or takes itself   *)
(* out again.  The handler asks for the as_mtx that its thread holds.      *)
SigintAmidCounting(t) ==
  /\ process = "running" /\ t \in live
  /\ RepeatSigint /\ checkpoint
  /\ t \notin interrupted
  /\ as_mtx = NoThread
  /\ as_mtx' = t
  /\ \E sum \in Unfinished(t) :
       LET handle == IF pc[t] = "lock" THEN Instance(t) ELSE OwnHandle(t)
       IN  /\ ready' = ready + sum[1]
           /\ lwcp_list' = [lwcp_list EXCEPT ![handle] = @ + sum[2]]
  /\ interrupted' = interrupted \cup {t}
  /\ BeginSerialize(t)
  /\ UNCHANGED <<process, guest, checkpoint, should_snapshot, gateway, image>>

-----------------------------------------------------------------------------
(***************************************************************************)
(* serialize_to_file once as_mtx is held.                                  *)
(***************************************************************************)

(* Wrong: compared before the arrival is counted, or not compared.         *)
CompleteWithout(t) == ready = all_count[t]
AlwaysComplete(t)  == TRUE

(* The arrival that brings ready to the number of threads.                 *)
Completes(t) == ready + 1 = all_count[t]

Arrive(t) ==
  /\ At(t, "lock")
  /\ as_mtx = NoThread
  /\ as_mtx' = t
  /\ Count(Instance(t))
  /\ should_snapshot' = (should_snapshot \/ Completes(t))
  /\ GoTo(t, IF HasSockets /\ should_snapshot' THEN "gateway" ELSE "decide")
  /\ UNCHANGED <<process, guest, interrupted, all_count, checkpoint, gateway,
                 image>>

(* A socket of a TCP client whose destination is not known is asked for    *)
(* its name: getsockname of the guest runs, in the handler and under       *)
(* as_mtx.  When it comes back, TellGateway follows.  At a stable point    *)
(* the process is killed, because SIGTRAP is masked in its handler; in a   *)
(* counted native call the thread asks for as_mtx again.                   *)
GatewayAsksGuest(t) ==
  /\ At(t, "gateway")
  /\ \/ process' = "failed" /\ UNCHANGED pc
     \/ GoTo(t, "asking") /\ UNCHANGED process
  /\ UNCHANGED <<guest, interrupted, as_mtx, counts, all_count, checkpoint,
                 should_snapshot, gateway, image>>

(* The SUSPEND operation is sent over a connection of its own.             *)
TellGateway(t) ==
  /\ At(t, "gateway")
  /\ gateway' = "suspended"
  /\ GoTo(t, "decide")
  /\ UNCHANGED <<process, guest, interrupted, as_mtx, counts, all_count,
                 checkpoint, should_snapshot, image>>

(* The gateway cannot be reached or the send fails: exit(EXIT_FAILURE).    *)
GatewayFails(t) ==
  /\ At(t, "gateway")
  /\ process' = "failed"
  /\ UNCHANGED <<guest, pc, interrupted, as_mtx, counts, all_count, checkpoint,
                 should_snapshot, gateway, image>>

(* Wrong: the last thread is not waited for.                               *)
AllButOneReady(t) == ready + 1 < all_count[t]

NotAllReady(t) == ready < all_count[t]

(* The wait gives as_mtx back, and no one notifies its condition variable. *)
WaitForOthers(t) ==
  /\ At(t, "decide")
  /\ NotAllReady(t)
  /\ as_mtx' = NoThread
  /\ GoTo(t, "parked")
  /\ UNCHANGED <<process, guest, interrupted, counts, all_count, checkpoint,
                 should_snapshot, gateway, image>>

(* The wait is not in a loop that tests its condition again.               *)
WakeSpuriously(t) ==
  /\ At(t, "parked")
  /\ SpuriousWakeups
  /\ as_mtx = NoThread
  /\ as_mtx' = t
  /\ GoTo(t, "dump")
  /\ UNCHANGED <<process, guest, interrupted, counts, all_count, checkpoint,
                 should_snapshot, gateway, image>>

(* wasm_cluster_suspend_all_except_self only asks the others to stop at    *)
(* their next suspension check: it takes no step from them here.           *)
BeginDump(t) ==
  /\ At(t, "decide")
  /\ ~NotAllReady(t)
  /\ GoTo(t, "dump")
  /\ UNCHANGED <<process, guest, interrupted, as_mtx, counts, all_count,
                 checkpoint, should_snapshot, gateway, image>>

(* Wrong: as_mtx is given back before the process exits.                   *)
ReleaseLock == as_mtx' = NoThread

KeepLock == UNCHANGED as_mtx

(* The dump of one execution environment.  The linear memory goes with the *)
(* main thread's.  The list is traversed in any order.                     *)
DumpEnv(t, e) ==
  /\ At(t, "dump")
  /\ e \in live /\ as[e] = NotDumped
  /\ as' = [as EXCEPT ![e] = work[e]]
  /\ as_memory' = IF e = Main THEN work ELSE as_memory
  /\ KeepLock
  /\ UNCHANGED <<process, guest, pc, interrupted, counts, all_count,
                 checkpoint, should_snapshot, gateway>>

(* The dumped environments are written out and the process exits.          *)
ExitSuccess(t) ==
  /\ At(t, "dump")
  /\ \A e \in live : as[e] # NotDumped
  /\ process' = "exited"
  /\ UNCHANGED <<guest, pc, interrupted, as_mtx, counts, all_count, checkpoint,
                 should_snapshot, gateway, image>>

-----------------------------------------------------------------------------
GuestStep(t) ==
  \/ Compute(t) \/ Unlock(t) \/ ThreadExit(t)
  \/ \E child \in Thread : Spawn(t, child)

NativeStep(t) ==
  \/ EnterNative(t) \/ LightweightSkip(t) \/ LightweightCheckpoint(t)
  \/ NativeReturns(t) \/ LightweightUncheckpoint(t)

SerializeStep(t) ==
  \/ Trap(t) \/ Sigint(t) \/ SigintAmidCounting(t) \/ Arrive(t)
  \/ GatewayAsksGuest(t) \/ TellGateway(t) \/ GatewayFails(t)
  \/ WaitForOthers(t) \/ WakeSpuriously(t) \/ BeginDump(t)
  \/ \E e \in Thread : DumpEnv(t, e)
  \/ ExitSuccess(t)

Next ==
  \/ MainReturns
  \/ RequestCheckpoint
  \/ \E t \in Thread : GuestStep(t) \/ NativeStep(t) \/ SerializeStep(t)

Spec == Init /\ [][Next]_vars

(***************************************************************************)
(* Fairness.  A thread that keeps running keeps passing stable points, and *)
(* as_mtx does not starve a thread that keeps asking for it (strong        *)
(* fairness); what a thread does inside serialize_to_file is straight-line *)
(* code (weak fairness).  A native call returns when what it waits for is  *)
(* there.  Nothing is assumed of the guest's other choices, of signals, or *)
(* of spurious wakeups.                                                    *)
(***************************************************************************)
Fairness ==
  \A t \in Thread :
    /\ SF_vars(Trap(t))
    /\ SF_vars(Arrive(t))
    /\ SF_vars(LightweightCheckpoint(t) \/ LightweightSkip(t))
    /\ SF_vars(LightweightUncheckpoint(t))
    /\ WF_vars(NativeReturns(t))
    /\ WF_vars(GatewayAsksGuest(t) \/ TellGateway(t) \/ GatewayFails(t))
    /\ WF_vars(WaitForOthers(t) \/ BeginDump(t))
    /\ WF_vars((\E e \in Thread : DumpEnv(t, e)) \/ ExitSuccess(t))

FairSpec == Spec /\ Fairness

-----------------------------------------------------------------------------
(***************************************************************************)
(* Properties.                                                             *)
(***************************************************************************)

(* A thread at rest is at a stable point of the guest's code, its frames   *)
(* are committed, and it cannot make a guest step without as_mtx.          *)
AtRest(t) == pc[t] \in Blocked \cup {"parked"} /\ t \notin interrupted

Dumping == \E t \in Thread : pc[t] = "dump"

(* A thread waits for the as_mtx that it holds itself.                     *)
SelfLocked(t) == pc[t] = "lock" /\ as_mtx = t

(* `ready' is the sum of the lwcp_list counters: whatever is counted for a *)
(* thread by serialize_to_file or lightweight_checkpoint is counted in     *)
(* both, and lightweight_uncheckpoint takes it out of both.  If a signal   *)
(* has kept a thread from it, that thread keeps as_mtx, and nobody reads   *)
(* the counters again.                                                     *)
CountersAgree ==
  (\A t \in Thread : ~SelfLocked(t))
    => ready = SumFunctionOnSet(lwcp_list, Thread)

(* A thread that returns from a counted native call finds its own counter  *)
(* set, so none waits for ever in lightweight_uncheckpoint, and none       *)
(* decrements another call's count.                                        *)
NobodyStuck == \A t \in Thread :
  /\ pc[t] # "stuck"
  /\ pc[t] \in Blocked => lwcp_list[t] > 0

(* From its arrival until it waits or the process ends, a thread in        *)
(* serialize_to_file is alone with the counters and the image.             *)
OneSerializer == \A t \in Thread :
  pc[t] \in Arriving => as_mtx = t

(* While the image is being written no thread comes back from a counted    *)
(* native call into guest code: lightweight_uncheckpoint needs the mutex   *)
(* that the dumping thread keeps until the process exits.                  *)
NoReturnDuringDump ==
  [][Dumping => \A t \in Thread : pc[t] = "leave" => pc'[t] # "wasm"]_vars

(* When the dump begins and as long as it runs, every other thread of the  *)
(* cluster is at rest (serialize_to_file: "If we're not all ready ... wait *)
(* for someone else to get here and finish the job").                      *)
Quiescence == \A d \in Thread :
  pc[d] = "dump" => \A t \in live \ {d} : AtRest(t)

(* The gateway is told to suspend the connections only when every thread   *)
(* of the guest is at rest, so nothing is sent over a suspended one.       *)
SuspendOnlyAtRest == gateway = "suspended" =>
  \A t \in live : AtRest(t) \/ as_mtx = t

(* A guest with sockets is not dumped behind the gateway's back            *)
(* (serialize_to_file: "tell gateway to keep alive the server").           *)
GatewayKnows == (HasSockets /\ Dumping) => gateway = "suspended"

(* A requested checkpoint is taken.                                        *)
CheckpointTaken == checkpoint ~> process = "exited"

(* Once all threads are counted and one of them waits in                   *)
(* serialize_to_file, the job it waits for is finished (serialize_to_file: *)
(* "Then wait for someone else to get here and finish the job").           *)
JobFinished ==
  (ready = Cardinality(live) /\ \E t \in Thread : pc[t] = "parked")
    ~> process = "exited"

(* The protocol takes an atomic snapshot.  The image is written while the  *)
(* process still runs; it counts as taken when the process has exited.     *)
Atomic == INSTANCE AtomicSnapshot WITH
  snapshot <- IF process = "exited"
                THEN {[frames |-> [t \in live |-> as[t]],
                       memory |-> [t \in live |-> as_memory[t]]]}
                ELSE {}

TakesAtomicSnapshot == Atomic!Spec
=============================================================================
