------------------------------ MODULE Migration ------------------------------
(***************************************************************************)
(* The scripts of artifact/common_util.py that checkpoint a guest, move it *)
(* and restore it, and the processes they start on two machines.           *)
(*                                                                         *)
(* A script is a sequence of steps.  It starts MVVM_checkpoint and         *)
(* MVVM_restore in the background, sleeps, signals whatever has the name   *)
(* and then reads a log: nothing tells it how far a process has got.  What *)
(* a process does is taken from checkpoint.cpp, restore.cpp and the socket *)
(* and file streams of wamr_read_write.h.                                  *)
(*                                                                         *)
(* Assumed: a sleep of ten seconds and more is long enough for processes   *)
(* to start, that is to connect or to listen, but not for a guest to reach *)
(* a point where it can be checkpointed, nor for it to finish.             *)
(***************************************************************************)
EXTENDS Integers, Sequences, FiniteSets, SequencesExt

CONSTANTS
  Scripts,  \* the scripts to look at: names of the operators below
  trial,    \* how often a measurement is repeated
  BurstJobs, SlowtierJobs  \* cmd of the two use cases, or some of it

None  == "none"
Job   == STRING \ {None}

(* cmd is never empty, and that of the burst names two different jobs.     *)
ASSUME TrialAssumption == trial \in Nat \ {0}
ASSUME JobsAssumption ==
  /\ BurstJobs \in Seq(Job) \ {<<>>} /\ SlowtierJobs \in Seq(Job) \ {<<>>}
  /\ \A i, j \in 1..Len(BurstJobs) : BurstJobs[i] = BurstJobs[j] => i = j

VARIABLES
  script,   \* the name of the script
  pc,       \* its next step
  status,   \* "running", "returned" or "raised"
  waiting,  \* in a supervised step: "no", "polling" or "terminated"
  procs,    \* the processes in the order they were started
  images,   \* the snapshot files: a guest, or Empty
  logs,     \* the log files: who printed what
  dumped,   \* the iterations in which criu has dumped
  results   \* what the script has read from the logs

vars == <<script, pc, status, waiting, procs, images, logs, dumped, results>>

Empty == [job |-> None, it |-> 0]

(* Where a snapshot comes from or goes to: the file, or an address, which  *)
(* is that of a machine and a port.                                        *)
Nowhere == <<None, 0>>
Image   == <<"image", 0>>
At(host, port) == <<host, port>>

Proc(role, job, host, in, out, log) ==
  [role |-> role, job |-> job, host |-> host, in |-> in, out |-> out, log |-> log]

-----------------------------------------------------------------------------
(***************************************************************************)
(* The steps of the scripts.                                               *)
(***************************************************************************)
Step(do, proc, arg) == [do |-> do, proc |-> proc, arg |-> arg, it |-> 0]
Nobody == Proc(None, None, None, Nowhere, Nowhere, Nowhere)

Background(proc, mode) == Step("background", proc, mode)
Foreground(proc)       == Step("foreground", proc, "truncate")
Supervised(proc)       == Step("supervised", proc, "append")
Sleep                  == Step("sleep", Nobody, None)
Sigint(role, host)     == Step("sigint", Proc(role, None, host, Nowhere, Nowhere, Nowhere), None)
Pkill(role, host)      == Step("kill", Proc(role, None, host, Nowhere, Nowhere, Nowhere), None)
RmOuts                 == Step("rm", Nobody, None)
Move(from, to)         == Step("mv", Nobody, <<from, to>>)
Cat(names)             == Step("cat", Nobody, names)
Raise                  == Step("raise", Nobody, None)

Pipe == <<"stdout", 0>>

(* The steps of an iteration, and those of several numbered from first.    *)
Numbered(steps, it) == [k \in 1..Len(steps) |-> [steps[k] EXCEPT !.it = it]]

Repeat(times, first, steps(_)) ==
  FlattenSeq([t \in 1..times |-> Numbered(steps(t - 1), first + t - 1)])

(* One invocation at a time: Image is the one file whose name is made of   *)
(* the guest's.                                                            *)
run_checkpoint(job) ==
  <<Foreground(Proc("checkpoint", job, "local", Nowhere, Image, Pipe))>>
run_restore(job) ==
  <<Supervised(Proc("restore", job, "local", Image, Image, Pipe))>>
run_checkpoint_restore(job) == Repeat(trial, 1,
  LAMBDA i : run_checkpoint(job) \o run_restore(job) \o <<Cat(<<Pipe>>)>>)

run_subprocess(job) ==
  <<Background(Proc("native", job, "local", Nowhere, Nowhere, Nowhere), "append")>>
run_criu_checkpoint(job) ==
  run_subprocess(job)
    \o <<Supervised(Proc("dump", job, "local", Nowhere, Image, Nowhere))>>
run_criu_restore(job) ==
  <<Supervised(Proc("criu", job, "local", Image, Nowhere, Nowhere))>>
run_criu_checkpoint_restore(job) == Repeat(trial, 1,
  LAMBDA i : run_criu_checkpoint(job) \o run_criu_restore(job))

run_qemu_checkpoint(job) ==
  <<Foreground(Proc("native", job, "local", Nowhere, Nowhere, Pipe)), Cat(<<Pipe>>)>>
run_qemu_checkpoint_restore(job) == Repeat(trial, 1, LAMBDA i :
  <<Background(Proc("qemu", job, "local", Nowhere, Nowhere, Nowhere), "append"),
    Background(Proc("qemu", job, "local", Nowhere, Nowhere, Nowhere), "append"), Sleep>>
  \o run_qemu_checkpoint(job) \o <<Pkill("qemu", "local")>>)

(* Wrong: the log's name is the same in every iteration.                   *)
SameLog(job, i) == <<job, 0>>

BurstLog(job, i) == <<job, i>>

(* The wiring is the caller's: here that of get_snapshot_overhead.         *)
run_checkpoint_restore_burst_overhead(job, first) == Repeat(trial, first, LAMBDA i :
  <<Background(Proc("restore", job, "remote", At("remote", 12347), Image, Nowhere), "append"),
    Sleep,
    Background(Proc("checkpoint", job, "local", Nowhere, At("remote", 12347),
                    BurstLog(job, i)), "truncate"),
    Sleep,
    Sigint("checkpoint", "local"),
    Sleep,
    Pkill("restore", "remote"),
    Cat(<<BurstLog(job, i)>>)>>)

(* The sleep of five seconds before the log is read is no wait for anyone. *)
run_checkpoint_restore_slowtier_overhead(job, first) == Repeat(trial, first, LAMBDA i :
  <<Background(Proc("restore", job, "remote", At("remote", 12346), Image, Nowhere), "append"),
    Sleep,
    Background(Proc("checkpoint", job, "local", Nowhere, At("remote", 12346),
                    <<job, i>>), "append"),
    Sleep,
    Sigint("checkpoint", "local"),
    Pkill("restore", "remote"),
    Cat(<<<<job, i>>>>)>>)

Out(name, i) == <<name, i>>

run_checkpoint_restore_slowtier(low, high) == Numbered(
  <<RmOuts,
    Background(Proc("restore", high, "remote", At("remote", 12346),
                    At("local", 12353), Out("restore", 1)), "append"),
    Background(Proc("restore", high, "local", At("local", 12353), Image,
                    Out("restore", 0)), "append"),
    Sleep,
    Background(Proc("checkpoint", high, "local", Nowhere, At("remote", 12346),
                    Out("checkpoint", 0)), "truncate"),
    Sleep,
    Sigint("checkpoint", "local"),
    Move(Out("checkpoint", 0), Out("checkpoint", 1)),
    Foreground(Proc("checkpoint", low, "local", Nowhere, Image, Out("checkpoint", 0))),
    Sigint("restore", "remote"),
    Sleep,
    Cat(<<Out("checkpoint", 0), Out("checkpoint", 1),
          Out("restore", 1), Out("restore", 0)>>)>>, 1)

(* sleep is not imported, so the script ends here with a NameError.        *)
sleep(n) == Raise

Restore(job, host, in, out, i) ==
  Background(Proc("restore", job, host, in, out, Out("restore", i)), "append")
Checkpoint(job, host, out, i) ==
  Background(Proc("checkpoint", job, host, Nowhere, out, Out("checkpoint", i)), "truncate")

run_checkpoint_restore_burst(low, high) == Numbered(
  <<RmOuts,
    Pkill("checkpoint", "local"), Pkill("restore", "local"),
    Pkill("checkpoint", "remote"), Pkill("restore", "remote"),
    Restore(high, "remote", At("remote", 12347), At("local", 1235), 0),
    Restore(high, "local", At("local", 1235), At("remote", 1238), 1),
    Restore(low, "local", At("local", 12346), At("remote", 1236), 4),
    Sleep,
    Checkpoint(high, "local", At("remote", 12347), 0),
    Sleep,
    Checkpoint(low, "remote", At("local", 12346), 1),
    Sigint("checkpoint", "local"),
    sleep(1),
    Sigint("checkpoint", "local"),
    Sleep,
    Sigint("restore", "remote"), Sigint("checkpoint", "remote"),
    Restore(high, "remote", At("remote", 1238), At("local", 12347), 2),
    Restore(low, "remote", At("remote", 1236), At("local", 14440), 5),
    Sleep,
    Sigint("restore", "local"),
    Restore(low, "local", At("local", 14440), Image, 6),
    Restore(high, "local", At("local", 12347), Image, 3),
    Sleep,
    Sigint("restore", "remote"),
    Sleep,
    Cat(<<Out("checkpoint", 0), Out("checkpoint", 1), Out("restore", 0),
          Out("restore", 1), Out("restore", 2), Out("restore", 3),
          Out("restore", 4), Out("restore", 5), Out("restore", 6)>>)>>, 1)

(* The runs that move nothing.                                             *)
Plain(role, job, host, log) == Numbered(
  <<Foreground(Proc(role, job, host, Nowhere,
                    IF role = "checkpoint" THEN Image ELSE Nowhere, log)),
    Cat(<<log>>)>>, 1)

run(job)              == Plain("checkpoint", job, "local", Pipe)
run_profile(job)      == Plain("checkpoint", job, "local", Pipe)
run_slowtier(job)     == Plain("checkpoint", job, "remote", Pipe)
run_burst(job)        == Plain("checkpoint", job, "remote", <<"burst.out", 0>>)
run_hcontainer(job)   == Plain("native", job, "local", Pipe)
run_native(job)       == Plain("native", job, "local", Pipe)
run_qemu_x86_64(job)  == Plain("native", job, "local", Pipe)
run_qemu_aarch64(job) == Plain("native", job, "local", Pipe)

(* get_snapshot_overhead of the two use cases.                             *)
burst_overhead ==
  FlattenSeq([i \in 1..Len(BurstJobs) |->
    run_checkpoint_restore_burst_overhead(BurstJobs[i], 1 + trial * (i - 1))])

slowtier_overhead ==
  LET n == Len(SlowtierJobs) IN
  FlattenSeq([call \in 1..trial * n |->
    run_checkpoint_restore_slowtier_overhead(SlowtierJobs[((call - 1) % n) + 1],
                                             1 + trial * (call - 1))])

Names ==
  {"run", "run_profile", "run_slowtier", "run_burst", "run_hcontainer",
   "run_native", "run_qemu_x86_64", "run_qemu_aarch64", "checkpoint_restore",
   "criu", "qemu", "burst_overhead", "slowtier_overhead", "slowtier", "burst"}

ASSUME ScriptsAssumption == Scripts \subseteq Names

StepsOf == [name \in Scripts |->
  CASE name = "run"               -> run("low")
    [] name = "run_profile"       -> run_profile("low")
    [] name = "run_slowtier"      -> run_slowtier("low")
    [] name = "run_burst"         -> run_burst("low")
    [] name = "run_hcontainer"    -> run_hcontainer("low")
    [] name = "run_native"        -> run_native("low")
    [] name = "run_qemu_x86_64"   -> run_qemu_x86_64("low")
    [] name = "run_qemu_aarch64"  -> run_qemu_aarch64("low")
    [] name = "checkpoint_restore" -> run_checkpoint_restore("low")
    [] name = "criu"              -> run_criu_checkpoint_restore("low")
    [] name = "qemu"              -> run_qemu_checkpoint_restore("low")
    [] name = "burst_overhead"    -> burst_overhead
    [] name = "slowtier_overhead" -> slowtier_overhead
    [] name = "slowtier"          -> run_checkpoint_restore_slowtier("low", "high")
    [] name = "burst"             -> run_checkpoint_restore_burst("low", "high")]

Current == StepsOf[script][pc]

-----------------------------------------------------------------------------
(***************************************************************************)
(* The processes.  st is "starting", "listening", "running" or "ended";    *)
(* flag is set by SIGINT, or by the counter of -c; sent: it has delivered  *)
(* its snapshot; peer: whom it is connected to; accepted: whom it reads    *)
(* from.  A process that hangs takes no step any more.                     *)
(***************************************************************************)
Pids     == DOMAIN procs
Live(p)  == procs[p].st # "ended"
Bound(p) == procs[p].st \in {"listening", "running"} /\ procs[p].in \notin {Nowhere, Image}

Started(proc, it) ==
  [role |-> proc.role, job |-> proc.job, host |-> proc.host,
   in |-> proc.in, out |-> proc.out, log |-> proc.log,
   st |-> "starting", it |-> it, sent |-> FALSE, peer |-> 0, accepted |-> 0,
   flag |-> (script = "checkpoint_restore" /\ proc.role = "checkpoint"),
   guest |-> IF proc.role \in {"checkpoint", "native"}
             THEN [job |-> proc.job, it |-> it] ELSE Empty]

(* A file x with this content, beside the others.                          *)
With(files, x, content) ==
  [f \in DOMAIN files \cup {x} |-> IF f = x THEN content ELSE files[f]]

(* The snapshot of a module is in <module>.bin; criu keeps its images in a *)
(* directory of its own.                                                   *)
File(p) == <<procs[p].host, procs[p].job, procs[p].role \in {"dump", "criu"}>>

Printed(p, what) ==
  IF procs[p].log \in DOMAIN logs
  THEN [logs EXCEPT ![procs[p].log] = Append(@, [by |-> p, what |-> what])]
  ELSE logs

Put(p, proc) == procs' = [procs EXCEPT ![p] = proc]
End(p)       == Put(p, [procs[p] EXCEPT !.st = "ended"])

script_vars == <<script, pc, status, waiting, results>>

(* connect, by p whose own record is then now: refused unless somebody     *)
(* has bound the address; one connection is accepted, others wait in the   *)
(* backlog.                                                                *)
Listener(out) == {q \in Pids : Bound(q) /\ procs[q].in = out}

ConnectAs(p, now) ==
  IF now.out \in {Nowhere, Image} THEN Put(p, now)
  ELSE IF Listener(now.out) = {} THEN Put(p, [now EXCEPT !.st = "ended"])
  ELSE LET q == CHOOSE q \in Listener(now.out) : TRUE
       IN procs' = [procs EXCEPT
            ![p] = [now EXCEPT !.peer = q],
            ![q].accepted = IF @ = 0 THEN p ELSE @]

(* Wrong: the file is opened when there is a snapshot to write.            *)
Lazily(p) == images

(* The constructor of FwriteStream.                                        *)
Opened(p) == IF procs[p].out = Image THEN With(images, File(p), Empty) ELSE images

StartCheckpoint(p) ==
  /\ procs[p].st = "starting" /\ procs[p].role = "checkpoint"
  /\ ConnectAs(p, [procs[p] EXCEPT !.st = "running"])
  /\ images' = Opened(p)
  /\ UNCHANGED <<script_vars, logs, dumped>>

StartNative(p) ==
  /\ procs[p].st = "starting" /\ procs[p].role \in {"native", "qemu"}
  /\ Put(p, [procs[p] EXCEPT !.st = "running"])
  /\ UNCHANGED <<script_vars, images, logs, dumped>>

(* bind fails while somebody else has the address, and may fail while the  *)
(* last connection to it lingers.                                          *)
Bind(p) ==
  /\ procs[p].st = "starting" /\ procs[p].role = "restore" /\ procs[p].in # Image
  /\ LET others == {q \in Pids \ {p} : procs[q].in = procs[p].in}
     IN \/ Listener(procs[p].in) = {} /\ Put(p, [procs[p] EXCEPT !.st = "listening"])
        \/ Listener(procs[p].in) # {} /\ End(p)
        \/ others # {} /\ End(p)
  /\ UNCHANGED <<script_vars, images, logs, dumped>>

(* The snapshot is read, and only then is there anywhere to write to.      *)
Resume(p, guest) ==
  /\ ConnectAs(p, [procs[p] EXCEPT !.st = "running", !.guest = guest])
  /\ images' = Opened(p)
  /\ UNCHANGED <<script_vars, logs, dumped>>

Read(p) ==
  /\ procs[p].st = "starting" /\ procs[p].role \in {"restore", "criu"}
  /\ procs[p].in = Image
  /\ IF File(p) \in DOMAIN images /\ images[File(p)] # Empty
     THEN Resume(p, images[File(p)])
     ELSE End(p) /\ UNCHANGED <<script_vars, images, logs, dumped>>

Receive(p) ==
  /\ procs[p].st = "listening" /\ procs[p].accepted # 0
  /\ LET q == procs[p].accepted IN
     /\ ~Live(q)
     /\ IF procs[q].sent THEN Resume(p, procs[q].guest)
        ELSE End(p) /\ UNCHANGED <<script_vars, images, logs, dumped>>

(* The guest comes to its end.                                             *)
Finish(p) ==
  /\ procs[p].st = "running"
  /\ End(p)
  /\ logs' = Printed(p, "Execution time")
  /\ UNCHANGED <<script_vars, images, dumped>>

(* A write to a connection nobody reads ends the process, sooner or later. *)
Snapshot(p) ==
  /\ procs[p].st = "running" /\ procs[p].flag /\ procs[p].role \in {"checkpoint", "restore"}
  /\ LET q    == procs[p].peer
         read == q # 0 /\ Live(q) /\ procs[q].accepted = p
     IN /\ Put(p, [procs[p] EXCEPT !.st = "ended", !.sent = read])
        /\ \/ logs' = Printed(p, "Snapshot time")
           \/ q # 0 /\ ~read /\ UNCHANGED logs
  /\ images' = IF procs[p].out = Image THEN With(images, File(p), procs[p].guest) ELSE images
  /\ UNCHANGED <<script_vars, dumped>>

(* criu dump -t pid: the images are replaced if there is something to dump.*)
Dump(p) ==
  /\ procs[p].st = "starting" /\ procs[p].role = "dump"
  /\ LET alive == {q \in Pids : procs[q].role = "native" /\ procs[q].it = procs[p].it
                                /\ procs[q].st = "running"}
     IN IF alive = {} THEN End(p) /\ UNCHANGED <<images, dumped>>
        ELSE LET q == CHOOSE q \in alive : TRUE IN
             /\ procs' = [procs EXCEPT ![p].st = "ended", ![q].st = "ended"]
             /\ images' = With(images, File(p), procs[q].guest)
             /\ dumped' = dumped \cup {procs[p].it}
  /\ UNCHANGED <<script_vars, logs>>

StartUp(p) == StartCheckpoint(p) \/ StartNative(p) \/ Bind(p) \/ Read(p)

-----------------------------------------------------------------------------
(***************************************************************************)
(* The interpreter of the scripts.                                         *)
(***************************************************************************)
Init ==
  /\ script \in Scripts
  /\ pc = 1 /\ status = "running" /\ waiting = "no"
  /\ procs = <<>> /\ images = <<>> /\ logs = <<>>
  /\ dumped = {} /\ results = <<>>

AtStep(do) == status = "running" /\ Current.do = do /\ UNCHANGED script

Past ==
  /\ pc' = pc + 1
  /\ status' = IF pc = Len(StepsOf[script]) THEN "returned" ELSE "running"

Spawn ==
  LET proc == Current.proc IN
  /\ procs' = Append(procs, Started(proc, Current.it))
  /\ logs' = IF proc.log = Nowhere \/ (proc.log \in DOMAIN logs /\ Current.arg = "append")
             THEN logs ELSE With(logs, proc.log, <<>>)
  /\ UNCHANGED <<images, dumped, results>>

StartInBackground ==
  AtStep("background") /\ Spawn /\ Past /\ UNCHANGED waiting

Newest == Len(procs)

(* subprocess.run.                                                         *)
RunForeground ==
  /\ AtStep("foreground") /\ waiting = "no"
  /\ Spawn
  /\ waiting' = "polling" /\ UNCHANGED <<pc, status>>

ForegroundEnds ==
  /\ AtStep("foreground") /\ waiting = "polling" /\ ~Live(Newest)
  /\ waiting' = "no" /\ Past
  /\ UNCHANGED <<procs, images, logs, dumped, results>>

(* Popen, and poll for 20 seconds.                                         *)
RunSupervised ==
  /\ AtStep("supervised") /\ waiting = "no"
  /\ Spawn
  /\ waiting' = "polling" /\ UNCHANGED <<pc, status>>

SupervisedEnds ==
  /\ AtStep("supervised") /\ waiting # "no" /\ ~Live(Newest)
  /\ waiting' = "no" /\ Past
  /\ UNCHANGED <<procs, images, logs, dumped, results>>

(* terminate: SIGTERM, which a process that hangs in the kernel or criu at *)
(* work on its target may not obey.                                        *)
TimesOut ==
  /\ AtStep("supervised") /\ waiting = "polling" /\ Live(Newest)
  /\ waiting' = "terminated"
  /\ End(Newest) \/ UNCHANGED procs
  /\ UNCHANGED <<pc, status, images, logs, dumped, results>>

(* Wrong: only terminate.                                                  *)
WaitOnly == UNCHANGED procs

Kill == End(Newest)

(* wait(timeout=1), kill, wait().                                          *)
StillThere ==
  /\ AtStep("supervised") /\ waiting = "terminated" /\ Live(Newest)
  /\ Kill
  /\ UNCHANGED <<pc, status, waiting, images, logs, dumped, results>>

SleepEnds ==
  /\ AtStep("sleep")
  /\ \A p \in Pids : procs[p].st # "starting"
  /\ Past
  /\ UNCHANGED <<waiting, procs, images, logs, dumped, results>>

Named(p) ==
  Live(p) /\ procs[p].role = Current.proc.role /\ procs[p].host = Current.proc.host

(* The handler sets a flag; a process that has not installed it yet, or    *)
(* whose accept is interrupted, ends.                                      *)
SendSigint ==
  /\ AtStep("sigint")
  /\ \E dead \in SUBSET {p \in Pids : Named(p) /\ procs[p].st # "running"} :
       procs' = [p \in Pids |->
         IF p \in dead THEN [procs[p] EXCEPT !.st = "ended"]
         ELSE IF Named(p) THEN [procs[p] EXCEPT !.flag = TRUE] ELSE procs[p]]
  /\ Past
  /\ UNCHANGED <<waiting, images, logs, dumped, results>>

(* pkill: nobody handles SIGTERM.                                          *)
SendSigterm ==
  /\ AtStep("kill")
  /\ procs' = [p \in Pids |->
       IF Named(p) THEN [procs[p] EXCEPT !.st = "ended"] ELSE procs[p]]
  /\ Past
  /\ UNCHANGED <<waiting, images, logs, dumped, results>>

(* rm *.out, of which nothing is left when a script begins.                *)
RemoveLogs ==
  /\ AtStep("rm")
  /\ logs' = <<>>
  /\ Past
  /\ UNCHANGED <<waiting, procs, images, dumped, results>>

(* mv: a process that has the file open goes on writing to it.             *)
MoveLog ==
  /\ AtStep("mv")
  /\ LET from == Current.arg[1]
         to   == Current.arg[2]
     IN /\ logs' = [l \in (DOMAIN logs \ {from}) \cup {to} |->
                      IF l = to THEN logs[from] ELSE logs[l]]
        /\ procs' = [p \in Pids |->
                      IF procs[p].log = from THEN [procs[p] EXCEPT !.log = to] ELSE procs[p]]
  /\ Past
  /\ UNCHANGED <<waiting, images, dumped, results>>

(* cat, with subprocess.run; the newest checkpoint is whom it is read for. *)
ReadLogs ==
  /\ AtStep("cat")
  /\ results' = Append(results,
       [lines |-> FlattenSeq([k \in 1..Len(Current.arg) |-> logs[Current.arg[k]]]),
        it    |-> Current.it])
  /\ Past
  /\ UNCHANGED <<waiting, procs, images, logs, dumped>>

Raises ==
  /\ AtStep("raise")
  /\ status' = "raised"
  /\ UNCHANGED <<pc, waiting, procs, images, logs, dumped, results>>

ScriptStep ==
  \/ StartInBackground \/ RunForeground \/ ForegroundEnds
  \/ RunSupervised \/ SupervisedEnds \/ TimesOut \/ StillThere
  \/ SleepEnds \/ SendSigint \/ SendSigterm
  \/ RemoveLogs \/ MoveLog \/ ReadLogs \/ Raises

(* What is left when the script is over is of no more interest.            *)
ProcessStep == status = "running" /\ \E p \in Pids :
  \/ StartCheckpoint(p) \/ StartNative(p) \/ Bind(p) \/ Read(p)
  \/ Receive(p) \/ Finish(p) \/ Snapshot(p) \/ Dump(p)

Next == ScriptStep \/ ProcessStep

(* The interpreter goes on, and a process starts within a sleep.  Nothing  *)
(* else is promised of the processes.                                      *)
Fairness ==
  /\ WF_vars(ScriptStep)
  /\ WF_vars(status = "running" /\ \E p \in Pids : StartUp(p))

Spec == Init /\ [][Next]_vars /\ Fairness

-----------------------------------------------------------------------------
(***************************************************************************)
(* Properties.                                                             *)
(***************************************************************************)
SnapshotsIn(lines) == {k \in 1..Len(lines) : lines[k].what = "Snapshot time"}

(* The checkpoint of an iteration.                                         *)
Own(it) == {p \in Pids : procs[p].role = "checkpoint" /\ procs[p].it = it}

(* A guest that is restored is the one the script means: of the job whose  *)
(* module the process was started with, and checkpointed in the same       *)
(* iteration, never one that an earlier iteration has left behind - but    *)
(* for criu, whose images stay when it could not dump.                     *)
RestoredGuestIsTheRightOne ==
  \A p \in Pids : procs[p].role \in {"restore", "criu"} /\ procs[p].guest # Empty =>
    /\ procs[p].guest.job = procs[p].job
    /\ procs[p].guest.it # procs[p].it =>
         procs[p].role = "criu" /\ procs[p].it \notin dumped

(* The snapshot time that is reported for an iteration, the last in the    *)
(* log, is that of the iteration's own checkpoint.  Only where logs are    *)
(* appended to may it be another's: that of an earlier call if its own has *)
(* written none, or of one that was still at work when its own iteration   *)
(* was read (get_snapshot_overhead).                                       *)
SnapshotIsItsOwn ==
  script \in {"burst_overhead", "slowtier_overhead"} =>
    \A i \in 1..Len(results) :
      LET lines == results[i].lines
          own   == {k \in SnapshotsIn(lines) : lines[k].by \in Own(results[i].it)}
      IN \A last \in SnapshotsIn(lines) :
           (\A k \in SnapshotsIn(lines) : k <= last) =>
             \/ last \in own
             \/ /\ script = "slowtier_overhead"
                /\ own = {} \/ \A j \in 1..i - 1 : lines[last] \notin ToSet(results[j].lines)

(* A script that only starts, supervises and signals comes to its end      *)
(* whatever the processes do: nobody it polls can hold it                  *)
(* (run_restore, run_criu_checkpoint, run_criu_restore).                   *)
Waits == \E k \in 1..Len(StepsOf[script]) : StepsOf[script][k].do = "foreground"

ScriptReturns == ~Waits ~> status # "running"
=============================================================================
