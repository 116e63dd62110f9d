------------------------------ MODULE Restore -------------------------------
(***************************************************************************)
(* How the restored process gets its threads back.                         *)
(*                                                                         *)
(* recover() restores the main thread from the first of the dumped         *)
(* environments and then spawns a thread for each of the others, in the    *)
(* order of the list.  A thread has to be created by the thread that had   *)
(* created it before the checkpoint, so all the threads there are already  *)
(* run spawn_child together: a static iterator says whose turn it is, a    *)
(* static mutex and condition variable guard it, the global child_env says *)
(* which environment the newest thread is to restore, and the semaphore    *)
(* thread_init tells its creator that it has done so.                      *)
(*                                                                         *)
(* A thread is named after the environment it was created for, and so is   *)
(* the handle of it: restore_env gives a thread the handle it had.         *)
(***************************************************************************)
EXTENDS Integers, Sequences, FiniteSets, SequencesExt

CONSTANTS
  Env,      \* the dumped environments
  Main,     \* the main thread's
  Builds,   \* the values of WASM_ENABLE_LIB_PTHREAD # 0 to look at
  NoEnv,    \* not an environment; as a handle, 0
  Ended     \* as a handle, that of a thread that had ended before the checkpoint

ASSUME EnvAssumption   == IsFiniteSet(Env) /\ Main \in Env /\ NoEnv \notin Env
ASSUME EndedAssumption == Ended \notin Env \cup {NoEnv}
ASSUME BuildAssumption == Builds \subseteq BOOLEAN

Children == Env \ {Main}

VARIABLES
  process,       \* "restoring", "resumed" or "failed"
  lib_pthread,   \* WASM_ENABLE_LIB_PTHREAD # 0
  is_aot,        \* the target is compiled ahead of time, not interpreted
  wasi_threads,  \* the children are in tid_start_arg_map
  child_tid_map, \* who had created whom, as it comes out of the image
  order,         \* execEnv as recover has sorted it
  iter,          \* spawn_child's position in it
  child_env,     \* what the newest thread is to restore
  pc,            \* where each thread is
  mtx,           \* owner of spawn_child's mutex
  thread_init,   \* semaphore
  wakeup,        \* semaphore
  restored       \* the environment each thread has restored

snapshot == <<lib_pthread, is_aot, wasi_threads, child_tid_map, order>>
vars     == <<process, snapshot, iter, child_env, pc, mtx, thread_init, wakeup,
              restored>>

Places == {"absent", "created", "restored", "lock", "loop", "handoff",
           "waiting", "recovered", "exiting", "running", "asleep", "replay"}

TypeOK ==
  /\ process \in {"restoring", "resumed", "failed"}
  /\ lib_pthread \in Builds
  /\ is_aot \in BOOLEAN
  /\ wasi_threads \in BOOLEAN
  /\ child_tid_map \in [Children -> Env \cup {NoEnv, Ended}]
  /\ order \in Seq(Env) /\ Len(order) = Cardinality(Env)
  /\ iter \in 2..Cardinality(Env) + 1
  /\ child_env \in Env \cup {NoEnv}
  /\ pc \in [Env -> Places]
  /\ mtx \in Env \cup {NoEnv}
  /\ thread_init \in 0..1
  /\ wakeup \in 0..Cardinality(Children)
  /\ restored \in [Env -> Env \cup {NoEnv}]

(* Every thread was created after its creator, which may have ended since. *)
Tree(parent) ==
  \E age \in [Children -> 1..Cardinality(Env)] :
    \A e \in Children : parent[e] \in Children => age[parent[e]] < age[e]

(* Between the two processes the map goes through a map<int, int>.  The    *)
(* identifiers of wasi-threads fit; the handle of a pthread is an address, *)
(* and one that does not fit is not found again: the lookup adds a 0.      *)
Transferred(parent, fit) == IF fit THEN parent ELSE [e \in Children |-> NoEnv]

(* recover sorts by the index of the function at the bottom of the stack.  *)
(* The main thread's is _start, the first of all; the children's are those *)
(* of their start functions, in any order.                                 *)
ByFunctionIndex == {s \in SetToSeqs(Env) : s[1] = Main}

(* Where a thread's creator comes earlier than the thread itself.          *)
ParentsFirst == \A i, j \in 2..Len(order) :
  child_tid_map[order[j]] = order[i] => i < j

(* A guest of wasi-threads has a tid_start_arg_map: then the children are  *)
(* sorted again, by the identifiers that were given to them in the order   *)
(* of their creation.                                                      *)
Init ==
  /\ process = "restoring"
  /\ lib_pthread \in Builds
  /\ is_aot \in BOOLEAN
  /\ wasi_threads \in (IF Children = {} THEN {FALSE} ELSE BOOLEAN)
  /\ \E parent \in [Children -> Env \cup {Ended}], fit \in BOOLEAN :
       /\ Tree(parent) /\ (wasi_threads => fit)
       /\ child_tid_map = Transferred(parent, fit)
  /\ order \in ByFunctionIndex
  /\ wasi_threads => ParentsFirst
  /\ iter = 2
  /\ child_env = NoEnv
  /\ pc = [e \in Env |-> IF e = Main THEN "lock" ELSE "absent"]
  /\ mtx = NoEnv
  /\ thread_init = 0
  /\ wakeup = 0
  /\ restored = [e \in Env |-> IF e = Main THEN order[1] ELSE NoEnv]

At(t, place)   == process # "failed" /\ lib_pthread /\ pc[t] = place
GoTo(t, place) == pc' = [pc EXCEPT ![t] = place]

-----------------------------------------------------------------------------
(***************************************************************************)
(* spawn_child.                                                            *)
(***************************************************************************)
Lock(t) ==
  /\ At(t, "lock")
  /\ mtx = NoEnv
  /\ mtx' = t
  /\ GoTo(t, "loop")
  /\ UNCHANGED <<process, snapshot, iter, child_env, thread_init, wakeup,
                 restored>>

SomeoneLeft == iter <= Len(order)
NextChild  == order[iter]

(* Wrong: whoever gets the mutex spawns the next thread.                   *)
AnyonesTurn(t) == SomeoneLeft

(* `parent' is the handle of the calling thread, or it is !main: for the   *)
(* main thread that is 0, so it spawns those whose creator is not known.   *)
(* For the others it is 1, and no handle is 1.                             *)
MyTurn(t) ==
  /\ SomeoneLeft
  /\ LET parent == child_tid_map[NextChild]
     IN  parent = t \/ (t = Main /\ parent = NoEnv)

(* cv.wait, in a loop that looks again at whose turn it is.                *)
WaitTurn(t) ==
  /\ At(t, "loop")
  /\ SomeoneLeft /\ ~MyTurn(t)
  /\ child_env' = NextChild
  /\ mtx' = NoEnv
  /\ GoTo(t, "waiting")
  /\ UNCHANGED <<process, snapshot, iter, thread_init, wakeup, restored>>

WakeSpuriously(t) ==
  /\ At(t, "waiting")
  /\ GoTo(t, "lock")
  /\ UNCHANGED <<process, snapshot, iter, child_env, mtx, thread_init, wakeup,
                 restored>>

Spawn(t) ==
  /\ At(t, "loop")
  /\ MyTurn(t) /\ ~wasi_threads
  /\ child_env' = NextChild
  /\ pc' = [pc EXCEPT ![t] = "handoff", ![NextChild] = "created"]
  /\ UNCHANGED <<process, snapshot, iter, mtx, thread_init, wakeup, restored>>

(* "no impl": exit(-1).                                                    *)
SpawnFails(t) ==
  /\ At(t, "loop")
  /\ MyTurn(t) /\ wasi_threads
  /\ process' = "failed"
  /\ UNCHANGED <<snapshot, iter, child_env, pc, mtx, thread_init, wakeup,
                 restored>>

(* Wrong: the creator does not wait for its child.                         *)
DoNotWait == UNCHANGED thread_init

(* thread_init.acquire().                                                  *)
WaitForChild == thread_init > 0 /\ thread_init' = thread_init - 1

(* Wrong: nobody is told.                                                  *)
NotifyNone(t) == GoTo(t, "loop")

(* cv.notify_all(); t itself goes on with the loop.                        *)
NotifyAll(t) ==
  pc' = [e \in Env |-> IF e = t THEN "loop"
                       ELSE IF pc[e] = "waiting" THEN "lock" ELSE pc[e]]

Advance(t) ==
  /\ At(t, "handoff")
  /\ WaitForChild
  /\ iter' = iter + 1
  /\ NotifyAll(t)
  /\ UNCHANGED <<process, snapshot, child_env, mtx, wakeup, restored>>

SpawnDone(t) ==
  /\ At(t, "loop")
  /\ ~SomeoneLeft
  /\ mtx' = NoEnv
  /\ GoTo(t, IF t = Main THEN "recovered" ELSE "asleep")
  /\ UNCHANGED <<process, snapshot, iter, child_env, thread_init, wakeup,
                 restored>>

-----------------------------------------------------------------------------
(***************************************************************************)
(* A new thread: restore_env, then wamr_wait.                              *)
(***************************************************************************)
RestoreEnv(t) ==
  /\ At(t, "created")
  /\ restored' = [restored EXCEPT ![t] = child_env]
  /\ GoTo(t, "restored")
  /\ UNCHANGED <<process, snapshot, iter, child_env, mtx, thread_init, wakeup>>

Announce(t) ==
  /\ At(t, "restored")
  /\ thread_init' = thread_init + 1
  /\ GoTo(t, "lock")
  /\ UNCHANGED <<process, snapshot, iter, child_env, mtx, wakeup, restored>>

(* Behind wakeup, replay_sync_ops waits on thread_init for the main thread *)
(* to have built tid_map: no step of the main thread gets there.           *)
WakeUp(t) ==
  /\ At(t, "asleep")
  /\ wakeup > 0
  /\ wakeup' = wakeup - 1
  /\ GoTo(t, "replay")
  /\ UNCHANGED <<process, snapshot, iter, child_env, mtx, thread_init,
                 restored>>

-----------------------------------------------------------------------------
(***************************************************************************)
(* The rest of recover.                                                    *)
(***************************************************************************)

(* Wrong: the children are let go when the main thread has spawned its own.*)
OwnSpawned == pc[Main] \in {"waiting", "recovered"}

AllSpawned == pc[Main] = "recovered"

(* wakeup.release(100).                                                    *)
ReleaseWakeup ==
  /\ process = "restoring" /\ lib_pthread /\ is_aot
  /\ AllSpawned
  /\ wakeup' = Cardinality(Children)
  /\ GoTo(Main, "exiting")
  /\ UNCHANGED <<process, snapshot, iter, child_env, mtx, thread_init,
                 restored>>

(* "no impl": exit(-1), before replay_sync_ops and invoke_main.            *)
RecoverFails ==
  /\ At(Main, "exiting")
  /\ process' = "failed"
  /\ UNCHANGED <<snapshot, iter, child_env, pc, mtx, thread_init, wakeup,
                 restored>>

(* The interpreter runs the main thread.  Nobody releases wakeup.          *)
Interpret ==
  /\ process = "restoring" /\ ~is_aot
  /\ lib_pthread => AllSpawned
  /\ process' = "resumed"
  /\ GoTo(Main, "running")
  /\ UNCHANGED <<snapshot, iter, child_env, mtx, thread_init, wakeup, restored>>

(* Without LIB_PTHREAD only wakeup.release(100) comes before invoke_main.  *)
InvokeMain ==
  /\ process = "restoring" /\ is_aot /\ ~lib_pthread
  /\ process' = "resumed"
  /\ wakeup' = Cardinality(Children)
  /\ GoTo(Main, "running")
  /\ UNCHANGED <<snapshot, iter, child_env, mtx, thread_init, restored>>

SpawnStep(t) ==
  \/ Lock(t) \/ WaitTurn(t) \/ Spawn(t) \/ SpawnFails(t) \/ Advance(t)
  \/ SpawnDone(t)

ChildStep(t) == RestoreEnv(t) \/ Announce(t) \/ WakeUp(t)

Next ==
  \/ \E t \in Env : SpawnStep(t) \/ WakeSpuriously(t) \/ ChildStep(t)
  \/ ReleaseWakeup \/ RecoverFails \/ Interpret \/ InvokeMain

Spec == Init /\ [][Next]_vars

(***************************************************************************)
(* Fairness: the mutex is granted to whoever keeps asking for it (strong), *)
(* everything else is straight-line code or a semaphore (weak).  Spurious  *)
(* wakeups are not counted on.                                             *)
(***************************************************************************)
Fairness ==
  /\ \A t \in Env :
       SF_vars(Lock(t)) /\ WF_vars(SpawnStep(t)) /\ WF_vars(ChildStep(t))
  /\ WF_vars(ReleaseWakeup \/ RecoverFails \/ Interpret \/ InvokeMain)

FairSpec == Spec /\ Fairness

-----------------------------------------------------------------------------
(***************************************************************************)
(* Properties.                                                             *)
(***************************************************************************)
Restored == {e \in Env : restored[e] # NoEnv}

(* Every thread restores the environment it was created for, although it   *)
(* learns which from a global that each creator, and each thread that      *)
(* looks whose turn it is, overwrites.                                     *)
HandedOver == \A t \in Env : restored[t] \in {t, NoEnv}

(* The guest does not run, in any thread, before every thread has restored *)
(* its environment.                                                        *)
NobodyRunsAhead ==
  (lib_pthread /\ (process = "resumed" \/ \E t \in Env : pc[t] = "replay"))
    => Restored = Env

(* No permit of thread_init is left over, so that no thread replays its    *)
(* synchronisation before the main thread has prepared it: any permit is   *)
(* that of the child a thread is waiting for.                              *)
NoStrayPermit ==
  thread_init > 0 => \E t \in Env :
    pc[t] = "handoff" /\ SomeoneLeft /\ restored[NextChild] = NextChild

(* No wakeup is lost: a thread that waits for its turn is not the one      *)
(* whose turn it is (spawn_child waits in a loop, and the iterator is      *)
(* advanced and all threads are notified under the same mutex).            *)
NoTurnMissed == \A t \in Env : pc[t] = "waiting" => ~MyTurn(t)

(* The creator of every thread, as far as it is known, is there to be      *)
(* asked: it has not ended, and it stands before the thread in the list.   *)
(* Nothing in the code sees to either: the list is sorted by the index of  *)
(* the start function.                                                     *)
CreatorComes(j) ==
  \/ child_tid_map[order[j]] \in {Main, NoEnv}
  \/ \E i \in 2..j - 1 : order[i] = child_tid_map[order[j]]

CreatorsCome == \A j \in 2..Len(order) : CreatorComes(j)

(* Then all threads of a pthread guest come back.                          *)
EveryoneIsSpawned ==
  (CreatorsCome /\ lib_pthread /\ ~wasi_threads) ~> Restored = Env

(* And otherwise the checkpoint is of no use: everyone waits in            *)
(* spawn_child for a creator that does not come, and no thread of the      *)
(* guest runs again.                                                       *)
NothingRunsWithoutCreators ==
  (~CreatorsCome /\ lib_pthread)
    => process # "resumed" /\ \A t \in Env : pc[t] # "replay"

(* A guest restored from its compiled code runs again (README: "Just run   *)
(* ... ./MVVM_restore -t bench/bc.aot").                                   *)
AotResumes == is_aot ~> process = "resumed"
=============================================================================
