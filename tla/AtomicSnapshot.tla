--------------------------- MODULE AtomicSnapshot ---------------------------
(***************************************************************************)
(* What a checkpoint promises: the threads of a guest run; at one instant  *)
(* the frames of all of them and the memory they share are copied and the  *)
(* process is gone.  Or the process ends without a snapshot.               *)
(***************************************************************************)
EXTENDS Naturals

CONSTANTS Thread, MaxWork

VARIABLES
  process,   \* "running", or how the process ended
  live,      \* the guest's threads
  work,      \* the steps each thread has made, which the memory reflects
  snapshot   \* the copies made so far: none, or one

vars == <<process, live, work, snapshot>>

Init ==
  /\ process = "running"
  /\ live \in SUBSET Thread
  /\ work = [t \in Thread |-> 0]
  /\ snapshot = {}

Run(t) ==
  /\ process = "running" /\ t \in live
  /\ work[t] < MaxWork
  /\ work' = [work EXCEPT ![t] = @ + 1]
  /\ UNCHANGED <<process, live, snapshot>>

ChangeThreads ==
  /\ process = "running"
  /\ live' \in SUBSET Thread
  /\ UNCHANGED <<process, work, snapshot>>

EndWithout ==
  /\ process = "running"
  /\ process' \in {"finished", "failed"}
  /\ UNCHANGED <<live, work, snapshot>>

Snapshot ==
  /\ process = "running"
  /\ process' = "exited"
  /\ snapshot' = {[frames |-> [t \in live |-> work[t]],
                   memory |-> [t \in live |-> work[t]]]}
  /\ UNCHANGED <<live, work>>

Next ==
  \/ \E t \in Thread : Run(t)
  \/ ChangeThreads \/ EndWithout \/ Snapshot

Spec == Init /\ [][Next]_vars
=============================================================================
