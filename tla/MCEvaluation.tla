---------------------------- MODULE MCEvaluation ----------------------------
(* Somebody starts either bench.py or one of the scripts that write a      *)
(* table.  The variables of the other do not change.                       *)
EXTENDS CoreAllocator, ResultTables

bench_vars == vars

(* Two tests, the second of which claims a variant of the first.           *)
ABThenB == <<<<"a", "b">>, <<"b">>>>

NotStarted ==
  /\ pc = "off" /\ at = 1
  /\ mutex = FALSE
  /\ available = Cores /\ hand = NoCore
  /\ st = [n \in Runs |-> "none"] /\ core = [n \in Runs |-> NoCore]
  /\ async_results = [v \in Variants |-> <<>>]
  /\ results = [v \in Variants |-> <<>>]

EitherInit == \/ Init /\ Off
              \/ NotStarted /\ TInit

EitherNext == \/ Next /\ UNCHANGED tvars
              \/ TNext /\ UNCHANGED bench_vars

EitherSpec == EitherInit /\ [][EitherNext]_<<bench_vars, tvars>> /\ Fairness
=============================================================================
