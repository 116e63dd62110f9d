---------------------------- MODULE CoreAllocator ----------------------------
(***************************************************************************)
(* devcontainer/bench.py: each variant of each test runs on a processor    *)
(* core of its own.                                                        *)
(*                                                                         *)
(* The main program takes a core from a list that it shares with the       *)
(* workers of a process pool, under a mutex that it polls when the list is *)
(* empty, and gives it to the pool together with the command.  The worker  *)
(* that has run the command puts the core back.  When all have been        *)
(* submitted, the main program joins the pool and gathers the results.     *)
(***************************************************************************)
EXTENDS Integers, Sequences, FiniteSets, SequencesExt

CONSTANTS
  Cores,    \* available_cores, to begin with
  NoCore,
  Workers,  \* the size of the pool
  Tests,    \* for each benchmark, what get_variants finds
  repeat

ASSUME CoresAssumption   == NoCore \notin Cores
ASSUME WorkersAssumption == Workers \in Nat \ {0}
ASSUME TestsAssumption   == Tests \in Seq(Seq(STRING)) /\ repeat \in Nat

VARIABLES
  pc,         \* where the main program is
  at,         \* its next step in Program
  mutex,      \* TRUE while the main program holds it
  available,  \* available_cores
  hand,       \* the core that has been popped and not submitted yet
  st,         \* what has become of each submitted command
  core,       \* the core it was given
  async_results, results  \* for each variant, the commands

vars == <<pc, at, mutex, available, hand, st, core, async_results, results>>

(* The variants of all tests, in order.  One may be claimed by two tests.  *)
Claims   == FlattenSeq(Tests)
Variants == ToSet(Claims)

(* The loops of bench: async_results[v] = [] for the variants of a test,   *)
(* then its commands.  get_variants takes the files whose names begin with *)
(* the test's, so a variant may be in more than one test.                  *)
Reset(v)  == [do |-> "reset", v |-> v]
Launch(v) == [do |-> "launch", v |-> v]

Mapped(f(_), s) == [k \in 1..Len(s) |-> f(s[k])]

(* Wrong: the results are reset before each repetition.                    *)
ResetEachTime(t) ==
  FlattenSeq([r \in 1..repeat |-> Mapped(Reset, Tests[t]) \o Mapped(Launch, Tests[t])])

OfTest(t) ==
  Mapped(Reset, Tests[t]) \o FlattenSeq([r \in 1..repeat |-> Mapped(Launch, Tests[t])])

Program == FlattenSeq([t \in 1..Len(Tests) |-> OfTest(t)])

Runs == 1..Len(Program)

(* The commands that have a core.                                          *)
Holding == {"queued", "running", "finished", "lost"}

Init ==
  /\ pc = "next" /\ at = 1
  /\ mutex = FALSE
  /\ available = Cores /\ hand = NoCore
  /\ st = [n \in Runs |-> "none"] /\ core = [n \in Runs |-> NoCore]
  /\ async_results = [v \in Variants |-> <<>>]
  /\ results = [v \in Variants |-> <<>>]

-----------------------------------------------------------------------------
(* The main program.                                                       *)
worker_vars == <<st, core>>
gathering   == <<async_results, results>>

ResetResults ==
  /\ pc = "next" /\ at \in Runs /\ Program[at].do = "reset"
  /\ async_results' = [async_results EXCEPT ![Program[at].v] = <<>>]
  /\ results' = [results EXCEPT ![Program[at].v] = <<>>]
  /\ at' = at + 1
  /\ UNCHANGED <<pc, mutex, available, hand, worker_vars>>

(* mutex.acquire(), before the loop and in it.                             *)
Acquire ==
  /\ \/ pc = "next" /\ at \in Runs /\ Program[at].do = "launch"
     \/ pc = "sleep"
  /\ ~mutex
  /\ mutex' = TRUE
  /\ pc' = "check"
  /\ UNCHANGED <<at, available, hand, worker_vars, gathering>>

(* Wrong: it sleeps with the mutex.                                        *)
SleepOnly == UNCHANGED mutex

Release == mutex' = FALSE

(* mutex.release(), time.sleep(1).                                         *)
ReleaseAndSleep ==
  /\ pc = "check" /\ available = {}
  /\ Release
  /\ pc' = "sleep"
  /\ UNCHANGED <<at, available, hand, worker_vars, gathering>>

(* Wrong: the core stays in the list.                                      *)
Peek(c) == UNCHANGED available

Pop(c) == available' = available \ {c}

TakeCore ==
  /\ pc = "check"
  /\ \E c \in available : Pop(c) /\ hand' = c
  /\ mutex' = FALSE
  /\ pc' = "submit"
  /\ UNCHANGED <<at, worker_vars, gathering>>

Submit ==
  /\ pc = "submit" /\ at \in Runs
  /\ st' = [st EXCEPT ![at] = "queued"]
  /\ core' = [core EXCEPT ![at] = hand]
  /\ hand' = NoCore
  /\ async_results' = [async_results EXCEPT ![Program[at].v] = Append(@, at)]
  /\ at' = at + 1
  /\ pc' = "next"
  /\ UNCHANGED <<mutex, available, results>>

(* pool.close(), pool.join().                                              *)
Join ==
  /\ pc = "next" /\ at \notin Runs
  /\ \A n \in Runs : st[n] \notin {"queued", "running", "finished"}
  /\ pc' = "gather"
  /\ UNCHANGED <<at, mutex, available, hand, worker_vars, gathering>>

(* get() raises what the worker has raised.                                *)
Gathered(v) ==
  FlattenSeq([k \in 1..Len(Claims) |-> IF Claims[k] = v THEN async_results[v] ELSE <<>>])

Gather ==
  /\ pc = "gather"
  /\ IF \E v \in Variants : \E n \in ToSet(async_results[v]) : st[n] = "lost"
     THEN pc' = "raised" /\ UNCHANGED results
     ELSE pc' = "done" /\ results' = [v \in Variants |-> Gathered(v)]
  /\ UNCHANGED <<at, mutex, available, hand, worker_vars, async_results>>

-----------------------------------------------------------------------------
(* The workers.                                                            *)
main_vars == <<pc, at, mutex, hand, gathering>>

(* Commands are taken in the order of their submission.                    *)
Begin(n) ==
  /\ st[n] = "queued" /\ \A m \in 1..n - 1 : st[m] # "queued"
  /\ Cardinality({m \in Runs : st[m] \in {"running", "finished"}}) < Workers
  /\ ~mutex
  /\ st' = [st EXCEPT ![n] = "running"]
  /\ UNCHANGED <<main_vars, available, core>>

(* run_command_and_get_stdout_and_stderr returns.                          *)
Finish(n) ==
  /\ st[n] = "running"
  /\ st' = [st EXCEPT ![n] = "finished"]
  /\ UNCHANGED <<main_vars, available, core>>

(* It raises, as it does for output that is not UTF-8.                     *)
Raise(n) ==
  /\ st[n] = "running"
  /\ st' = [st EXCEPT ![n] = "lost"]
  /\ UNCHANGED <<main_vars, available, core>>

Return(n) ==
  /\ st[n] = "finished"
  /\ ~mutex
  /\ available' = available \cup {core[n]}
  /\ st' = [st EXCEPT ![n] = "returned"]
  /\ UNCHANGED <<main_vars, core>>

Main == ResetResults \/ Acquire \/ ReleaseAndSleep \/ TakeCore \/ Submit \/ Join \/ Gather

Runner(n) == Begin(n) \/ Finish(n) \/ Raise(n) \/ Return(n)

Next == Main \/ \E n \in Runs : Runner(n)

(* Programs that run end, and of those who wait for the mutex somebody     *)
(* gets it in the end: the main program sleeps a second without it.        *)
Fairness ==
  /\ WF_vars(Main)
  /\ WF_vars(\E n \in Runs : Finish(n) \/ Raise(n))
  /\ SF_vars(\E n \in Runs : Begin(n) \/ Return(n))

Spec == Init /\ [][Next]_vars /\ Fairness

-----------------------------------------------------------------------------
TypeOK ==
  /\ pc \in {"next", "check", "sleep", "submit", "gather", "done", "raised"}
  /\ at \in Nat
  /\ mutex \in BOOLEAN
  /\ available \subseteq Cores
  /\ hand \in Cores \cup {NoCore}
  /\ st \in [Runs -> {"none", "queued", "running", "finished", "lost", "returned"}]
  /\ core \in [Runs -> Cores \cup {NoCore}]

(* Two commands never share a core: those that have not given theirs back  *)
(* have different cores, none of them in the list or in the hand of the    *)
(* main program, and every core is in one of these places (bench, runner). *)
CoresAccounted ==
  /\ \A m, n \in Runs :
       st[m] \in Holding /\ st[n] \in Holding /\ m # n => core[m] # core[n]
  /\ \A n \in Runs : st[n] \in Holding =>
       core[n] \in Cores /\ core[n] \notin available /\ core[n] # hand
  /\ hand \notin available
  /\ Cores = available \cup ({hand} \ {NoCore})
               \cup {core[n] : n \in {n \in Runs : st[n] \in Holding}}

(* bench returns each run of a variant once, in the order of the runs -    *)
(* unless two tests claim the variant (results, get_variants).             *)
LaunchesOf(v)  == {n \in Runs : Program[n] = Launch(v)}
ClaimedOnce(v) == Cardinality({k \in DOMAIN Claims : Claims[k] = v}) = 1
Increasing(s)  == \A i, j \in DOMAIN s : i < j => s[i] < s[j]

EveryRunGathered ==
  pc = "done" => \A v \in Variants : ClaimedOnce(v) =>
    /\ ToSet(results[v]) = LaunchesOf(v) /\ Increasing(results[v])
    /\ Len(results[v]) = repeat

(* Once started, bench submits every command and comes to an end, however  *)
(* many more commands than cores there are, unless a command raises and    *)
(* loses its core (bench, runner).                                         *)
EveryTestStarts ==
  pc = "next" ~> (pc = "done" \/ \E n \in Runs : st[n] = "lost")
=============================================================================
