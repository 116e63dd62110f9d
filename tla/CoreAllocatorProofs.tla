------------------------- MODULE CoreAllocatorProofs -------------------------
(***************************************************************************)
(* Proofs about CoreAllocator, for every set of cores, size of the pool    *)
(* and list of tests.                                                      *)
(*                                                                         *)
(* That no two commands share a core is not inductive: Submit hands out    *)
(* the core in the hand and begins an entry of st.  HandOff says that the  *)
(* hand holds a core exactly when the main program is about to submit it,  *)
(* and that the entries from the next step on have not begun.              *)
(*                                                                         *)
(* That the results are complete needs Collected: what has been kept of    *)
(* each variant is what has been launched, in order.  Places says where in *)
(* the program the steps of a variant of one test are, from FlattenInPlace *)
(* about the sequences that the loops of bench go through.                 *)
(***************************************************************************)
EXTENDS CoreAllocator, BasicProofs

HandOff ==
  /\ pc = "submit" => hand \in Cores
  /\ pc # "submit" => hand = NoCore
  /\ \A n \in Runs : n >= at => st[n] = "none"

IInv == TypeOK /\ HandOff /\ CoresAccounted

(* Steps are numbered by integers, whatever the tests are.                 *)
LEMMA RunsAreIntegers == \A n \in Runs : n \in Int
BY DEF Runs

(* All cores are in the list when the program starts.                      *)
LEMMA InitHolds == Init => IInv
<1> SUFFICES ASSUME Init PROVE IInv
  OBVIOUS
<1>1. TypeOK
  BY DEF Init, TypeOK
<1>2. HandOff
  BY DEF Init, HandOff
<1>3. CoresAccounted
  <2>1. \A n \in Runs : st[n] \notin Holding
    BY DEF Init, Holding
  <2>2. {core[n] : n \in {n \in Runs : st[n] \in Holding}} = {}
    BY <2>1
  <2>3. available = Cores /\ {hand} \ {NoCore} = {} /\ hand \notin available
    BY CoresAssumption DEF Init
  <2> QED
    BY <2>1, <2>2, <2>3 DEF CoresAccounted
<1> QED
  BY <1>1, <1>2, <1>3 DEF IInv

(* The steps of the main program that neither take a core nor submit one   *)
(* leave every core where it is (bench).                                   *)
LEMMA QuietMainKeeps ==
  ASSUME IInv, ResetResults \/ Acquire \/ ReleaseAndSleep \/ Join \/ Gather
  PROVE  IInv'
<1> USE RunsAreIntegers DEF IInv
<1>1. /\ UNCHANGED <<available, hand, st, core>>
      /\ pc # "submit" /\ pc' # "submit"
      /\ mutex' \in BOOLEAN
      /\ at' \in Nat /\ at' >= at
      /\ pc' \in {"next", "check", "sleep", "submit", "gather", "done", "raised"}
  <2> USE DEF TypeOK, worker_vars, gathering
  <2>1. CASE ResetResults
    <3>1. /\ UNCHANGED <<available, hand, st, core>>
          /\ pc = "next" /\ pc' = pc /\ mutex' = mutex /\ at' = at + 1
      BY <2>1, Zenon DEF ResetResults
    <3> QED
      BY <3>1
  <2>2. CASE Acquire \/ ReleaseAndSleep
    <3>1. /\ UNCHANGED <<available, hand, st, core, at>>
          /\ pc \in {"next", "sleep", "check"} /\ pc' \in {"check", "sleep"}
      BY <2>2, Zenon DEF Acquire, ReleaseAndSleep, Release
    <3>2. mutex' = TRUE \/ mutex' = FALSE
      BY <2>2, Zenon DEF Acquire, ReleaseAndSleep, Release
    <3>3. mutex' \in BOOLEAN
      BY <3>2, Zenon
    <3> QED
      BY <3>1, <3>3
  <2>3. CASE Join
    BY <2>3 DEF Join
  <2>4. CASE Gather
    <3>1. pc' \in {"done", "raised"}
      BY <2>4, Zenon DEF Gather
    <3> QED
      BY <2>4, <3>1 DEF Gather
  <2> QED
    BY <2>1, <2>2, <2>3, <2>4
<1>2. TypeOK'
  BY <1>1 DEF TypeOK
<1>3. HandOff'
  BY <1>1, SMT DEF HandOff, TypeOK
<1>4. CoresAccounted'
  BY <1>1 DEF CoresAccounted
<1> QED
  BY <1>2, <1>3, <1>4

(* The popped core leaves the list for the hand (bench).                   *)
LEMMA TakeCoreKeeps ==
  ASSUME IInv, TakeCore
  PROVE  IInv'
<1> USE DEF IInv
<1>1. PICK c \in available : Pop(c) /\ hand' = c
  BY DEF TakeCore
<1>2. /\ available' = available \ {c}
      /\ hand' = c /\ c \in Cores /\ c # NoCore /\ hand = NoCore
      /\ pc' = "submit" /\ mutex' = FALSE
      /\ UNCHANGED <<at, st, core>>
  BY <1>1, CoresAssumption DEF Pop, TakeCore, worker_vars, HandOff, TypeOK
<1>3. TypeOK'
  BY <1>2 DEF TypeOK
<1>4. HandOff'
  BY <1>2 DEF HandOff
<1>5. CoresAccounted'
  <2>1. \A m, n \in Runs :
          st'[m] \in Holding /\ st'[n] \in Holding /\ m # n => core'[m] # core'[n]
    BY <1>2 DEF CoresAccounted
  <2>2. \A n \in Runs : st'[n] \in Holding =>
          core'[n] \in Cores /\ core'[n] \notin available' /\ core'[n] # hand'
    BY <1>1, <1>2 DEF CoresAccounted
  <2>3. hand' \notin available'
    BY <1>2
  <2>4. Cores = available' \cup ({hand'} \ {NoCore})
                  \cup {core'[n] : n \in {n \in Runs : st'[n] \in Holding}}
    <3>1. Cores = available \cup {core[n] : n \in {n \in Runs : st[n] \in Holding}}
      BY <1>2 DEF CoresAccounted
    <3>2. {hand'} \ {NoCore} = {c}
      BY <1>2
    <3> QED
      BY <1>1, <1>2, <3>1, <3>2
  <2> QED
    BY <2>1, <2>2, <2>3, <2>4 DEF CoresAccounted
<1> QED
  BY <1>3, <1>4, <1>5

(* The core goes from the hand to the command that is submitted (bench).   *)
LEMMA SubmitKeeps ==
  ASSUME IInv, Submit
  PROVE  IInv'
<1> USE RunsAreIntegers DEF IInv
<1>1. /\ at \in Runs /\ hand \in Cores /\ hand # NoCore /\ hand \notin available
      /\ st' = [st EXCEPT ![at] = "queued"] /\ core' = [core EXCEPT ![at] = hand]
      /\ hand' = NoCore /\ at' = at + 1 /\ pc' = "next"
      /\ UNCHANGED <<mutex, available>>
  BY CoresAssumption DEF Submit, HandOff, CoresAccounted, TypeOK
<1>2. /\ at \in Nat
      /\ st \in [Runs -> {"none", "queued", "running", "finished", "lost", "returned"}]
      /\ core \in [Runs -> Cores \cup {NoCore}]
      /\ available \subseteq Cores /\ NoCore \notin available
  BY CoresAssumption DEF TypeOK
<1>3. TypeOK'
  BY <1>1, <1>2 DEF TypeOK
<1>4. HandOff'
  <2>1. \A n \in Runs : n >= at' => st'[n] = "none"
    BY <1>1, <1>2, SMT DEF HandOff
  <2> QED
    BY <1>1, <2>1 DEF HandOff
<1>5. st[at] = "none"
  BY <1>1, <1>2 DEF HandOff
<1>6. /\ st'[at] = "queued" /\ core'[at] = hand
      /\ \A n \in Runs \ {at} : st'[n] = st[n] /\ core'[n] = core[n]
  BY <1>1, <1>2
<1>7. CoresAccounted'
  <2>1. \A m, n \in Runs :
          st'[m] \in Holding /\ st'[n] \in Holding /\ m # n => core'[m] # core'[n]
    BY <1>1, <1>6 DEF CoresAccounted
  <2>2. \A n \in Runs : st'[n] \in Holding =>
          core'[n] \in Cores /\ core'[n] \notin available' /\ core'[n] # hand'
    BY <1>1, <1>6, CoresAssumption DEF CoresAccounted
  <2>3. hand' \notin available'
    BY <1>1, <1>2
  <2>4. Cores = available' \cup ({hand'} \ {NoCore})
                  \cup {core'[n] : n \in {n \in Runs : st'[n] \in Holding}}
    <3>1. {n \in Runs : st'[n] \in Holding} = {n \in Runs : st[n] \in Holding} \cup {at}
      BY <1>1, <1>5, <1>6 DEF Holding
    <3>2. {core'[n] : n \in {n \in Runs : st'[n] \in Holding}}
            = {core[n] : n \in {n \in Runs : st[n] \in Holding}} \cup {hand}
      BY <1>1, <1>5, <1>6, <3>1 DEF Holding
    <3>3. Cores = available \cup {hand}
                    \cup {core[n] : n \in {n \in Runs : st[n] \in Holding}}
      BY <1>1 DEF CoresAccounted
    <3> QED
      BY <1>1, <3>2, <3>3
  <2> QED
    BY <2>1, <2>2, <2>3, <2>4 DEF CoresAccounted
<1> QED
  BY <1>3, <1>4, <1>7

(* A command that begins, ends or raises keeps the core it has (runner).   *)
LEMMA RunKeeps ==
  ASSUME IInv, NEW n \in Runs, Begin(n) \/ Finish(n) \/ Raise(n)
  PROVE  IInv'
<1> USE RunsAreIntegers DEF IInv
<1>1. PICK s \in {"running", "finished", "lost"} : st' = [st EXCEPT ![n] = s]
  BY DEF Begin, Finish, Raise
<1>2. /\ st[n] \in Holding /\ st[n] # "none"
      /\ UNCHANGED <<pc, at, mutex, available, hand, core>>
  BY DEF Begin, Finish, Raise, Holding, main_vars
<1>3. /\ at \in Nat
      /\ st \in [Runs -> {"none", "queued", "running", "finished", "lost", "returned"}]
  BY DEF TypeOK
<1>4. TypeOK'
  BY <1>1, <1>2 DEF TypeOK
<1>5. \A m \in Runs : /\ st'[m] \in Holding <=> st[m] \in Holding
                      /\ st[m] = "none" => st'[m] = "none"
  BY <1>1, <1>2, <1>3 DEF Holding
<1>6. HandOff'
  BY <1>2, <1>5 DEF HandOff
<1>7. CoresAccounted'
  <2>1. {m \in Runs : st'[m] \in Holding} = {m \in Runs : st[m] \in Holding}
    BY <1>5
  <2> QED
    BY <1>2, <1>5, <2>1 DEF CoresAccounted
<1> QED
  BY <1>4, <1>6, <1>7

(* The core goes from the command back to the list (runner).               *)
LEMMA ReturnKeeps ==
  ASSUME IInv, NEW n \in Runs, Return(n)
  PROVE  IInv'
<1> USE RunsAreIntegers DEF IInv
<1>1. /\ st[n] = "finished" /\ st' = [st EXCEPT ![n] = "returned"]
      /\ available' = available \cup {core[n]}
      /\ UNCHANGED <<pc, at, mutex, hand, core>>
  BY DEF Return, main_vars
<1>2. /\ st \in [Runs -> {"none", "queued", "running", "finished", "lost", "returned"}]
      /\ available \subseteq Cores
  BY DEF TypeOK
<1>3. /\ st[n] \in Holding /\ st'[n] \notin Holding
      /\ \A m \in Runs \ {n} : st'[m] = st[m]
      /\ core[n] \in Cores /\ core[n] # hand
  BY <1>1, <1>2 DEF Holding, CoresAccounted
<1>4. TypeOK'
  BY <1>1, <1>2, <1>3 DEF TypeOK
<1>5. HandOff'
  BY <1>1, <1>2, <1>3 DEF HandOff
<1>6. CoresAccounted'
  <2>1. \A l, m \in Runs :
          st'[l] \in Holding /\ st'[m] \in Holding /\ l # m => core'[l] # core'[m]
    BY <1>1, <1>3 DEF CoresAccounted
  <2>2. \A m \in Runs : st'[m] \in Holding =>
          core'[m] \in Cores /\ core'[m] \notin available' /\ core'[m] # hand'
    BY <1>1, <1>3 DEF CoresAccounted
  <2>3. hand' \notin available'
    BY <1>1, <1>3 DEF CoresAccounted
  <2>4. Cores = available' \cup ({hand'} \ {NoCore})
                  \cup {core'[m] : m \in {m \in Runs : st'[m] \in Holding}}
    <3>1. {m \in Runs : st[m] \in Holding} = {m \in Runs : st'[m] \in Holding} \cup {n}
      BY <1>3
    <3>2. {core[m] : m \in {m \in Runs : st[m] \in Holding}}
            = {core[m] : m \in {m \in Runs : st'[m] \in Holding}} \cup {core[n]}
      BY <3>1
    <3> QED
      BY <1>1, <3>2 DEF CoresAccounted
  <2> QED
    BY <2>1, <2>2, <2>3, <2>4 DEF CoresAccounted
<1> QED
  BY <1>4, <1>5, <1>6

(* IInv is inductive.                                                      *)
LEMMA StepKeeps == IInv /\ [Next]_vars => IInv'
<1> SUFFICES ASSUME IInv, [Next]_vars
             PROVE  IInv'
  OBVIOUS
<1>1. CASE ResetResults \/ Acquire \/ ReleaseAndSleep \/ Join \/ Gather
  BY <1>1, QuietMainKeeps
<1>2. CASE TakeCore
  BY <1>2, TakeCoreKeeps
<1>3. CASE Submit
  BY <1>3, SubmitKeeps
<1>4. CASE \E n \in Runs : Begin(n) \/ Finish(n) \/ Raise(n)
  BY <1>4, RunKeeps
<1>5. CASE \E n \in Runs : Return(n)
  BY <1>5, ReturnKeeps
<1>6. CASE UNCHANGED vars
  BY <1>6 DEF vars, IInv, TypeOK, HandOff, CoresAccounted
<1> QED
  BY <1>1, <1>2, <1>3, <1>4, <1>5, <1>6 DEF Next, Main, Runner

(* Every variable keeps its type.                                          *)
THEOREM TypeCorrect == Spec => []TypeOK
<1>1. IInv => TypeOK
  BY DEF IInv
<1> QED
  BY InitHolds, StepKeeps, <1>1, PTL DEF Spec

(* Two commands never run on the same core, and a core is never forgotten  *)
(* while the command that has it has not raised (bench, runner).           *)
THEOREM CoresNeverShared == Spec => []CoresAccounted
<1>1. IInv => CoresAccounted
  BY DEF IInv
<1> QED
  BY InitHolds, StepKeeps, <1>1, PTL DEF Spec

-----------------------------------------------------------------------------
(***************************************************************************)
(* The steps of a variant.                                                 *)
(***************************************************************************)
LEMMA TestsProperties ==
  /\ Len(Tests) \in Nat
  /\ \A t \in 1..Len(Tests) : /\ Tests[t] \in Seq(STRING) /\ Len(Tests[t]) \in Nat
                              /\ \A i \in 1..Len(Tests[t]) : Tests[t][i] \in STRING
<1>1. Len(Tests) \in Nat /\ \A t \in 1..Len(Tests) : Tests[t] \in Seq(STRING)
  BY TestsAssumption, LenProperties
<1> QED
  BY <1>1, LenProperties

LEMMA ClaimsProperties ==
  Claims \in Seq(STRING) /\ Len(Claims) \in Nat /\ DOMAIN Claims = 1..Len(Claims)
<1>1. Claims \in Seq(STRING)
  BY TestsAssumption, FlattenInPlace DEF Claims
<1> QED
  BY <1>1, LenProperties

(* The variants are those of the tests, and one that is claimed once is in *)
(* one place of one test.                                                  *)
LEMMA VariantsOfTests ==
  \A t \in 1..Len(Tests) : \A i \in 1..Len(Tests[t]) : Tests[t][i] \in Variants
<1>1. PICK ends : InPlace(Tests, Claims, ends)
  BY TestsAssumption, FlattenInPlace DEF Claims
<1>2. ASSUME NEW t \in 1..Len(Tests), NEW i \in 1..Len(Tests[t])
      PROVE  Tests[t][i] \in Variants
  <2>1. ends[t - 1] + i \in 1..Len(Claims) /\ Claims[ends[t - 1] + i] = Tests[t][i]
    BY <1>1 DEF InPlace
  <2> QED BY <2>1, ClaimsProperties DEF Variants, ToSet
<1> QED
  BY <1>2

LEMMA OneClaim ==
  ASSUME NEW v, ClaimedOnce(v)
  PROVE  \E k \in 1..Len(Claims) : \A l \in 1..Len(Claims) : Claims[l] = v <=> l = k
<1> DEFINE K == {k \in DOMAIN Claims : Claims[k] = v}
<1>1. IsFiniteSet(1..Len(Claims))
  BY ClaimsProperties, FS_Interval
<1>2. IsFiniteSet(K)
  BY <1>1, ClaimsProperties, FS_Subset
<1>3. Cardinality(K) = 1
  BY DEF ClaimedOnce
<1>4. PICK k : K = {k}
  <2> HIDE DEF K
  <2> QED BY <1>2, <1>3, FS_Singleton
<1>5. k \in DOMAIN Claims /\ \A l \in DOMAIN Claims : Claims[l] = v <=> l = k
  BY <1>4
<1> QED
  BY <1>5, ClaimsProperties

LEMMA OnePlace ==
  ASSUME NEW v \in Variants, ClaimedOnce(v)
  PROVE  \E t \in 1..Len(Tests) : \E i \in 1..Len(Tests[t]) :
           /\ Tests[t][i] = v
           /\ \A u \in 1..Len(Tests) : \A l \in 1..Len(Tests[u]) :
                Tests[u][l] = v => u = t /\ l = i
<1>1. PICK ends : InPlace(Tests, Claims, ends)
  BY TestsAssumption, FlattenInPlace DEF Claims
<1>2. PICK k \in 1..Len(Claims) : \A l \in 1..Len(Claims) : Claims[l] = v <=> l = k
  BY OneClaim
<1>3. Claims[k] = v
  BY <1>2
<1>4. PICK t \in 1..Len(Tests) : \E i \in 1..Len(Tests[t]) : k = ends[t - 1] + i
  BY <1>1, <1>3 DEF InPlace
<1>5. PICK i \in 1..Len(Tests[t]) : k = ends[t - 1] + i
  BY <1>4
<1>6. Tests[t][i] = v
  BY <1>1, <1>3, <1>5 DEF InPlace
<1>7. ASSUME NEW u \in 1..Len(Tests), NEW l \in 1..Len(Tests[u]), Tests[u][l] = v
      PROVE  u = t /\ l = i
  <2>1. ends[u - 1] + l \in 1..Len(Claims) /\ Claims[ends[u - 1] + l] = v
    BY <1>1, <1>7 DEF InPlace
  <2>2. ends[u - 1] + l = k
    BY <1>2, <2>1
  <2> QED BY <1>1, <1>5, <2>2, TestsAssumption, InPlaceOrder
<1> QED
  BY <1>6, <1>7

(* What the loops of bench do for a test.                                  *)
Todo        == [do : {"reset", "launch"}, v : Variants]
Resets(t)   == [i \in 1..Len(Tests[t]) |-> Reset(Tests[t][i])]
Launches(t) == [i \in 1..Len(Tests[t]) |-> Launch(Tests[t][i])]
Repeated(t) == [r \in 1..repeat |-> Launches(t)]

LEMMA LoopsTyped ==
  ASSUME NEW t \in 1..Len(Tests)
  PROVE  /\ Resets(t) \in Seq(Todo) /\ Len(Resets(t)) = Len(Tests[t])
         /\ Launches(t) \in Seq(Todo) /\ Len(Launches(t)) = Len(Tests[t])
         /\ Repeated(t) \in Seq(Seq(Todo)) /\ Len(Repeated(t)) = repeat
         /\ repeat \in Nat /\ Len(Tests[t]) \in Nat
<1>1. repeat \in Nat /\ Len(Tests[t]) \in Nat
  BY TestsAssumption, TestsProperties
<1>2. \A i \in 1..Len(Tests[t]) : Reset(Tests[t][i]) \in Todo /\ Launch(Tests[t][i]) \in Todo
  BY VariantsOfTests DEF Reset, Launch, Todo
<1>3. Resets(t) \in Seq(Todo) /\ Len(Resets(t)) = Len(Tests[t])
  BY <1>1, <1>2 DEF Resets
<1>4. Launches(t) \in Seq(Todo) /\ Len(Launches(t)) = Len(Tests[t])
  BY <1>1, <1>2 DEF Launches
<1>5. Repeated(t) \in Seq(Seq(Todo)) /\ Len(Repeated(t)) = repeat
  BY <1>1, <1>4 DEF Repeated
<1> QED
  BY <1>1, <1>3, <1>4, <1>5

LEMMA OfTestIs ==
  ASSUME NEW t \in 1..Len(Tests)
  PROVE  /\ OfTest(t) = Resets(t) \o FlattenSeq(Repeated(t))
         /\ OfTest(t) \in Seq(Todo)
<1>1. Mapped(Reset, Tests[t]) = Resets(t)
  BY DEF Mapped, Resets
<1>2. Mapped(Launch, Tests[t]) = Launches(t)
  BY DEF Mapped, Launches
<1>3. OfTest(t) = Resets(t) \o FlattenSeq(Repeated(t))
  BY <1>1, <1>2, Zenon DEF OfTest, Repeated
<1>4. Resets(t) \in Seq(Todo) /\ FlattenSeq(Repeated(t)) \in Seq(Todo)
  BY LoopsTyped, FlattenInPlace
<1> QED
  BY <1>3, <1>4, ConcatProperties

(* A step of a test resets a variant, or launches one in some repetition.  *)
LaunchAt(t, ends, r, i) == Len(Tests[t]) + ends[r - 1] + i
ResetOrLaunch(t, ends, j) ==
  \/ j \in 1..Len(Tests[t]) /\ OfTest(t)[j] = Reset(Tests[t][j])
  \/ \E r \in 1..repeat : \E i \in 1..Len(Tests[t]) :
       j = LaunchAt(t, ends, r, i) /\ OfTest(t)[j] = Launch(Tests[t][i])

LEMMA OfTestShape ==
  ASSUME NEW t \in 1..Len(Tests), NEW ends,
         InPlace(Repeated(t), FlattenSeq(Repeated(t)), ends)
  PROVE  /\ \A j \in 1..Len(OfTest(t)) : ResetOrLaunch(t, ends, j)
         /\ \A r \in 1..repeat : \A i \in 1..Len(Tests[t]) :
              LET j == LaunchAt(t, ends, r, i)
              IN  j \in 1..Len(OfTest(t)) /\ OfTest(t)[j] = Launch(Tests[t][i])
         /\ \A r \in 1..repeat : ends[r - 1] \in Nat
         /\ \A r, q \in 1..repeat : \A i \in 1..Len(Tests[t]) :
              r < q => LaunchAt(t, ends, r, i) < LaunchAt(t, ends, q, i)
         /\ Len(Tests[t]) <= Len(OfTest(t))
<1> DEFINE m == Len(Tests[t])
           R == Resets(t)
           L == FlattenSeq(Repeated(t))
           O == OfTest(t)
<1>1. /\ m \in Nat /\ repeat \in Nat
      /\ R \in Seq(Todo) /\ Len(R) = m
      /\ Repeated(t) \in Seq(Seq(Todo)) /\ Len(Repeated(t)) = repeat
  BY LoopsTyped
<1>2. L \in Seq(Todo) /\ Len(L) \in Nat
  <2>1. L \in Seq(Todo)
    BY <1>1, FlattenInPlace
  <2> HIDE DEF L
  <2> QED BY <2>1, LenProperties
<1>3. O = R \o L
  BY OfTestIs
<1>4. \A i \in 1..m : R[i] = Reset(Tests[t][i])
  BY DEF Resets
<1>5. \A r \in 1..repeat : /\ Repeated(t)[r] = Launches(t) /\ Len(Repeated(t)[r]) = m
                           /\ \A i \in 1..m : Repeated(t)[r][i] = Launch(Tests[t][i])
  BY LoopsTyped DEF Repeated, Launches
<1>6. /\ \A r \in 1..repeat : \A i \in 1..m :
           ends[r - 1] + i \in 1..Len(L) /\ L[ends[r - 1] + i] = Launch(Tests[t][i])
      /\ \A k \in 1..Len(L) : \E r \in 1..repeat : \E i \in 1..m : k = ends[r - 1] + i
      /\ ends \in [0..repeat -> Nat]
  <2> DEFINE Q == Repeated(t)
  <2>1. /\ \A r \in 1..Len(Q) : \A i \in 1..Len(Q[r]) :
             ends[r - 1] + i \in 1..Len(L) /\ L[ends[r - 1] + i] = Q[r][i]
        /\ \A k \in 1..Len(L) : \E r \in 1..Len(Q) : \E i \in 1..Len(Q[r]) : k = ends[r - 1] + i
        /\ ends \in [0..Len(Q) -> Nat]
    BY DEF InPlace
  <2>2. /\ Len(Q) = repeat
        /\ \A r \in 1..repeat : Len(Q[r]) = m /\ \A i \in 1..m : Q[r][i] = Launch(Tests[t][i])
    BY <1>1, <1>5
  <2> HIDE DEF Q, L, m
  <2> QED BY <2>1, <2>2
<1>7. \A r \in 1..repeat : ends[r - 1] \in Nat
  BY <1>1, <1>6
<1> HIDE DEF m, R, L, O
<1>8. /\ Len(O) = m + Len(L)
      /\ \A j \in 1..m : O[j] = R[j]
      /\ \A k \in 1..Len(L) : O[m + k] = L[k]
  <2>1. /\ Len(R \o L) = m + Len(L)
        /\ \A j \in 1..m + Len(L) : (R \o L)[j] = IF j <= m THEN R[j] ELSE L[j - m]
    BY <1>1, <1>2, ConcatProperties
  <2>2. ASSUME NEW j \in 1..m PROVE O[j] = R[j]
    BY <1>1, <1>2, <1>3, <2>1
  <2>3. ASSUME NEW k \in 1..Len(L) PROVE O[m + k] = L[k]
    <3>1. m + k \in 1..m + Len(L) /\ ~(m + k <= m) /\ (m + k) - m = k
      BY <1>1, <1>2
    <3> QED BY <1>3, <2>1, <3>1
  <2> QED BY <1>3, <2>1, <2>2, <2>3
<1>9. ASSUME NEW j \in 1..Len(O)
      PROVE  \/ j \in 1..m /\ O[j] = Reset(Tests[t][j])
             \/ \E r \in 1..repeat : \E i \in 1..m :
                  j = LaunchAt(t, ends, r, i) /\ O[j] = Launch(Tests[t][i])
  <2>1. CASE j <= m
    BY <1>4, <1>8, <2>1
  <2>2. CASE ~(j <= m)
    <3>1. j - m \in 1..Len(L) /\ j = m + (j - m)
      BY <1>1, <1>2, <1>8, <2>2
    <3>2. PICK r \in 1..repeat : \E i \in 1..m : j - m = ends[r - 1] + i
      BY <1>6, <3>1
    <3>3. PICK i \in 1..m : j - m = ends[r - 1] + i
      BY <3>2
    <3>4. O[j] = Launch(Tests[t][i])
      <4>1. O[m + (j - m)] = L[j - m] /\ L[ends[r - 1] + i] = Launch(Tests[t][i])
        BY <1>6, <1>8, <3>1
      <4> QED BY <3>1, <3>3, <4>1
    <3>5. j = m + ends[r - 1] + i
      <4>1. m \in Nat /\ ends[r - 1] \in Nat /\ i \in Int /\ j \in Int
        BY <1>1, <1>7
      <4>2. ends[r - 1] + i = j - m
        BY <3>3
      <4> QED BY <4>1, <4>2
    <3> QED BY <3>4, <3>5 DEF LaunchAt, m
  <2> QED BY <1>1, <1>8, <2>1, <2>2
<1>10. ASSUME NEW r \in 1..repeat, NEW i \in 1..m
       PROVE  /\ LaunchAt(t, ends, r, i) \in 1..Len(O)
              /\ O[LaunchAt(t, ends, r, i)] = Launch(Tests[t][i])
  <2> DEFINE k == ends[r - 1] + i
  <2>1. k \in 1..Len(L) /\ L[k] = Launch(Tests[t][i])
    BY <1>6
  <2>2. LaunchAt(t, ends, r, i) = m + k
    BY <1>1, <1>7 DEF LaunchAt, m
  <2> HIDE DEF k
  <2>3. m + k \in 1..Len(O)
    BY <1>1, <1>2, <1>8, <2>1
  <2> QED BY <1>8, <2>1, <2>2, <2>3
<1>11. ASSUME NEW r \in 1..repeat, NEW q \in 1..repeat, NEW i \in 1..m, r < q
       PROVE  LaunchAt(t, ends, r, i) < LaunchAt(t, ends, q, i)
  <2>1. i \in 1..Len(Repeated(t)[r]) /\ i \in 1..Len(Repeated(t)[q])
    BY <1>5
  <2>2. ends[r - 1] + i < ends[q - 1] + i
    BY <1>1, <1>11, <2>1, InPlaceOrder DEF L
  <2>3. ends[r - 1] \in Nat /\ ends[q - 1] \in Nat
    BY <1>7
  <2> DEFINE a == ends[r - 1]
             b == ends[q - 1]
  <2>4. LaunchAt(t, ends, r, i) = m + a + i /\ LaunchAt(t, ends, q, i) = m + b + i
    BY DEF LaunchAt, m
  <2>5. a \in Nat /\ b \in Nat /\ i \in Int /\ m \in Nat /\ a + i < b + i
    BY <1>1, <2>2, <2>3
  <2> HIDE DEF a, b
  <2> QED BY <2>4, <2>5
<1>12. m <= Len(O)
  BY <1>1, <1>2, <1>8
<1>13. \A j \in 1..Len(OfTest(t)) : ResetOrLaunch(t, ends, j)
  BY <1>9 DEF ResetOrLaunch, m, O
<1> QED
  BY <1>7, <1>10, <1>11, <1>12, <1>13 DEF m, O

(* The whole program.                                                      *)
OfTests == [t \in 1..Len(Tests) |-> OfTest(t)]

LEMMA ProgramTyped ==
  /\ OfTests \in Seq(Seq(Todo)) /\ Len(OfTests) = Len(Tests)
  /\ Program = FlattenSeq(OfTests) /\ Program \in Seq(Todo)
  /\ Len(Program) \in Nat
  /\ \A n \in Runs : Program[n] \in Todo
<1>1. OfTests \in Seq(Seq(Todo)) /\ Len(OfTests) = Len(Tests)
  <2>1. \A t \in 1..Len(Tests) : OfTest(t) \in Seq(Todo)
    BY OfTestIs
  <2> QED BY <2>1, TestsProperties DEF OfTests
<1>2. Program = FlattenSeq(OfTests)
  BY DEF Program, OfTests
<1>3. Program \in Seq(Todo)
  BY <1>1, <1>2, FlattenInPlace
<1> QED
  BY <1>1, <1>2, <1>3, LenProperties DEF Runs

LEMMA ResetIsNotLaunch ==
  \A u, v : /\ Reset(u) # Launch(v)
            /\ Reset(u) = Reset(v) => u = v
            /\ Launch(u) = Launch(v) => u = v
BY DEF Reset, Launch

(* The steps of a variant that is in one place of one test: it is launched *)
(* once in each repetition, and reset before.                              *)
LEMMA Places ==
  ASSUME NEW v \in Variants, ClaimedOnce(v)
  PROVE  /\ \E p \in [1..repeat -> Runs] :
              /\ \A r, q \in 1..repeat : r < q => p[r] < p[q]
              /\ LaunchesOf(v) = {p[r] : r \in 1..repeat}
         /\ \A n, m \in Runs : Program[n] = Reset(v) /\ m \in LaunchesOf(v) => n < m
<1>1. PICK ends : InPlace(OfTests, Program, ends)
  BY ProgramTyped, FlattenInPlace
<1>2. PICK t \in 1..Len(Tests) : \E i \in 1..Len(Tests[t]) :
        /\ Tests[t][i] = v
        /\ \A u \in 1..Len(Tests) : \A l \in 1..Len(Tests[u]) :
             Tests[u][l] = v => u = t /\ l = i
  BY OnePlace
<1>3. PICK i \in 1..Len(Tests[t]) :
        /\ Tests[t][i] = v
        /\ \A u \in 1..Len(Tests) : \A l \in 1..Len(Tests[u]) :
             Tests[u][l] = v => u = t /\ l = i
  BY <1>2
<1>4. PICK inner : InPlace(Repeated(t), FlattenSeq(Repeated(t)), inner)
  BY LoopsTyped, FlattenInPlace
<1>5. /\ \A u \in 1..Len(Tests) : \A j \in 1..Len(OfTest(u)) :
           ends[u - 1] + j \in Runs /\ Program[ends[u - 1] + j] = OfTest(u)[j]
      /\ \A n \in Runs : \E u \in 1..Len(Tests) : \E j \in 1..Len(OfTest(u)) :
           n = ends[u - 1] + j
      /\ ends[t - 1] \in Nat
  <2>1. /\ \A u \in 1..Len(OfTests) : \A j \in 1..Len(OfTests[u]) :
             ends[u - 1] + j \in 1..Len(Program) /\ Program[ends[u - 1] + j] = OfTests[u][j]
        /\ \A n \in 1..Len(Program) : \E u \in 1..Len(OfTests) :
             \E j \in 1..Len(OfTests[u]) : n = ends[u - 1] + j
        /\ ends \in [0..Len(OfTests) -> Nat]
    BY <1>1 DEF InPlace
  <2>2. Len(OfTests) = Len(Tests) /\ \A u \in 1..Len(Tests) : OfTests[u] = OfTest(u)
    BY ProgramTyped DEF OfTests
  <2>3. t - 1 \in 0..Len(Tests)
    BY TestsProperties
  <2>4. ASSUME NEW u \in 1..Len(Tests), NEW j \in 1..Len(OfTest(u))
        PROVE  ends[u - 1] + j \in Runs /\ Program[ends[u - 1] + j] = OfTest(u)[j]
    <3>1. u \in 1..Len(OfTests) /\ OfTests[u] = OfTest(u)
      BY <2>2
    <3> QED BY <2>1, <3>1 DEF Runs
  <2>5. ASSUME NEW n \in Runs
        PROVE  \E u \in 1..Len(Tests) : \E j \in 1..Len(OfTest(u)) : n = ends[u - 1] + j
    <3>1. PICK u \in 1..Len(OfTests) : \E j \in 1..Len(OfTests[u]) : n = ends[u - 1] + j
      BY <2>1 DEF Runs
    <3>2. u \in 1..Len(Tests) /\ OfTests[u] = OfTest(u)
      BY <2>2
    <3> QED BY <3>1, <3>2
  <2>6. ends[t - 1] \in Nat
    BY <2>1, <2>2, <2>3
  <2> QED BY <2>4, <2>5, <2>6
<1>6. repeat \in Nat /\ Len(Tests[t]) \in Nat /\ i \in Int
  BY LoopsTyped
(* Where v is launched.                                                    *)
<1> DEFINE At(r) == LaunchAt(t, inner, r, i)
           p == [r \in 1..repeat |-> ends[t - 1] + At(r)]
<1>7. /\ \A r \in 1..repeat : /\ At(r) \in 1..Len(OfTest(t)) /\ OfTest(t)[At(r)] = Launch(v)
                              /\ inner[r - 1] \in Nat
      /\ \A r, q \in 1..repeat : r < q => At(r) < At(q)
  BY <1>3, <1>4, OfTestShape
<1>8. \A r \in 1..repeat : At(r) \in Nat /\ At(r) > i
  BY <1>6, <1>7 DEF LaunchAt
<1> HIDE DEF At
<1>9. p \in [1..repeat -> Runs]
  BY <1>5, <1>7
<1>10. \A r, q \in 1..repeat : r < q => p[r] < p[q]
  BY <1>5, <1>7, <1>8
<1>11. \A r \in 1..repeat : p[r] \in LaunchesOf(v)
  BY <1>5, <1>7 DEF LaunchesOf
(* A step of v belongs to t, and is its i-th reset or i-th launch.         *)
<1>12. ASSUME NEW n \in Runs, Program[n] \in {Reset(v), Launch(v)}
       PROVE  \E j \in 1..Len(OfTest(t)) : n = ends[t - 1] + j /\ OfTest(t)[j] = Program[n]
  <2>1. PICK u \in 1..Len(Tests) : \E j \in 1..Len(OfTest(u)) : n = ends[u - 1] + j
    BY <1>5
  <2>2. PICK j \in 1..Len(OfTest(u)) : n = ends[u - 1] + j
    BY <2>1
  <2>3. OfTest(u)[j] = Program[n]
    BY <1>5, <2>2
  <2>4. \E l \in 1..Len(Tests[u]) : Tests[u][l] = v
    <3>1. PICK e : InPlace(Repeated(u), FlattenSeq(Repeated(u)), e)
      BY LoopsTyped, FlattenInPlace
    <3>2. \/ j \in 1..Len(Tests[u]) /\ OfTest(u)[j] = Reset(Tests[u][j])
          \/ \E r \in 1..repeat : \E l \in 1..Len(Tests[u]) : OfTest(u)[j] = Launch(Tests[u][l])
      BY <3>1, OfTestShape DEF ResetOrLaunch
    <3> QED BY <1>12, <2>3, <3>2, ResetIsNotLaunch
  <2>5. u = t
    BY <1>3, <2>4
  <2> QED BY <2>2, <2>3, <2>5
<1>13. ASSUME NEW j \in 1..Len(OfTest(t))
       PROVE  /\ OfTest(t)[j] = Reset(v) => j = i
              /\ OfTest(t)[j] = Launch(v) => \E r \in 1..repeat : j = At(r)
  <2>1. \/ j \in 1..Len(Tests[t]) /\ OfTest(t)[j] = Reset(Tests[t][j])
        \/ \E r \in 1..repeat : \E l \in 1..Len(Tests[t]) :
             j = LaunchAt(t, inner, r, l) /\ OfTest(t)[j] = Launch(Tests[t][l])
    <3>1. ResetOrLaunch(t, inner, j)
      BY <1>4, OfTestShape
    <3> QED BY <3>1 DEF ResetOrLaunch
  <2>2. CASE OfTest(t)[j] = Reset(v)
    BY <1>3, <2>1, <2>2, ResetIsNotLaunch
  <2>3. CASE OfTest(t)[j] = Launch(v)
    <3>1. PICK r \in 1..repeat : \E l \in 1..Len(Tests[t]) :
            j = LaunchAt(t, inner, r, l) /\ Launch(v) = Launch(Tests[t][l])
      BY <2>1, <2>3, ResetIsNotLaunch
    <3>2. j = LaunchAt(t, inner, r, i)
      BY <1>3, <3>1, ResetIsNotLaunch
    <3> QED BY <2>3, <3>2, ResetIsNotLaunch DEF At
  <2> QED BY <2>2, <2>3
<1>14. LaunchesOf(v) \subseteq {p[r] : r \in 1..repeat}
  <2> SUFFICES ASSUME NEW n \in LaunchesOf(v) PROVE \E r \in 1..repeat : n = p[r]
    OBVIOUS
  <2>1. n \in Runs /\ Program[n] = Launch(v)
    BY DEF LaunchesOf
  <2>2. PICK j \in 1..Len(OfTest(t)) : n = ends[t - 1] + j /\ OfTest(t)[j] = Launch(v)
    BY <1>12, <2>1
  <2> QED BY <1>13, <2>2
<1>15. ASSUME NEW n \in Runs, NEW m \in Runs, Program[n] = Reset(v), m \in LaunchesOf(v)
       PROVE  n < m
  <2>1. n = ends[t - 1] + i
    BY <1>12, <1>13, <1>15
  <2>2. PICK r \in 1..repeat : m = p[r]
    BY <1>14, <1>15
  <2>3. m = ends[t - 1] + At(r)
    BY <2>2
  <2>4. At(r) \in Nat /\ At(r) > i /\ ends[t - 1] \in Nat
    BY <1>5, <1>8
  <2> HIDE DEF p
  <2> QED BY <1>6, <2>1, <2>3, <2>4
<1>16. LaunchesOf(v) = {p[r] : r \in 1..repeat}
  <2> HIDE DEF p
  <2> QED BY <1>11, <1>14
<1> HIDE DEF p
<1> QED
  BY <1>9, <1>10, <1>15, <1>16

(* There are as many values of an increasing function as arguments.        *)
LEMMA IncreasingCardinality ==
  ASSUME NEW n \in Nat, NEW p \in [1..n -> Int],
         \A r, q \in 1..n : r < q => p[r] < p[q]
  PROVE  Cardinality({p[r] : r \in 1..n}) = n
<1> DEFINE X == {p[r] : r \in 1..n}
<1>1. p \in [1..n -> X]
  OBVIOUS
<1>2. \A r, q \in 1..n : p[r] = p[q] => r = q
  <2> SUFFICES ASSUME NEW r \in 1..n, NEW q \in 1..n, p[r] = p[q], r # q PROVE FALSE
    OBVIOUS
  <2>1. r < q \/ q < r
    OBVIOUS
  <2>2. p[r] \in Int /\ p[q] \in Int
    OBVIOUS
  <2> QED BY <2>1, <2>2
<1>3. \A x \in X : \E r \in 1..n : p[r] = x
  OBVIOUS
<1> HIDE DEF X
<1>4. p \in Bijection(1..n, X)
  BY <1>1, <1>2, <1>3 DEF Bijection, Injection, Surjection, IsInjective
<1>5. Cardinality(X) = n
  BY <1>4, FS_CountingElements DEF ExistsBijection
<1> QED
  BY <1>5 DEF X

(* bench launches a variant of one test once in each repetition.           *)
LEMMA AllRepetitions ==
  ASSUME NEW v \in Variants, ClaimedOnce(v),
         NEW s \in Seq(Int), Increasing(s), ToSet(s) = LaunchesOf(v)
  PROVE  Len(s) = repeat
<1>1. PICK p \in [1..repeat -> Runs] :
        /\ \A r, q \in 1..repeat : r < q => p[r] < p[q]
        /\ LaunchesOf(v) = {p[r] : r \in 1..repeat}
  BY Places
<1>2. p \in [1..repeat -> Int] /\ repeat \in Nat
  BY <1>1, RunsAreIntegers, TestsAssumption
<1>3. Cardinality(LaunchesOf(v)) = repeat
  BY <1>1, <1>2, IncreasingCardinality
<1>4. /\ s \in [1..Len(s) -> Int] /\ Len(s) \in Nat
      /\ \A r, q \in 1..Len(s) : r < q => s[r] < s[q]
      /\ ToSet(s) = {s[r] : r \in 1..Len(s)}
  <2>1. s \in [1..Len(s) -> Int] /\ Len(s) \in Nat /\ DOMAIN s = 1..Len(s)
    BY LenProperties
  <2> QED BY <2>1 DEF Increasing, ToSet
<1>5. Cardinality(ToSet(s)) = Len(s)
  BY <1>4, IncreasingCardinality
<1> QED
  BY <1>3, <1>5

(* The results of a variant of one test are what has been kept of it.      *)
LEMMA GatheredIs ==
  ASSUME NEW v \in Variants, ClaimedOnce(v), async_results[v] \in Seq(Runs)
  PROVE  Gathered(v) = async_results[v]
<1> DEFINE seqs == [k \in 1..Len(Claims) |-> IF Claims[k] = v THEN async_results[v] ELSE <<>>]
<1>1. Len(Claims) \in Nat
  BY ClaimsProperties
<1>2. PICK k \in 1..Len(Claims) : \A l \in 1..Len(Claims) : Claims[l] = v <=> l = k
  BY OneClaim
<1>3. seqs \in Seq(Seq(Runs)) /\ Len(seqs) = Len(Claims)
  BY <1>1
<1>4. /\ k \in 1..Len(Claims) /\ seqs[k] = async_results[v]
      /\ \A l \in 1..Len(Claims) : l # k => seqs[l] = <<>>
  BY <1>2
<1>5. FlattenSeq(seqs) = seqs[k]
  <2> HIDE DEF seqs
  <2> QED BY <1>3, <1>4, FlattenOne
<1> QED
  BY <1>4, <1>5 DEF Gathered

-----------------------------------------------------------------------------
(***************************************************************************)
(* What is gathered.                                                       *)
(***************************************************************************)
Collected ==
  /\ at \in Nat \ {0}
  /\ async_results \in [Variants -> Seq(Runs)]
  /\ \A v \in Variants : ClaimedOnce(v) =>
       /\ Increasing(async_results[v])
       /\ ToSet(async_results[v]) = {n \in LaunchesOf(v) : n < at}
  /\ pc \in {"check", "sleep", "submit"} => at \in Runs /\ Program[at].do = "launch"
  /\ pc \in {"gather", "done", "raised"} => at \notin Runs
  /\ pc = "done" => results = [v \in Variants |-> Gathered(v)]

LEMMA CollectedInitially == Init => Collected
<1> SUFFICES ASSUME Init PROVE Collected
  OBVIOUS
<1>1. at = 1 /\ pc = "next" /\ async_results = [v \in Variants |-> <<>>]
  BY DEF Init
<1>2. async_results \in [Variants -> Seq(Runs)]
  BY <1>1
<1>3. ASSUME NEW v \in Variants, ClaimedOnce(v)
      PROVE  /\ Increasing(async_results[v])
             /\ ToSet(async_results[v]) = {n \in LaunchesOf(v) : n < at}
  <2>1. {n \in LaunchesOf(v) : n < at} = {}
    BY <1>1 DEF LaunchesOf, Runs
  <2> QED BY <1>1, <2>1 DEF Increasing, ToSet
<1> QED
  BY <1>1, <1>2, <1>3 DEF Collected

(* A variant is reset before it is launched for the first time.            *)
LEMMA CollectedAfterReset ==
  ASSUME Collected, ResetResults
  PROVE  Collected'
<1> DEFINE u == Program[at].v
<1>1. /\ at \in Nat \ {0} /\ at' = at + 1 /\ pc' = "next" /\ at \in Runs
      /\ Program[at].do = "reset"
      /\ async_results \in [Variants -> Seq(Runs)]
      /\ async_results' = [async_results EXCEPT ![u] = <<>>]
  BY DEF Collected, ResetResults
<1>2. u \in Variants /\ Program[at] = Reset(u)
  BY <1>1, ProgramTyped DEF Todo, Reset
<1> HIDE DEF u
<1>3. async_results' \in [Variants -> Seq(Runs)]
  <2>1. <<>> \in Seq(Runs)
    OBVIOUS
  <2> QED BY <1>1, <2>1
<1>4. ASSUME NEW v \in Variants, ClaimedOnce(v)
      PROVE  /\ Increasing(async_results'[v])
             /\ ToSet(async_results'[v]) = {n \in LaunchesOf(v) : n < at'}
  <2>1. CASE v = u
    <3>1. {n \in LaunchesOf(v) : n < at'} = {}
      <4> SUFFICES ASSUME NEW n \in LaunchesOf(v), n < at + 1 PROVE FALSE
        BY <1>1
      <4>1. n \in Runs /\ n \in Int
        BY RunsAreIntegers DEF LaunchesOf
      <4>2. at < n
        BY <1>1, <1>2, <1>4, <2>1, <4>1, Places
      <4> QED BY <1>1, <4>1, <4>2
    <3>2. async_results'[v] = <<>>
      BY <1>1, <2>1
    <3> QED BY <3>1, <3>2 DEF Increasing, ToSet
  <2>2. CASE v # u
    <3>1. async_results'[v] = async_results[v]
      BY <1>1, <2>2
    <3>2. at \notin LaunchesOf(v)
      BY <1>2, ResetIsNotLaunch DEF LaunchesOf
    <3>3. \A n \in LaunchesOf(v) : n < at + 1 <=> n < at
      <4>1. \A n \in LaunchesOf(v) : n \in Int /\ n # at
        BY <3>2, RunsAreIntegers DEF LaunchesOf
      <4> QED BY <1>1, <4>1
    <3> QED BY <1>1, <1>4, <3>1, <3>3 DEF Collected
  <2> QED BY <2>1, <2>2
<1>5. \A v \in Variants : ClaimedOnce(v) =>
        /\ Increasing(async_results'[v])
        /\ ToSet(async_results'[v]) = {n \in LaunchesOf(v) : n < at'}
  BY <1>4
<1>6. at' \in Nat \ {0} /\ pc' = "next"
  BY <1>1
<1> QED
  BY <1>3, <1>5, <1>6 DEF Collected

(* What is submitted is kept behind what has been submitted before.        *)
LEMMA CollectedAfterSubmit ==
  ASSUME Collected, Submit
  PROVE  Collected'
<1> DEFINE u == Program[at].v
<1>1. /\ at \in Nat \ {0} /\ at' = at + 1 /\ pc' = "next" /\ at \in Runs
      /\ Program[at].do = "launch"
      /\ async_results \in [Variants -> Seq(Runs)]
      /\ async_results' = [async_results EXCEPT ![u] = Append(@, at)]
  BY DEF Collected, Submit
<1>2. u \in Variants /\ Program[at] = Launch(u)
  BY <1>1, ProgramTyped DEF Todo, Launch
<1> HIDE DEF u
<1>3. async_results' \in [Variants -> Seq(Runs)]
  BY <1>1, <1>2
<1>4. ASSUME NEW v \in Variants, ClaimedOnce(v)
      PROVE  /\ Increasing(async_results'[v])
             /\ ToSet(async_results'[v]) = {n \in LaunchesOf(v) : n < at'}
  <2> DEFINE s == async_results[v]
  <2>1. s \in Seq(Runs) /\ Increasing(s) /\ ToSet(s) = {n \in LaunchesOf(v) : n < at}
    BY <1>1, <1>4 DEF Collected
  <2>2. /\ \A n \in LaunchesOf(v) : n \in Int
        /\ \A n \in LaunchesOf(v) : n < at' <=> n < at \/ n = at
    <3>1. \A n \in LaunchesOf(v) : n \in Int
      BY RunsAreIntegers DEF LaunchesOf
    <3> QED BY <1>1, <3>1
  <2>3. CASE v = u
    <3>1. async_results'[v] = Append(s, at)
      BY <1>1, <2>3
    <3>2. at \in LaunchesOf(v)
      BY <1>1, <1>2, <2>3 DEF LaunchesOf
    <3> HIDE DEF s
    <3>3. /\ Len(s) \in Nat /\ DOMAIN s = 1..Len(s)
          /\ DOMAIN Append(s, at) = 1..Len(s) + 1
          /\ \A k \in 1..Len(s) : Append(s, at)[k] = s[k]
          /\ Append(s, at)[Len(s) + 1] = at
      BY <1>1, <2>1
    <3>4. \A k \in 1..Len(s) : s[k] \in LaunchesOf(v) /\ s[k] < at
      BY <2>1, <3>3 DEF ToSet
    <3>5. Increasing(Append(s, at))
      <4> SUFFICES ASSUME NEW i \in 1..Len(s) + 1, NEW j \in 1..Len(s) + 1, i < j
                   PROVE  Append(s, at)[i] < Append(s, at)[j]
        BY <3>3 DEF Increasing
      <4>1. i \in 1..Len(s)
        BY <3>3
      <4>2. j \in 1..Len(s) \/ j = Len(s) + 1
        BY <3>3
      <4> QED BY <2>1, <3>3, <3>4, <4>1, <4>2 DEF Increasing
    <3>6. ToSet(Append(s, at)) = ToSet(s) \cup {at}
      <4>1. \A k \in 1..Len(s) + 1 : k \in 1..Len(s) \/ k = Len(s) + 1
        BY <3>3
      <4>2. Len(s) + 1 \in 1..Len(s) + 1 /\ 1..Len(s) \subseteq 1..Len(s) + 1
        BY <3>3
      <4> QED BY <3>3, <4>1, <4>2 DEF ToSet
    <3> QED BY <2>1, <2>2, <3>1, <3>2, <3>5, <3>6
  <2>4. CASE v # u
    <3>1. async_results'[v] = s
      BY <1>1, <2>4
    <3>2. at \notin LaunchesOf(v)
      BY <1>2, <2>4, ResetIsNotLaunch DEF LaunchesOf
    <3> HIDE DEF s
    <3> QED BY <2>1, <2>2, <3>1, <3>2
  <2> QED BY <2>3, <2>4
<1>5. \A v \in Variants : ClaimedOnce(v) =>
        /\ Increasing(async_results'[v])
        /\ ToSet(async_results'[v]) = {n \in LaunchesOf(v) : n < at'}
  BY <1>4
<1>6. at' \in Nat \ {0} /\ pc' = "next"
  BY <1>1
<1> QED
  BY <1>3, <1>5, <1>6 DEF Collected

(* The other steps submit nothing, and gather when all are submitted.      *)
LEMMA CollectedOtherwise ==
  ASSUME Collected,
         \/ Acquire \/ ReleaseAndSleep \/ TakeCore \/ Join \/ Gather
         \/ \E n \in Runs : Runner(n)
         \/ UNCHANGED vars
  PROVE  Collected'
<1>1. /\ UNCHANGED <<at, async_results>>
      /\ pc' \in {"check", "sleep", "submit"} => at \in Runs /\ Program[at].do = "launch"
      /\ pc' \in {"gather", "done", "raised"} => at \notin Runs
      /\ pc' = "done" => results' = [v \in Variants |-> Gathered(v)]
  <2> USE DEF Collected
  <2>1. CASE Acquire
    BY <2>1 DEF Acquire, gathering
  <2>2. CASE ReleaseAndSleep \/ TakeCore
    BY <2>2 DEF ReleaseAndSleep, TakeCore, gathering
  <2>3. CASE Join
    BY <2>3 DEF Join, gathering
  <2>4. CASE Gather
    BY <2>4 DEF Gather
  <2>5. CASE \E n \in Runs : Runner(n)
    <3>1. UNCHANGED main_vars
      BY <2>5 DEF Runner, Begin, Finish, Raise, Return
    <3> QED BY <3>1 DEF main_vars, gathering
  <2>6. CASE UNCHANGED vars
    BY <2>6 DEF vars
  <2> QED BY <2>1, <2>2, <2>3, <2>4, <2>5, <2>6
<1> QED
  BY <1>1 DEF Collected, Gathered, LaunchesOf, ClaimedOnce

(* Collected is inductive, and holds the results when bench returns.       *)
LEMMA CollectedIsInvariant == Spec => []Collected
<1>1. Collected /\ [Next]_vars => Collected'
  BY CollectedAfterReset, CollectedAfterSubmit, CollectedOtherwise DEF Next, Main
<1> QED
  BY CollectedInitially, <1>1, PTL DEF Spec

(* bench returns each run of a variant of one test exactly once, in the    *)
(* order of the runs, as many as there are repetitions (results).          *)
THEOREM EveryRunIsGathered == Spec => []EveryRunGathered
<1>1. Collected => EveryRunGathered
  <2> SUFFICES ASSUME Collected, pc = "done", NEW v \in Variants, ClaimedOnce(v)
               PROVE  /\ ToSet(results[v]) = LaunchesOf(v) /\ Increasing(results[v])
                      /\ Len(results[v]) = repeat
    BY DEF EveryRunGathered
  <2>1. results[v] = Gathered(v) /\ async_results[v] \in Seq(Runs)
    BY DEF Collected
  <2>2. results[v] = async_results[v]
    BY <2>1, GatheredIs
  <2>3. \A n \in Runs : n < at
    BY ProgramTyped DEF Collected, Runs
  <2>4. ToSet(results[v]) = LaunchesOf(v) /\ Increasing(results[v])
    BY <2>2, <2>3 DEF Collected, LaunchesOf
  <2>5. results[v] \in Seq(Int)
    <3>1. Runs \subseteq Int
      BY RunsAreIntegers
    <3> QED BY <2>1, <2>2, <3>1, SeqMonotonic
  <2> QED BY <2>4, <2>5, AllRepetitions
<1> QED
  BY CollectedIsInvariant, <1>1, PTL
=============================================================================
