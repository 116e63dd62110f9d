---------------------------- MODULE RestoreProofs ----------------------------
(***************************************************************************)
(* Proofs about Restore, for any finite set of environments.               *)
(***************************************************************************)
EXTENDS Restore, FiniteSetTheorems, TLAPS

Size == Cardinality(Env)

(* The list names every environment once, the main thread's first.         *)
Listed ==
  /\ order \in [1..Size -> Env]
  /\ \A i, j \in 1..Size : i # j => order[i] # order[j]
  /\ \A e \in Env : \E i \in 1..Size : order[i] = e
  /\ order[1] = Main

(* spawn_child's loop runs under its mutex.                                *)
Exclusive == \A t \in Env : pc[t] \in {"loop", "handoff"} => mtx = t

(* Where the iterator is, compared with the threads there are.             *)
Behind == \A i \in 2..Size :
  i < iter => pc[order[i]] \notin {"absent", "created", "restored"}
Ahead == \A i \in 2..Size : i > iter => pc[order[i]] = "absent"

(* A creator waits for exactly the child that child_env and the iterator   *)
(* name, and the permit is there when that child has restored.             *)
Handing == \A t \in Env : pc[t] = "handoff" =>
  /\ SomeoneLeft
  /\ child_env = NextChild
  /\ pc[NextChild] \in {"created", "restored", "lock"}
  /\ thread_init = IF pc[NextChild] = "lock" THEN 1 ELSE 0

(* When nobody waits for a child, there is none under way.                 *)
Idle == (\A t \in Env : pc[t] # "handoff") =>
  /\ thread_init = 0
  /\ SomeoneLeft => pc[NextChild] = "absent"

(* A thread that has restored has restored its own environment.            *)
OwnRestored == \A t \in Env :
  restored[t] = IF pc[t] \in {"absent", "created"} THEN NoEnv ELSE t

(* The main thread is there from the start; the others never run recover.  *)
Roles ==
  /\ pc[Main] \notin {"absent", "created", "restored", "asleep", "replay"}
  /\ \A t \in Children : pc[t] \notin {"recovered", "exiting", "running"}

(* Nobody leaves spawn_child before everyone is spawned.                   *)
Finished ==
  \/ \E t \in Env : pc[t] \in {"recovered", "exiting", "asleep", "replay"}
  \/ lib_pthread /\ process = "resumed"
  => ~SomeoneLeft

(* Whoever has been created has a creator that comes.                      *)
CreatorsThere == \A i \in 2..Size :
  pc[order[i]] # "absent" => CreatorComes(i)

(* Without LIB_PTHREAD the main thread is alone.                           *)
Alone == ~lib_pthread =>
  /\ pc[Main] \in {"lock", "running"}
  /\ \A t \in Children : pc[t] = "absent"

Inv ==
  /\ TypeOK
  /\ Listed
  /\ Exclusive
  /\ Behind /\ Ahead
  /\ Handing /\ Idle
  /\ OwnRestored
  /\ CreatorsThere
  /\ Roles
  /\ Alone
  /\ Finished
  /\ NoTurnMissed

-----------------------------------------------------------------------------
LEMMA SizeFact == Size \in Nat \ {0} /\ IsFiniteSet(Children)
                  /\ Cardinality(Children) \in Nat
<1>1. IsFiniteSet(Env) /\ Env # {} /\ Children \subseteq Env
  BY EnvAssumption DEF Children
<1>2. Size \in Nat /\ Size # 0
  BY <1>1, FS_CardinalityType, FS_EmptySet DEF Size
<1>3. IsFiniteSet(Children)
  BY <1>1, FS_Subset
<1> QED
  BY <1>2, <1>3, FS_CardinalityType

(* A list without repetitions that is as long as the set names all of it.  *)
LEMMA ListedFirst == Init => Listed
<1> SUFFICES ASSUME Init PROVE Listed
  OBVIOUS
<1>1. /\ order \in [1..Size -> Env] /\ order[1] = Main
      /\ \A i, j \in 1..Size : i # j => order[i] # order[j]
  BY DEF Init, ByFunctionIndex, SetToSeqs, Size
<1>2. IsFiniteSet(1..Size) /\ Cardinality(1..Size) = Size
  BY SizeFact, FS_Interval
<1>3. order \in Injection(1..Size, Env)
  BY <1>1 DEF Injection, IsInjective
<1>4. order \in Surjection(1..Size, Env)
  BY <1>2, <1>3, FS_Injection, EnvAssumption DEF Size
<1> QED
  BY <1>1, <1>4 DEF Listed, Surjection

LEMMA ListLength ==
  ASSUME Listed PROVE Len(order) = Size /\ order \in Seq(Env)
BY SizeFact DEF Listed

THEOREM InitInv == Init => Inv
<1> SUFFICES ASSUME Init PROVE Inv
  OBVIOUS
<1>0. /\ Listed
      /\ Len(order) = Size /\ order \in Seq(Env)
      /\ Size \in Nat \ {0} /\ Cardinality(Children) \in Nat
  BY ListedFirst, ListLength, SizeFact
<1>1. TypeOK
  <2>1. wasi_threads \in BOOLEAN
    BY DEF Init
  <2>2. pc \in [Env -> Places]
    BY DEF Init, Places
  <2>3. restored \in [Env -> Env \cup {NoEnv}]
    BY <1>0, EnvAssumption DEF Init, Listed
  <2>4. iter \in 2..Cardinality(Env) + 1
    BY <1>0 DEF Init, Size
  <2>5. order \in Seq(Env) /\ Len(order) = Cardinality(Env)
    BY <1>0 DEF Size
  <2>6. child_tid_map \in [Children -> Env \cup {NoEnv, Ended}]
    BY DEF Init, Transferred
  <2>7. thread_init \in 0..1 /\ wakeup \in 0..Cardinality(Children)
    BY <1>0 DEF Init
  <2> HIDE DEF Children
  <2> QED
    BY <2>1, <2>2, <2>3, <2>4, <2>5, <2>6, <2>7 DEF Init, TypeOK
<1>2. \A i \in 2..Size : order[i] \in Env /\ order[i] # Main
  BY <1>0 DEF Listed
<1>3. \A i \in 2..Size : pc[order[i]] = "absent"
  BY <1>2 DEF Init
<1>4. Behind /\ Ahead
  BY <1>0, <1>3 DEF Init, Behind, Ahead
<1>5. Exclusive /\ Handing
  BY DEF Init, Exclusive, Handing
<1>6. Idle
  BY <1>0, <1>3 DEF Init, Idle, SomeoneLeft, NextChild
<1>7. OwnRestored /\ Roles /\ Alone /\ Finished /\ NoTurnMissed
  BY <1>0, EnvAssumption
  DEF Init, Listed, OwnRestored, Roles, Alone, Finished, Children, NoTurnMissed
<1>8. CreatorsThere
  BY <1>3 DEF CreatorsThere
<1> QED
  BY <1>0, <1>1, <1>4, <1>5, <1>6, <1>7, <1>8 DEF Inv

(* What an invariant says of the thread the iterator stands at.            *)
LEMMA Next1 ==
  ASSUME TypeOK, Listed, SomeoneLeft
  PROVE  /\ iter \in 2..Size
         /\ NextChild \in Children /\ NextChild \in Env
         /\ \A i \in 1..Size : order[i] = NextChild => i = iter
<1>1. iter \in 2..Size
  BY SizeFact, ListLength DEF TypeOK, SomeoneLeft, Size
<1> QED
  BY <1>1, SizeFact DEF Listed, NextChild, Children

(* A child that has been created and has not announced itself is the one   *)
(* its creator is waiting for.                                             *)
LEMMA UnderWay ==
  ASSUME Inv, NEW t \in Env, pc[t] \in {"created", "restored"}
  PROVE  /\ SomeoneLeft /\ t = NextChild /\ child_env = t /\ thread_init = 0
         /\ \E c \in Env : pc[c] = "handoff" /\ mtx = c
<1>1. PICK i \in 1..Size : order[i] = t
  BY DEF Inv, Listed
<1>2. i # 1
  BY <1>1 DEF Inv, Listed, Roles
<1>3. i \in 2..Size
  BY <1>1, <1>2, SizeFact
<1>4. i = iter
  BY <1>1, <1>3 DEF Inv, Behind, Ahead, TypeOK
<1>5. SomeoneLeft /\ t = NextChild
  BY <1>1, <1>3, <1>4, ListLength DEF Inv, SomeoneLeft, NextChild
<1>6. PICK c \in Env : pc[c] = "handoff"
  BY <1>5 DEF Inv, Idle
<1> QED
  BY <1>5, <1>6 DEF Inv, Handing, Exclusive

(* A step that creates nobody leaves the creators where they are.          *)
LEMMA NobodyNew ==
  ASSUME Inv, UNCHANGED <<child_tid_map, order>>,
         \A e \in Env : pc[e] = "absent" => pc'[e] = "absent"
  PROVE  CreatorsThere'
<1>1. \A i \in 2..Size : order[i] \in Env
  BY SizeFact DEF Inv, Listed
<1>2. \A i \in 2..Size : CreatorComes(i)' <=> CreatorComes(i)
  BY DEF CreatorComes
<1> QED
  BY <1>1, <1>2 DEF Inv, CreatorsThere

(* So nobody's turn comes or goes.                                         *)
LEMMA SameTurn ==
  ASSUME UNCHANGED <<child_tid_map, order, iter>>
  PROVE  \A u \in Env : MyTurn(u)' <=> MyTurn(u)
BY DEF MyTurn, SomeoneLeft, NextChild

-----------------------------------------------------------------------------
(* The places where a thread has nothing to do with a hand-over.           *)
Quiet == {"lock", "loop", "waiting", "recovered", "exiting", "running",
          "asleep", "replay"}

(* A thread that goes from one of them to another leaves the iterator, the *)
(* permit and the children where they are.                                 *)
LEMMA QuietMove ==
  ASSUME Inv, NEW t \in Env, NEW place \in Quiet,
         pc[t] \in Quiet, GoTo(t, place),
         UNCHANGED <<snapshot, iter, thread_init, restored>>,
         \/ \A c \in Env : pc[c] # "handoff"
         \/ SomeoneLeft /\ t # NextChild /\ child_env' = child_env
  PROVE  /\ Listed' /\ Behind' /\ Ahead' /\ Handing' /\ Idle'
         /\ OwnRestored' /\ CreatorsThere'
<1> USE DEF Quiet
<1>0. \A e \in Env : pc'[e] = IF e = t THEN place ELSE pc[e]
  BY DEF GoTo, Inv, TypeOK
<1>1. Listed' /\ (SomeoneLeft' <=> SomeoneLeft) /\ NextChild' = NextChild
  BY DEF Inv, Listed, SomeoneLeft, NextChild, snapshot
<1>2. \A i \in 2..Size : order[i] \in Env /\ order'[i] = order[i]
  BY SizeFact DEF Inv, Listed, snapshot
<1>3. Behind' /\ Ahead'
  BY <1>0, <1>2 DEF Inv, Behind, Ahead
<1>4. SomeoneLeft => NextChild \in Env
  BY Next1 DEF Inv
<1>5. Handing'
  BY <1>0, <1>1, <1>4 DEF Inv, Handing
<1>6. Idle'
  BY <1>0, <1>1, <1>4 DEF Inv, Idle
<1>7. OwnRestored'
  BY <1>0 DEF Inv, OwnRestored
<1>8. CreatorsThere'
  BY <1>0, NobodyNew DEF snapshot
<1> QED
  BY <1>1, <1>3, <1>5, <1>6, <1>7, <1>8

(* While a creator waits for its child nobody else has the mutex.          *)
LEMMA FreeMutex ==
  ASSUME Inv, mtx = NoEnv \/ \E u \in Env : pc[u] = "loop"
  PROVE  \A c \in Env : pc[c] # "handoff"
BY EnvAssumption DEF Inv, Exclusive

LEMMA TypeStep == Inv /\ [Next]_vars => TypeOK'
<1> SUFFICES ASSUME Inv, TypeOK, Listed, [Next]_vars PROVE TypeOK'
  BY DEF Inv
<1>p. \A t \in Env, place \in Places :
        [pc EXCEPT ![t] = place] \in [Env -> Places]
  BY DEF TypeOK
<1>c. Cardinality(Children) \in Nat /\ Main \in Env
  BY SizeFact, EnvAssumption
<1>n. SomeoneLeft => NextChild \in Env
  BY Next1
<1>1. CASE UNCHANGED vars
  BY <1>1 DEF TypeOK, vars, snapshot
<1>2. ASSUME NEW t \in Env, SpawnStep(t) PROVE TypeOK'
  <2>1. CASE Lock(t)
    BY <2>1, <1>p DEF Lock, GoTo, TypeOK, snapshot, Places
  <2>2. CASE WaitTurn(t)
    BY <2>2, <1>p, <1>n DEF WaitTurn, GoTo, TypeOK, snapshot, Places
  <2>3. CASE Spawn(t)
    <3>1. NextChild \in Env
      BY <2>3, <1>n DEF Spawn, MyTurn
    <3>2. pc' \in [Env -> Places]
      BY <2>3, <3>1 DEF Spawn, TypeOK, Places
    <3> QED
      BY <2>3, <3>1, <3>2 DEF Spawn, TypeOK, snapshot
  <2>4. CASE SpawnFails(t)
    BY <2>4 DEF SpawnFails, TypeOK, snapshot
  <2>5. CASE Advance(t)
    <3>1. pc' \in [Env -> Places]
      BY <2>5 DEF Advance, NotifyAll, TypeOK, Places
    <3>2. thread_init' \in 0..1
      BY <2>5 DEF Advance, WaitForChild, TypeOK
    <3>3. iter + 1 \in 2..Cardinality(Env) + 1
      BY <2>5, Next1, SizeFact DEF Advance, At, Inv, Handing, Size
    <3> QED
      BY <2>5, <3>1, <3>2, <3>3 DEF Advance, TypeOK, snapshot
  <2>6. CASE SpawnDone(t)
    BY <2>6, <1>p DEF SpawnDone, GoTo, TypeOK, snapshot, Places
  <2> QED
    BY <1>2, <2>1, <2>2, <2>3, <2>4, <2>5, <2>6 DEF SpawnStep
<1>3. ASSUME NEW t \in Env, ChildStep(t) PROVE TypeOK'
  <2>1. CASE RestoreEnv(t)
    BY <2>1, <1>p DEF RestoreEnv, GoTo, TypeOK, snapshot, Places
  <2>2. CASE Announce(t)
    <3>1. thread_init = 0
      BY <2>2, UnderWay DEF Announce, At
    <3> QED
      BY <2>2, <3>1, <1>p DEF Announce, GoTo, TypeOK, snapshot, Places
  <2>3. CASE WakeUp(t)
    BY <2>3, <1>p, <1>c DEF WakeUp, GoTo, TypeOK, snapshot, Places
  <2> QED
    BY <1>3, <2>1, <2>2, <2>3 DEF ChildStep
<1>4. ASSUME NEW t \in Env, WakeSpuriously(t) PROVE TypeOK'
  BY <1>4, <1>p DEF WakeSpuriously, GoTo, TypeOK, snapshot, Places
<1>5. CASE ReleaseWakeup
  <2>1. wakeup' \in 0..Cardinality(Children)
    BY <1>5, <1>c DEF ReleaseWakeup
  <2>2. pc' \in [Env -> Places]
    BY <1>5, <1>p, <1>c DEF ReleaseWakeup, GoTo, Places
  <2> QED
    BY <1>5, <2>1, <2>2 DEF ReleaseWakeup, TypeOK, snapshot
<1>6. CASE RecoverFails
  BY <1>6 DEF RecoverFails, TypeOK, snapshot
<1>7. CASE Interpret
  BY <1>7, <1>p, <1>c DEF Interpret, GoTo, TypeOK, snapshot, Places
<1>8. CASE InvokeMain
  BY <1>8, <1>p, <1>c DEF InvokeMain, GoTo, TypeOK, snapshot, Places
<1> QED
  BY <1>1, <1>2, <1>3, <1>4, <1>5, <1>6, <1>7, <1>8 DEF Next

-----------------------------------------------------------------------------
(* What Inv says besides the type.                                         *)
Shape == /\ Listed /\ Exclusive /\ Behind /\ Ahead /\ Handing /\ Idle
         /\ OwnRestored /\ CreatorsThere /\ Roles /\ Alone /\ Finished
         /\ NoTurnMissed

(* Taking the mutex, going to sleep, waking up.                            *)
LEMMA TurnStep ==
  ASSUME Inv, NEW t \in Env, Lock(t) \/ WaitTurn(t) \/ WakeSpuriously(t)
  PROVE  Shape'
<1> USE DEF At
<1>0. /\ UNCHANGED <<process, snapshot, iter, thread_init, restored>>
      /\ UNCHANGED <<lib_pthread, child_tid_map, order>>
      /\ pc[t] \in {"lock", "loop", "waiting"} /\ lib_pthread
  BY DEF Lock, WaitTurn, WakeSpuriously, snapshot
<1>1. PICK place \in {"loop", "waiting", "lock"} : GoTo(t, place)
  BY DEF Lock, WaitTurn, WakeSpuriously
<1>2. \A e \in Env : pc'[e] = IF e = t THEN place ELSE pc[e]
  BY <1>1 DEF GoTo, Inv, TypeOK
<1>3. \/ \A c \in Env : pc[c] # "handoff"
      \/ SomeoneLeft /\ t # NextChild /\ child_env' = child_env
  <2>1. CASE Lock(t) \/ WaitTurn(t)
    BY <2>1, FreeMutex DEF Lock, WaitTurn
  <2>2. CASE WakeSpuriously(t)
    BY <2>2 DEF WakeSpuriously, Inv, Handing
  <2> QED
    BY <2>1, <2>2
<1>4. /\ Listed' /\ Behind' /\ Ahead' /\ Handing' /\ Idle'
      /\ OwnRestored' /\ CreatorsThere'
  BY <1>0, <1>1, <1>3, QuietMove DEF Quiet
<1>5. Exclusive'
  <2>1. CASE Lock(t)
    BY <2>1, <1>2, EnvAssumption DEF Lock, GoTo, Inv, TypeOK, Exclusive
  <2>2. CASE WaitTurn(t)
    <3>1. \A u \in Env : u # t => pc[u] \notin {"loop", "handoff"}
      BY <2>2 DEF WaitTurn, Inv, Exclusive
    <3> QED
      BY <2>2, <3>1 DEF WaitTurn, GoTo, Inv, TypeOK, Exclusive
  <2>3. CASE WakeSpuriously(t)
    BY <2>3 DEF WakeSpuriously, GoTo, Inv, TypeOK, Exclusive
  <2> QED
    BY <2>1, <2>2, <2>3
<1>6. Roles' /\ Alone' /\ Finished'
  BY <1>0, <1>2, EnvAssumption
  DEF Inv, Roles, Alone, Finished, SomeoneLeft, Children
<1>7. NoTurnMissed'
  <2>1. CASE Lock(t) \/ WakeSpuriously(t)
    BY <2>1, <1>0, SameTurn
    DEF Lock, WakeSpuriously, GoTo, Inv, TypeOK, NoTurnMissed
  <2>2. CASE WaitTurn(t)
    BY <2>2, <1>0, SameTurn
    DEF WaitTurn, GoTo, Inv, TypeOK, NoTurnMissed
  <2> QED
    BY <2>1, <2>2
<1> QED
  BY <1>4, <1>5, <1>6, <1>7 DEF Shape

(* A creator starts the thread whose turn it is.                           *)
LEMMA SpawnKeeps ==
  ASSUME Inv, NEW t \in Env, Spawn(t)
  PROVE  Shape'
<1>0. /\ UNCHANGED <<process, lib_pthread, child_tid_map, order, iter, mtx,
                     thread_init, restored>>
      /\ child_env' = NextChild
      /\ pc[t] = "loop" /\ process # "failed" /\ lib_pthread
  BY DEF Spawn, At, snapshot
<1>1. /\ SomeoneLeft
      /\ child_tid_map[NextChild] \in {t, NoEnv}
      /\ iter \in 2..Size /\ NextChild \in Children /\ NextChild \in Env
      /\ NextChild = order[iter]
      /\ \A i \in 1..Size : order[i] = NextChild => i = iter
  BY Next1 DEF Spawn, MyTurn, Inv, NextChild
<1>2. \A c \in Env : pc[c] # "handoff"
  BY <1>0, FreeMutex
<1>3. pc[NextChild] = "absent" /\ thread_init = 0 /\ NextChild # t
  BY <1>0, <1>1, <1>2 DEF Inv, Idle
<1>4. \A e \in Env : pc'[e] = IF e = NextChild THEN "created"
                              ELSE IF e = t THEN "handoff" ELSE pc[e]
  BY <1>1, <1>3 DEF Spawn, Inv, TypeOK
<1>5. Listed' /\ SomeoneLeft' /\ NextChild' = NextChild
  BY <1>0, <1>1 DEF Inv, Listed, SomeoneLeft, NextChild
<1>6. \A i \in 2..Size : order[i] \in Env
  BY SizeFact DEF Inv, Listed
<1>7. Exclusive'
  <2>1. mtx = t
    BY <1>0 DEF Inv, Exclusive
  <2> QED
    BY <1>0, <1>4, <2>1 DEF Inv, Exclusive
<1>8. Behind' /\ Ahead'
  <2>1. \A i \in 2..Size : i # iter => order[i] # NextChild
    BY <1>1
  <2>2. \A i \in 2..Size : i > iter => order[i] # t
    BY <1>0 DEF Inv, Ahead
  <2>3. UNCHANGED <<order, iter>>
    BY <1>0
  <2>4. \A i \in 2..Size : i # iter /\ order[i] # t =>
                              pc'[order[i]] = pc[order[i]]
    BY <1>4, <1>6, <2>1
  <2>5. \A i \in 2..Size : i # iter /\ order[i] = t =>
                              pc'[order[i]] = "handoff"
    BY <1>4, <1>6, <2>1
  <2>6. \A i \in 2..Size : i < iter \/ i > iter => i # iter
    BY <1>1
  <2> QED
    BY <2>2, <2>3, <2>4, <2>5, <2>6 DEF Inv, Behind, Ahead
<1>9. Handing'
  BY <1>0, <1>1, <1>2, <1>3, <1>4, <1>5 DEF Handing
<1>10. Idle'
  BY <1>3, <1>4 DEF Idle
<1>11. OwnRestored'
  BY <1>0, <1>3, <1>4 DEF Inv, OwnRestored
<1>12. CreatorsThere'
  <2>1. CreatorComes(iter)
    <3>1. CASE child_tid_map[NextChild] = NoEnv \/ t = Main
      BY <1>1, <3>1 DEF CreatorComes
    <3>2. CASE child_tid_map[NextChild] = t /\ t # Main
      <4>1. PICK i \in 1..Size : order[i] = t
        BY DEF Inv, Listed
      <4>2. i # 1 /\ i # iter
        BY <1>1, <1>3, <3>2, <4>1 DEF Inv, Listed
      <4>3. ~(i > iter)
        BY <1>0, <4>1, <4>2, SizeFact DEF Inv, Ahead
      <4>4. i \in 2..iter - 1
        BY <1>1, <4>2, <4>3, SizeFact
      <4> QED
        BY <1>1, <3>2, <4>1, <4>4 DEF CreatorComes
    <3> QED
      BY <1>1, <3>1, <3>2
  <2>2. \A i \in 2..Size : CreatorComes(i)' <=> CreatorComes(i)
    BY <1>0 DEF CreatorComes
  <2>3. \A i \in 2..Size : i # iter => order[i] # NextChild
    BY <1>1
  <2>4. pc[t] # "absent"
    BY <1>0
  <2>5. \A i \in 2..Size :
          i # iter /\ pc'[order[i]] # "absent" => pc[order[i]] # "absent"
    BY <1>4, <1>6, <2>3, <2>4
  <2> QED
    BY <1>0, <2>1, <2>2, <2>5 DEF Inv, CreatorsThere
<1>13. Roles'
  BY <1>0, <1>1, <1>3, <1>4, EnvAssumption DEF Inv, Roles, Children
<1>14. Finished' /\ Alone'
  BY <1>0, <1>1, <1>4 DEF Inv, Finished, Alone
<1>15. NoTurnMissed'
  BY <1>0, <1>4, SameTurn DEF Inv, NoTurnMissed
<1> QED
  BY <1>5, <1>7, <1>8, <1>9, <1>10, <1>11, <1>12, <1>13, <1>14, <1>15
  DEF Shape

(* The permit has come: the iterator goes on and everyone looks again.     *)
LEMMA AdvanceKeeps ==
  ASSUME Inv, NEW t \in Env, Advance(t)
  PROVE  Shape'
<1>0. /\ UNCHANGED <<process, lib_pthread, child_tid_map, order, mtx,
                     child_env, restored>>
      /\ lib_pthread /\ pc[t] = "handoff"
      /\ thread_init = 1 /\ thread_init' = 0
      /\ iter' = iter + 1
      /\ pc' = [e \in Env |-> IF e = t THEN "loop"
                              ELSE IF pc[e] = "waiting" THEN "lock"
                              ELSE pc[e]]
  BY DEF Advance, At, WaitForChild, NotifyAll, snapshot, Inv, TypeOK
<1>1. SomeoneLeft /\ pc[NextChild] = "lock"
  BY <1>0 DEF Inv, Handing
<1>2. /\ iter \in 2..Size /\ NextChild = order[iter]
      /\ \A i \in 1..Size : order[i] = NextChild => i = iter
  BY <1>1, Next1 DEF Inv, NextChild
<1>3. Listed' /\ \A i \in 2..Size : order[i] \in Env /\ order'[i] = order[i]
  BY <1>0, SizeFact DEF Inv, Listed
<1>4. \A u \in Env : u # t => pc[u] \notin {"loop", "handoff"}
  BY <1>0 DEF Inv, Exclusive
<1>5. Exclusive'
  BY <1>0, <1>4 DEF Inv, Exclusive
<1>6. Behind'
  BY <1>0, <1>1, <1>2, <1>3 DEF Inv, Behind
<1>7. Ahead'
  BY <1>0, <1>2, <1>3 DEF Inv, Ahead
<1>8. Handing'
  BY <1>0, <1>4 DEF Handing
<1>9. Idle'
  <2>1. SUFFICES ASSUME SomeoneLeft' PROVE pc'[NextChild'] = "absent"
    BY <1>0 DEF Idle
  <2>2. iter' \in 2..Size /\ iter' > iter /\ NextChild' = order[iter']
    BY <1>0, <1>2, <2>1, ListLength DEF SomeoneLeft, NextChild, Inv
  <2>3. pc[order[iter']] = "absent" /\ order[iter'] \in Env
    BY <1>3, <2>2 DEF Inv, Ahead
  <2> QED
    BY <1>0, <2>2, <2>3
<1>10. OwnRestored'
  BY <1>0 DEF Inv, OwnRestored
<1>11. CreatorsThere'
  BY <1>0, NobodyNew
<1>12. Roles'
  BY <1>0, EnvAssumption DEF Inv, Roles, Children
<1>13. Finished' /\ Alone'
  BY <1>0, <1>1 DEF Inv, Finished, Alone
<1>14. NoTurnMissed'
  BY <1>0 DEF NoTurnMissed
<1> QED
  BY <1>3, <1>5, <1>6, <1>7, <1>8, <1>9, <1>10, <1>11, <1>12, <1>13, <1>14
  DEF Shape

(* A new thread restores the environment that child_env names.             *)
LEMMA RestoreKeeps ==
  ASSUME Inv, NEW t \in Env, RestoreEnv(t)
  PROVE  Shape'
<1>0. /\ UNCHANGED <<process, lib_pthread, child_tid_map, order, mtx, iter,
                     child_env, thread_init>>
      /\ pc[t] = "created" /\ lib_pthread
  BY DEF RestoreEnv, At, snapshot
<1>1. /\ SomeoneLeft /\ t = NextChild /\ child_env = t /\ thread_init = 0
      /\ \E c \in Env : pc[c] = "handoff"
  BY <1>0, UnderWay
<1>2. /\ \A e \in Env : pc'[e] = IF e = t THEN "restored" ELSE pc[e]
      /\ \A e \in Env : restored'[e] = IF e = t THEN t ELSE restored[e]
  BY <1>1 DEF RestoreEnv, GoTo, Inv, TypeOK
<1>3. iter \in 2..Size /\ \A i \in 1..Size : order[i] = t => i = iter
  BY <1>1, Next1 DEF Inv
<1>4. Listed' /\ (SomeoneLeft' <=> SomeoneLeft) /\ NextChild' = NextChild
  BY <1>0 DEF Inv, Listed, SomeoneLeft, NextChild
<1>5. Exclusive'
  BY <1>0, <1>2 DEF Inv, Exclusive
<1>6. Behind' /\ Ahead'
  <2>1. \A i \in 2..Size : i # iter =>
          pc'[order[i]] = pc[order[i]] /\ order[i] \in Env
    BY <1>2, <1>3, SizeFact DEF Inv, Listed
  <2> QED
    BY <1>0, <1>3, <2>1 DEF Inv, Behind, Ahead
<1>7. Handing' /\ Idle'
  BY <1>0, <1>1, <1>2, <1>4 DEF Inv, Handing, Idle
<1>8. OwnRestored'
  BY <1>2 DEF Inv, OwnRestored
<1>9. CreatorsThere'
  BY <1>0, <1>2, NobodyNew
<1>10. Roles' /\ Alone' /\ Finished'
  BY <1>0, <1>1, <1>2, <1>4, EnvAssumption
  DEF Inv, Roles, Alone, Finished, Children
<1>11. NoTurnMissed'
  BY <1>0, <1>2, SameTurn DEF Inv, NoTurnMissed
<1> QED
  BY <1>4, <1>5, <1>6, <1>7, <1>8, <1>9, <1>10, <1>11 DEF Shape

(* It gives its creator the permit and goes for the mutex itself.          *)
LEMMA AnnounceKeeps ==
  ASSUME Inv, NEW t \in Env, Announce(t)
  PROVE  Shape'
<1>0. /\ UNCHANGED <<process, lib_pthread, child_tid_map, order, mtx, iter,
                     child_env, restored>>
      /\ lib_pthread /\ pc[t] = "restored" /\ thread_init' = thread_init + 1
  BY DEF Announce, At, snapshot
<1>1. /\ SomeoneLeft /\ t = NextChild /\ thread_init = 0
      /\ \E c \in Env : pc[c] = "handoff"
  BY <1>0, UnderWay
<1>2. \A e \in Env : pc'[e] = IF e = t THEN "lock" ELSE pc[e]
  BY DEF Announce, GoTo, Inv, TypeOK
<1>3. iter \in 2..Size /\ \A i \in 1..Size : order[i] = t => i = iter
  BY <1>1, Next1 DEF Inv
<1>4. Listed' /\ (SomeoneLeft' <=> SomeoneLeft) /\ NextChild' = NextChild
  BY <1>0 DEF Inv, Listed, SomeoneLeft, NextChild
<1>5. Exclusive'
  BY <1>0, <1>2 DEF Inv, Exclusive
<1>6. Behind' /\ Ahead'
  <2>1. \A i \in 2..Size : i # iter =>
          pc'[order[i]] = pc[order[i]] /\ order[i] \in Env
    BY <1>2, <1>3, SizeFact DEF Inv, Listed
  <2> QED
    BY <1>0, <1>3, <2>1 DEF Inv, Behind, Ahead
<1>7. Handing' /\ Idle'
  BY <1>0, <1>1, <1>2, <1>4 DEF Inv, Handing, Idle
<1>8. OwnRestored'
  BY <1>0, <1>2 DEF Inv, OwnRestored
<1>9. CreatorsThere'
  BY <1>0, <1>2, NobodyNew
<1>10. Roles' /\ Alone' /\ Finished'
  BY <1>0, <1>1, <1>2, <1>4, EnvAssumption
  DEF Inv, Roles, Alone, Finished, Children
<1>11. NoTurnMissed'
  BY <1>0, <1>2, SameTurn DEF Inv, NoTurnMissed
<1> QED
  BY <1>4, <1>5, <1>6, <1>7, <1>8, <1>9, <1>10, <1>11 DEF Shape

(* What follows when the iterator has reached the end.                     *)
LEMMA LeaveKeeps ==
  ASSUME Inv, NEW t \in Env, SpawnDone(t) \/ WakeUp(t)
  PROVE  Shape'
<1>0. /\ UNCHANGED <<process, snapshot, iter, child_env, thread_init,
                     restored>>
      /\ UNCHANGED <<lib_pthread, child_tid_map, order>>
      /\ lib_pthread /\ pc[t] \in {"loop", "asleep"}
  BY DEF SpawnDone, WakeUp, At, snapshot
<1>1. ~SomeoneLeft
  BY DEF SpawnDone, WakeUp, At, Inv, Finished
<1>2. PICK place \in {"recovered", "asleep", "replay"} :
        /\ GoTo(t, place)
        /\ place = "recovered" <=> t = Main
  BY DEF SpawnDone, WakeUp, At, Inv, Roles
<1>3. \A e \in Env : pc'[e] = IF e = t THEN place ELSE pc[e]
  BY <1>2 DEF GoTo, Inv, TypeOK
<1>4. \A c \in Env : pc[c] # "handoff"
  BY <1>1 DEF Inv, Handing
<1>5. /\ Listed' /\ Behind' /\ Ahead' /\ Handing' /\ Idle'
      /\ OwnRestored' /\ CreatorsThere'
  BY <1>0, <1>2, <1>4, QuietMove DEF Quiet
<1>6. Exclusive'
  <2>1. CASE SpawnDone(t)
    <3>1. \A u \in Env : u # t => pc[u] \notin {"loop", "handoff"}
      BY <2>1 DEF SpawnDone, At, Inv, Exclusive
    <3> QED
      BY <1>3, <3>1 DEF Exclusive
  <2>2. CASE WakeUp(t)
    BY <1>3, <2>2 DEF WakeUp, Inv, Exclusive
  <2> QED
    BY <2>1, <2>2
<1>7. Roles'
  BY <1>2, <1>3, EnvAssumption DEF Inv, Roles, Children
<1>8. ~SomeoneLeft'
  BY <1>0, <1>1 DEF SomeoneLeft
<1>9. Finished' /\ Alone' /\ NoTurnMissed'
  BY <1>0, <1>8 DEF Finished, Alone, NoTurnMissed, MyTurn
<1> QED
  BY <1>5, <1>6, <1>7, <1>9 DEF Shape

(* The main thread goes on in recover.                                     *)
LEMMA MainKeeps ==
  ASSUME Inv, ReleaseWakeup \/ Interpret \/ InvokeMain
  PROVE  Shape'
<1>0. /\ UNCHANGED <<snapshot, iter, child_env, mtx, thread_init, restored>>
      /\ UNCHANGED <<lib_pthread, child_tid_map, order>>
  BY DEF ReleaseWakeup, Interpret, InvokeMain, snapshot
<1>1. PICK place \in {"exiting", "running"} : GoTo(Main, place)
  BY DEF ReleaseWakeup, Interpret, InvokeMain
<1>2. \A e \in Env : pc'[e] = IF e = Main THEN place ELSE pc[e]
  BY <1>1 DEF GoTo, Inv, TypeOK
<1>3. /\ pc[Main] \in Quiet
      /\ \A c \in Env : pc[c] # "handoff"
      /\ lib_pthread => ~SomeoneLeft
      /\ ~lib_pthread => place = "running"
  <2>1. CASE lib_pthread
    <3>1. pc[Main] = "recovered"
      BY <2>1 DEF ReleaseWakeup, Interpret, InvokeMain, AllSpawned
    <3>2. ~SomeoneLeft
      BY <3>1, EnvAssumption DEF Inv, Finished
    <3> QED
      BY <2>1, <3>1, <3>2 DEF Inv, Handing, Quiet
  <2>2. CASE ~lib_pthread
    <3>1. place = "running"
      BY <1>2, <2>2, EnvAssumption
      DEF ReleaseWakeup, Interpret, InvokeMain, GoTo, Inv, TypeOK
    <3> QED
      BY <2>2, <3>1 DEF Inv, Alone, Children, Quiet
  <2> QED
    BY <2>1, <2>2
<1>4. /\ Listed' /\ Behind' /\ Ahead' /\ Handing' /\ Idle'
      /\ OwnRestored' /\ CreatorsThere'
  BY <1>0, <1>1, <1>3, QuietMove, EnvAssumption DEF Quiet
<1>5. Exclusive'
  BY <1>0, <1>2 DEF Inv, Exclusive
<1>6. Roles' /\ Alone'
  BY <1>0, <1>2, <1>3, EnvAssumption DEF Inv, Roles, Alone, Children
<1>7. (SomeoneLeft' <=> SomeoneLeft) /\ NextChild' = NextChild
  BY <1>0 DEF SomeoneLeft, NextChild
<1>8. Finished'
  <2>1. CASE lib_pthread
    BY <1>3, <1>7, <2>1 DEF Finished
  <2>2. CASE ~lib_pthread
    BY <1>0, <1>2, <1>3, <2>2 DEF Inv, Alone, Finished, Children
  <2> QED
    BY <2>1, <2>2
<1>9. NoTurnMissed'
  BY <1>0, <1>2, SameTurn DEF Inv, NoTurnMissed
<1> QED
  BY <1>4, <1>5, <1>6, <1>8, <1>9 DEF Shape

(* A process that fails, or a step that changes nothing.                   *)
LEMMA StillKeeps ==
  ASSUME Inv,
         UNCHANGED <<snapshot, iter, child_env, pc, mtx, thread_init, restored>>,
         process' \in {process, "failed"}
  PROVE  Shape'
<1>1. UNCHANGED <<lib_pthread, child_tid_map, order>>
  BY DEF snapshot
<1>2. (SomeoneLeft' <=> SomeoneLeft) /\ NextChild' = NextChild
  BY <1>1 DEF SomeoneLeft, NextChild
<1>3. Listed' /\ Exclusive' /\ Behind' /\ Ahead'
  BY <1>1 DEF Inv, Listed, Exclusive, Behind, Ahead
<1>4. Handing' /\ Idle' /\ OwnRestored'
  BY <1>2 DEF Inv, Handing, Idle, OwnRestored
<1>5. CreatorsThere' /\ Roles' /\ Alone'
  BY <1>1, NobodyNew DEF Inv, Roles, Alone
<1>6. Finished' /\ NoTurnMissed'
  BY <1>1, <1>2, SameTurn DEF Inv, Finished, NoTurnMissed
<1> QED
  BY <1>3, <1>4, <1>5, <1>6 DEF Shape

LEMMA ShapeStep == Inv /\ [Next]_vars => Shape'
<1> SUFFICES ASSUME Inv, [Next]_vars PROVE Shape'
  OBVIOUS
<1>1. CASE UNCHANGED vars
  BY <1>1, StillKeeps DEF vars
<1>2. ASSUME NEW t \in Env, SpawnStep(t) PROVE Shape'
  <2>1. CASE SpawnFails(t)
    BY <2>1, StillKeeps DEF SpawnFails
  <2> QED
    BY <1>2, <2>1, TurnStep, SpawnKeeps, AdvanceKeeps, LeaveKeeps
    DEF SpawnStep
<1>3. ASSUME NEW t \in Env, ChildStep(t) PROVE Shape'
  BY <1>3, RestoreKeeps, AnnounceKeeps, LeaveKeeps DEF ChildStep
<1>4. ASSUME NEW t \in Env, WakeSpuriously(t) PROVE Shape'
  BY <1>4, TurnStep
<1>5. CASE RecoverFails
  BY <1>5, StillKeeps DEF RecoverFails
<1>6. CASE ReleaseWakeup \/ Interpret \/ InvokeMain
  BY <1>6, MainKeeps
<1> QED
  BY <1>1, <1>2, <1>3, <1>4, <1>5, <1>6 DEF Next

THEOREM Invariance == Spec => []Inv
<1>1. Inv /\ [Next]_vars => Inv'
  BY TypeStep, ShapeStep DEF Inv, Shape
<1> QED
  BY <1>1, InitInv, PTL DEF Spec

-----------------------------------------------------------------------------
(* The theorems.                                                           *)

(* The variables of the restore keep their types; in particular            *)
(* thread_init, which spawn_child and wamr_wait share, never holds two     *)
(* permits.                                                                *)
THEOREM TypeCorrect == Spec => []TypeOK
BY Invariance, PTL DEF Inv

(* restore_env, which reads the global child_env without a lock, restores  *)
(* the environment the thread was created for.                             *)
THEOREM RightEnvironment == Spec => []HandedOver
<1>1. Inv => HandedOver
  BY DEF Inv, OwnRestored, HandedOver
<1> QED
  BY <1>1, Invariance, PTL

(* No notification of spawn_child's condition variable is missed by the    *)
(* thread whose turn it is.                                                *)
THEOREM TurnsSeen == Spec => []NoTurnMissed
BY Invariance, PTL DEF Inv

(* A permit of thread_init is always the one that a creator is waiting for *)
(* in spawn_child.                                                         *)
THEOREM PermitsMatch == Spec => []NoStrayPermit
<1>1. Inv => NoStrayPermit
  <2> SUFFICES ASSUME Inv, thread_init > 0 PROVE NoStrayPermit
    BY DEF NoStrayPermit
  <2>1. PICK c \in Env : pc[c] = "handoff"
    BY DEF Inv, Idle
  <2>2. SomeoneLeft /\ pc[NextChild] = "lock"
    BY <2>1 DEF Inv, Handing
  <2>3. NextChild \in Env
    BY <2>2, Next1 DEF Inv
  <2>4. restored[NextChild] = NextChild
    BY <2>2, <2>3 DEF Inv, OwnRestored
  <2> QED
    BY <2>1, <2>2, <2>4 DEF NoStrayPermit
<1> QED
  BY <1>1, Invariance, PTL

(* No thread of the guest runs before recover and spawn_child have         *)
(* restored every environment.                                             *)
THEOREM AllThere == Spec => []NobodyRunsAhead
<1>1. Inv => NobodyRunsAhead
  <2> SUFFICES ASSUME Inv, lib_pthread,
                      process = "resumed" \/ \E t \in Env : pc[t] = "replay"
               PROVE  Restored = Env
    BY DEF NobodyRunsAhead
  <2>1. ~SomeoneLeft
    BY DEF Inv, Finished
  <2>2. iter > Size
    BY <2>1, ListLength, SizeFact DEF SomeoneLeft, Inv, TypeOK, Size
  <2>3. ASSUME NEW e \in Env PROVE pc[e] \notin {"absent", "created"}
    <3>1. PICK i \in 1..Size : order[i] = e
      BY DEF Inv, Listed
    <3>2. CASE i = 1
      BY <3>1, <3>2 DEF Inv, Listed, Roles
    <3>3. CASE i # 1
      <4>1. i \in 2..Size /\ i < iter
        BY <2>2, <3>3, SizeFact DEF Inv, TypeOK
      <4> QED
        BY <3>1, <4>1 DEF Inv, Behind
    <3> QED
      BY <3>2, <3>3
  <2> QED
    BY <2>3, EnvAssumption DEF Inv, OwnRestored, Restored
<1> QED
  BY <1>1, Invariance, PTL

(* When the creator of some thread has ended, or comes behind it in the    *)
(* list, spawn_child never gets to the end of the list, and no thread of   *)
(* the guest runs.                                                         *)
THEOREM NobodyComesBack == Spec => []NothingRunsWithoutCreators
<1>1. Inv => NothingRunsWithoutCreators
  <2> SUFFICES ASSUME Inv, lib_pthread,
                      process = "resumed" \/ \E t \in Env : pc[t] = "replay"
               PROVE  CreatorsCome
    BY DEF NothingRunsWithoutCreators
  <2>1. ~SomeoneLeft /\ Len(order) = Size
    BY ListLength DEF Inv, Finished
  <2>2. \A i \in 2..Size : i < iter
    BY <2>1, SizeFact DEF SomeoneLeft, Inv, TypeOK, Size
  <2>3. \A i \in 2..Size : pc[order[i]] # "absent"
    BY <2>2 DEF Inv, Behind
  <2> QED
    BY <2>1, <2>3 DEF Inv, CreatorsThere, CreatorsCome
<1> QED
  BY <1>1, Invariance, PTL
=============================================================================
