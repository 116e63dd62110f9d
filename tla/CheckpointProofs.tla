-------------------------- MODULE CheckpointProofs --------------------------
(***************************************************************************)
(* Proofs about Checkpoint, for any finite set of threads.                 *)
(***************************************************************************)
EXTENDS Checkpoint, BasicProofs

(* The threads inside a counted native call. *)
InNative == {t \in Thread : pc[t] \in Blocked}

(* What holds whatever the guest meets: the type, who holds as_mtx, and that *)
(* each counted call is covered by its thread's counter and by `ready'.      *)
Safe ==
  /\ TypeOK
  /\ OneSerializer
  /\ NobodyStuck
  /\ Cardinality(InNative) <= ready

LEMMA InNativeFinite == IsFiniteSet(InNative) /\ IsFiniteSet(InNative')
<1>1. InNative \subseteq Thread /\ InNative' \subseteq Thread
  BY DEF InNative
<1> QED
  BY <1>1, ThreadAssumption, FS_Subset

LEMMA InitSafe == Init => Safe
<1> SUFFICES ASSUME Init PROVE Safe
  OBVIOUS
<1> USE ThreadAssumption, WorkAssumption
<1>1. TypeOK
  <2>1. pc \in [Thread -> Places]
    BY DEF Init, Places
  <2>2. work \in [Thread -> Progress] /\ as_memory \in [Thread -> Progress]
    BY DEF Init, Progress
  <2>3. as \in [Thread -> Progress \cup {NotDumped}]
    BY DEF Init
  <2>4. live \in SUBSET Thread /\ interrupted \in SUBSET Thread
    BY DEF Init
  <2> QED
    BY <2>1, <2>2, <2>3, <2>4 DEF Init, TypeOK
<1>2. OneSerializer /\ NobodyStuck
  BY DEF Init, OneSerializer, NobodyStuck, Blocked, Arriving
<1>3. InNative = {}
  BY DEF Init, InNative, Blocked
<1>4. Cardinality(InNative) <= ready
  BY <1>3, FS_EmptySet DEF Init
<1> QED
  BY <1>1, <1>2, <1>4 DEF Safe

(* A step that neither counts nor moves a thread into or out of a counted    *)
(* native call leaves the count covered.                                     *)
LEMMA CoverKept ==
  ASSUME Safe, TypeOK', ready' >= ready, InNative' \subseteq InNative
  PROVE  Cardinality(InNative') <= ready'
<1>1. /\ IsFiniteSet(InNative) /\ IsFiniteSet(InNative')
      /\ Cardinality(InNative') <= Cardinality(InNative)
  BY InNativeFinite, FS_Subset
<1>2. Cardinality(InNative) \in Nat /\ Cardinality(InNative') \in Nat
  BY <1>1, FS_CardinalityType
<1> QED
  BY <1>1, <1>2 DEF Safe, TypeOK

(* Counting a thread keeps the counters natural numbers.                     *)
LEMMA CountTyped ==
  ASSUME TypeOK, NEW t \in Thread, Count(t)
  PROVE  ready' \in Nat /\ lwcp_list' \in [Thread -> Nat]
<1>1. lwcp_list[t] + 1 \in Nat
  BY DEF TypeOK
<1> QED
  BY <1>1 DEF TypeOK, Count

(* Every step keeps the type; `ready' does not drop below zero, because only  *)
(* a thread that is counted in it decrements it.                              *)
LEMMA TypeStep == Safe /\ [Next]_vars => TypeOK'
<1> SUFFICES ASSUME TypeOK, Cardinality(InNative) <= ready, NobodyStuck,
                    [Next]_vars
             PROVE  TypeOK'
  BY DEF Safe
<1> USE ThreadAssumption, WorkAssumption
    DEF TypeOK, At, GoTo, guest, counts, image
<1>p. \A place \in Places, t \in Thread : [pc EXCEPT ![t] = place] \in [Thread -> Places]
  OBVIOUS
<1>q. "wasm" \in Places /\ "gone" \in Places
  BY DEF Places
<1>1. CASE MainReturns
  BY <1>1 DEF MainReturns
<1>2. CASE RequestCheckpoint
  BY <1>2 DEF RequestCheckpoint
<1>3. ASSUME NEW t \in Thread, GuestStep(t)
      PROVE  TypeOK'
  <2>1. CASE Compute(t)
    <3>1. work[t] + 1 \in Progress
      BY <2>1 DEF Compute, Progress
    <3>2. work' \in [Thread -> Progress]
      BY <2>1, <3>1 DEF Compute
    <3> QED
      BY <2>1, <3>2 DEF Compute
  <2>2. CASE Unlock(t)
    BY <2>2 DEF Unlock
  <2>3. CASE ThreadExit(t)
    BY <2>3, <1>p, <1>q DEF ThreadExit
  <2>4. ASSUME NEW child \in Thread, Spawn(t, child)
        PROVE  TypeOK'
    BY <2>4, <1>p, <1>q DEF Spawn
  <2> QED
    BY <1>3, <2>1, <2>2, <2>3, <2>4 DEF GuestStep
<1>4. ASSUME NEW t \in Thread, NativeStep(t)
      PROVE  TypeOK'
  <2>1. CASE EnterNative(t)
    BY <2>1, <1>p DEF EnterNative, Places
  <2>2. CASE LightweightSkip(t)
    BY <2>2, <1>p DEF LightweightSkip, Places
  <2>3. CASE LightweightCheckpoint(t)
    <3>1. ready' \in Nat /\ lwcp_list' \in [Thread -> Nat]
      BY <2>3, CountTyped DEF LightweightCheckpoint, OwnHandle
    <3>2. pc' \in [Thread -> Places]
      BY <2>3, <1>p DEF LightweightCheckpoint, OwnHandle, Places, Blocked
    <3> QED
      BY <2>3, <3>1, <3>2 DEF LightweightCheckpoint, OwnHandle
  <2>4. CASE NativeReturns(t)
    BY <2>4, <1>p DEF NativeReturns, Places, Blocked
  <2>5. CASE LightweightUncheckpoint(t)
    <3>1. t \in InNative /\ lwcp_list[t] > 0
      BY <2>5
      DEF LightweightUncheckpoint, MayEnter, InNative, NobodyStuck, Blocked
    <3>2. Cardinality(InNative) > 0
      BY <3>1, InNativeFinite, FS_EmptySet, FS_CardinalityType
    <3>3. ready - 1 \in Nat
      BY <3>2, InNativeFinite, FS_CardinalityType
    <3>4. lwcp_list[t] - 1 \in Nat
      BY <3>1
    <3>5. ready' \in Nat /\ lwcp_list' \in [Thread -> Nat]
      BY <2>5, <3>1, <3>3, <3>4 DEF LightweightUncheckpoint, MayEnter
    <3>6. pc' \in [Thread -> Places]
      BY <2>5, <3>1, <1>p, <1>q DEF LightweightUncheckpoint, MayEnter
    <3> QED
      BY <2>5, <3>5, <3>6 DEF LightweightUncheckpoint, MayEnter
  <2> QED
    BY <1>4, <2>1, <2>2, <2>3, <2>4, <2>5 DEF NativeStep
<1>5. ASSUME NEW t \in Thread, SerializeStep(t)
      PROVE  TypeOK'
  <2>0. Cardinality(live) \in Nat
    BY FS_Subset, FS_CardinalityType
  <2>1. CASE Trap(t)
    BY <2>1, <2>0, <1>p DEF Trap, BeginSerialize, ListLength, Places
  <2>2. CASE Sigint(t)
    BY <2>2, <2>0, <1>p DEF Sigint, BeginSerialize, ListLength, Places
  <2>3. CASE Arrive(t)
    <3>1. ready' \in Nat /\ lwcp_list' \in [Thread -> Nat]
      BY <2>3, CountTyped DEF Arrive, Completes, Instance
    <3>2. pc' \in [Thread -> Places]
      BY <2>3, <1>p DEF Arrive, Completes, Places, Arriving
    <3>3. should_snapshot' \in BOOLEAN
      BY <2>3 DEF Arrive, Completes
    <3> QED
      BY <2>3, <3>1, <3>2, <3>3 DEF Arrive, Completes
  <2>4. CASE TellGateway(t)
    BY <2>4, <1>p DEF TellGateway, Places, Arriving
  <2>5. CASE GatewayFails(t)
    BY <2>5 DEF GatewayFails
  <2>6. CASE WaitForOthers(t)
    BY <2>6, <1>p DEF WaitForOthers, NotAllReady, Places
  <2>7. CASE WakeSpuriously(t)
    BY <2>7, <1>p DEF WakeSpuriously, Places, Arriving
  <2>8. CASE BeginDump(t)
    BY <2>8, <1>p DEF BeginDump, NotAllReady, Places, Arriving
  <2>9. ASSUME NEW e \in Thread, DumpEnv(t, e)
        PROVE  TypeOK'
    BY <2>9 DEF DumpEnv, KeepLock
  <2>10. CASE ExitSuccess(t)
    BY <2>10 DEF ExitSuccess
  <2>11. CASE GatewayAsksGuest(t)
    BY <2>11, <1>p DEF GatewayAsksGuest, Places, Arriving
  <2>12. CASE SigintAmidCounting(t)
    <3>1. /\ all_count' \in [Thread -> Nat] /\ pc' \in [Thread -> Places]
          /\ interrupted' \in SUBSET Thread /\ as_mtx' = t
          /\ UNCHANGED <<process, live, checkpoint, should_snapshot, gateway,
                         owner, work, as, as_memory>>
      BY <2>12, <2>0, <1>p
      DEF SigintAmidCounting, BeginSerialize, ListLength, Places
    <3>2. PICK sum \in Unfinished(t), h \in Thread :
            /\ pc[t] # "lock" => h = t
            /\ ready' = ready + sum[1]
            /\ lwcp_list' = [lwcp_list EXCEPT ![h] = @ + sum[2]]
      BY <2>12 DEF SigintAmidCounting, Instance, OwnHandle
    <3>3. CASE pc[t] \in {"lock", "enter"}
      <4>1. sum[1] \in {0, 1} /\ sum[2] \in {0, 1}
        BY <3>2, <3>3 DEF Unfinished
      <4>2. ready' \in Nat /\ lwcp_list[h] + sum[2] \in Nat
        BY <3>2, <4>1
      <4> QED
        BY <3>1, <3>2, <4>2
    <3>4. CASE pc[t] = "leave"
      <4>1. t \in InNative /\ lwcp_list[t] > 0
        BY <3>4 DEF InNative, NobodyStuck, Blocked
      <4>2. Cardinality(InNative) > 0
        BY <4>1, InNativeFinite, FS_EmptySet, FS_CardinalityType
      <4>3. ready > 0
        BY <4>2, InNativeFinite, FS_CardinalityType
      <4>4. h = t /\ sum[1] \in {0, -1} /\ sum[2] \in {0, -1}
        BY <3>2, <3>4 DEF Unfinished
      <4>5. ready' \in Nat /\ lwcp_list[h] + sum[2] \in Nat
        BY <3>2, <4>1, <4>3, <4>4
      <4> QED
        BY <3>1, <3>2, <4>5
    <3>5. CASE pc[t] \notin {"lock", "enter", "leave"}
      BY <3>2, <3>5 DEF Unfinished
    <3> QED
      BY <3>3, <3>4, <3>5
  <2> QED
    BY <1>5, <2>1, <2>2, <2>3, <2>4, <2>5, <2>6, <2>7, <2>8, <2>9, <2>10,
       <2>11, <2>12
    DEF SerializeStep
<1>6. CASE UNCHANGED vars
  BY <1>6 DEF vars
<1> QED
  BY <1>1, <1>2, <1>3, <1>4, <1>5, <1>6 DEF Next

(* Who may be in serialize_to_file, and whose counter covers a native call.  *)
LEMMA SafeStep == Safe /\ [Next]_vars => Safe'
<1> SUFFICES ASSUME Safe, [Next]_vars PROVE Safe'
  OBVIOUS
<1> USE ThreadAssumption DEF At, GoTo, guest, counts, image
<1>t. TypeOK /\ TypeOK'
  BY TypeStep DEF Safe
<1>i. OneSerializer /\ NobodyStuck
  BY DEF Safe
<1>c. ASSUME /\ OneSerializer' /\ NobodyStuck'
             /\ ready' >= ready /\ InNative' \subseteq InNative
      PROVE  Safe'
  BY <1>c, <1>t, CoverKept DEF Safe
<1>n. ready >= ready
  BY <1>t DEF TypeOK
<1>u. ASSUME UNCHANGED <<pc, as_mtx, counts>>
      PROVE  Safe'
  BY <1>u, <1>c, <1>n, <1>i DEF OneSerializer, NobodyStuck, InNative
<1>1. CASE UNCHANGED vars \/ MainReturns \/ RequestCheckpoint
  BY <1>1, <1>u DEF vars, MainReturns, RequestCheckpoint
<1>2. ASSUME NEW t \in Thread, GuestStep(t)
      PROVE  Safe'
  <2>1. CASE Compute(t) \/ Unlock(t)
    BY <2>1, <1>u DEF Compute, Unlock
  <2>2. CASE ThreadExit(t)
    BY <2>2, <1>c, <1>t, <1>i
    DEF ThreadExit, OneSerializer, NobodyStuck, InNative, TypeOK, Blocked,
        Arriving
  <2>3. ASSUME NEW child \in Thread, Spawn(t, child)
        PROVE  Safe'
    BY <2>3, <1>c, <1>t, <1>i
    DEF Spawn, OneSerializer, NobodyStuck, InNative, TypeOK, Blocked, Arriving
  <2> QED
    BY <1>2, <2>1, <2>2, <2>3 DEF GuestStep
<1>3. ASSUME NEW t \in Thread, NativeStep(t)
      PROVE  Safe'
  <2>1. CASE EnterNative(t)
    BY <2>1, <1>c, <1>t, <1>i
    DEF EnterNative, OneSerializer, NobodyStuck, InNative, TypeOK, Blocked,
        Arriving
  <2>2. CASE LightweightSkip(t)
    BY <2>2, <1>c, <1>t, <1>i
    DEF LightweightSkip, OneSerializer, NobodyStuck, InNative, TypeOK, Blocked,
        Arriving
  <2>3. CASE LightweightCheckpoint(t)
    <3>1. t \notin InNative /\ InNative' = InNative \cup {t}
      BY <2>3, <1>t
      DEF LightweightCheckpoint, OwnHandle, InNative, Blocked, TypeOK
    <3>2. Cardinality(InNative') = Cardinality(InNative) + 1
      BY <3>1, InNativeFinite, FS_AddElement
    <3>3. Cardinality(InNative) \in Nat
      BY InNativeFinite, FS_CardinalityType
    <3>4. ready' = ready + 1
      BY <2>3 DEF LightweightCheckpoint, OwnHandle, Count
    <3>5. Cardinality(InNative') <= ready'
      BY <3>2, <3>3, <3>4, <1>t DEF Safe, TypeOK
    <3>6. OneSerializer'
      BY <2>3, <1>t, <1>i
      DEF LightweightCheckpoint, OwnHandle, OneSerializer, TypeOK, Arriving
    <3>7. \A u \in Thread : lwcp_list'[u] >= lwcp_list[u] /\ lwcp_list'[t] > 0
      BY <2>3, <1>t DEF LightweightCheckpoint, OwnHandle, Count, TypeOK
    <3>8. NobodyStuck'
      BY <2>3, <3>7, <1>t, <1>i
      DEF LightweightCheckpoint, OwnHandle, NobodyStuck, TypeOK, Blocked
    <3> QED
      BY <3>5, <3>6, <3>8, <1>t DEF Safe
  <2>4. CASE NativeReturns(t)
    <3>1. InNative' = InNative
      BY <2>4, <1>t DEF NativeReturns, InNative, Blocked, TypeOK
    <3> QED
      BY <2>4, <3>1, <1>c, <1>t, <1>i
      DEF NativeReturns, OneSerializer, NobodyStuck, TypeOK, Blocked, Arriving
  <2>5. CASE LightweightUncheckpoint(t)
    <3>1. t \in InNative /\ lwcp_list[t] > 0
      BY <2>5, <1>i
      DEF LightweightUncheckpoint, MayEnter, InNative, NobodyStuck, Blocked
    <3>2. /\ pc' = [pc EXCEPT ![t] = "wasm"] /\ ready' = ready - 1
          /\ lwcp_list' = [lwcp_list EXCEPT ![t] = @ - 1]
          /\ as_mtx' = as_mtx
      BY <2>5, <3>1 DEF LightweightUncheckpoint, MayEnter
    <3>3. InNative' = InNative \ {t}
      BY <3>2, <1>t DEF InNative, Blocked, TypeOK
    <3>4. Cardinality(InNative') = Cardinality(InNative) - 1
      BY <3>1, <3>3, InNativeFinite, FS_RemoveElement
    <3>5. Cardinality(InNative') <= ready'
      BY <3>2, <3>4, InNativeFinite, FS_CardinalityType, <1>t DEF Safe, TypeOK
    <3>6. OneSerializer' /\ NobodyStuck'
      BY <3>2, <1>t, <1>i
      DEF OneSerializer, NobodyStuck, TypeOK, Blocked, Arriving
    <3> QED
      BY <3>5, <3>6, <1>t DEF Safe
  <2> QED
    BY <1>3, <2>1, <2>2, <2>3, <2>4, <2>5 DEF NativeStep
<1>4. ASSUME NEW t \in Thread, SerializeStep(t)
      PROVE  Safe'
  <2>1. CASE Trap(t)
    BY <2>1, <1>c, <1>t, <1>i
    DEF Trap, BeginSerialize, ListLength, OneSerializer, NobodyStuck, InNative,
        TypeOK, Blocked, Arriving
  <2>2. CASE Sigint(t)
    BY <2>2, <1>c, <1>t, <1>i
    DEF Sigint, BeginSerialize, ListLength, OneSerializer, NobodyStuck,
        InNative, TypeOK, Blocked, Arriving
  <2>3. CASE Arrive(t)
    <3>1. pc'[t] \in {"gateway", "decide"} /\ as_mtx' = t /\ as_mtx = NoThread
      BY <2>3, <1>t DEF Arrive, Completes, TypeOK
    <3>2. \A u \in Thread : u # t => pc'[u] = pc[u]
      BY <2>3, <1>t DEF Arrive, Completes, TypeOK
    <3>3. \A u \in Thread : u # t => pc[u] \notin Arriving
      BY <3>1, <1>i, <1>t DEF OneSerializer, TypeOK
    <3>4. OneSerializer'
      BY <3>1, <3>2, <3>3 DEF OneSerializer
    <3>5. ready' = ready + 1 /\ \A u \in Thread : lwcp_list'[u] >= lwcp_list[u]
      BY <2>3, <1>t DEF Arrive, Completes, Count, Instance, TypeOK
    <3>6. NobodyStuck'
      BY <3>1, <3>2, <3>5, <1>t, <1>i DEF NobodyStuck, TypeOK, Blocked
    <3>7. InNative' \subseteq InNative
      BY <3>1, <3>2 DEF InNative, Blocked
    <3> QED
      BY <3>4, <3>5, <3>6, <3>7, <1>c, <1>t DEF TypeOK
  <2>4. CASE TellGateway(t)
    BY <2>4, <1>c, <1>t, <1>i
    DEF TellGateway, OneSerializer, NobodyStuck, InNative, TypeOK, Blocked,
        Arriving
  <2>5. CASE GatewayFails(t) \/ ExitSuccess(t) \/ \E e \in Thread : DumpEnv(t, e)
    BY <2>5, <1>u DEF GatewayFails, ExitSuccess, DumpEnv, KeepLock
  <2>6. CASE WaitForOthers(t)
    <3>1. OneSerializer'
      BY <2>6, <1>t, <1>i
      DEF WaitForOthers, NotAllReady, OneSerializer, TypeOK, Arriving
    <3>2. NobodyStuck' /\ InNative' \subseteq InNative /\ ready' >= ready
      BY <2>6, <1>t, <1>i
      DEF WaitForOthers, NotAllReady, NobodyStuck, InNative, TypeOK, Blocked
    <3> QED
      BY <3>1, <3>2, <1>c
  <2>7. CASE WakeSpuriously(t)
    <3>1. OneSerializer'
      BY <2>7, <1>t, <1>i DEF WakeSpuriously, OneSerializer, TypeOK, Arriving
    <3>2. NobodyStuck' /\ InNative' \subseteq InNative /\ ready' >= ready
      BY <2>7, <1>t, <1>i
      DEF WakeSpuriously, NobodyStuck, InNative, TypeOK, Blocked
    <3> QED
      BY <3>1, <3>2, <1>c
  <2>8. CASE BeginDump(t)
    BY <2>8, <1>c, <1>t, <1>i
    DEF BeginDump, NotAllReady, OneSerializer, NobodyStuck, InNative, TypeOK,
        Blocked, Arriving
  <2>9. CASE GatewayAsksGuest(t)
    <3>1. CASE pc' = pc
      BY <2>9, <3>1, <1>u DEF GatewayAsksGuest
    <3>2. CASE pc' = [pc EXCEPT ![t] = "asking"]
      BY <2>9, <3>2, <1>c, <1>t, <1>i
      DEF GatewayAsksGuest, OneSerializer, NobodyStuck, InNative, TypeOK,
          Blocked, Arriving
    <3> QED
      BY <2>9, <3>1, <3>2 DEF GatewayAsksGuest
  <2>10. CASE SigintAmidCounting(t)
    <3>1. /\ as_mtx = NoThread /\ as_mtx' = t
          /\ pc'[t] = "lock" /\ \A u \in Thread : u # t => pc'[u] = pc[u]
      BY <2>10, <1>t DEF SigintAmidCounting, BeginSerialize, TypeOK
    <3>2. OneSerializer'
      BY <3>1, <1>i DEF OneSerializer, Arriving
    <3>3. PICK sum \in Unfinished(t), h \in Thread :
            /\ pc[t] # "lock" => h = t
            /\ ready' = ready + sum[1]
            /\ lwcp_list' = [lwcp_list EXCEPT ![h] = @ + sum[2]]
      BY <2>10 DEF SigintAmidCounting, Instance, OwnHandle
    <3>4. CASE pc[t] \in {"lock", "enter"}
      <4>1. sum[1] \in {0, 1} /\ sum[2] \in {0, 1}
        BY <3>3, <3>4 DEF Unfinished
      <4>2. ready' >= ready /\ \A u \in Thread : lwcp_list'[u] >= lwcp_list[u]
        BY <3>3, <4>1, <1>t DEF TypeOK
      <4>3. NobodyStuck' /\ InNative' \subseteq InNative
        BY <3>1, <4>2, <1>i, <1>t DEF NobodyStuck, InNative, Blocked, TypeOK
      <4> QED
        BY <3>2, <4>2, <4>3, <1>c
    <3>5. CASE pc[t] = "leave"
      <4>1. h = t /\ sum[1] \in {0, -1}
        BY <3>3, <3>5 DEF Unfinished
      <4>2. t \in InNative /\ InNative' = InNative \ {t}
        BY <3>1, <3>5 DEF InNative, Blocked
      <4>3. Cardinality(InNative') = Cardinality(InNative) - 1
        BY <4>2, InNativeFinite, FS_RemoveElement
      <4>4. Cardinality(InNative') <= ready'
        <5>1. ready' = ready \/ ready' = ready - 1
          BY <3>3, <4>1, <1>t DEF TypeOK
        <5>2. Cardinality(InNative) \in Nat /\ ready \in Nat
          BY InNativeFinite, FS_CardinalityType, <1>t DEF TypeOK
        <5> QED
          BY <4>3, <5>1, <5>2 DEF Safe
      <4>5. NobodyStuck'
        BY <3>1, <3>3, <4>1, <1>i, <1>t DEF NobodyStuck, Blocked, TypeOK
      <4> QED
        BY <3>2, <4>4, <4>5, <1>t DEF Safe
    <3>6. CASE pc[t] \notin {"lock", "enter", "leave"}
      BY <3>3, <3>6 DEF Unfinished
    <3> QED
      BY <3>4, <3>5, <3>6
  <2> QED
    BY <1>4, <2>1, <2>2, <2>3, <2>4, <2>5, <2>6, <2>7, <2>8, <2>9, <2>10
    DEF SerializeStep
<1> QED
  BY <1>1, <1>2, <1>3, <1>4 DEF Next

LEMMA AlwaysSafe == Spec => []Safe
  BY InitSafe, SafeStep, PTL DEF Spec

(* The variables keep their types; in particular `ready', a size_t, never    *)
(* wraps below zero, whatever threads come and go and whatever is signalled. *)
THEOREM TypeCorrect == Spec => []TypeOK
<1>1. Safe => TypeOK
  BY DEF Safe
<1> QED
  BY <1>1, AlwaysSafe, PTL

(* serialize_to_file's critical section belongs to one thread at a time.     *)
THEOREM SerializerAlone == Spec => []OneSerializer
<1>1. Safe => OneSerializer
  BY DEF Safe
<1> QED
  BY <1>1, AlwaysSafe, PTL

(* No thread is caught in lightweight_uncheckpoint's wait.                   *)
THEOREM NobodyIsStuck == Spec => []NobodyStuck
<1>1. Safe => NobodyStuck
  BY DEF Safe
<1> QED
  BY <1>1, AlwaysSafe, PTL

-----------------------------------------------------------------------------
(* The threads of the cluster are those that are not gone, and the main      *)
(* thread is one of them.                                                    *)
MainStays == Main \in live
Members ==
  /\ \A t \in Thread : t \in live <=> pc[t] # "gone"
  /\ MainStays

LEMMA MembersStep ==
  ASSUME TypeOK, Members, [Next]_vars
  PROVE  Members'
<1> USE DEF At, GoTo, guest, counts, image, Members, MainStays, TypeOK
<1>1. CASE UNCHANGED vars \/ MainReturns \/ RequestCheckpoint
  BY <1>1 DEF vars, MainReturns, RequestCheckpoint
<1>2. ASSUME NEW t \in Thread, GuestStep(t)
      PROVE  Members'
  BY <1>2 DEF GuestStep, Compute, Unlock, Spawn, ThreadExit
<1>3. ASSUME NEW t \in Thread, NativeStep(t)
      PROVE  Members'
  BY <1>3
  DEF NativeStep, EnterNative, LightweightSkip, LightweightCheckpoint,
      OwnHandle,
              NativeReturns, LightweightUncheckpoint, MayEnter
<1>4. ASSUME NEW t \in Thread, SerializeStep(t)
      PROVE  Members'
  <2>1. CASE Trap(t) \/ Sigint(t) \/ SigintAmidCounting(t)
    <3>1. pc' = [pc EXCEPT ![t] = "lock"] /\ live' = live /\ t \in live
      BY <2>1 DEF Trap, Sigint, SigintAmidCounting, BeginSerialize
    <3> QED
      BY <3>1
  <2>2. CASE Arrive(t) \/ GatewayAsksGuest(t) \/ TellGateway(t) \/ GatewayFails(t)
    BY <2>2 DEF Arrive, Completes, GatewayAsksGuest, TellGateway, GatewayFails
  <2>3. CASE WaitForOthers(t) \/ WakeSpuriously(t) \/ BeginDump(t)
    BY <2>3 DEF WaitForOthers, WakeSpuriously, BeginDump, NotAllReady
  <2>4. CASE ExitSuccess(t) \/ \E e \in Thread : DumpEnv(t, e)
    BY <2>4 DEF ExitSuccess, DumpEnv, KeepLock
  <2> QED
    BY <1>4, <2>1, <2>2, <2>3, <2>4 DEF SerializeStep
<1> QED
  BY <1>1, <1>2, <1>3, <1>4 DEF Next

LEMMA AlwaysMembers == Spec => []Members
<1>1. Init => Members
  BY ThreadAssumption DEF Init, Members, MainStays
<1>2. Safe => TypeOK
  BY DEF Safe
<1>3. TypeOK /\ Members /\ [Next]_vars => Members'
  BY MembersStep
<1> QED
  BY <1>1, <1>2, <1>3, AlwaysSafe, PTL DEF Spec

(* A thread that comes out of a native call while the image is being written *)
(* stays out of the guest, because the writer of the image holds as_mtx.     *)
THEOREM NoReturn == Spec => NoReturnDuringDump
<1>1. Safe /\ Members /\ [Next]_vars
        => [Dumping => \A t \in Thread : pc[t] = "leave" => pc'[t] # "wasm"]_vars
  <2> SUFFICES ASSUME TypeOK, OneSerializer, Members, Next,
                      NEW d \in Thread, pc[d] = "dump",
                      NEW u \in Thread, pc[u] = "leave"
               PROVE  pc'[u] # "wasm"
    BY DEF Safe, Dumping
  <2>1. as_mtx # NoThread
    BY ThreadAssumption DEF OneSerializer, Arriving
  <2>2. CASE MainReturns \/ RequestCheckpoint
    BY <2>2 DEF MainReturns, RequestCheckpoint
  <2>3. ASSUME NEW t \in Thread, GuestStep(t)
        PROVE  pc'[u] # "wasm"
    BY <2>3
    DEF GuestStep, Compute, Unlock, Spawn, ThreadExit, At, GoTo, Members,
        TypeOK
  <2>4. ASSUME NEW t \in Thread, NativeStep(t)
        PROVE  pc'[u] # "wasm"
    BY <2>4, <2>1
    DEF NativeStep, EnterNative, LightweightSkip, LightweightCheckpoint,
        OwnHandle,
        NativeReturns, LightweightUncheckpoint, MayEnter, At, GoTo, TypeOK
  <2>5. ASSUME NEW t \in Thread, SerializeStep(t)
        PROVE  pc'[u] # "wasm"
    <3>1. \/ pc' = pc
          \/ \E place \in {"lock", "gateway", "asking", "decide", "dump", "parked"} :
               pc' = [pc EXCEPT ![t] = place]
      BY <2>5
      DEF SerializeStep, Trap, Sigint, SigintAmidCounting, BeginSerialize,
          ListLength, Arrive, GatewayAsksGuest, TellGateway,
          GatewayFails, WaitForOthers, WakeSpuriously, BeginDump, NotAllReady,
          DumpEnv, KeepLock,
          ExitSuccess, GoTo
    <3> QED
      BY <3>1 DEF TypeOK
  <2> QED
    BY <2>2, <2>3, <2>4, <2>5 DEF Next
<1> QED
  BY <1>1, AlwaysSafe, AlwaysMembers, PTL DEF Spec, NoReturnDuringDump

-----------------------------------------------------------------------------
LEMMA InitCountersAgree == Init => CountersAgree
<1> SUFFICES ASSUME Init PROVE CountersAgree
  OBVIOUS
<1>1. ready = 0 /\ \A t \in Thread : lwcp_list[t] = 0
  BY DEF Init
<1>2. SumFunctionOnSet(lwcp_list, Thread) = 0
  BY <1>1, SumZero, ThreadAssumption
<1> QED
  BY <1>1, <1>2 DEF CountersAgree

(* A thread that waits for the as_mtx it holds does so for good.             *)
LEMMA LockedForever ==
  ASSUME Safe, Members, [Next]_vars, NEW t \in Thread, SelfLocked(t)
  PROVE  SelfLocked(t)'
<1> USE DEF At, GoTo, guest, counts, image
<1>t. /\ TypeOK /\ pc[t] = "lock" /\ as_mtx = t /\ as_mtx # NoThread
      /\ \A u \in Thread : pc[u] \in Arriving => u = t
  BY ThreadAssumption DEF Safe, SelfLocked, OneSerializer
<1>k. ASSUME pc'[t] = "lock", as_mtx' = as_mtx
      PROVE  SelfLocked(t)'
  BY <1>k, <1>t DEF SelfLocked
<1>1. CASE UNCHANGED vars \/ MainReturns \/ RequestCheckpoint
  BY <1>1, <1>k, <1>t DEF vars, MainReturns, RequestCheckpoint
<1>2. ASSUME NEW u \in Thread, GuestStep(u)
      PROVE  SelfLocked(t)'
  BY <1>2, <1>k, <1>t
  DEF GuestStep, Compute, Unlock, Spawn, ThreadExit, Members, TypeOK
<1>3. ASSUME NEW u \in Thread, NativeStep(u)
      PROVE  SelfLocked(t)'
  BY <1>3, <1>k, <1>t
  DEF NativeStep, EnterNative, LightweightSkip, LightweightCheckpoint,
      NativeReturns, LightweightUncheckpoint, MayEnter, TypeOK
<1>4. ASSUME NEW u \in Thread, SerializeStep(u)
      PROVE  SelfLocked(t)'
  <2>1. CASE Trap(u) \/ Sigint(u)
    BY <2>1, <1>k, <1>t DEF Trap, Sigint, BeginSerialize, TypeOK
  <2>2. CASE SigintAmidCounting(u) \/ Arrive(u) \/ WakeSpuriously(u)
    BY <2>2, <1>t DEF SigintAmidCounting, Arrive, WakeSpuriously
  <2>3. CASE \/ GatewayAsksGuest(u) \/ TellGateway(u) \/ GatewayFails(u)
             \/ WaitForOthers(u) \/ BeginDump(u) \/ ExitSuccess(u)
             \/ \E e \in Thread : DumpEnv(u, e)
    <3>1. pc[u] \in Arriving
      BY <2>3
      DEF GatewayAsksGuest, TellGateway, GatewayFails, WaitForOthers,
          BeginDump, ExitSuccess, DumpEnv, Arriving
    <3> QED
      BY <3>1, <1>t DEF Arriving
  <2> QED
    BY <1>4, <2>1, <2>2, <2>3 DEF SerializeStep
<1> QED
  BY <1>1, <1>2, <1>3, <1>4 DEF Next

(* Only lightweight_checkpoint, lightweight_uncheckpoint and the arrival in  *)
(* serialize_to_file touch a counter, and each touches both, unless a signal *)
(* catches the thread in between.                                            *)
LEMMA CountersStep ==
  Safe /\ Members /\ CountersAgree /\ [Next]_vars => CountersAgree'
<1> SUFFICES ASSUME Safe, Members, CountersAgree, [Next]_vars,
                    \A t \in Thread : ~SelfLocked(t)'
             PROVE  CountersAgree'
  BY DEF CountersAgree
<1>a. ready = SumFunctionOnSet(lwcp_list, Thread)
  BY LockedForever DEF CountersAgree
<1>t. /\ lwcp_list \in [Thread -> Nat] /\ lwcp_list \in [Thread -> Int]
      /\ ready \in Nat /\ IsFiniteSet(Thread)
  BY ThreadAssumption DEF Safe, TypeOK
<1>c. ASSUME UNCHANGED counts
      PROVE  CountersAgree'
  BY <1>a, <1>c DEF CountersAgree, counts
<1>n. ASSUME NEW h \in Thread, Count(h)
      PROVE  CountersAgree'
  <2>1. ready' = ready + 1 /\ lwcp_list' = [lwcp_list EXCEPT ![h] = @ + 1]
    BY <1>n DEF Count
  <2>2. \A x \in Thread : /\ lwcp_list[x] \in Int
                          /\ lwcp_list'[x] = IF x = h THEN lwcp_list[x] + 1
                                                       ELSE lwcp_list[x]
    BY <1>t, <2>1
  <2>3. SumFunctionOnSet(lwcp_list', Thread) = SumFunctionOnSet(lwcp_list, Thread) + 1
    <3> DEFINE f == lwcp_list
               g == lwcp_list'
    <3>1. /\ IsFiniteSet(Thread) /\ 1 \in Int /\ h \in Thread
          /\ \A x \in Thread : f[x] \in Int
          /\ \A x \in Thread : g[x] = IF x = h THEN f[x] + 1 ELSE f[x]
      BY <1>t, <2>2
    <3> HIDE DEF f, g
    <3>2. SumFunctionOnSet(g, Thread) = SumFunctionOnSet(f, Thread) + 1
      BY <3>1, SumChange
    <3> QED BY <3>2 DEF f, g
  <2> QED
    BY <1>a, <2>1, <2>3 DEF CountersAgree
<1>1. CASE MainReturns
  BY <1>1, <1>c DEF MainReturns, counts
<1>2. CASE RequestCheckpoint
  BY <1>2, <1>c DEF RequestCheckpoint
<1>3. ASSUME NEW t \in Thread, GuestStep(t)
      PROVE  CountersAgree'
  BY <1>3, <1>c DEF GuestStep, Compute, Unlock, ThreadExit, Spawn
<1>4. ASSUME NEW t \in Thread, NativeStep(t)
      PROVE  CountersAgree'
  <2>1. CASE LightweightCheckpoint(t)
    BY <1>n, <2>1 DEF LightweightCheckpoint, OwnHandle
  <2>2. CASE LightweightUncheckpoint(t)
    <3>1. CASE lwcp_list[t] = 0
      BY <1>c, <2>2, <3>1 DEF LightweightUncheckpoint
    <3>2. CASE lwcp_list[t] # 0
      <4>1. ready' = ready - 1 /\ lwcp_list' = [lwcp_list EXCEPT ![t] = @ - 1]
        BY <2>2, <3>2 DEF LightweightUncheckpoint
      <4>2. \A x \in Thread : /\ lwcp_list[x] \in Int
                              /\ lwcp_list'[x] = IF x = t THEN lwcp_list[x] + (-1)
                                                           ELSE lwcp_list[x]
        BY <1>t, <4>1
      <4>3. SumFunctionOnSet(lwcp_list', Thread)
              = SumFunctionOnSet(lwcp_list, Thread) + (-1)
        <5>1. -1 \in Int
          OBVIOUS
        <5> DEFINE d == -1
        <5>2. d \in Int /\ \A x \in Thread :
                lwcp_list[x] \in Int /\ lwcp_list'[x] = IF x = t THEN lwcp_list[x] + d
                                                                 ELSE lwcp_list[x]
          BY <4>2, <5>1
        <5> HIDE DEF d
        <5>3. SumFunctionOnSet(lwcp_list', Thread) = SumFunctionOnSet(lwcp_list, Thread) + d
          BY <1>t, <5>2, SumChange
        <5> QED
          BY <5>3 DEF d
      <4>4. SumFunctionOnSet(lwcp_list, Thread) = ready
        BY <1>a
      <4>5. ready' = ready + (-1)
        BY <1>t, <4>1
      <4> QED
        BY <4>3, <4>4, <4>5 DEF CountersAgree
    <3> QED
      BY <3>1, <3>2
  <2>3. CASE EnterNative(t) \/ LightweightSkip(t) \/ NativeReturns(t)
    BY <1>c, <2>3 DEF EnterNative, LightweightSkip, NativeReturns
  <2> QED
    BY <1>4, <2>1, <2>2, <2>3 DEF NativeStep
<1>5. ASSUME NEW t \in Thread, SerializeStep(t)
      PROVE  CountersAgree'
  <2>1. CASE Arrive(t)
    BY <1>n, <2>1, ThreadAssumption DEF Arrive, Instance
  <2>2. CASE SigintAmidCounting(t)
    <3>1. SelfLocked(t)'
      BY <2>2
      DEF SigintAmidCounting, BeginSerialize, SelfLocked, GoTo, Safe, TypeOK
    <3> QED
      BY <3>1
  <2> QED
    BY <1>5, <1>c, <2>1, <2>2
    DEF SerializeStep, Trap, Sigint, GatewayAsksGuest, TellGateway,
        GatewayFails, WaitForOthers, WakeSpuriously, BeginDump, DumpEnv,
        ExitSuccess, counts
<1> QED
  BY <1>1, <1>2, <1>3, <1>4, <1>5, <1>c DEF Next, vars, counts

(* `ready' is the sum of the threads' counters: no spawned or finished       *)
(* thread and no failing gateway makes them differ, and no signal either     *)
(* unless it keeps a thread from counting and as_mtx from everyone.          *)
THEOREM CountsAgree == Spec => []CountersAgree
  BY AlwaysSafe, AlwaysMembers, InitCountersAgree, CountersStep, PTL DEF Spec

-----------------------------------------------------------------------------
(***************************************************************************)
(* The rest is about a guest that keeps its threads, is signalled once,    *)
(* and runs on condition variables that do not wake up by themselves.      *)
(***************************************************************************)
Calm == ~DynamicThreads /\ ~RepeatSigint /\ ~SpuriousWakeups

(* The threads `ready' has counted. *)
Counted == {t \in Thread : pc[t] \in Blocked \cup Arriving \cup {"parked"}}

(* `ready' counts each of them once, and the number it is compared with is   *)
(* the number of threads there are.                                          *)
Gathering ==
  /\ interrupted = {}
  /\ ready = Cardinality(Counted)
  /\ \A t \in Thread : pc[t] \in {"lock", "parked"} \cup Arriving =>
       checkpoint /\ all_count[t] = Cardinality(live)

LEMMA CountedFinite == IsFiniteSet(Counted) /\ IsFiniteSet(Counted')
<1>1. Counted \subseteq Thread /\ Counted' \subseteq Thread
  BY DEF Counted
<1> QED
  BY <1>1, ThreadAssumption, FS_Subset

(* A thread that joins the counted ones is counted, one that leaves is not.  *)
LEMMA CountOne ==
  ASSUME TypeOK, Gathering, NEW t \in Thread
  PROVE  /\ t \notin Counted /\ Counted' = Counted \cup {t} /\ ready' = ready + 1
              => ready' = Cardinality(Counted')
         /\ t \in Counted /\ Counted' = Counted \ {t} /\ ready' = ready - 1
              => ready' = Cardinality(Counted')
         /\ Counted' = Counted /\ ready' = ready
              => ready' = Cardinality(Counted')
  BY CountedFinite, FS_AddElement, FS_RemoveElement DEF Gathering

LEMMA GatheringStep ==
  ASSUME Calm, Safe, Members, Gathering, [Next]_vars
  PROVE  Gathering'
<1> USE DEF At, GoTo, guest, counts, image
<1>t. TypeOK
  BY DEF Safe
<1>s. ASSUME UNCHANGED <<pc, live, interrupted, all_count, ready>>,
             checkpoint' = checkpoint \/ checkpoint' = TRUE
      PROVE  Gathering'
  <2>1. Counted' = Counted
    BY <1>s DEF Counted
  <2> QED
    BY <1>s, <2>1 DEF Gathering
<1>1. CASE UNCHANGED vars
  BY <1>1, <1>s DEF vars
<1>m. CASE MainReturns
  BY <1>m, <1>s DEF MainReturns
<1>r. CASE RequestCheckpoint
  BY <1>r, <1>s DEF RequestCheckpoint
<1>2. ASSUME NEW t \in Thread, GuestStep(t)
      PROVE  Gathering'
  <2>1. CASE Compute(t) \/ Unlock(t)
    <3>1. UNCHANGED <<pc, live, interrupted, all_count, ready, checkpoint>>
      BY <2>1 DEF Compute, Unlock
    <3> QED
      BY <3>1, <1>s
  <2>2. CASE ThreadExit(t) \/ \E child \in Thread : Spawn(t, child)
    <3>1. ~checkpoint
      BY <2>2 DEF ThreadExit, Spawn, MayChangeThreads, Calm
    <3>2. \A u \in Thread : pc[u] \notin {"lock", "parked"} \cup Arriving
      BY <3>1 DEF Gathering
    <3>3. PICK c \in Thread : /\ pc' = [pc EXCEPT ![c] = "gone"] \/ pc' = [pc EXCEPT ![c] = "wasm"]
                              /\ pc[c] \in {"gone", "wasm"}
      BY <2>2, <1>t DEF ThreadExit, Spawn, Members
    <3>4. Counted' = Counted
      BY <3>3, <1>t DEF Counted, Blocked, Arriving, TypeOK
    <3>5. \A u \in Thread : pc'[u] \notin {"lock", "parked"} \cup Arriving
      BY <3>2, <3>3, <1>t DEF TypeOK, Arriving
    <3>6. ready' = ready /\ interrupted' = interrupted
      BY <2>2 DEF ThreadExit, Spawn
    <3> QED
      BY <3>4, <3>5, <3>6 DEF Gathering
  <2> QED
    BY <1>2, <2>1, <2>2 DEF GuestStep
<1>3. ASSUME NEW t \in Thread, NativeStep(t)
      PROVE  Gathering'
  <2>1. /\ UNCHANGED <<live, interrupted, all_count, checkpoint>>
        /\ pc'[t] \notin {"lock", "parked"} \cup Arriving
        /\ \A u \in Thread : u # t => pc'[u] = pc[u]
    BY <1>3, <1>t
    DEF NativeStep, EnterNative, LightweightSkip, LightweightCheckpoint,
        OwnHandle,
        NativeReturns, LightweightUncheckpoint, MayEnter, TypeOK, Arriving
  <2>2. \A u \in Thread : pc'[u] \in {"lock", "parked"} \cup Arriving =>
           checkpoint' /\ all_count'[u] = Cardinality(live')
    BY <2>1 DEF Gathering
  <2>3. CASE EnterNative(t) \/ LightweightSkip(t) \/ NativeReturns(t)
    <3>1. Counted' = Counted /\ ready' = ready
      BY <2>3, <1>t
      DEF EnterNative, LightweightSkip, NativeReturns, Counted, Blocked,
          Arriving, TypeOK
    <3> QED
      BY <3>1, <2>1, <2>2, <1>t, CountOne DEF Gathering
  <2>4. CASE LightweightCheckpoint(t)
    <3>1. t \notin Counted /\ Counted' = Counted \cup {t} /\ ready' = ready + 1
      BY <2>4, <1>t
      DEF LightweightCheckpoint, OwnHandle, Count, Counted, Blocked, Arriving,
          TypeOK
    <3> QED
      BY <3>1, <2>1, <2>2, <1>t, CountOne DEF Gathering
  <2>5. CASE LightweightUncheckpoint(t)
    <3>1. lwcp_list[t] # 0
      BY <2>5, <1>t
      DEF LightweightUncheckpoint, MayEnter, Safe, NobodyStuck, Blocked, TypeOK
    <3>2. t \in Counted /\ Counted' = Counted \ {t} /\ ready' = ready - 1
      BY <2>5, <3>1, <1>t
      DEF LightweightUncheckpoint, MayEnter, Counted, Blocked, Arriving, TypeOK
    <3> QED
      BY <3>2, <2>1, <2>2, <1>t, CountOne DEF Gathering
  <2> QED
    BY <1>3, <2>3, <2>4, <2>5 DEF NativeStep
<1>4. ASSUME NEW t \in Thread, SerializeStep(t)
      PROVE  Gathering'
  <2>1. CASE Trap(t)
    <3>1. Counted' = Counted
      BY <2>1, <1>t
      DEF Trap, BeginSerialize, ListLength, Counted, Blocked, Arriving, TypeOK
    <3>2. \A u \in Thread : pc'[u] \in {"lock", "parked"} \cup Arriving =>
             checkpoint' /\ all_count'[u] = Cardinality(live')
      BY <2>1, <1>t DEF Trap, BeginSerialize, ListLength, Gathering, TypeOK
    <3> QED
      BY <2>1, <3>1, <3>2, <1>t, CountOne DEF Trap, Gathering
  <2>2. CASE Arrive(t)
    <3>1. t \notin Counted /\ Counted' = Counted \cup {t} /\ ready' = ready + 1
      BY <2>2, <1>t
      DEF Arrive, Completes, Count, Counted, Blocked, Arriving, TypeOK
    <3>2. \A u \in Thread : pc'[u] \in {"lock", "parked"} \cup Arriving =>
             checkpoint' /\ all_count'[u] = Cardinality(live')
      BY <2>2, <1>t DEF Arrive, Completes, Gathering, TypeOK
    <3> QED
      BY <2>2, <3>1, <3>2, <1>t, CountOne DEF Arrive, Completes, Gathering
  <2>3. CASE \/ (GatewayAsksGuest(t) /\ pc' # pc) \/ TellGateway(t)
             \/ WaitForOthers(t) \/ BeginDump(t)
    <3>1. PICK place \in {"asking", "decide", "parked", "dump"} :
            pc' = [pc EXCEPT ![t] = place]
      BY <2>3
      DEF GatewayAsksGuest, TellGateway, WaitForOthers, BeginDump, NotAllReady
    <3>2. /\ UNCHANGED <<live, interrupted, all_count, ready, checkpoint>>
          /\ pc[t] \in Arriving
      BY <2>3
      DEF GatewayAsksGuest, TellGateway, WaitForOthers, BeginDump, NotAllReady,
          Arriving
    <3>3. Counted' = Counted
      BY <3>1, <3>2, <1>t DEF Counted, Blocked, Arriving, TypeOK
    <3>4. \A u \in Thread : pc'[u] \in {"lock", "parked"} \cup Arriving =>
             checkpoint' /\ all_count'[u] = Cardinality(live')
      BY <3>1, <3>2, <1>t DEF Gathering, TypeOK
    <3> QED
      BY <3>2, <3>3, <3>4 DEF Gathering
  <2>4. CASE \/ (GatewayAsksGuest(t) /\ pc' = pc) \/ GatewayFails(t)
             \/ ExitSuccess(t) \/ \E e \in Thread : DumpEnv(t, e)
    <3>1. UNCHANGED <<pc, live, interrupted, all_count, ready, checkpoint>>
      BY <2>4 DEF GatewayAsksGuest, GatewayFails, ExitSuccess, DumpEnv, KeepLock
    <3> QED
      BY <3>1, <1>s
  <2> QED
    BY <1>4, <2>1, <2>2, <2>3, <2>4
    DEF SerializeStep, Sigint, SigintAmidCounting, WakeSpuriously, Calm
<1> QED
  BY <1>1, <1>m, <1>r, <1>2, <1>3, <1>4 DEF Next

(* should_snapshot is raised by the arrival that completes the count, which  *)
(* then tells the gateway, dumps, and gives as_mtx back to no one.           *)
Settled ==
  /\ should_snapshot => Counted = live /\ \E t \in Thread : pc[t] \in Arriving
  /\ \A t \in Thread :
       /\ pc[t] \in {"gateway", "dump"} => should_snapshot
       /\ pc[t] = "decide" /\ ready >= all_count[t] => should_snapshot
       /\ pc[t] \in {"decide", "dump"} /\ should_snapshot /\ HasSockets
            => gateway = "suspended"
  /\ gateway = "suspended" => should_snapshot

(* Equal counts mean that everyone is counted. *)
LEMMA AllCounted ==
  ASSUME TypeOK, Members, Gathering
  PROVE  /\ Cardinality(Counted) <= Cardinality(live)
         /\ Cardinality(Counted) = Cardinality(live) => Counted = live
         /\ Cardinality(live) \in Nat
<1>1. Counted \subseteq live /\ IsFiniteSet(live)
  BY ThreadAssumption, FS_Subset
  DEF Counted, Members, TypeOK, Blocked, Arriving
<1> QED
  BY <1>1, FS_Subset, FS_CardinalityType

(* Once it is raised, as_mtx is taken and nobody is outside.                 *)
LEMMA Fenced ==
  ASSUME Safe, Members, Settled, should_snapshot
  PROVE  /\ as_mtx # NoThread
         /\ \A t \in Thread :
              pc[t] \notin {"wasm", "enter", "uncounted", "lock"}
<1>1. as_mtx # NoThread
  BY ThreadAssumption DEF Settled, Safe, OneSerializer
<1>2. \A t \in Thread : pc[t] # "gone" => t \in Counted
  BY DEF Settled, Members
<1> QED
  BY <1>1, <1>2 DEF Counted, Blocked, Arriving

LEMMA SettledStep ==
  ASSUME Calm, Safe, Safe', Members, Members', Gathering, Gathering',
         Settled, [Next]_vars
  PROVE  Settled'
<1> USE DEF At, GoTo, guest, counts, image
<1>t. TypeOK /\ TypeOK'
  BY DEF Safe
<1>f. should_snapshot =>
        /\ as_mtx # NoThread
        /\ \A t \in Thread : pc[t] \notin {"wasm", "enter", "uncounted", "lock"}
  BY Fenced
<1>s. ASSUME UNCHANGED <<pc, live, all_count, ready, should_snapshot, gateway>>
      PROVE  Settled'
  <2>1. Counted' = Counted
    BY <1>s DEF Counted
  <2> QED
    BY <1>s, <2>1 DEF Settled
(* A step of a thread outside serialize_to_file, while nothing is settled.   *)
<1>o. ASSUME NEW t \in Thread, ~should_snapshot, pc'[t] \notin Arriving,
             \A u \in Thread : u # t => pc'[u] = pc[u],
             UNCHANGED <<all_count, should_snapshot, gateway>>,
             UNCHANGED ready \/ as_mtx = NoThread
      PROVE  Settled'
  <2>1. ASSUME NEW u \in Thread
        PROVE  /\ pc'[u] \notin {"gateway", "dump"}
               /\ ~(pc'[u] = "decide" /\ ready' >= all_count'[u])
    <3>1. CASE u = t
      BY <1>o, <3>1 DEF Arriving
    <3>2. CASE u # t
      <4>1. pc'[u] = pc[u]
        BY <1>o, <3>2
      <4>2. pc[u] = "decide" => as_mtx # NoThread
        BY ThreadAssumption DEF Safe, OneSerializer, Arriving
      <4> QED
        BY <1>o, <4>1, <4>2 DEF Settled
    <3> QED
      BY <3>1, <3>2
  <2> QED
    BY <1>o, <2>1 DEF Settled
<1>1. CASE UNCHANGED vars
  BY <1>1, <1>s DEF vars
<1>m. CASE MainReturns
  BY <1>m, <1>s DEF MainReturns
<1>r. CASE RequestCheckpoint
  BY <1>r, <1>s DEF RequestCheckpoint
<1>2. ASSUME NEW t \in Thread, GuestStep(t)
      PROVE  Settled'
  <2>0. ~should_snapshot
    BY <1>2, <1>f DEF GuestStep, Compute, Unlock, ThreadExit, Spawn
  <2>1. CASE Compute(t) \/ Unlock(t)
    <3>1. UNCHANGED <<pc, live, all_count, ready, should_snapshot, gateway>>
      BY <2>1 DEF Compute, Unlock
    <3> QED
      BY <3>1, <1>s
  <2>2. CASE ThreadExit(t)
    <3>1. pc'[t] \notin Arriving /\ \A u \in Thread : u # t => pc'[u] = pc[u]
      BY <2>2, <1>t DEF ThreadExit, Arriving, TypeOK
    <3> QED
      BY <2>0, <2>2, <3>1, <1>o DEF ThreadExit
  <2>3. ASSUME NEW child \in Thread, Spawn(t, child)
        PROVE  Settled'
    <3>1. pc'[child] \notin Arriving /\ \A u \in Thread : u # child => pc'[u] = pc[u]
      BY <2>3, <1>t DEF Spawn, Arriving, TypeOK
    <3> QED
      BY <2>0, <2>3, <3>1, <1>o DEF Spawn
  <2> QED
    BY <1>2, <2>1, <2>2, <2>3 DEF GuestStep
<1>3. ASSUME NEW t \in Thread, NativeStep(t)
      PROVE  Settled'
  <2>1. /\ pc'[t] \notin Arriving /\ pc[t] \notin Arriving
        /\ \A u \in Thread : u # t => pc'[u] = pc[u]
        /\ UNCHANGED <<live, all_count, should_snapshot, gateway>>
        /\ UNCHANGED ready \/ as_mtx = NoThread
    BY <1>3, <1>t
    DEF NativeStep, EnterNative, LightweightSkip, LightweightCheckpoint,
        OwnHandle,
        NativeReturns, LightweightUncheckpoint, MayEnter, Arriving, TypeOK
  <2>2. CASE ~should_snapshot
    BY <2>1, <2>2, <1>o
  <2>3. CASE should_snapshot
    <3>1. NativeReturns(t) /\ pc[t] = "native"
      BY <1>3, <2>3, <1>f
      DEF NativeStep, EnterNative, LightweightSkip, LightweightCheckpoint,
          OwnHandle,
          NativeReturns, LightweightUncheckpoint, MayEnter
    <3>2. pc'[t] = "leave" /\ ready' = ready
      BY <3>1, <1>t DEF NativeReturns, TypeOK
    <3>3. Counted' = Counted
      BY <2>1, <3>1, <3>2 DEF Counted, Blocked, Arriving
    <3> QED
      BY <2>1, <2>3, <3>1, <3>2, <3>3 DEF Settled, Arriving
  <2> QED
    BY <2>2, <2>3
<1>4. ASSUME NEW t \in Thread, SerializeStep(t)
      PROVE  Settled'
  <2>1. CASE Trap(t)
    <3>1. /\ ~should_snapshot
          /\ UNCHANGED <<live, ready, should_snapshot, gateway>>
      BY <2>1, <1>f DEF Trap, BeginSerialize, ListLength
    <3>2. ASSUME NEW u \in Thread
          PROVE  /\ pc'[u] \notin {"gateway", "dump"}
                 /\ ~(pc'[u] = "decide" /\ ready' >= all_count'[u])
      BY <2>1, <3>1, <1>t DEF Trap, BeginSerialize, ListLength, Settled, TypeOK
    <3> QED
      BY <3>1, <3>2 DEF Settled
  <2>2. CASE Arrive(t)
    <3>1. /\ ~should_snapshot /\ as_mtx = NoThread /\ as_mtx' = t
          /\ live' = live /\ gateway' = gateway /\ all_count' = all_count
          /\ should_snapshot' = (ready' = all_count'[t])
      BY <2>2, <1>f DEF Arrive, Completes, Count
    <3>2. /\ pc'[t] = IF HasSockets /\ should_snapshot' THEN "gateway" ELSE "decide"
          /\ \A u \in Thread : u # t => pc'[u] = pc[u]
      BY <2>2, <1>t DEF Arrive, Completes, TypeOK
    <3>3. \A u \in Thread : u # t => pc'[u] \notin Arriving
      BY <3>1, <3>2, ThreadAssumption DEF Safe, OneSerializer
    <3>4. all_count'[t] = Cardinality(live') /\ ready' = Cardinality(Counted')
      BY <3>2 DEF Gathering, Arriving
    <3>5. /\ Cardinality(Counted') <= Cardinality(live')
          /\ Cardinality(Counted') = Cardinality(live') => Counted' = live'
          /\ Cardinality(live') \in Nat /\ Cardinality(Counted') \in Nat
      <4>1. Counted' \subseteq live' /\ live' \subseteq Thread
        BY <1>t DEF Counted, Members, TypeOK, Blocked, Arriving
      <4>2. IsFiniteSet(live')
        BY <4>1, ThreadAssumption, FS_Subset
      <4> HIDE DEF Counted
      <4> QED
        BY <4>1, <4>2, FS_Subset, FS_CardinalityType
    <3>6. ready' >= all_count'[t] => should_snapshot'
      <4>1. ready' >= all_count'[t] => ready' = all_count'[t]
        BY <3>4, <3>5
      <4> QED
        BY <3>1, <4>1
    <3>7. should_snapshot' => Counted' = live'
      BY <3>1, <3>4, <3>5
    <3>8. gateway' # "suspended"
      BY <3>1 DEF Settled
    <3> QED
      BY <3>2, <3>3, <3>6, <3>7, <3>8 DEF Settled, Arriving
  <2>3. CASE \/ (GatewayAsksGuest(t) /\ pc' # pc) \/ TellGateway(t)
             \/ WaitForOthers(t) \/ BeginDump(t)
    <3>1. /\ UNCHANGED <<live, ready, all_count, should_snapshot>>
          /\ pc[t] \in Arriving
          /\ \A u \in Thread : u # t => pc'[u] = pc[u] /\ pc[u] \notin Arriving
      <4>1. pc[t] \in Arriving
        BY <2>3
        DEF GatewayAsksGuest, TellGateway, WaitForOthers, BeginDump,
            NotAllReady, Arriving
      <4>2. \A u \in Thread : u # t => pc[u] \notin Arriving
        BY <4>1 DEF Safe, OneSerializer
      <4> QED
        BY <2>3, <4>1, <4>2, <1>t
        DEF GatewayAsksGuest, TellGateway, WaitForOthers, BeginDump,
            NotAllReady, TypeOK
    <3>2. CASE TellGateway(t)
      <4>1. pc'[t] = "decide" /\ gateway' = "suspended" /\ should_snapshot
        BY <3>2, <1>t DEF TellGateway, TypeOK, Settled
      <4>2. Counted' = Counted
        BY <3>1, <4>1 DEF Counted, Blocked, Arriving
      <4> QED
        BY <3>1, <4>1, <4>2 DEF Settled, Arriving
    <3>3. CASE WaitForOthers(t)
      <4>1. pc'[t] = "parked" /\ gateway' = gateway /\ ready < all_count[t]
        BY <3>3, <1>t DEF WaitForOthers, NotAllReady, TypeOK
      <4>2. all_count[t] = Cardinality(live) /\ ready = Cardinality(Counted)
        BY <3>1 DEF Gathering
      <4>3. ~should_snapshot
        BY <4>1, <4>2, <1>t DEF Settled, TypeOK
      <4> QED
        BY <3>1, <4>1, <4>3 DEF Settled, Arriving
    <3>4. CASE BeginDump(t)
      <4>1. pc'[t] = "dump" /\ gateway' = gateway /\ should_snapshot
        BY <3>4, <1>t DEF BeginDump, NotAllReady, TypeOK, Settled
      <4>2. Counted' = Counted
        BY <3>1, <4>1 DEF Counted, Blocked, Arriving
      <4>3. HasSockets => gateway = "suspended"
        BY <3>4, <4>1 DEF BeginDump, NotAllReady, Settled
      <4> QED
        BY <3>1, <4>1, <4>2, <4>3 DEF Settled, Arriving
    <3>5. CASE GatewayAsksGuest(t) /\ pc' # pc
      <4>1. pc'[t] = "asking" /\ gateway' = gateway /\ should_snapshot
        BY <3>5, <1>t DEF GatewayAsksGuest, TypeOK, Settled
      <4>2. Counted' = Counted
        BY <3>1, <4>1 DEF Counted, Blocked, Arriving
      <4> QED
        BY <3>1, <4>1, <4>2 DEF Settled, Arriving
    <3> QED
      BY <2>3, <3>2, <3>3, <3>4, <3>5
  <2>4. CASE \/ (GatewayAsksGuest(t) /\ pc' = pc) \/ GatewayFails(t)
             \/ ExitSuccess(t) \/ \E e \in Thread : DumpEnv(t, e)
    <3>1. UNCHANGED <<pc, live, all_count, ready, should_snapshot, gateway>>
      BY <2>4 DEF GatewayAsksGuest, GatewayFails, ExitSuccess, DumpEnv, KeepLock
    <3> QED
      BY <3>1, <1>s
  <2> QED
    BY <1>4, <2>1, <2>2, <2>3, <2>4
    DEF SerializeStep, Sigint, SigintAmidCounting, WakeSpuriously, Calm
<1> QED
  BY <1>1, <1>m, <1>r, <1>2, <1>3, <1>4 DEF Next

(* The image that is being written is that of a guest that stands still.     *)
Imaged ==
  /\ \A t \in Thread : as[t] # NotDumped => should_snapshot /\ as[t] = work[t]
  /\ as[Main] # NotDumped => as_memory = work

LEMMA ImagedStep ==
  ASSUME Safe, Members, Settled, Imaged, [Next]_vars
  PROVE  Imaged'
<1> USE DEF At, GoTo, guest, counts, image
<1>t. TypeOK
  BY DEF Safe
<1>f. should_snapshot =>
        \A t \in Thread : pc[t] \notin {"wasm", "enter", "uncounted", "lock"}
  BY Fenced
<1>s. ASSUME UNCHANGED <<as, as_memory, work, should_snapshot>>
      PROVE  Imaged'
  BY <1>s DEF Imaged
<1>1. CASE UNCHANGED vars \/ MainReturns \/ RequestCheckpoint
  <2>1. UNCHANGED <<as, as_memory, work, should_snapshot>>
    BY <1>1 DEF vars, MainReturns, RequestCheckpoint
  <2> QED
    BY <2>1, <1>s
<1>2. ASSUME NEW t \in Thread, GuestStep(t)
      PROVE  Imaged'
  <2>1. CASE Compute(t)
    <3>1. ~should_snapshot
      BY <2>1, <1>f DEF Compute
    <3>2. \A u \in Thread : as[u] = NotDumped
      BY <3>1 DEF Imaged
    <3> QED
      BY <2>1, <3>2, ThreadAssumption DEF Compute, Imaged
  <2>2. CASE Unlock(t) \/ ThreadExit(t) \/ \E child \in Thread : Spawn(t, child)
    <3>1. UNCHANGED <<as, as_memory, work, should_snapshot>>
      BY <2>2 DEF Unlock, ThreadExit, Spawn
    <3> QED
      BY <3>1, <1>s
  <2> QED
    BY <1>2, <2>1, <2>2 DEF GuestStep
<1>3. ASSUME NEW t \in Thread, NativeStep(t)
      PROVE  Imaged'
  <2>1. UNCHANGED <<as, as_memory, work, should_snapshot>>
    BY <1>3
    DEF NativeStep, EnterNative, LightweightSkip, LightweightCheckpoint,
        OwnHandle,
        NativeReturns, LightweightUncheckpoint, MayEnter
  <2> QED
    BY <2>1, <1>s
<1>4. ASSUME NEW t \in Thread, SerializeStep(t)
      PROVE  Imaged'
  <2>1. CASE \/ Trap(t) \/ Sigint(t) \/ SigintAmidCounting(t)
             \/ GatewayAsksGuest(t) \/ TellGateway(t) \/ GatewayFails(t)
    <3>1. UNCHANGED <<as, as_memory, work, should_snapshot>>
      BY <2>1
      DEF Trap, Sigint, SigintAmidCounting, GatewayAsksGuest, TellGateway,
          GatewayFails
    <3> QED
      BY <3>1, <1>s
  <2>4. CASE Arrive(t)
    <3>1. ~should_snapshot /\ UNCHANGED <<as, as_memory, work>>
      BY <2>4, <1>f DEF Arrive, Completes
    <3>2. \A u \in Thread : as[u] = NotDumped
      BY <3>1 DEF Imaged
    <3> QED
      BY <3>1, <3>2, ThreadAssumption DEF Imaged
  <2>2. CASE \/ WaitForOthers(t) \/ WakeSpuriously(t) \/ BeginDump(t)
             \/ ExitSuccess(t)
    <3>1. UNCHANGED <<as, as_memory, work, should_snapshot>>
      BY <2>2
      DEF WaitForOthers, WakeSpuriously, BeginDump, NotAllReady, ExitSuccess
    <3> QED
      BY <3>1, <1>s
  <2>3. ASSUME NEW e \in Thread, DumpEnv(t, e)
        PROVE  Imaged'
    <3>1. should_snapshot /\ should_snapshot' = should_snapshot /\ work' = work
      BY <2>3 DEF DumpEnv, KeepLock, Settled
    <3>2. as' = [as EXCEPT ![e] = work[e]]
      BY <2>3 DEF DumpEnv, KeepLock
    <3>3. as[e] = NotDumped
      BY <2>3 DEF DumpEnv, KeepLock
    <3>4. \A u \in Thread : as'[u] # NotDumped => as'[u] = work[u]
      BY <3>2, <1>t DEF Imaged, TypeOK
    <3>5. as'[Main] # NotDumped => as_memory' = work
      BY <2>3, <3>2, <3>3, <1>t, ThreadAssumption
      DEF DumpEnv, KeepLock, Imaged, TypeOK
    <3> QED
      BY <3>1, <3>4, <3>5 DEF Imaged
  <2> QED
    BY <1>4, <2>1, <2>4, <2>2, <2>3 DEF SerializeStep
<1> QED
  BY <1>1, <1>2, <1>3, <1>4 DEF Next

(* The inductive invariant of a calm guest. *)
Inv == Safe /\ Members /\ Gathering /\ Settled /\ Imaged

LEMMA InitInv == Init => Inv
<1> SUFFICES ASSUME Init PROVE Inv
  OBVIOUS
<1>1. Safe
  BY InitSafe
<1>2. Members
  BY ThreadAssumption DEF Init, Members, MainStays
<1>3. Counted = {}
  BY DEF Init, Counted, Blocked, Arriving
<1>4. Gathering
  BY <1>3, FS_EmptySet DEF Init, Gathering, Arriving
<1>5. Settled
  BY DEF Init, Settled
<1>6. Imaged
  BY ThreadAssumption DEF Init, Imaged
<1> QED
  BY <1>1, <1>2, <1>4, <1>5, <1>6 DEF Inv

LEMMA AlwaysInv == ASSUME Calm PROVE Spec => []Inv
<1>1. Inv /\ [Next]_vars => Inv'
  <2> SUFFICES ASSUME Inv, [Next]_vars PROVE Inv'
    OBVIOUS
  <2>1. Safe /\ Members /\ Gathering /\ Settled /\ Imaged /\ TypeOK
    BY DEF Inv, Safe
  <2>2. Safe' /\ Members' /\ Gathering'
    BY <2>1, SafeStep, MembersStep, GatheringStep
  <2>3. Settled' /\ Imaged'
    BY <2>1, <2>2, SettledStep, ImagedStep
  <2> QED
    BY <2>2, <2>3 DEF Inv
<1> QED
  BY <1>1, InitInv, PTL DEF Spec

(* Nothing of the guest runs while it is dumped.                             *)
THEOREM DumpIsQuiescent == ASSUME Calm PROVE Spec => []Quiescence
<1>1. Inv => Quiescence
  <2> SUFFICES ASSUME Inv, NEW d \in Thread, pc[d] = "dump",
                      NEW t \in live, t # d
               PROVE  AtRest(t)
    BY DEF Quiescence
  <2>1. t \in Counted
    BY DEF Inv, Settled
  <2>2. pc[t] \notin Arriving /\ t \in Thread
    BY <2>1 DEF Inv, Safe, OneSerializer, Counted, Arriving
  <2> QED
    BY <2>1, <2>2 DEF Counted, AtRest, Inv, Gathering
<1> QED
  BY <1>1, AlwaysInv, PTL

(* The gateway suspends the connections only when every thread but the one   *)
(* that tells it is at rest.                                                 *)
THEOREM SuspendedAtRest == ASSUME Calm PROVE Spec => []SuspendOnlyAtRest
<1>1. Inv => SuspendOnlyAtRest
  BY DEF Inv, SuspendOnlyAtRest, Settled, Counted, Safe, OneSerializer,
         AtRest, Gathering
<1> QED
  BY <1>1, AlwaysInv, PTL

(* The gateway is told of every dump of a guest with sockets.                *)
THEOREM GatewayTold == ASSUME Calm PROVE Spec => []GatewayKnows
<1>1. Inv => GatewayKnows
  BY DEF Inv, GatewayKnows, Settled, Dumping
<1> QED
  BY <1>1, AlwaysInv, PTL

-----------------------------------------------------------------------------
(* While the process runs, a step that leaves it running changes at most the *)
(* set of threads and one thread's work.                                     *)
LEMMA OtherSteps ==
  ASSUME process = "running", process' = "running", UNCHANGED <<live, work>>
  PROVE  UNCHANGED Atomic!vars
BY DEF Atomic!vars

LEMMA StepRefines ==
  ASSUME Inv, Inv', [Next]_vars
  PROVE  [Atomic!Next]_Atomic!vars
<1> USE DEF At, guest, image
<1>t. TypeOK /\ TypeOK'
  BY DEF Inv, Safe
<1>1. CASE UNCHANGED vars
  BY <1>1 DEF vars, Atomic!vars
<1>2. CASE MainReturns
  <2>1. Atomic!EndWithout
    BY <1>2 DEF MainReturns, Atomic!EndWithout
  <2> QED
    BY <2>1 DEF Atomic!Next
<1>3. CASE RequestCheckpoint
  BY <1>3, OtherSteps DEF RequestCheckpoint
<1>4. ASSUME NEW t \in Thread, GuestStep(t)
      PROVE  [Atomic!Next]_Atomic!vars
  <2>1. CASE Compute(t)
    <3>1. t \in live
      BY <2>1 DEF Compute, Inv, Members
    <3>2. Atomic!Run(t)
      BY <2>1, <3>1 DEF Compute, Atomic!Run
    <3> QED
      BY <3>2 DEF Atomic!Next
  <2>2. CASE Unlock(t)
    BY <2>2, OtherSteps DEF Unlock
  <2>3. CASE ThreadExit(t) \/ \E child \in Thread : Spawn(t, child)
    <3>1. process = "running" /\ process' = process /\ work' = work
      BY <2>3 DEF ThreadExit, Spawn
    <3>2. live' \in SUBSET Thread
      BY <1>t DEF TypeOK
    <3>3. Atomic!ChangeThreads
      BY <3>1, <3>2 DEF Atomic!ChangeThreads
    <3> QED
      BY <3>3 DEF Atomic!Next
  <2> QED
    BY <1>4, <2>1, <2>2, <2>3 DEF GuestStep
<1>5. ASSUME NEW t \in Thread, NativeStep(t)
      PROVE  [Atomic!Next]_Atomic!vars
  <2>1. process = "running" /\ process' = process /\ UNCHANGED <<live, work>>
    BY <1>5
    DEF NativeStep, EnterNative, LightweightSkip, LightweightCheckpoint,
        OwnHandle,
        NativeReturns, LightweightUncheckpoint, MayEnter
  <2> QED
    BY <2>1, OtherSteps
<1>6. ASSUME NEW t \in Thread, SerializeStep(t)
      PROVE  [Atomic!Next]_Atomic!vars
  <2>1. CASE GatewayFails(t)
    <3>1. Atomic!EndWithout
      BY <2>1 DEF GatewayFails, Atomic!EndWithout
    <3> QED
      BY <3>1 DEF Atomic!Next
  <2>2. CASE ExitSuccess(t)
    <3>1. /\ process = "running" /\ process' = "exited"
          /\ UNCHANGED <<live, work, as, as_memory>>
      BY <2>2 DEF ExitSuccess
    <3>2. Main \in live /\ live \subseteq Thread
      BY <1>t DEF Inv, Members, MainStays, TypeOK
    <3>3. \A u \in live : as[u] = work[u]
      BY <2>2, <3>2 DEF ExitSuccess, Inv, Imaged
    <3>4. as_memory = work
      BY <2>2, <3>2 DEF ExitSuccess, Inv, Imaged
    <3>5. [u \in live |-> as[u]] = [u \in live |-> work[u]]
      BY <3>3
    <3>6. Atomic!Snapshot
      BY <3>1, <3>4, <3>5 DEF Atomic!Snapshot
    <3> QED
      BY <3>6 DEF Atomic!Next
  <2>3. CASE \/ Trap(t) \/ Sigint(t) \/ SigintAmidCounting(t) \/ Arrive(t)
             \/ TellGateway(t) \/ WaitForOthers(t) \/ WakeSpuriously(t)
             \/ BeginDump(t) \/ \E e \in Thread : DumpEnv(t, e)
    <3>1. process = "running" /\ process' = process /\ UNCHANGED <<live, work>>
      BY <2>3
      DEF Trap, Sigint, SigintAmidCounting, Arrive, TellGateway,
          WaitForOthers, NotAllReady, WakeSpuriously, BeginDump, DumpEnv,
          KeepLock
    <3> QED
      BY <3>1, OtherSteps
  <2>4. CASE GatewayAsksGuest(t)
    <3>1. CASE process' = "failed"
      <4>1. Atomic!EndWithout
        BY <2>4, <3>1 DEF GatewayAsksGuest, Atomic!EndWithout
      <4> QED
        BY <4>1 DEF Atomic!Next
    <3>2. CASE process' = process
      <4>1. process = "running" /\ UNCHANGED <<live, work>>
        BY <2>4 DEF GatewayAsksGuest
      <4> QED
        BY <3>2, <4>1, OtherSteps
    <3> QED
      BY <2>4, <3>1, <3>2 DEF GatewayAsksGuest
  <2> QED
    BY <1>6, <2>1, <2>2, <2>3, <2>4 DEF SerializeStep
<1> QED
  BY <1>1, <1>2, <1>3, <1>4, <1>5, <1>6 DEF Next

(* The protocol of traps, counts and native calls takes a snapshot that is   *)
(* indistinguishable from one taken in a single step.                        *)
THEOREM SnapshotIsAtomic == ASSUME Calm PROVE Spec => TakesAtomicSnapshot
<1>1. Init => Atomic!Init
  BY ThreadAssumption DEF Init, Atomic!Init
<1>2. Inv /\ Inv' /\ [Next]_vars => [Atomic!Next]_Atomic!vars
  BY StepRefines
<1> QED
  BY <1>1, <1>2, AlwaysInv, PTL DEF Spec, Atomic!Spec, TakesAtomicSnapshot
=============================================================================
