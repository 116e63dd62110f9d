------------------------- MODULE ControlStackProofs -------------------------
(***************************************************************************)
(* Proofs about ControlStack, for any set of validated functions.          *)
(*                                                                         *)
(* The first parts are about the nesting alone: what the counts are, where *)
(* the end and the else of a block are, and how the set of open blocks     *)
(* changes from an address to the next (Around).  IInv compares the        *)
(* entries of the replay with that set; Heights, which needs IInv,         *)
(* compares their heights with the sum of the effects before them, and     *)
(* HeightIsSum shows that this sum is the height the nesting calls for.    *)
(*                                                                         *)
(* All of it is about a replay that has met no label that is an opcode;    *)
(* where it meets one (Misread) the model ends.                            *)
(***************************************************************************)
EXTENDS ControlStack, BasicProofs

-----------------------------------------------------------------------------
(***************************************************************************)
(* Counting instructions.                                                  *)
(***************************************************************************)
LEMMA CountType ==
  ASSUME NEW c, NEW ops, NEW b \in Int, NEW e \in Int
  PROVE  CountIn(c, ops, b, e) \in Nat
<1>1. IsFiniteSet(b..e)
  BY FS_Interval
<1>2. {a \in b..e : c[a + 1].op \in ops} \in SUBSET (b..e)
  OBVIOUS
<1> QED
  BY <1>1, <1>2, FS_Subset, FS_CardinalityType DEF CountIn

LEMMA CountNone ==
  ASSUME NEW c, NEW ops, NEW b \in Int, NEW e \in Int, e < b
  PROVE  CountIn(c, ops, b, e) = 0
<1>1. {a \in b..e : c[a + 1].op \in ops} = {}
  OBVIOUS
<1> QED
  BY <1>1, FS_EmptySet DEF CountIn

LEMMA CountSplit ==
  ASSUME NEW c, NEW ops, NEW b \in Int, NEW m \in Int, NEW e \in Int,
         b <= m + 1, m <= e
  PROVE  CountIn(c, ops, b, e) = CountIn(c, ops, b, m) + CountIn(c, ops, m + 1, e)
<1> DEFINE S == {a \in b..m : c[a + 1].op \in ops}
           T == {a \in m + 1..e : c[a + 1].op \in ops}
<1>1. IsFiniteSet(S) /\ IsFiniteSet(T)
  <2>1. S \in SUBSET (b..m) /\ T \in SUBSET (m + 1..e)
    OBVIOUS
  <2>2. IsFiniteSet(b..m) /\ IsFiniteSet(m + 1..e)
    BY FS_Interval
  <2> HIDE DEF S, T
  <2> QED BY <2>1, <2>2, FS_Subset
<1>2. {a \in b..e : c[a + 1].op \in ops} = S \cup T
  OBVIOUS
<1>3. S \cap T = {}
  OBVIOUS
<1> HIDE DEF S, T
<1>4. Cardinality(S \cup T) = Cardinality(S) + Cardinality(T)
  <2>1. Cardinality(S \cup T) = Cardinality(S) + Cardinality(T) - Cardinality(S \cap T)
    BY <1>1, FS_Union
  <2>2. Cardinality(S \cap T) = 0
    BY <1>3, FS_EmptySet
  <2>3. Cardinality(S) \in Nat /\ Cardinality(T) \in Nat
    BY <1>1, FS_CardinalityType
  <2> QED BY <2>1, <2>2, <2>3
<1> QED
  BY <1>2, <1>4 DEF CountIn, S, T

LEMMA CountOne ==
  ASSUME NEW c, NEW ops, NEW a \in Int
  PROVE  CountIn(c, ops, a, a) = IF c[a + 1].op \in ops THEN 1 ELSE 0
<1>1. CASE c[a + 1].op \in ops
  <2>1. {x \in a..a : c[x + 1].op \in ops} = {a}
    BY <1>1
  <2> QED BY <1>1, <2>1, FS_Singleton DEF CountIn
<1>2. CASE c[a + 1].op \notin ops
  <2>1. {x \in a..a : c[x + 1].op \in ops} = {}
    BY <1>2
  <2> QED BY <1>2, <2>1, FS_EmptySet DEF CountIn
<1> QED
  BY <1>1, <1>2

-----------------------------------------------------------------------------
(***************************************************************************)
(* Nesting: the depth at an address, and what one instruction adds.        *)
(***************************************************************************)
Depth(c, a) == OpenIn(c, 0, a)

Opened(c, a) == IF c[a + 1].op \in Openers THEN 1
                ELSE IF c[a + 1].op = "end" THEN -1 ELSE 0

LEMMA DepthProperties ==
  ASSUME NEW c
  PROVE  /\ \A a \in Int : Depth(c, a) \in Int
         /\ Depth(c, -1) = 0
         /\ \A a \in Nat : Depth(c, a) = Depth(c, a - 1) + Opened(c, a)
         /\ \A b \in Nat, e \in Nat : b <= e + 1 =>
              OpenIn(c, b, e) = Depth(c, e) - Depth(c, b - 1)
<1>1. \A a \in Int : Depth(c, a) \in Int
  <2> SUFFICES ASSUME NEW a \in Int PROVE Depth(c, a) \in Int
    OBVIOUS
  <2>1. CountIn(c, Openers, 0, a) \in Nat /\ CountIn(c, {"end"}, 0, a) \in Nat
    BY CountType
  <2> QED BY <2>1 DEF Depth, OpenIn
<1>2. Depth(c, -1) = 0
  <2>1. CountIn(c, Openers, 0, -1) = 0 /\ CountIn(c, {"end"}, 0, -1) = 0
    BY CountNone
  <2> QED BY <2>1 DEF Depth, OpenIn
<1>3. ASSUME NEW b \in Nat, NEW e \in Nat, b <= e + 1
      PROVE  OpenIn(c, b, e) = Depth(c, e) - Depth(c, b - 1)
  <2>1. \A ops : CountIn(c, ops, 0, e) = CountIn(c, ops, 0, b - 1) + CountIn(c, ops, b, e)
    <3> SUFFICES ASSUME NEW ops
                 PROVE  CountIn(c, ops, 0, e) = CountIn(c, ops, 0, b - 1) + CountIn(c, ops, b, e)
      OBVIOUS
    <3> DEFINE m == b - 1
    <3>1. m \in Int /\ 0 <= m + 1 /\ m <= e /\ m + 1 = b
      BY <1>3
    <3> HIDE DEF m
    <3>2. CountIn(c, ops, 0, e) = CountIn(c, ops, 0, m) + CountIn(c, ops, m + 1, e)
      BY <3>1, CountSplit
    <3> QED BY <3>1, <3>2 DEF m
  <2>2. \A ops : CountIn(c, ops, 0, b - 1) \in Nat /\ CountIn(c, ops, b, e) \in Nat
    BY CountType
  <2>3. /\ CountIn(c, Openers, 0, e) = CountIn(c, Openers, 0, b - 1) + CountIn(c, Openers, b, e)
        /\ CountIn(c, {"end"}, 0, e) = CountIn(c, {"end"}, 0, b - 1) + CountIn(c, {"end"}, b, e)
        /\ CountIn(c, Openers, 0, b - 1) \in Nat /\ CountIn(c, Openers, b, e) \in Nat
        /\ CountIn(c, {"end"}, 0, b - 1) \in Nat /\ CountIn(c, {"end"}, b, e) \in Nat
    BY <2>1, <2>2
  <2> QED BY <2>3 DEF Depth, OpenIn
<1>4. ASSUME NEW a \in Nat
      PROVE  Depth(c, a) = Depth(c, a - 1) + Opened(c, a)
  <2>1. OpenIn(c, a, a) = Depth(c, a) - Depth(c, a - 1)
    BY <1>3
  <2>2. Depth(c, a) \in Int /\ Depth(c, a - 1) \in Int
    BY <1>1
  <2>3. OpenIn(c, a, a) = Opened(c, a) /\ Opened(c, a) \in Int
    <3>1. /\ CountIn(c, Openers, a, a) = IF c[a + 1].op \in Openers THEN 1 ELSE 0
          /\ CountIn(c, {"end"}, a, a) = IF c[a + 1].op = "end" THEN 1 ELSE 0
      BY CountOne
    <3>2. CASE c[a + 1].op \in Openers
      <4>1. c[a + 1].op # "end"
        BY <3>2 DEF Openers
      <4>2. OpenIn(c, a, a) = 1 - 0
        BY <3>1, <3>2, <4>1 DEF OpenIn
      <4> QED BY <3>2, <4>2 DEF Opened
    <3>3. CASE c[a + 1].op \notin Openers
      <4>1. OpenIn(c, a, a) = 0 - (IF c[a + 1].op = "end" THEN 1 ELSE 0)
        BY <3>1, <3>3 DEF OpenIn
      <4> QED BY <3>3, <4>1 DEF Opened
    <3> QED BY <3>2, <3>3
  <2> QED BY <2>1, <2>2, <2>3
<1> QED
  BY <1>1, <1>2, <1>3, <1>4

(* The block that opens at b closes at e.                                  *)
Closes(c, b, e) ==
  /\ e \in 0..Len(c) - 1 /\ e > b
  /\ Depth(c, e) = Depth(c, b - 1)
  /\ \A a \in b..e - 1 : Depth(c, a) > Depth(c, b - 1)

EndIn(c, b) == CHOOSE e \in 0..Len(c) - 1 :
  /\ e > b /\ OpenIn(c, b, e) = 0
  /\ \A a \in b..e - 1 : OpenIn(c, b, a) > 0

OpensBlock(c, b) == b \in 0..Len(c) - 1 /\ c[b + 1].op \in Openers

LEMMA DepthOfValid ==
  ASSUME NEW c, Valid(c)
  PROVE  /\ Len(c) \in Nat \ {0}
         /\ Depth(c, Len(c) - 1) = -1
         /\ \A a \in -1..Len(c) - 2 : Depth(c, a) >= 0
<1>1. Len(c) \in Nat \ {0}
  BY LenProperties DEF Valid, WellNested
<1>2. Depth(c, Len(c) - 1) = -1
  BY DEF Valid, WellNested, Depth
<1>3. \A a \in 0..Len(c) - 2 : Depth(c, a) >= 0
  BY <1>1 DEF Valid, WellNested, Depth
<1>4. Depth(c, -1) = 0
  BY DepthProperties
<1> QED
  BY <1>1, <1>2, <1>3, <1>4

LEMMA OpenDepth ==
  ASSUME NEW c, NEW b \in Nat, NEW e \in Nat, b <= e + 1
  PROVE  /\ OpenIn(c, b, e) = Depth(c, e) - Depth(c, b - 1)
         /\ Depth(c, e) \in Int /\ Depth(c, b - 1) \in Int
<1>1. OpenIn(c, b, e) = Depth(c, e) - Depth(c, b - 1)
  BY DepthProperties
<1>2. e \in Int /\ b - 1 \in Int
  OBVIOUS
<1> QED
  BY <1>1, <1>2, DepthProperties

(* A block that opens closes somewhere, and only there.                    *)
LEMMA BlockCloses ==
  ASSUME NEW c, Valid(c), NEW b, OpensBlock(c, b)
  PROVE  \E e : Closes(c, b, e)
<1> DEFINE L == Len(c) - 1
           T == {a \in b..L : Depth(c, a) <= Depth(c, b - 1)}
<1>1. L \in Nat /\ b \in 0..L /\ Depth(c, L) = -1
  BY DepthOfValid DEF OpensBlock
<1>2. \A a \in Int : Depth(c, a) \in Int
  BY DepthProperties
<1>3. \A a \in Nat : Depth(c, a) = Depth(c, a - 1) + Opened(c, a)
  BY DepthProperties
<1>i. b \in Nat /\ b \in Int /\ b - 1 \in Int
  BY <1>1
<1>j. Depth(c, b) \in Int /\ Depth(c, b - 1) \in Int
  BY <1>2, <1>i
<1>4. Depth(c, b) = Depth(c, b - 1) + 1
  BY <1>i, <1>3 DEF Opened, OpensBlock
<1>5. Depth(c, b - 1) >= 0
  BY <1>1, DepthOfValid
<1>6. L \in T
  BY <1>1, <1>2, <1>5
<1>7. T \in SUBSET Nat
  BY <1>1
<1>8. PICK e \in T : \A k \in T : e <= k
  <2> HIDE DEF T
  <2> QED BY <1>6, <1>7, LeastNatural
<1>9. e \in b..L /\ e # b /\ e - 1 \in b..L
  <2>1. e \in b..L /\ Depth(c, e) <= Depth(c, b - 1)
    BY <1>8
  <2>2. e # b
    BY <1>j, <1>4, <2>1
  <2> HIDE DEF L, T
  <2> QED BY <1>1, <2>1, <2>2
<1>10. \A a \in b..e - 1 : Depth(c, a) > Depth(c, b - 1)
  <2> SUFFICES ASSUME NEW a \in b..e - 1 PROVE Depth(c, a) > Depth(c, b - 1)
    OBVIOUS
  <2>1. a \in b..L /\ a < e
    BY <1>1, <1>9
  <2>2. a \notin T
    BY <1>8, <1>9, <2>1
  <2>3. Depth(c, a) \in Int
    BY <1>1, <1>2, <2>1
  <2>4. ~(Depth(c, a) <= Depth(c, b - 1))
    BY <2>1, <2>2
  <2> QED BY <1>j, <2>3, <2>4
<1>11. Depth(c, e) = Depth(c, e - 1) + Opened(c, e) /\ Opened(c, e) \in {-1, 0, 1}
  BY <1>1, <1>3, <1>9 DEF Opened
<1>12. Depth(c, e) <= Depth(c, b - 1) /\ Depth(c, e - 1) > Depth(c, b - 1)
  BY <1>8, <1>9, <1>10
<1>13. Depth(c, e) = Depth(c, b - 1)
  <2>1. e \in Int /\ e - 1 \in Int
    BY <1>1, <1>9
  <2>2. Depth(c, e) \in Int /\ Depth(c, e - 1) \in Int
    BY <1>2, <2>1
  <2> QED BY <1>j, <1>11, <1>12, <2>2
<1> QED
  BY <1>1, <1>9, <1>10, <1>13 DEF Closes

LEMMA EndCloses ==
  ASSUME NEW c, Valid(c), NEW b, OpensBlock(c, b)
  PROVE  /\ Closes(c, b, EndIn(c, b))
         /\ \A e : Closes(c, b, e) => e = EndIn(c, b)
<1> DEFINE IsEnd(e) == /\ e > b /\ OpenIn(c, b, e) = 0
                       /\ \A a \in b..e - 1 : OpenIn(c, b, a) > 0
<1>1. Len(c) \in Nat /\ b \in Nat
  BY DepthOfValid DEF OpensBlock
<1>2. \A e \in 0..Len(c) - 1 : IsEnd(e) <=> Closes(c, b, e)
  <2> SUFFICES ASSUME NEW e \in 0..Len(c) - 1, e > b
               PROVE  IsEnd(e) <=> Closes(c, b, e)
    BY DEF Closes
  <2>1. \A a \in b..e : /\ OpenIn(c, b, a) = Depth(c, a) - Depth(c, b - 1)
                        /\ Depth(c, a) \in Int /\ Depth(c, b - 1) \in Int
    BY <1>1, OpenDepth
  <2>2. e \in b..e /\ \A a \in b..e - 1 : a \in b..e
    BY <1>1
  <2> QED BY <2>1, <2>2 DEF Closes
<1>3. EndIn(c, b) = CHOOSE e \in 0..Len(c) - 1 : IsEnd(e)
  BY DEF EndIn
<1>4. \E e \in 0..Len(c) - 1 : IsEnd(e)
  BY <1>2, BlockCloses DEF Closes
<1> HIDE DEF IsEnd
<1>5. EndIn(c, b) \in 0..Len(c) - 1 /\ IsEnd(EndIn(c, b))
  BY <1>3, <1>4
<1>6. Closes(c, b, EndIn(c, b))
  BY <1>2, <1>5
<1>7. ASSUME NEW e, NEW f, Closes(c, b, e), Closes(c, b, f), e < f
      PROVE  FALSE
  <2>1. e \in b..f - 1
    BY <1>1, <1>7 DEF Closes
  <2>2. Depth(c, e) > Depth(c, b - 1) /\ Depth(c, e) = Depth(c, b - 1)
    BY <1>7, <2>1 DEF Closes
  <2>3. Depth(c, e) \in Int
    <3>1. e \in Int
      BY <1>1, <2>1
    <3> QED BY <3>1, DepthProperties
  <2> QED BY <2>2, <2>3
<1>8. ASSUME NEW e, Closes(c, b, e)
      PROVE  e = EndIn(c, b)
  <2> DEFINE f == EndIn(c, b)
  <2>1. e \in 0..Len(c) - 1 /\ f \in 0..Len(c) - 1
    BY <1>6, <1>8 DEF Closes
  <2> HIDE DEF f
  <2>2. ~(e < f) /\ ~(f < e)
    BY <1>6, <1>7, <1>8 DEF f
  <2> QED BY <1>1, <2>1, <2>2 DEF f
<1> QED
  BY <1>6, <1>8

(* What closes a block is an end, and not the function's.                  *)
LEMMA EndIsAnEnd ==
  ASSUME NEW c, Valid(c), NEW b, OpensBlock(c, b)
  PROVE  /\ EndIn(c, b) \in b + 1..Len(c) - 2
         /\ c[EndIn(c, b) + 1].op = "end"
<1> DEFINE e == EndIn(c, b)
<1>1. Len(c) \in Nat /\ b \in Nat /\ b \in 0..Len(c) - 1
  BY DepthOfValid DEF OpensBlock
<1>2. Closes(c, b, e)
  BY EndCloses
<1> HIDE DEF e
<1>3. e \in Nat /\ e > b /\ e <= Len(c) - 1
  BY <1>1, <1>2 DEF Closes
<1>4. Depth(c, b - 1) >= 0
  <2>1. b - 1 \in -1..Len(c) - 2
    BY <1>1, <1>3
  <2> QED BY <2>1, DepthOfValid
<1>5. Depth(c, e) >= 0
  BY <1>2, <1>4 DEF Closes
<1>6. e # Len(c) - 1
  BY <1>5, DepthOfValid
<1>7. e - 1 \in b..e - 1 /\ e - 1 \in Int
  BY <1>1, <1>3
<1>8. Depth(c, e - 1) > Depth(c, e)
  BY <1>2, <1>7 DEF Closes
<1>9. Depth(c, e) = Depth(c, e - 1) + Opened(c, e)
  BY <1>3, DepthProperties
<1>10. Depth(c, e - 1) \in Int
  BY <1>7, DepthProperties
<1>11. ~(Opened(c, e) \in {0, 1})
  BY <1>8, <1>9, <1>10
<1>12. c[e + 1].op = "end"
  BY <1>11 DEF Opened
<1> QED
  BY <1>1, <1>3, <1>6, <1>12 DEF e

(* Every end but the function's closes a block.                            *)
LEMMA EndMatched ==
  ASSUME NEW c, Valid(c), NEW a \in 0..Len(c) - 2, c[a + 1].op = "end"
  PROVE  \E b : OpensBlock(c, b) /\ EndIn(c, b) = a
<1> DEFINE T == {k \in 0..a : Depth(c, (a - k) - 1) <= Depth(c, a)}
<1>1. Len(c) \in Nat /\ a \in Nat /\ Depth(c, a) >= 0
  BY DepthOfValid
<1>2. \A x \in Int : Depth(c, x) \in Int
  BY DepthProperties
<1>3. a \in T
  <2>1. (a - a) - 1 = -1
    BY <1>1
  <2>2. Depth(c, -1) = 0
    BY DepthProperties
  <2> QED BY <1>1, <2>1, <2>2
<1>4. PICK k \in T : \A j \in T : k <= j
  <2>1. T \in SUBSET Nat
    BY <1>1
  <2> HIDE DEF T
  <2> QED BY <1>3, <2>1, LeastNatural
<1> DEFINE b == a - k
<1>5. k \in 0..a /\ k \in Nat /\ b \in Nat /\ b \in Int /\ b - 1 \in Int /\ b \in 0..a
  BY <1>1, <1>4
<1>6. Depth(c, b - 1) <= Depth(c, a)
  BY <1>4
<1>7. \A x \in b + 1..a : Depth(c, x - 1) > Depth(c, a)
  <2> SUFFICES ASSUME NEW x \in b + 1..a PROVE Depth(c, x - 1) > Depth(c, a)
    OBVIOUS
  <2> DEFINE j == a - x
  <2>1. j \in 0..a /\ j < k /\ a - j = x /\ x - 1 \in Int
    BY <1>1, <1>5
  <2>2. j \notin T
    <3> HIDE DEF T, b, j
    <3> QED BY <1>4, <1>5, <2>1
  <2>3. ~(Depth(c, (a - j) - 1) <= Depth(c, a))
    BY <2>1, <2>2
  <2>4. Depth(c, x - 1) \in Int /\ Depth(c, a) \in Int
    BY <1>1, <1>2, <2>1
  <2> HIDE DEF j, T, b
  <2> QED BY <2>1, <2>3, <2>4
<1> HIDE DEF T, b
<1>8. Depth(c, a) = Depth(c, a - 1) + (-1)
  <2>1. Depth(c, a) = Depth(c, a - 1) + Opened(c, a)
    BY <1>1, DepthProperties
  <2>2. Opened(c, a) = -1
    BY DEF Opened, Openers
  <2> QED BY <2>1, <2>2
<1>9. Depth(c, a) \in Int /\ Depth(c, a - 1) \in Int /\ Depth(c, b) \in Int
      /\ Depth(c, b - 1) \in Int
  <2>1. a \in Int /\ a - 1 \in Int
    BY <1>1
  <2> QED BY <1>2, <1>5, <2>1
<1>10. b # a
  BY <1>6, <1>8, <1>9
<1>11. \A x \in b..a - 1 : Depth(c, x) > Depth(c, a)
  <2> SUFFICES ASSUME NEW x \in b..a - 1 PROVE Depth(c, x) > Depth(c, a)
    OBVIOUS
  <2>1. x + 1 \in b + 1..a /\ (x + 1) - 1 = x
    BY <1>1, <1>5
  <2> QED BY <1>7, <2>1
<1>12. b \in b..a - 1 /\ b < a
  BY <1>1, <1>5, <1>10
<1>13. Depth(c, b) = Depth(c, b - 1) + Opened(c, b)
  BY <1>5, DepthProperties
<1>14. Opened(c, b) \in {-1, 0, 1} /\ Depth(c, b) > Depth(c, a)
  BY <1>11, <1>12 DEF Opened
<1>15. Opened(c, b) = 1 /\ Depth(c, b - 1) = Depth(c, a)
  BY <1>6, <1>9, <1>13, <1>14
<1>16. OpensBlock(c, b)
  BY <1>1, <1>5, <1>15 DEF Opened, OpensBlock
<1>17. Closes(c, b, a)
  BY <1>1, <1>11, <1>12, <1>15 DEF Closes
<1> QED
  BY <1>16, <1>17, EndCloses

(* Blocks do not overlap: one that opens inside another ends inside it.    *)
LEMMA BlocksNest ==
  ASSUME NEW c, Valid(c), NEW b, NEW d, OpensBlock(c, b), OpensBlock(c, d),
         b < d, d <= EndIn(c, b)
  PROVE  EndIn(c, d) < EndIn(c, b)
<1> DEFINE e == EndIn(c, b)
           f == EndIn(c, d)
<1>1. Len(c) \in Nat /\ b \in Nat /\ d \in Nat
  BY DepthOfValid DEF OpensBlock
<1>2. Closes(c, b, e) /\ Closes(c, d, f)
  BY EndCloses
<1>3. e \in Nat /\ f \in Nat /\ e > b /\ f > d
  BY <1>1, <1>2 DEF Closes
<1>4. d # e
  BY EndIsAnEnd DEF OpensBlock, Openers
<1>5. SUFFICES ASSUME ~(f < e) PROVE FALSE
  OBVIOUS
<1> HIDE DEF e, f
<1>6. d - 1 \in b..e - 1 /\ d < e
  BY <1>1, <1>3, <1>4 DEF e
<1>7. Depth(c, d - 1) > Depth(c, b - 1)
  BY <1>2, <1>6 DEF Closes
<1>8. Depth(c, d - 1) \in Int /\ Depth(c, b - 1) \in Int
  <2>1. b - 1 \in Int /\ d - 1 \in Int
    BY <1>1
  <2> QED BY <2>1, DepthProperties
<1>9. CASE e = f
  BY <1>2, <1>7, <1>8, <1>9 DEF Closes
<1>10. CASE e < f
  <2>1. e \in d..f - 1
    BY <1>1, <1>3, <1>6, <1>10
  <2>2. Depth(c, e) > Depth(c, d - 1)
    BY <1>2, <2>1 DEF Closes
  <2>3. Depth(c, e) = Depth(c, b - 1)
    BY <1>2 DEF Closes
  <2> QED BY <1>7, <1>8, <2>2, <2>3
<1> QED
  BY <1>3, <1>5, <1>9, <1>10

-----------------------------------------------------------------------------
(***************************************************************************)
(* The two branches of an if.                                              *)
(***************************************************************************)
IsElse(c, b, a) == c[a + 1].op = "else" /\ OpenIn(c, b, a) = 1

HasElseIn(c, b) == \E a \in b..EndIn(c, b) : IsElse(c, b, a)
ElseIn(c, b)    == CHOOSE a \in b..EndIn(c, b) : IsElse(c, b, a)

(* What stands one level inside b, at a, stands one level inside no other  *)
(* block that has not ended before a.                                      *)
LEMMA OneLevelInside ==
  ASSUME NEW c, NEW b \in Nat, NEW d \in Nat, NEW a \in Nat, b <= a, d <= a,
         OpenIn(c, b, a) = 1, OpenIn(c, d, a) = 1,
         \A x \in b..a : OpenIn(c, b, x) > 0
  PROVE  ~(b < d)
<1> SUFFICES ASSUME b < d PROVE FALSE
  OBVIOUS
<1>1. d - 1 \in b..a /\ d - 1 \in Nat
  OBVIOUS
<1>2. OpenIn(c, b, d - 1) > 0
  BY <1>1
<1>3. /\ OpenIn(c, b, d - 1) = Depth(c, d - 1) - Depth(c, b - 1)
      /\ Depth(c, d - 1) \in Int /\ Depth(c, b - 1) \in Int
  <2>1. b <= (d - 1) + 1
    OBVIOUS
  <2> QED BY <1>1, <2>1, OpenDepth
<1>4. /\ OpenIn(c, b, a) = Depth(c, a) - Depth(c, b - 1)
      /\ OpenIn(c, d, a) = Depth(c, a) - Depth(c, d - 1)
      /\ Depth(c, a) \in Int
  BY OpenDepth
<1> QED
  BY <1>2, <1>3, <1>4

LEMMA OpenUntilEnd ==
  ASSUME NEW c, Valid(c), NEW b, OpensBlock(c, b)
  PROVE  /\ \A x \in b..EndIn(c, b) - 1 : OpenIn(c, b, x) > 0
         /\ OpenIn(c, b, EndIn(c, b)) = 0
<1> DEFINE e == EndIn(c, b)
<1>1. b \in Nat /\ Closes(c, b, e) /\ Len(c) \in Nat
  BY EndCloses, DepthOfValid DEF OpensBlock
<1>2. e \in Nat /\ e > b
  BY <1>1 DEF Closes
<1> HIDE DEF e
<1>3. \A x \in b..e : /\ OpenIn(c, b, x) = Depth(c, x) - Depth(c, b - 1)
                      /\ Depth(c, x) \in Int /\ Depth(c, b - 1) \in Int
  <2> SUFFICES ASSUME NEW x \in b..e
               PROVE  /\ OpenIn(c, b, x) = Depth(c, x) - Depth(c, b - 1)
                      /\ Depth(c, x) \in Int /\ Depth(c, b - 1) \in Int
    OBVIOUS
  <2>1. x \in Nat /\ b <= x + 1
    BY <1>1, <1>2
  <2> QED BY <1>1, <2>1, OpenDepth
<1>4. \A x \in b..e - 1 : OpenIn(c, b, x) > 0
  <2> SUFFICES ASSUME NEW x \in b..e - 1 PROVE OpenIn(c, b, x) > 0
    OBVIOUS
  <2>1. x \in b..e
    BY <1>1, <1>2
  <2>2. Depth(c, x) > Depth(c, b - 1)
    BY <1>1 DEF Closes
  <2> QED BY <1>3, <2>1, <2>2
<1>5. e \in b..e
  BY <1>1, <1>2
<1>6. OpenIn(c, b, e) = 0
  BY <1>1, <1>3, <1>5 DEF Closes
<1> QED
  BY <1>4, <1>6 DEF e

(* An else is in an if, and there is no other in it.                       *)
LEMMA ElseOfItsIf ==
  ASSUME NEW c, Valid(c), NEW a \in 0..Len(c) - 1, c[a + 1].op = "else"
  PROVE  \E b : /\ OpensBlock(c, b) /\ c[b + 1].op = "if"
                /\ b < a /\ a < EndIn(c, b) /\ IsElse(c, b, a)
                /\ \A x \in b..a - 1 : ~IsElse(c, b, x)
<1>1. PICK b \in 0..a - 1 :
        /\ c[b + 1].op = "if" /\ OpenIn(c, b, a) = 1
        /\ \A x \in b..a - 1 :
             OpenIn(c, b, x) > 0 /\ ~(c[x + 1].op = "else" /\ OpenIn(c, b, x) = 1)
  BY DEF Valid, ElsesMatch
<1>2. Len(c) \in Nat /\ a \in Nat /\ b \in Nat /\ b < a
  BY DepthOfValid
<1>3. OpensBlock(c, b)
  BY <1>1, <1>2 DEF OpensBlock, Openers
<1> DEFINE e == EndIn(c, b)
<1>4. e \in Nat /\ e > b /\ OpenIn(c, b, e) = 0
  <2>1. e \in b + 1..Len(c) - 2
    BY <1>3, EndIsAnEnd
  <2>2. OpenIn(c, b, e) = 0
    BY <1>3, OpenUntilEnd
  <2> HIDE DEF e
  <2> QED BY <1>2, <2>1, <2>2
<1>5. e \notin b..a - 1 /\ e # a
  BY <1>1, <1>4
<1> HIDE DEF e
<1>6. a < e
  BY <1>2, <1>4, <1>5
<1> QED
  BY <1>1, <1>2, <1>3, <1>6 DEF IsElse, e

LEMMA OnlyElse ==
  ASSUME NEW c, Valid(c), NEW b, OpensBlock(c, b),
         NEW a \in b..EndIn(c, b), IsElse(c, b, a)
  PROVE  /\ a \in b + 1..EndIn(c, b) - 1
         /\ HasElseIn(c, b) /\ ElseIn(c, b) = a
         /\ c[b + 1].op = "if"
<1>1. Len(c) \in Nat /\ b \in Nat /\ EndIn(c, b) \in b + 1..Len(c) - 2
      /\ c[b + 1].op \in Openers
  BY DepthOfValid, EndIsAnEnd DEF OpensBlock
<1>2. \A x \in b..EndIn(c, b) : IsElse(c, b, x) =>
        /\ x \in b + 1..EndIn(c, b) - 1
        /\ c[b + 1].op = "if"
        /\ \A y \in b..x - 1 : ~IsElse(c, b, y)
  <2> SUFFICES ASSUME NEW x \in b..EndIn(c, b), IsElse(c, b, x)
               PROVE  /\ x \in b + 1..EndIn(c, b) - 1
                      /\ c[b + 1].op = "if"
                      /\ \A y \in b..x - 1 : ~IsElse(c, b, y)
    OBVIOUS
  <2>1. x \in 0..Len(c) - 1 /\ c[x + 1].op = "else" /\ x \in Nat
    BY <1>1 DEF IsElse
  <2>2. x # b
    BY <1>1, <2>1 DEF Openers
  <2>3. x # EndIn(c, b)
    BY OpenUntilEnd DEF IsElse
  <2>4. PICK d : /\ OpensBlock(c, d) /\ c[d + 1].op = "if"
                 /\ d < x /\ x < EndIn(c, d) /\ IsElse(c, d, x)
                 /\ \A y \in d..x - 1 : ~IsElse(c, d, y)
    BY <2>1, ElseOfItsIf
  <2>5. d \in Nat /\ EndIn(c, d) \in Nat
    <3>1. EndIn(c, d) \in d + 1..Len(c) - 2 /\ d \in 0..Len(c) - 1
      BY <2>4, EndIsAnEnd DEF OpensBlock
    <3> QED BY <1>1, <3>1
  <2>6. \A y \in b..x : OpenIn(c, b, y) > 0
    <3>1. \A y \in b..x : y \in b..EndIn(c, b) - 1
      BY <1>1, <2>1, <2>3
    <3> QED BY <3>1, OpenUntilEnd
  <2>7. \A y \in d..x : OpenIn(c, d, y) > 0
    <3>1. \A y \in d..x : y \in d..EndIn(c, d) - 1
      BY <2>1, <2>4, <2>5
    <3> QED BY <3>1, <2>4, OpenUntilEnd
  <2>8. ~(b < d) /\ ~(d < b)
    <3>1. OpenIn(c, b, x) = 1 /\ OpenIn(c, d, x) = 1 /\ b <= x /\ d <= x
      BY <1>1, <2>1, <2>4, <2>5 DEF IsElse
    <3>2. ~(b < d)
      BY <1>1, <2>1, <2>5, <2>6, <3>1, OneLevelInside
    <3>3. ~(d < b)
      BY <1>1, <2>1, <2>5, <2>7, <3>1, OneLevelInside
    <3> QED BY <3>2, <3>3
  <2>9. b = d
    BY <1>1, <2>5, <2>8
  <2>10. x \in b + 1..EndIn(c, b) - 1
    BY <1>1, <2>1, <2>2, <2>3
  <2> QED BY <2>4, <2>9, <2>10
<1>3. \A x \in b..EndIn(c, b) : IsElse(c, b, x) => x = a
  <2> SUFFICES ASSUME NEW x \in b..EndIn(c, b), IsElse(c, b, x) PROVE x = a
    OBVIOUS
  <2>1. x \notin b..a - 1 /\ a \notin b..x - 1
    BY <1>2
  <2>2. x \in Nat /\ a \in Nat /\ b <= x /\ b <= a
    BY <1>1
  <2> QED BY <1>1, <2>1, <2>2
<1>4. HasElseIn(c, b)
  BY DEF HasElseIn
<1>5. ElseIn(c, b) \in b..EndIn(c, b) /\ IsElse(c, b, ElseIn(c, b))
  BY DEF ElseIn
<1> QED
  BY <1>2, <1>3, <1>4, <1>5

-----------------------------------------------------------------------------
(***************************************************************************)
(* The blocks around an address, and how one instruction changes them.     *)
(***************************************************************************)
Around(c, t) == {b \in 0..Len(c) - 1 :
                   c[b + 1].op \in Openers /\ b < t /\ t <= EndIn(c, b)}

LEMMA AroundIs ==
  ASSUME NEW c, Valid(c), NEW t, NEW b
  PROVE  b \in Around(c, t) <=> OpensBlock(c, b) /\ b < t /\ t <= EndIn(c, b)
BY DEF Around, OpensBlock

LEMMA AroundStart ==
  ASSUME NEW c, Valid(c)
  PROVE  Around(c, 0) = {}
BY DepthOfValid DEF Around

LEMMA OpenerNumbers ==
  ASSUME NEW c, Valid(c), NEW b, OpensBlock(c, b)
  PROVE  b \in Nat /\ EndIn(c, b) \in Nat /\ b < EndIn(c, b)
         /\ b < Len(c) /\ EndIn(c, b) < Len(c) - 1
<1>1. Len(c) \in Nat /\ b \in 0..Len(c) - 1
  BY DepthOfValid DEF OpensBlock
<1>2. EndIn(c, b) \in b + 1..Len(c) - 2
  BY EndIsAnEnd
<1> QED
  BY <1>1, <1>2

LEMMA AroundStraight ==
  ASSUME NEW c, Valid(c), NEW a \in 0..Len(c) - 1,
         c[a + 1].op \notin Openers, c[a + 1].op # "end"
  PROVE  Around(c, a + 1) = Around(c, a)
<1>1. ASSUME NEW b, OpensBlock(c, b)
      PROVE  (b < a + 1 /\ a + 1 <= EndIn(c, b)) <=> (b < a /\ a <= EndIn(c, b))
  <2>1. b # a /\ EndIn(c, b) # a
    BY <1>1, EndIsAnEnd DEF OpensBlock
  <2>2. b \in Nat /\ EndIn(c, b) \in Nat /\ a \in Nat
    BY <1>1, OpenerNumbers, DepthOfValid
  <2> QED BY <2>1, <2>2
<1> QED
  BY <1>1, AroundIs DEF OpensBlock, Around

LEMMA AroundOpens ==
  ASSUME NEW c, Valid(c), NEW a, OpensBlock(c, a)
  PROVE  /\ Around(c, a + 1) = Around(c, a) \cup {a}
         /\ \A b \in Around(c, a) : b < a
<1>1. ASSUME NEW b, OpensBlock(c, b)
      PROVE  (b < a + 1 /\ a + 1 <= EndIn(c, b)) <=> (b = a \/ (b < a /\ a <= EndIn(c, b)))
  <2>1. EndIn(c, b) # a
    BY <1>1, EndIsAnEnd DEF OpensBlock, Openers
  <2>2. b \in Nat /\ EndIn(c, b) \in Nat /\ a \in Nat /\ EndIn(c, a) \in Nat
        /\ a < EndIn(c, a)
    BY <1>1, OpenerNumbers
  <2> QED BY <2>1, <2>2
<1>2. \A b : b \in Around(c, a + 1) <=> b \in Around(c, a) \cup {a}
  BY <1>1, AroundIs
<1>3. \A b \in Around(c, a) : b < a
  BY AroundIs
<1> QED
  BY <1>2, <1>3

LEMMA AroundEnds ==
  ASSUME NEW c, Valid(c), NEW a \in 0..Len(c) - 2, c[a + 1].op = "end"
  PROVE  \E d \in Around(c, a) :
           /\ Around(c, a + 1) = Around(c, a) \ {d}
           /\ \A b \in Around(c, a) : b # d => b < d
<1>1. PICK d : OpensBlock(c, d) /\ EndIn(c, d) = a
  BY EndMatched
<1>2. d \in Nat /\ a \in Nat /\ d < a
  BY <1>1, OpenerNumbers
<1>3. d \in Around(c, a)
  BY <1>1, <1>2, AroundIs
<1>4. ASSUME NEW b, OpensBlock(c, b)
      PROVE  /\ (b < a + 1 /\ a + 1 <= EndIn(c, b)) <=> (b # d /\ b < a /\ a <= EndIn(c, b))
             /\ (b # d /\ b < a /\ a <= EndIn(c, b)) => b < d
  <2>1. b # a
    BY <1>4 DEF OpensBlock, Openers
  <2>2. b \in Nat /\ EndIn(c, b) \in Nat
    BY <1>4, OpenerNumbers
  <2>3. ~(d < b /\ b <= a /\ a <= EndIn(c, b))
    BY <1>1, <1>2, <1>4, <2>2, BlocksNest
  <2>4. ~(b < d /\ d <= EndIn(c, b) /\ EndIn(c, b) <= a)
    BY <1>1, <1>2, <1>4, <2>2, BlocksNest
  <2> QED BY <1>1, <1>2, <2>1, <2>2, <2>3, <2>4
<1>5. \A b : b \in Around(c, a + 1) <=> b \in Around(c, a) \ {d}
  BY <1>4, AroundIs
<1>6. \A b \in Around(c, a) : b # d => b < d
  BY <1>4, AroundIs
<1> QED
  BY <1>3, <1>5, <1>6

(* Inside a block there are the blocks around it, it, and others opened    *)
(* after it.                                                               *)
LEMMA AroundInside ==
  ASSUME NEW c, Valid(c), NEW d, OpensBlock(c, d), NEW t \in d + 1..EndIn(c, d)
  PROVE  /\ d \in Around(c, t)
         /\ \A b : b < d => (b \in Around(c, t) <=> b \in Around(c, d))
<1>1. d \in Nat /\ EndIn(c, d) \in Nat /\ t \in Nat /\ d < t /\ t <= EndIn(c, d)
  BY OpenerNumbers
<1>2. d \in Around(c, t)
  BY <1>1, AroundIs
<1>3. ASSUME NEW b, OpensBlock(c, b), b < d
      PROVE  t <= EndIn(c, b) <=> d <= EndIn(c, b)
  <2>1. b \in Nat /\ EndIn(c, b) \in Nat
    BY <1>3, OpenerNumbers
  <2>2. d <= EndIn(c, b) => EndIn(c, d) < EndIn(c, b)
    BY <1>3, BlocksNest
  <2> QED BY <1>1, <2>1, <2>2
<1>4. \A b : b < d /\ OpensBlock(c, b) => b < t
  <2> SUFFICES ASSUME NEW b, b < d, OpensBlock(c, b) PROVE b < t
    OBVIOUS
  <2>1. b \in Nat
    BY OpenerNumbers
  <2> QED BY <1>1, <2>1
<1> QED
  BY <1>2, <1>3, <1>4, AroundIs

LEMMA AroundPast ==
  ASSUME NEW c, Valid(c), NEW d, OpensBlock(c, d)
  PROVE  Around(c, EndIn(c, d) + 1) = Around(c, d)
<1> DEFINE e == EndIn(c, d)
<1>1. d \in Nat /\ e \in Nat /\ d < e
  BY OpenerNumbers
<1> HIDE DEF e
<1>2. ASSUME NEW b, OpensBlock(c, b)
      PROVE  (b < e + 1 /\ e + 1 <= EndIn(c, b)) <=> (b < d /\ d <= EndIn(c, b))
  <2>1. b \in Nat /\ EndIn(c, b) \in Nat
    BY <1>2, OpenerNumbers
  <2>2. b < d /\ d <= EndIn(c, b) => e < EndIn(c, b)
    BY <1>2, BlocksNest DEF e
  <2>3. d < b /\ b <= e => EndIn(c, b) < e
    BY <1>2, BlocksNest DEF e
  <2>4. b = d => EndIn(c, b) = e
    BY DEF e
  <2> QED BY <1>1, <2>1, <2>2, <2>3, <2>4
<1>3. \A b : b \in Around(c, e + 1) <=> b \in Around(c, d)
  BY <1>2, AroundIs
<1> QED
  BY <1>3 DEF e

(* At the start of the second branch of an if, as at that of the first.    *)
LEMMA AroundElse ==
  ASSUME NEW c, Valid(c), NEW d, OpensBlock(c, d), HasElseIn(c, d)
  PROVE  /\ Around(c, ElseIn(c, d) + 1) = Around(c, d) \cup {d}
         /\ ElseIn(c, d) \in d + 1..EndIn(c, d) - 1
         /\ c[ElseIn(c, d) + 1].op = "else"
<1>1. PICK a \in d..EndIn(c, d) : IsElse(c, d, a)
  BY DEF HasElseIn
<1>2. a \in d + 1..EndIn(c, d) - 1 /\ ElseIn(c, d) = a
  BY <1>1, OnlyElse
<1>3. d \in Nat /\ EndIn(c, d) \in Nat /\ a \in Nat /\ d < a /\ a < EndIn(c, d)
  BY <1>2, OpenerNumbers
<1>4. a + 1 \in d + 1..EndIn(c, d)
  BY <1>3
<1>5. /\ d \in Around(c, a + 1)
      /\ \A b : b < d => (b \in Around(c, a + 1) <=> b \in Around(c, d))
  BY <1>4, AroundInside
<1>6. ASSUME NEW b, b \in Around(c, a + 1), d < b
      PROVE  FALSE
  <2>1. OpensBlock(c, b) /\ b < a + 1 /\ a + 1 <= EndIn(c, b)
    BY <1>6, AroundIs
  <2>2. b \in Nat /\ EndIn(c, b) \in Nat /\ b # a
    BY <1>1, <2>1, OpenerNumbers DEF OpensBlock, Openers, IsElse
  <2>3. a \in b..EndIn(c, b) - 1 /\ b - 1 \in d..EndIn(c, d) - 1 /\ b - 1 \in Nat
    BY <1>3, <1>6, <2>1, <2>2
  <2>4. OpenIn(c, b, a) > 0 /\ OpenIn(c, d, b - 1) > 0
    BY <2>1, <2>3, OpenUntilEnd
  <2>5. /\ OpenIn(c, b, a) = Depth(c, a) - Depth(c, b - 1)
        /\ OpenIn(c, d, b - 1) = Depth(c, b - 1) - Depth(c, d - 1)
        /\ OpenIn(c, d, a) = Depth(c, a) - Depth(c, d - 1)
        /\ Depth(c, a) \in Int /\ Depth(c, b - 1) \in Int /\ Depth(c, d - 1) \in Int
    <3>1. b <= a + 1 /\ d <= (b - 1) + 1 /\ d <= a + 1
      BY <1>3, <1>6, <2>1, <2>2
    <3> QED BY <1>3, <2>2, <2>3, <3>1, OpenDepth
  <2>6. OpenIn(c, d, a) = 1
    BY <1>1 DEF IsElse
  <2> QED BY <2>4, <2>5, <2>6
<1>7. \A b \in Around(c, a + 1) : b \in Nat
  BY AroundIs, OpenerNumbers
<1>8. \A b \in Around(c, d) : b < d
  BY AroundIs
<1>9. \A b : b \in Around(c, a + 1) <=> b \in Around(c, d) \cup {d}
  <2>1. ASSUME NEW b \in Around(c, a + 1)
        PROVE  b \in Around(c, d) \cup {d}
    <3>1. b \in Nat /\ ~(d < b)
      BY <1>6, <1>7
    <3>2. b < d \/ b = d
      BY <1>3, <3>1
    <3> QED BY <1>5, <3>2
  <2>2. ASSUME NEW b \in Around(c, d) \cup {d}
        PROVE  b \in Around(c, a + 1)
    BY <1>5, <1>8
  <2> QED BY <2>1, <2>2
<1> QED
  BY <1>1, <1>2, <1>9 DEF IsElse

-----------------------------------------------------------------------------
(***************************************************************************)
(* The entries of the label stack: above the function's, one for each      *)
(* block of S, outermost first.                                            *)
(***************************************************************************)
Entry == [begin : Nat, target : Nat, cells : Nat, frame_sp : Int]

LabelIn(c, b) ==
  [begin  |-> b + 1,
   target |-> IF c[b + 1].op = "loop" THEN b + 1 ELSE EndIn(c, b),
   cells  |-> IF c[b + 1].op = "loop" THEN 0 ELSE c[b + 1].n]

PartsOf(entry) ==
  [begin |-> entry.begin, target |-> entry.target, cells |-> entry.cells]

Entries(c, s, S) ==
  /\ s \in Seq(Entry) /\ Len(s) >= 1
  /\ s[1].target = Len(c) - 1
  /\ {s[i].begin - 1 : i \in 2..Len(s)} = S
  /\ \A i, j \in 2..Len(s) : i < j => s[i].begin < s[j].begin
  /\ \A i \in 2..Len(s) : PartsOf(s[i]) = LabelIn(c, s[i].begin - 1)

-----------------------------------------------------------------------------
(***************************************************************************)
(* The inductive invariant.  While the replay is not past the target, the  *)
(* entries are those of the blocks around it, none of them an if without   *)
(* else, and where it is in the first branch of an if the target is there  *)
(* too.  Once it has been carried past the target, by skipping an if, the  *)
(* entries are those the restored stack is to have.                        *)
(***************************************************************************)
LostIn(c, b) == c[b + 1].op = "if" /\ ~HasElseIn(c, b)

KeptIn(c, t) ==
  {b \in Around(c, t) : ~\E l \in Around(c, t) : l <= b /\ LostIn(c, l)}

OnTheWay ==
  ip <= target =>
    \A b \in Around(code, ip) :
      /\ ~LostIn(code, b)
      /\ HasElseIn(code, b) /\ ip <= ElseIn(code, b) => target <= ElseIn(code, b)

Stack ==
  Entries(code, csp, IF ip <= target THEN Around(code, ip) ELSE KeptIn(code, target))

Restored ==
  status = "restored" =>
    ip >= target /\ frame = [i \in 1..Len(csp) |-> Written(csp[i])]

IInv == TypeOK /\ OnTheWay /\ Stack /\ Restored /\ FaultsOnlyWhereUnsupported

LEMMA EntriesPush ==
  ASSUME NEW c, NEW s, NEW S \in SUBSET Nat, Entries(c, s, S),
         NEW a \in Nat, \A b \in S : b < a,
         NEW entry \in Entry, PartsOf(entry) = LabelIn(c, a)
  PROVE  Entries(c, Append(s, entry), S \cup {a})
<1> DEFINE u == Append(s, entry)
<1>1. s \in Seq(Entry) /\ Len(s) \in Nat /\ Len(s) >= 1
  BY LenProperties DEF Entries
<1>2. /\ u \in Seq(Entry) /\ Len(u) = Len(s) + 1
      /\ \A i \in 1..Len(s) : u[i] = s[i]
      /\ u[Len(s) + 1] = entry
  BY <1>1, AppendProperties
<1> HIDE DEF u
<1>3. entry.begin = a + 1 /\ entry.begin - 1 = a
  BY DEF PartsOf, LabelIn
<1>4. \A i \in 2..Len(u) : i = Len(s) + 1 \/ i \in 2..Len(s)
  BY <1>1, <1>2
<1>5. \A i \in 2..Len(s) : i \in 2..Len(u) /\ u[i] = s[i] /\ i # Len(s) + 1
  BY <1>1, <1>2
<1>6. Len(s) + 1 \in 2..Len(u)
  BY <1>1, <1>2
<1>7. \A i \in 2..Len(s) : s[i].begin - 1 \in S /\ s[i] \in Entry
  <2> SUFFICES ASSUME NEW i \in 2..Len(s)
               PROVE  s[i].begin - 1 \in S /\ s[i] \in Entry
    OBVIOUS
  <2>1. i \in 1..Len(s)
    BY <1>1
  <2>2. s[i] \in Entry
    BY <1>1, <2>1, ElementOfSeq
  <2> QED BY <2>2 DEF Entries
<1>8. {u[i].begin - 1 : i \in 2..Len(u)} = S \cup {a}
  <2>1. ASSUME NEW x \in {u[i].begin - 1 : i \in 2..Len(u)}
        PROVE  x \in S \cup {a}
    BY <1>2, <1>3, <1>4, <1>5, <1>7
  <2>2. ASSUME NEW x \in S
        PROVE  x \in {u[i].begin - 1 : i \in 2..Len(u)}
    <3>1. PICK i \in 2..Len(s) : x = s[i].begin - 1
      BY DEF Entries
    <3> QED BY <1>5, <3>1
  <2>3. a \in {u[i].begin - 1 : i \in 2..Len(u)}
    BY <1>2, <1>3, <1>6
  <2> QED BY <2>1, <2>2, <2>3
<1>9. ASSUME NEW i \in 2..Len(u), NEW j \in 2..Len(u), i < j
      PROVE  u[i].begin < u[j].begin
  <2>1. i \in 2..Len(s)
    BY <1>1, <1>2, <1>9
  <2>2. CASE j \in 2..Len(s)
    BY <1>5, <1>9, <2>1, <2>2 DEF Entries
  <2>3. CASE j = Len(s) + 1
    <3>1. s[i].begin - 1 < a /\ s[i].begin \in Nat
      BY <1>7, <2>1 DEF Entry
    <3> QED BY <1>2, <1>3, <1>5, <2>1, <2>3, <3>1
  <2> QED BY <1>4, <2>2, <2>3
<1>10. \A i \in 2..Len(u) : PartsOf(u[i]) = LabelIn(c, u[i].begin - 1)
  <2> SUFFICES ASSUME NEW i \in 2..Len(u)
               PROVE  PartsOf(u[i]) = LabelIn(c, u[i].begin - 1)
    OBVIOUS
  <2>1. CASE i \in 2..Len(s)
    BY <1>5, <2>1 DEF Entries
  <2>2. CASE i = Len(s) + 1
    BY <1>2, <1>3, <2>2
  <2> QED BY <1>4, <2>1, <2>2
<1>11. u[1].target = Len(c) - 1
  <2>1. 1 \in 1..Len(s)
    BY <1>1
  <2> QED BY <1>2, <2>1 DEF Entries
<1> QED
  BY <1>1, <1>2, <1>8, <1>9, <1>10, <1>11 DEF Entries, u

LEMMA EntriesPop ==
  ASSUME NEW c, NEW s, NEW S \in SUBSET Nat, Entries(c, s, S),
         NEW d \in S, \A b \in S : b # d => b < d
  PROVE  Len(s) > 1 /\ Entries(c, Front(s), S \ {d})
<1> DEFINE u == Front(s)
<1>1. s \in Seq(Entry) /\ Len(s) \in Nat /\ Len(s) >= 1
  BY LenProperties DEF Entries
<1>2. PICK k \in 2..Len(s) : d = s[k].begin - 1
  BY DEF Entries
<1>3. Len(s) > 1 /\ Len(s) \in 2..Len(s) /\ k \in Nat
  BY <1>1, <1>2
<1>4. \A i \in 1..Len(s) : s[i] \in Entry
  BY <1>1, ElementOfSeq
<1>5. \A i \in 2..Len(s) : i \in 1..Len(s) /\ s[i].begin - 1 \in S /\ s[i].begin \in Nat
  <2> SUFFICES ASSUME NEW i \in 2..Len(s)
               PROVE  i \in 1..Len(s) /\ s[i].begin - 1 \in S /\ s[i].begin \in Nat
    OBVIOUS
  <2>1. i \in 1..Len(s)
    BY <1>1
  <2>2. s[i] \in Entry
    BY <1>4, <2>1
  <2> QED BY <2>1, <2>2 DEF Entries, Entry
<1>6. k = Len(s)
  <2>1. SUFFICES ASSUME k < Len(s) PROVE FALSE
    BY <1>1, <1>2, <1>3
  <2>2. s[k].begin < s[Len(s)].begin
    BY <1>2, <1>3, <2>1 DEF Entries
  <2>3. s[Len(s)].begin - 1 \in S /\ s[Len(s)].begin \in Nat /\ s[k].begin \in Nat
    BY <1>2, <1>3, <1>5
  <2>4. d < s[Len(s)].begin - 1
    BY <1>2, <2>2, <2>3
  <2>5. s[Len(s)].begin - 1 < d
    BY <2>3, <2>4
  <2> QED BY <1>2, <2>3, <2>4, <2>5
<1>7. /\ u \in Seq(Entry) /\ Len(u) = Len(s) - 1
      /\ \A i \in 1..Len(s) - 1 : u[i] = s[i]
  <2>1. Len(s) - 1 \in Int /\ 1 \in Int /\ \A i \in 1..Len(s) - 1 : s[i] \in Entry
    BY <1>1, <1>4
  <2>2. /\ SubSeq(s, 1, Len(s) - 1) \in Seq(Entry)
        /\ Len(SubSeq(s, 1, Len(s) - 1))
             = IF 1 <= Len(s) - 1 THEN (Len(s) - 1) - 1 + 1 ELSE 0
        /\ \A i \in 1..(Len(s) - 1) - 1 + 1 : SubSeq(s, 1, Len(s) - 1)[i] = s[1 + i - 1]
    BY <2>1, SubSeqProperties
  <2>3. (Len(s) - 1) - 1 + 1 = Len(s) - 1 /\ \A i \in 1..Len(s) - 1 : 1 + i - 1 = i
    BY <1>1
  <2> QED BY <1>1, <1>3, <2>2, <2>3 DEF Front
<1> HIDE DEF u
<1>8. \A i \in 2..Len(u) : i \in 2..Len(s) /\ i \in 1..Len(s) - 1 /\ i < Len(s)
  BY <1>1, <1>7
<1>9. {u[i].begin - 1 : i \in 2..Len(u)} = S \ {d}
  <2>1. ASSUME NEW i \in 2..Len(u)
        PROVE  u[i].begin - 1 \in S \ {d}
    <3>1. s[i].begin - 1 \in S /\ s[i].begin \in Nat /\ s[k].begin \in Nat
      BY <1>2, <1>5, <1>8
    <3>2. s[i].begin < s[k].begin
      BY <1>2, <1>6, <1>8 DEF Entries
    <3>3. u[i] = s[i]
      BY <1>7, <1>8
    <3>4. s[i].begin - 1 # d
      BY <1>2, <3>1, <3>2
    <3> QED BY <3>1, <3>3, <3>4
  <2>2. ASSUME NEW x \in S \ {d}
        PROVE  x \in {u[i].begin - 1 : i \in 2..Len(u)}
    <3>1. PICK i \in 2..Len(s) : x = s[i].begin - 1
      BY DEF Entries
    <3>2. i # Len(s)
      BY <1>2, <1>6, <2>2, <3>1
    <3>3. i \in 2..Len(u) /\ i \in 1..Len(s) - 1
      BY <1>1, <1>7, <3>2
    <3> QED BY <1>7, <3>1, <3>3
  <2> QED BY <2>1, <2>2
<1>10. \A i, j \in 2..Len(u) : i < j => u[i].begin < u[j].begin
  BY <1>7, <1>8 DEF Entries
<1>11. \A i \in 2..Len(u) : PartsOf(u[i]) = LabelIn(c, u[i].begin - 1)
  BY <1>7, <1>8 DEF Entries
<1>12. u[1].target = Len(c) - 1
  <2>1. 1 \in 1..Len(s) - 1
    BY <1>1, <1>3
  <2> QED BY <1>7, <2>1 DEF Entries
<1>13. Len(u) >= 1
  BY <1>1, <1>3, <1>7
<1> QED
  BY <1>3, <1>7, <1>9, <1>10, <1>11, <1>12, <1>13 DEF Entries, u

-----------------------------------------------------------------------------
(* The model's operators are those above, for the function of the frame.   *)
LEMMA SameOperators ==
  /\ \A b : EndOf(b) = EndIn(code, b)
  /\ \A b : HasElse(b) <=> HasElseIn(code, b)
  /\ \A b : ElseOf(b) = ElseIn(code, b)
  /\ \A b : Lost(b) <=> LostIn(code, b)
  /\ \A b : LabelOf(b) = LabelIn(code, b)
  /\ \A t : Enclosing(t) = Around(code, t)
  /\ \A t : Kept(t) = KeptIn(code, t)
<1>1. \A b : EndOf(b) = EndIn(code, b)
  BY DEF EndOf, EndIn, Spans, Addresses
<1>2. \A b : HasElse(b) <=> HasElseIn(code, b)
  BY <1>1 DEF HasElse, HasElseIn, IsElse, OpenAt, Op
<1>3. \A b : ElseOf(b) = ElseIn(code, b)
  BY <1>1 DEF ElseOf, ElseIn, IsElse, OpenAt, Op
<1>4. \A b : Lost(b) <=> LostIn(code, b)
  BY <1>2 DEF Lost, LostIn, Op
<1>5. \A b : LabelOf(b) = LabelIn(code, b)
  BY <1>1 DEF LabelOf, LabelIn, Op, Cells
<1>6. \A t : Enclosing(t) = Around(code, t)
  BY <1>1 DEF Enclosing, Around, Op, Addresses
<1>7. \A t : Kept(t) = KeptIn(code, t)
  BY <1>4, <1>6 DEF Kept, KeptIn
<1> QED
  BY <1>1, <1>2, <1>3, <1>4, <1>5, <1>6, <1>7

LEMMA CodeTyped ==
  ASSUME NEW c, Valid(c)
  PROVE  \A a \in 0..Len(c) - 1 : c[a + 1] \in Instruction
<1> SUFFICES ASSUME NEW a \in 0..Len(c) - 1 PROVE c[a + 1] \in Instruction
  OBVIOUS
<1>1. a + 1 \in 1..Len(c)
  BY DepthOfValid
<1> QED
  BY <1>1, ElementOfSeq DEF Valid

LEMMA AroundNat ==
  ASSUME NEW c, Valid(c), NEW t
  PROVE  Around(c, t) \in SUBSET Nat
BY AroundIs, OpenerNumbers

LEMMA InitIInv == Init => IInv
<1> SUFFICES ASSUME Init PROVE IInv
  OBVIOUS
<1>1. Valid(code)
  BY CodesAssumption DEF Init
<1>2. Len(code) \in Nat \ {0} /\ target \in 0..Len(code) - 1 /\ ip = 0 /\ ip <= target
  BY <1>1, DepthOfValid DEF Init, Addresses
<1> DEFINE entry == [begin |-> 0, target |-> Len(code) - 1, cells |-> 0, frame_sp |-> 0]
<1>3. csp = <<entry>> /\ entry \in Entry
  BY <1>2 DEF Init, Label, Entry
<1>4. csp \in Seq(Entry) /\ Len(csp) = 1 /\ csp[1] = entry
  BY <1>3
<1>5. TypeOK
  BY <1>1, <1>2, <1>4 DEF Init, TypeOK, Entry, Addresses
<1>6. Around(code, ip) = {}
  BY <1>1, <1>2, AroundStart
<1>7. Entries(code, csp, {})
  BY <1>2, <1>4 DEF Entries
<1> QED
  BY <1>2, <1>5, <1>6, <1>7
  DEF IInv, OnTheWay, Stack, Restored, FaultsOnlyWhereUnsupported, Init

-----------------------------------------------------------------------------
(* What a step that replays an instruction starts from.                    *)
LEMMA Replaying ==
  ASSUME IInv, ip < target
  PROVE  /\ Valid(code) /\ Len(code) \in Nat \ {0}
         /\ target \in Nat /\ ip \in Nat /\ target <= Len(code) - 1
         /\ ip \in 0..Len(code) - 2 /\ target \in 0..Len(code) - 1
         /\ Entries(code, csp, Around(code, ip))
         /\ Around(code, ip) \in SUBSET Nat
         /\ csp \in Seq(Entry)
         /\ code[ip + 1] \in Instruction
         /\ \A b \in Around(code, ip) :
              /\ ~LostIn(code, b)
              /\ HasElseIn(code, b) /\ ip <= ElseIn(code, b) => target <= ElseIn(code, b)
<1>1. Valid(code) /\ ip \in 0..Len(code) - 1 /\ target \in 0..Len(code) - 1
      /\ csp \in Seq(Entry)
  BY DEF IInv, TypeOK, Addresses, Entry
<1>2. Len(code) \in Nat \ {0}
  BY <1>1, DepthOfValid
<1>3. ip <= target
  BY <1>1, <1>2
<1>4. ip \in 0..Len(code) - 2 /\ ip \in Nat /\ target \in Nat /\ target <= Len(code) - 1
  BY <1>1, <1>2
<1>5. Entries(code, csp, Around(code, ip))
  BY <1>3 DEF IInv, Stack
<1>6. Around(code, ip) \in SUBSET Nat
  BY <1>1, AroundNat
<1>7. code[ip + 1] \in Instruction
  BY <1>1, CodeTyped
<1> QED
  BY <1>1, <1>2, <1>3, <1>4, <1>5, <1>6, <1>7 DEF IInv, OnTheWay

(* The replay does not meet an else: the if it belongs to is around it, and *)
(* the target would have to be before the else.                            *)
LEMMA NoElse == IInv /\ ip < target => Op(ip) # "else"
<1> SUFFICES ASSUME IInv, ip < target, Op(ip) = "else" PROVE FALSE
  OBVIOUS
<1>1. /\ Valid(code) /\ ip \in Nat /\ target \in Nat /\ ip \in 0..Len(code) - 2
      /\ Len(code) \in Nat
      /\ \A b \in Around(code, ip) :
           HasElseIn(code, b) /\ ip <= ElseIn(code, b) => target <= ElseIn(code, b)
  BY Replaying
<1>2. ip \in 0..Len(code) - 1
  BY <1>1
<1>3. PICK b : /\ OpensBlock(code, b) /\ b < ip /\ ip < EndIn(code, b)
               /\ IsElse(code, b, ip)
  BY <1>1, <1>2, ElseOfItsIf DEF Op
<1>4. b \in Nat /\ EndIn(code, b) \in Nat
  BY <1>1, <1>3, OpenerNumbers
<1>5. ip \in b..EndIn(code, b) /\ ip <= EndIn(code, b)
  BY <1>1, <1>3, <1>4
<1>6. HasElseIn(code, b) /\ ElseIn(code, b) = ip
  BY <1>1, <1>3, <1>5, OnlyElse
<1>7. b \in Around(code, ip)
  BY <1>1, <1>3, <1>5, AroundIs
<1> QED
  BY <1>1, <1>6, <1>7

(* A step that leaves the blocks around as they are, or fewer of them.     *)
LEMMA OnTheWayKept ==
  ASSUME IInv, ip < target, UNCHANGED <<code, target>>,
         ip' \in Nat, ip <= ip',
         NEW b \in Around(code, ip)
  PROVE  /\ ~LostIn(code, b)
         /\ HasElseIn(code, b) /\ ip' <= ElseIn(code, b) => target <= ElseIn(code, b)
<1>1. Valid(code) /\ ip \in Nat
  BY Replaying
<1>2. OpensBlock(code, b)
  BY <1>1, AroundIs
<1>3. ASSUME HasElseIn(code, b), ip' <= ElseIn(code, b)
      PROVE  ip <= ElseIn(code, b)
  <2>1. ElseIn(code, b) \in b + 1..EndIn(code, b) - 1
    BY <1>1, <1>2, <1>3, AroundElse
  <2>2. b \in Nat /\ EndIn(code, b) \in Nat
    BY <1>1, <1>2, OpenerNumbers
  <2>3. ElseIn(code, b) \in Nat
    BY <2>1, <2>2
  <2> QED BY <1>1, <1>3, <2>3
<1> QED
  BY <1>3, Replaying

(* An instruction that is none of the nesting.                             *)
LEMMA StraightStep ==
  ASSUME IInv, ip < target, status = "running",
         Op(ip) \notin Openers, Op(ip) # "end",
         ip' = ip + 1, sp' \in Int,
         UNCHANGED <<code, target, csp, status, frame>>
  PROVE  IInv'
<1>1. /\ Valid(code) /\ Len(code) \in Nat \ {0} /\ ip \in Nat /\ target \in Nat
      /\ target <= Len(code) - 1 /\ ip \in 0..Len(code) - 2
      /\ Entries(code, csp, Around(code, ip))
  BY Replaying
<1>2. ip \in 0..Len(code) - 1 /\ ip' \in 0..Len(code) - 1 /\ ip' <= target /\ ip' \in Nat
      /\ ip <= ip'
  BY <1>1
<1>3. Around(code, ip') = Around(code, ip)
  BY <1>1, <1>2, AroundStraight DEF Op
<1>4. TypeOK'
  BY <1>2 DEF IInv, TypeOK, Addresses
<1>5. Stack'
  BY <1>1, <1>2, <1>3 DEF Stack
<1>6. OnTheWay'
  <2> SUFFICES ASSUME NEW b \in Around(code, ip)
               PROVE  /\ ~LostIn(code, b)
                      /\ HasElseIn(code, b) /\ ip' <= ElseIn(code, b)
                           => target <= ElseIn(code, b)
    BY <1>3 DEF OnTheWay
  <2> QED BY <1>2, OnTheWayKept
<1>7. Restored' /\ FaultsOnlyWhereUnsupported'
  BY DEF Restored, FaultsOnlyWhereUnsupported
<1> QED
  BY <1>4, <1>5, <1>6, <1>7 DEF IInv

(* An instruction that opens a block and pushes its entry.                 *)
LEMMA PushStep ==
  ASSUME IInv, ip < target, status = "running",
         OpensBlock(code, ip), ~LostIn(code, ip),
         ip' \in ip + 1..target,
         Around(code, ip') = Around(code, ip) \cup {ip},
         HasElseIn(code, ip) /\ ip' <= ElseIn(code, ip) => target <= ElseIn(code, ip),
         csp' = Append(csp, Label(LabelIn(code, ip).begin, LabelIn(code, ip).target,
                                  LabelIn(code, ip).cells)),
         UNCHANGED <<code, target, sp, status, frame>>
  PROVE  IInv'
<1>1. /\ Valid(code) /\ Len(code) \in Nat \ {0} /\ ip \in Nat /\ target \in Nat
      /\ target <= Len(code) - 1 /\ ip \in 0..Len(code) - 2
      /\ Entries(code, csp, Around(code, ip)) /\ Around(code, ip) \in SUBSET Nat
      /\ csp \in Seq(Entry) /\ code[ip + 1] \in Instruction
  BY Replaying
<1>2. ip' \in 0..Len(code) - 1 /\ ip' <= target /\ ip' \in Nat /\ ip <= ip'
  BY <1>1
<1> DEFINE entry == Label(LabelIn(code, ip).begin, LabelIn(code, ip).target,
                          LabelIn(code, ip).cells)
<1>3. entry \in Entry /\ PartsOf(entry) = LabelIn(code, ip)
  <2>1. EndIn(code, ip) \in Nat
    BY <1>1, OpenerNumbers
  <2>2. code[ip + 1].n \in Nat
    BY <1>1 DEF OpensBlock, Openers, Instruction
  <2>3. sp \in Int
    BY DEF IInv, TypeOK
  <2> QED BY <1>1, <2>1, <2>2, <2>3 DEF Label, LabelIn, Entry, PartsOf
<1> HIDE DEF entry
<1>4. \A b \in Around(code, ip) : b < ip
  BY <1>1, AroundOpens
<1>5. Entries(code, Append(csp, entry), Around(code, ip) \cup {ip})
  BY <1>1, <1>3, <1>4, EntriesPush
<1>6. csp' = Append(csp, entry)
  BY DEF entry
<1>7. csp' \in Seq(Entry)
  BY <1>1, <1>3, <1>6, AppendProperties
<1>8. TypeOK'
  BY <1>2, <1>7 DEF IInv, TypeOK, Addresses, Entry
<1>9. Stack'
  BY <1>2, <1>5, <1>6 DEF Stack
<1>10. OnTheWay'
  <2> SUFFICES ASSUME NEW b \in Around(code, ip) \cup {ip}
               PROVE  /\ ~LostIn(code, b)
                      /\ HasElseIn(code, b) /\ ip' <= ElseIn(code, b)
                           => target <= ElseIn(code, b)
    BY DEF OnTheWay
  <2>1. CASE b \in Around(code, ip)
    BY <1>2, <2>1, OnTheWayKept
  <2>2. CASE b = ip
    BY <2>2
  <2> QED BY <2>1, <2>2
<1>11. Restored' /\ FaultsOnlyWhereUnsupported'
  BY DEF Restored, FaultsOnlyWhereUnsupported
<1> QED
  BY <1>8, <1>9, <1>10, <1>11 DEF IInv

(* An end pops the entry of the block it closes, which is the last one.    *)
LEMMA PopStep == IInv /\ End => IInv'
<1> SUFFICES ASSUME IInv, End PROVE IInv'
  OBVIOUS
<1>1. /\ ip < target /\ status = "running" /\ Op(ip) = "end" /\ ip' = ip + 1
      /\ csp' = Front(csp) /\ UNCHANGED <<code, target, frame, sp, status>>
  BY DEF End, Replay
<1>2. /\ Valid(code) /\ Len(code) \in Nat \ {0} /\ ip \in Nat /\ target \in Nat
      /\ target <= Len(code) - 1 /\ ip \in 0..Len(code) - 2
      /\ Entries(code, csp, Around(code, ip)) /\ Around(code, ip) \in SUBSET Nat
  BY <1>1, Replaying
<1>3. ip' \in 0..Len(code) - 1 /\ ip' <= target /\ ip' \in Nat /\ ip <= ip'
  BY <1>1, <1>2
<1>4. PICK d \in Around(code, ip) :
        /\ Around(code, ip') = Around(code, ip) \ {d}
        /\ \A b \in Around(code, ip) : b # d => b < d
  BY <1>1, <1>2, AroundEnds DEF Op
<1>5. Entries(code, csp', Around(code, ip'))
  BY <1>1, <1>2, <1>4, EntriesPop
<1>6. TypeOK'
  <2>1. csp' \in Seq(Entry)
    BY <1>5 DEF Entries
  <2> QED BY <1>1, <1>3, <2>1 DEF IInv, TypeOK, Addresses, Entry
<1>7. Stack'
  BY <1>1, <1>3, <1>5 DEF Stack
<1>8. OnTheWay'
  <2> SUFFICES ASSUME NEW b \in Around(code, ip)
               PROVE  /\ ~LostIn(code, b)
                      /\ HasElseIn(code, b) /\ ip' <= ElseIn(code, b)
                           => target <= ElseIn(code, b)
    BY <1>1, <1>4 DEF OnTheWay
  <2> QED BY <1>1, <1>3, OnTheWayKept
<1>9. Restored' /\ FaultsOnlyWhereUnsupported'
  BY <1>1 DEF Restored, FaultsOnlyWhereUnsupported
<1> QED
  BY <1>6, <1>7, <1>8, <1>9 DEF IInv

(* An if without else is skipped: either it ends before the target, and    *)
(* the blocks around are the same, or the target is in it, and the entries *)
(* are those of the blocks around the if.                                  *)
LEMMA SkipStep == IInv /\ IfSkip => IInv'
<1> SUFFICES ASSUME IInv, IfSkip PROVE IInv'
  OBVIOUS
<1>1. /\ ip < target /\ status = "running" /\ Op(ip) = "if" /\ ~HasElseIn(code, ip)
      /\ ip' = EndIn(code, ip) + 1
      /\ UNCHANGED <<code, target, frame, sp, csp, status>>
  BY SameOperators DEF IfSkip, Replay, PastEnd
<1>2. /\ Valid(code) /\ Len(code) \in Nat \ {0} /\ ip \in Nat /\ target \in Nat
      /\ target <= Len(code) - 1 /\ ip \in 0..Len(code) - 2
      /\ Entries(code, csp, Around(code, ip)) /\ Around(code, ip) \in SUBSET Nat
      /\ \A b \in Around(code, ip) : ~LostIn(code, b)
  BY <1>1, Replaying
<1>3. OpensBlock(code, ip)
  BY <1>1, <1>2 DEF OpensBlock, Op, Openers
<1>4. EndIn(code, ip) \in Nat /\ ip < EndIn(code, ip) /\ EndIn(code, ip) < Len(code) - 1
  BY <1>2, <1>3, OpenerNumbers
<1>5. ip' \in 0..Len(code) - 1 /\ ip' \in Nat /\ ip <= ip'
  BY <1>1, <1>2, <1>4
<1>6. TypeOK'
  BY <1>1, <1>5 DEF IInv, TypeOK, Addresses
<1>7. Around(code, ip') = Around(code, ip)
  BY <1>1, <1>2, <1>3, AroundPast
<1>8. CASE ip' <= target
  <2>1. Stack'
    BY <1>1, <1>2, <1>7, <1>8 DEF Stack
  <2>2. OnTheWay'
    <3> SUFFICES ASSUME NEW b \in Around(code, ip)
                 PROVE  /\ ~LostIn(code, b)
                        /\ HasElseIn(code, b) /\ ip' <= ElseIn(code, b)
                             => target <= ElseIn(code, b)
      BY <1>1, <1>7 DEF OnTheWay
    <3> QED BY <1>1, <1>5, OnTheWayKept
  <2> QED
    BY <1>1, <1>6, <2>1, <2>2 DEF IInv, Restored, FaultsOnlyWhereUnsupported
<1>9. CASE ~(ip' <= target)
  <2>1. target \in ip + 1..EndIn(code, ip)
    BY <1>1, <1>2, <1>4, <1>9
  <2>2. /\ ip \in Around(code, target)
        /\ \A b : b < ip => (b \in Around(code, target) <=> b \in Around(code, ip))
    BY <1>2, <1>3, <2>1, AroundInside
  <2>3. LostIn(code, ip)
    BY <1>1 DEF LostIn, Op
  <2>4. \A b \in Around(code, ip) : b < ip /\ b \in Nat
    BY <1>2, AroundIs
  <2>5. \A b \in Around(code, target) : b \in Nat
    BY <1>2, AroundNat
  <2>6. ASSUME NEW b \in KeptIn(code, target)
        PROVE  b \in Around(code, ip)
    <3>1. b \in Around(code, target) /\ ~(ip <= b)
      BY <2>2, <2>3, <2>6 DEF KeptIn
    <3>2. b < ip
      BY <1>2, <2>5, <3>1
    <3> QED BY <2>2, <3>1, <3>2
  <2>7. ASSUME NEW b \in Around(code, ip)
        PROVE  b \in KeptIn(code, target)
    <3>1. b < ip /\ b \in Nat /\ b \in Around(code, target)
      BY <2>2, <2>4
    <3>2. ASSUME NEW l \in Around(code, target), l <= b, LostIn(code, l)
          PROVE  FALSE
      <4>1. l < ip
        BY <1>2, <2>5, <3>1, <3>2
      <4>2. l \in Around(code, ip)
        BY <2>2, <4>1
      <4> QED BY <1>2, <3>2, <4>2
    <3> QED BY <3>1, <3>2 DEF KeptIn
  <2>8. Around(code, ip) = KeptIn(code, target)
    BY <2>6, <2>7 DEF KeptIn
  <2>9. Stack'
    BY <1>1, <1>2, <1>9, <2>8 DEF Stack
  <2>10. OnTheWay'
    BY <1>1, <1>9 DEF OnTheWay
  <2> QED
    BY <1>1, <1>6, <2>9, <2>10 DEF IInv, Restored, FaultsOnlyWhereUnsupported
<1> QED
  BY <1>8, <1>9

(* Turning the entries round twice leaves them as they were.               *)
LEMMA TurnedTwice ==
  ASSUME NEW s \in Seq(Entry)
  PROVE  /\ Len(Reverse(s)) = Len(s)
         /\ \A i \in 1..Len(s) : Reverse(Reverse(s))[i] = s[i]
<1>1. Len(s) \in Nat
  BY LenProperties
<1>2. /\ DOMAIN Reverse(s) = 1..Len(s)
      /\ \A i \in 1..Len(s) : Reverse(s)[i] = s[(Len(s) - i) + 1]
  BY DEF Reverse
<1>3. Reverse(s) \in Seq(Entry)
  <2>1. \A i \in 1..Len(s) : (Len(s) - i) + 1 \in 1..Len(s)
    BY <1>1
  <2>2. \A i \in 1..Len(s) : s[(Len(s) - i) + 1] \in Entry
    BY <2>1, ElementOfSeq
  <2>3. Reverse(s) \in [1..Len(s) -> Entry]
    BY <2>2 DEF Reverse
  <2> QED BY <1>1, <2>3, SeqDef
<1>4. Len(Reverse(s)) = Len(s)
  BY <1>1, <1>2, <1>3, LenProperties
<1>5. ASSUME NEW i \in 1..Len(s)
      PROVE  Reverse(Reverse(s))[i] = s[i]
  <2>1. Reverse(Reverse(s))[i] = Reverse(s)[(Len(s) - i) + 1]
    BY <1>4 DEF Reverse
  <2>2. (Len(s) - i) + 1 \in 1..Len(s) /\ (Len(s) - ((Len(s) - i) + 1)) + 1 = i
    BY <1>1
  <2> QED BY <1>2, <2>1, <2>2
<1> QED
  BY <1>4, <1>5

LEMMA RestoreStep == IInv /\ Restore => IInv'
<1> SUFFICES ASSUME IInv, Restore PROVE IInv'
  OBVIOUS
<1>1. /\ ip >= target /\ status' = "restored"
      /\ frame' = [i \in 1..Len(csp) |-> Written(Reverse(Replayed)[i])]
      /\ UNCHANGED <<code, target, ip, sp, csp>>
  BY DEF Restore
<1>2. csp \in Seq(Entry) /\ Len(csp) \in Nat
  BY LenProperties DEF IInv, TypeOK, Entry
<1>3. frame' = [i \in 1..Len(csp) |-> Written(csp[i])]
  BY <1>1, <1>2, TurnedTwice DEF Replayed
<1> DEFINE R == [begin : Nat \cup {Unwritten}, target : Nat \cup {Unwritten},
                 cells : Nat, frame_sp : Int]
<1>4. \A i \in 1..Len(csp) : Written(csp[i]) \in R
  <2> SUFFICES ASSUME NEW i \in 1..Len(csp) PROVE Written(csp[i]) \in R
    OBVIOUS
  <2>1. csp[i] \in Entry
    BY <1>2, ElementOfSeq
  <2> QED BY <2>1 DEF Written, Write, Entry
<1>5. frame' \in Seq(R)
  <2> HIDE DEF R
  <2>1. frame' \in [1..Len(csp) -> R]
    BY <1>3, <1>4
  <2> QED BY <1>2, <2>1, SeqDef
<1>6. TypeOK'
  BY <1>1, <1>5 DEF IInv, TypeOK, Addresses
<1>7. OnTheWay' /\ Stack'
  BY <1>1 DEF IInv, OnTheWay, Stack
<1>8. Restored' /\ FaultsOnlyWhereUnsupported'
  BY <1>1, <1>3 DEF Restored, FaultsOnlyWhereUnsupported
<1> QED
  BY <1>6, <1>7, <1>8 DEF IInv

(* A fault is never an end without an entry to pop.                        *)
LEMMA FaultStep == IInv /\ Fault => IInv'
<1> SUFFICES ASSUME IInv, Fault PROVE IInv'
  OBVIOUS
<1>1. /\ ip < target /\ status' = "exit"
      /\ Op(ip) \in {"return", "unsupported", "end"} /\ (Op(ip) = "end" => Len(csp) <= 1)
      /\ UNCHANGED <<code, target, frame, ip, sp, csp>>
  BY DEF Fault, Replay
<1>2. Op(ip) # "end"
  <2> SUFFICES ASSUME Op(ip) = "end" PROVE FALSE
    OBVIOUS
  <2>1. /\ Valid(code) /\ ip \in 0..Len(code) - 2
        /\ Entries(code, csp, Around(code, ip)) /\ Around(code, ip) \in SUBSET Nat
    BY <1>1, Replaying
  <2>2. PICK d \in Around(code, ip) :
          \A b \in Around(code, ip) : b # d => b < d
    BY <2>1, AroundEnds DEF Op
  <2>3. Len(csp) > 1 /\ csp \in Seq(Entry)
    BY <2>1, <2>2, EntriesPop DEF Entries
  <2>4. Len(csp) \in Nat
    BY <2>3, LenProperties
  <2> QED BY <1>1, <2>3, <2>4
<1>3. TypeOK'
  BY <1>1 DEF IInv, TypeOK, Addresses
<1>4. OnTheWay' /\ Stack'
  BY <1>1 DEF IInv, OnTheWay, Stack
<1>5. Restored' /\ FaultsOnlyWhereUnsupported'
  BY <1>1, <1>2 DEF Restored, FaultsOnlyWhereUnsupported, Op
<1> QED
  BY <1>3, <1>4, <1>5 DEF IInv

(* At a label that is an opcode the claims end, but those on what has been *)
(* done so far still hold.                                                 *)
LEMMA MisreadStep == IInv /\ Misread => IInv'
<1> SUFFICES ASSUME IInv, Misread PROVE IInv'
  OBVIOUS
<1>1. /\ ip < target /\ status' = "astray"
      /\ UNCHANGED <<code, target, frame, ip, sp, csp>>
  BY DEF Misread, Replay
<1>2. TypeOK'
  BY <1>1 DEF IInv, TypeOK, Addresses
<1>3. OnTheWay' /\ Stack'
  BY <1>1 DEF IInv, OnTheWay, Stack
<1>4. Restored' /\ FaultsOnlyWhereUnsupported'
  BY <1>1 DEF Restored, FaultsOnlyWhereUnsupported
<1> QED
  BY <1>2, <1>3, <1>4 DEF IInv

LEMMA NextIInv == IInv /\ [Next]_vars => IInv'
<1> SUFFICES ASSUME IInv, [Next]_vars PROVE IInv'
  OBVIOUS
<1>t. sp \in Int /\ \A a \in Nat : a < target => Cells(a) \in Int
  <2>1. sp \in Int /\ Valid(code) /\ target \in 0..Len(code) - 1 /\ Len(code) \in Nat
    BY DepthOfValid DEF IInv, TypeOK, Addresses
  <2> SUFFICES ASSUME NEW a \in Nat, a < target PROVE Cells(a) \in Int
    BY <2>1
  <2>2. code[a + 1] \in Instruction
    BY <2>1, CodeTyped
  <2> QED BY <2>2 DEF Instruction, Cells
<1>r. ip < target => ip \in Nat /\ target \in Nat /\ Valid(code) /\ Len(code) \in Nat
                      /\ ip \in 0..Len(code) - 2 /\ target <= Len(code) - 1
  BY Replaying
<1>o. ASSUME ip < target, Op(ip) \in Openers
      PROVE  /\ OpensBlock(code, ip)
             /\ Around(code, ip + 1) = Around(code, ip) \cup {ip}
             /\ ip + 1 \in ip + 1..target
             /\ (Op(ip) # "if" => ~LostIn(code, ip) /\ ~HasElseIn(code, ip))
             /\ (HasElseIn(code, ip) => ~LostIn(code, ip))
  <2>1. OpensBlock(code, ip)
    BY <1>o, <1>r DEF OpensBlock, Op
  <2>2. Around(code, ip + 1) = Around(code, ip) \cup {ip}
    BY <1>o, <1>r, <2>1, AroundOpens
  <2>3. HasElseIn(code, ip) => Op(ip) = "if"
    BY <1>o, <1>r, <2>1, OnlyElse DEF HasElseIn, Op
  <2> QED BY <1>o, <1>r, <2>1, <2>2, <2>3 DEF LostIn, Op
<1>1. CASE Block
  <2>1. /\ ip < target /\ status = "running" /\ Op(ip) = "block" /\ ip' = ip + 1
        /\ csp' = Append(csp, Label(ip + 1, EndIn(code, ip), Cells(ip)))
        /\ UNCHANGED <<code, target, sp, status, frame>>
    BY <1>1, SameOperators DEF Block, Replay
  <2>2. csp' = Append(csp, Label(LabelIn(code, ip).begin, LabelIn(code, ip).target,
                                 LabelIn(code, ip).cells))
    BY <2>1 DEF LabelIn, Op, Cells
  <2>3. Op(ip) \in Openers /\ Op(ip) # "if"
    BY <2>1 DEF Openers
  <2> QED BY <1>o, <2>1, <2>2, <2>3, PushStep
<1>2. CASE Loop
  <2>1. /\ ip < target /\ status = "running" /\ Op(ip) = "loop" /\ ip' = ip + 1
        /\ csp' = Append(csp, Label(ip + 1, ip + 1, 0))
        /\ UNCHANGED <<code, target, sp, status, frame>>
    BY <1>2 DEF Loop, Replay
  <2>2. csp' = Append(csp, Label(LabelIn(code, ip).begin, LabelIn(code, ip).target,
                                 LabelIn(code, ip).cells))
    BY <2>1 DEF LabelIn, Op
  <2>3. Op(ip) \in Openers /\ Op(ip) # "if"
    BY <2>1 DEF Openers
  <2> QED BY <1>o, <2>1, <2>2, <2>3, PushStep
<1>3. CASE IfThen
  <2>1. /\ ip < target /\ status = "running" /\ Op(ip) = "if" /\ ip' = ip + 1
        /\ HasElseIn(code, ip) /\ target <= ElseIn(code, ip)
        /\ csp' = Append(csp, Label(ip + 1, EndIn(code, ip), Cells(ip)))
        /\ UNCHANGED <<code, target, sp, status, frame>>
    BY <1>3, SameOperators DEF IfThen, Replay, InThenPart, PushIf
  <2>2. csp' = Append(csp, Label(LabelIn(code, ip).begin, LabelIn(code, ip).target,
                                 LabelIn(code, ip).cells))
    BY <2>1 DEF LabelIn, Op, Cells
  <2>3. Op(ip) \in Openers
    BY <2>1 DEF Openers
  <2> QED BY <1>o, <2>1, <2>2, <2>3, PushStep
<1>4. CASE IfElse
  <2>1. /\ ip < target /\ status = "running" /\ Op(ip) = "if"
        /\ HasElseIn(code, ip) /\ ~(target <= ElseIn(code, ip))
        /\ ip' = ElseIn(code, ip) + 1
        /\ csp' = Append(csp, Label(ip + 1, EndIn(code, ip), Cells(ip)))
        /\ UNCHANGED <<code, target, sp, status, frame>>
    BY <1>4, SameOperators DEF IfElse, Replay, InThenPart, PushIf
  <2>2. csp' = Append(csp, Label(LabelIn(code, ip).begin, LabelIn(code, ip).target,
                                 LabelIn(code, ip).cells))
    BY <2>1 DEF LabelIn, Op, Cells
  <2>3. Op(ip) \in Openers
    BY <2>1 DEF Openers
  <2>4. /\ Around(code, ip') = Around(code, ip) \cup {ip}
        /\ ElseIn(code, ip) \in ip + 1..EndIn(code, ip) - 1
    BY <1>o, <1>r, <2>1, <2>3, AroundElse
  <2>5. EndIn(code, ip) \in Nat /\ OpensBlock(code, ip)
    BY <1>o, <1>r, <2>1, <2>3, OpenerNumbers
  <2>6. /\ ip' \in ip + 1..target /\ ~(ip' <= ElseIn(code, ip))
    BY <1>r, <2>1, <2>4, <2>5
  <2> QED BY <1>o, <2>1, <2>2, <2>3, <2>4, <2>5, <2>6, PushStep
<1>5. CASE IfSkip
  BY <1>5, SkipStep
<1>6. CASE End
  BY <1>6, PopStep
<1>7. CASE NopOrElse
  <2>1. /\ ip < target /\ status = "running" /\ ip' = ip + 1
        /\ Op(ip) \in {"nop", "unreachable", "label"}
        /\ UNCHANGED <<code, target, sp, csp, status, frame>>
    BY <1>7, NoElse DEF NopOrElse, Replay
  <2> QED BY <1>t, <2>1, StraightStep DEF Openers
<1>8. CASE Branch \/ Call \/ Variable \/ Memory \/ Numeric
  <2>1. /\ ip < target /\ status = "running" /\ ip' = ip + 1
        /\ Op(ip) \notin Openers /\ Op(ip) # "end"
        /\ UNCHANGED <<code, target, csp, status, frame>>
    BY <1>8 DEF Branch, Call, Variable, Memory, Numeric, Replay, Openers
  <2>2. Cells(ip) \in Int
    BY <1>r, <1>t, <2>1
  <2>3. sp' \in Int
    BY <1>8, <1>t, <2>2 DEF Branch, Call, Variable, Memory, Numeric
  <2> QED BY <2>1, <2>3, StraightStep
<1>9. CASE Fault
  BY <1>9, FaultStep
<1>10. CASE Restore
  BY <1>10, RestoreStep
<1>12. CASE Misread
  BY <1>12, MisreadStep
<1>11. CASE Done \/ UNCHANGED vars
  <2>1. UNCHANGED vars
    BY <1>11 DEF Done
  <2> QED
    BY <2>1 DEF vars, IInv, TypeOK, OnTheWay, Stack, Restored,
                FaultsOnlyWhereUnsupported, Addresses, Op
<1> QED
  BY <1>1, <1>2, <1>3, <1>4, <1>5, <1>6, <1>7, <1>8, <1>9, <1>10, <1>11, <1>12 DEF Next

LEMMA AlwaysIInv == Spec => []IInv
  BY InitIInv, NextIInv, PTL DEF Spec

-----------------------------------------------------------------------------
(* The replay stays within the function (wasm_replay_csp_bytecode), and    *)
(* what it pushes are addresses and numbers of cells.                      *)
THEOREM TypeCorrect == Spec => []TypeOK
<1>1. IInv => TypeOK
  BY DEF IInv
<1> QED
  BY <1>1, AlwaysIInv, PTL

(* wasm_replay_csp_bytecode does not meet an else, whatever the nesting,   *)
(* before it takes a label for an instruction.                             *)
THEOREM ElsesArePassedBy == Spec => []NoElseReplayed
<1>1. IInv => NoElseReplayed
  BY NoElse DEF NoElseReplayed
<1> QED
  BY <1>1, AlwaysIInv, PTL

(* The replay fails only at a return or at an instruction it does not know, *)
(* never for want of an entry to pop, before it takes a label for an       *)
(* instruction.                                                            *)
THEOREM NoEndWithoutEntry == Spec => []FaultsOnlyWhereUnsupported
<1>1. IInv => FaultsOnlyWhereUnsupported
  BY DEF IInv
<1> QED
  BY <1>1, AlwaysIInv, PTL

(* The restored label stack is the interpreter's, up to the first open if  *)
(* without else, for every function, however deep its blocks are nested,   *)
(* and every place in it that is reached without taking a label for an     *)
(* instruction.                                                            *)
THEOREM LabelStackRestored == Spec => []BlocksRestored
<1>1. IInv => BlocksRestored
  <2> SUFFICES ASSUME IInv, status = "restored" PROVE BlocksRestored
    BY DEF BlocksRestored
  <2> DEFINE S == IF ip <= target THEN Around(code, ip) ELSE KeptIn(code, target)
  <2>1. /\ Valid(code) /\ ip \in Nat /\ target \in Nat /\ ip >= target
        /\ frame = [i \in 1..Len(csp) |-> Written(csp[i])]
    <3>1. Valid(code) /\ ip \in 0..Len(code) - 1 /\ target \in 0..Len(code) - 1
      BY DEF IInv, TypeOK, Addresses
    <3>2. Len(code) \in Nat
      BY <3>1, DepthOfValid
    <3> QED BY <3>1, <3>2 DEF IInv, Restored
  <2>2. Entries(code, csp, S)
    BY DEF IInv, Stack
  <2>3. S = KeptIn(code, target)
    <3>1. CASE ip <= target
      <4>1. ip = target
        BY <2>1, <3>1
      <4>2. \A b \in Around(code, target) : ~LostIn(code, b)
        BY <3>1, <4>1 DEF IInv, OnTheWay
      <4> QED BY <3>1, <4>1, <4>2 DEF KeptIn
    <3>2. CASE ~(ip <= target)
      BY <3>2
    <3> QED BY <3>1, <3>2
  <2> HIDE DEF S
  <2>4. csp \in Seq(Entry) /\ Len(csp) \in Nat /\ Len(csp) >= 1
    BY <2>2, LenProperties DEF Entries
  <2>5. DOMAIN frame = 1..Len(csp) /\ Len(frame) = Len(csp)
    <3>1. DOMAIN frame = 1..Len(csp)
      BY <2>1
    <3>2. DOMAIN frame = 1..Len(frame) /\ Len(frame) \in Nat
      BY LenProperties DEF IInv, TypeOK
    <3> QED BY <2>4, <3>1, <3>2
  <2>6. ASSUME NEW i \in 2..Len(csp)
        PROVE  /\ frame[i].begin = csp[i].begin /\ frame[i].target = csp[i].target
               /\ frame[i].cells = csp[i].cells
    <3>1. i \in 1..Len(csp) /\ csp[i] \in Entry
      BY <2>4, ElementOfSeq
    <3>2. csp[i].begin - 1 \in S /\ PartsOf(csp[i]) = LabelIn(code, csp[i].begin - 1)
      BY <2>2 DEF Entries
    <3>3. csp[i].begin - 1 \in Nat /\ OpensBlock(code, csp[i].begin - 1)
      <4>1. csp[i].begin - 1 \in Around(code, target)
        BY <2>3, <3>2 DEF KeptIn
      <4>2. OpensBlock(code, csp[i].begin - 1)
        BY <2>1, <4>1, AroundIs
      <4> QED BY <2>1, <4>2, OpenerNumbers
    <3>4. /\ EndIn(code, csp[i].begin - 1) \in Nat
          /\ csp[i].begin - 1 < EndIn(code, csp[i].begin - 1)
      BY <2>1, <3>3, OpenerNumbers
    <3>5. csp[i].begin # 0 /\ csp[i].target # 0
      <4>1. csp[i].target = LabelIn(code, csp[i].begin - 1).target
        BY <3>2 DEF PartsOf
      <4> QED BY <3>1, <3>3, <3>4, <4>1 DEF LabelIn, Entry
    <3>6. frame[i] = Written(csp[i])
      BY <2>1, <3>1
    <3> QED BY <3>1, <3>5, <3>6 DEF Written, Write, Entry
  <2>7. frame[1].target = Write(Len(code) - 1)
    <3>1. 1 \in 1..Len(csp) /\ csp[1] \in Entry /\ csp[1].target = Len(code) - 1
      BY <2>2, <2>4, ElementOfSeq DEF Entries
    <3>2. frame[1] = Written(csp[1])
      BY <2>1, <3>1
    <3> QED BY <3>1, <3>2 DEF Written, Entry
  <2>8. {frame[i].begin - 1 : i \in 2..Len(frame)} = Kept(target)
    <3>1. {csp[i].begin - 1 : i \in 2..Len(csp)} = Kept(target)
      BY <2>2, <2>3, SameOperators DEF Entries
    <3> QED BY <2>5, <2>6, <3>1
  <2>9. \A i, j \in 2..Len(frame) : i < j => frame[i].begin - 1 < frame[j].begin - 1
    <3> SUFFICES ASSUME NEW i \in 2..Len(csp), NEW j \in 2..Len(csp), i < j
                 PROVE  frame[i].begin - 1 < frame[j].begin - 1
      BY <2>5
    <3>1. csp[i] \in Entry /\ csp[j] \in Entry
      BY <2>4, ElementOfSeq
    <3>2. csp[i].begin < csp[j].begin /\ csp[i].begin \in Nat /\ csp[j].begin \in Nat
      BY <2>2, <3>1 DEF Entries, Entry
    <3> QED BY <2>6, <3>2
  <2>10. \A i \in 2..Len(frame) :
           PartsOf(frame[i]) = LabelOf(frame[i].begin - 1)
    BY <2>2, <2>5, <2>6, SameOperators DEF Entries, PartsOf
  <2> QED
    BY <2>7, <2>8, <2>9, <2>10 DEF BlocksRestored, PartsOf
<1> QED
  BY <1>1, AlwaysIInv, PTL

-----------------------------------------------------------------------------
(***************************************************************************)
(* The heights of the operand stack.  As long as no instruction has come   *)
(* that the replay miscounts, sp is the sum of the effects so far, and so  *)
(* is what an entry has kept of it.                                        *)
(***************************************************************************)
WellCounted(c, t) == \A a \in 0..t - 1 : c[a + 1].op \notin Miscounted

Heights ==
  /\ ip <= target /\ WellCounted(code, ip) => sp = SumTo(code, ip)
  /\ \A i \in 2..Len(csp) :
       WellCounted(code, csp[i].begin)
         => csp[i].frame_sp = SumTo(code, csp[i].begin - 1)

LEMMA HeightNext ==
  ASSUME NEW c, Valid(c), NEW a \in 0..Len(c) - 1
  PROVE  /\ Effects(c)[a] \in Int
         /\ SumTo(c, a) \in Int
         /\ SumTo(c, a + 1) = SumTo(c, a) + Effects(c)[a]
<1>1. a \in Nat /\ Len(c) \in Nat
  BY DepthOfValid
<1>2. \A x \in 0..Len(c) - 1 : Effects(c)[x] \in Int
  <2> SUFFICES ASSUME NEW x \in 0..Len(c) - 1 PROVE Effects(c)[x] \in Int
    OBVIOUS
  <2>1. c[x + 1].n \in Int
    BY CodeTyped DEF Instruction
  <2>2. Effects(c)[x] = IF c[x + 1].op \in {"block", "loop"} THEN 0
                         ELSE IF c[x + 1].op = "if" THEN -1 ELSE c[x + 1].n
    BY DEF Effects
  <2> QED BY <2>1, <2>2
<1>3. \A x \in 0..a : Effects(c)[x] \in Int
  BY <1>1, <1>2
<1>4. IsFiniteSet(0..a) /\ IsFiniteSet(0..a - 1) /\ a \in 0..a
  <2>1. 0 \in Int /\ a \in Int /\ a - 1 \in Int /\ a \in 0..a
    BY <1>1
  <2> QED BY <2>1, FS_Interval
<1>5. SumFunctionOnSet(Effects(c), 0..a)
        = Effects(c)[a] + SumFunctionOnSet(Effects(c), (0..a) \ {a})
  BY <1>3, <1>4, SumRemove
<1>6. (0..a) \ {a} = 0..a - 1 /\ (a + 1) - 1 = a
  BY <1>1
<1>7. \A x \in 0..a - 1 : Effects(c)[x] \in Int
  BY <1>1, <1>2
<1>8. SumFunctionOnSet(Effects(c), 0..a - 1) \in Int
  BY <1>4, <1>7, SumInt
<1>9. SumTo(c, a) = SumFunctionOnSet(Effects(c), 0..a - 1)
      /\ SumTo(c, a + 1) = SumFunctionOnSet(Effects(c), 0..a)
  BY <1>6 DEF SumTo
<1> QED
  <2> DEFINE e == Effects(c)[a]
             h == SumTo(c, a)
             n == SumTo(c, a + 1)
  <2>1. e \in Int /\ h \in Int /\ n = e + h
    BY <1>2, <1>5, <1>6, <1>8, <1>9
  <2>2. n = h + e
    <3> HIDE DEF e, h, n
    <3> QED BY <2>1
  <2> QED BY <2>1, <2>2

LEMMA InitHeights == Init => Heights
<1> SUFFICES ASSUME Init PROVE Heights
  OBVIOUS
<1>1. 0..0 - 1 = {}
  OBVIOUS
<1>2. SumTo(code, 0) = 0
  BY <1>1, SumEmpty DEF SumTo
<1>3. ip = 0 /\ sp = 0 /\ Len(csp) = 1
  BY DEF Init
<1> QED
  BY <1>2, <1>3 DEF Heights

LEMMA Below ==
  ASSUME NEW m \in Nat, NEW n \in Nat, m < n
  PROVE  m \in 0..n - 1 /\ \A a \in 0..m - 1 : a \in 0..n - 1
OBVIOUS

(* What a step within the function does to the height under WellCounted.   *)
LEMMA HeightStep ==
  ASSUME IInv, Heights, ip < target, UNCHANGED <<code, target>>,
         ip' \in Nat, ip < ip',
         \/ Op(ip) = "if"
         \/ /\ ip' = ip + 1
            /\ Op(ip) \notin Miscounted => sp' = sp + Effects(code)[ip]
  PROVE  WellCounted(code, ip') => /\ sp = SumTo(code, ip)
                                   /\ sp' = SumTo(code, ip')
                                   /\ Op(ip) \notin Miscounted
<1> SUFFICES ASSUME WellCounted(code, ip')
             PROVE  /\ sp = SumTo(code, ip) /\ sp' = SumTo(code, ip')
                    /\ Op(ip) \notin Miscounted
  OBVIOUS
<1>1. /\ Valid(code) /\ ip \in Nat /\ target \in Nat /\ ip \in 0..Len(code) - 2
      /\ Len(code) \in Nat
  BY Replaying
<1>i. ip' \in Nat /\ ip < ip' /\ ip < target
  OBVIOUS
<1>2. ip \in 0..ip' - 1 /\ ip \in 0..Len(code) - 1 /\ ip <= target
  <2>1. ip \in 0..ip' - 1
    BY <1>1, <1>i, Below
  <2>2. ip \in 0..Len(code) - 1 /\ ip <= target
    BY <1>1, <1>i
  <2> QED BY <2>1, <2>2
<1>3. Op(ip) \notin Miscounted
  BY <1>2 DEF WellCounted, Op
<1>4. Op(ip) # "if"
  BY <1>3 DEF Miscounted
<1>5. WellCounted(code, ip)
  <2>1. \A a \in 0..ip - 1 : a \in 0..ip' - 1
    BY <1>1, <1>i, Below
  <2> QED BY <2>1 DEF WellCounted
<1>6. sp = SumTo(code, ip)
  BY <1>2, <1>5 DEF Heights
<1>7. SumTo(code, ip + 1) = SumTo(code, ip) + Effects(code)[ip]
  BY <1>1, <1>2, HeightNext
<1> QED
  BY <1>3, <1>4, <1>6, <1>7

(* A step that pushes an entry.                                            *)
LEMMA HeightPushed ==
  ASSUME IInv, Heights, ip < target, UNCHANGED <<code, target, sp>>,
         ip' \in Nat, ip < ip',
         Op(ip) \in Openers, Op(ip) # "if" => ip' = ip + 1,
         NEW t, NEW cells, csp' = Append(csp, Label(ip + 1, t, cells)),
         Label(ip + 1, t, cells) \in Entry
  PROVE  Heights'
<1> DEFINE entry == Label(ip + 1, t, cells)
<1>1. /\ Valid(code) /\ ip \in Nat /\ target \in Nat /\ ip \in 0..Len(code) - 2
      /\ Len(code) \in Nat /\ csp \in Seq(Entry)
  BY Replaying
<1>2. ip \in 0..Len(code) - 1
  BY <1>1
<1>3. Op(ip) # "if" => Effects(code)[ip] = 0
  BY <1>2 DEF Effects, Openers, Op
<1>4. Op(ip) \notin Miscounted => sp' = sp + Effects(code)[ip]
  <2>1. sp \in Int
    BY DEF IInv, TypeOK
  <2> QED BY <1>3, <2>1 DEF Miscounted
<1>5. WellCounted(code, ip') => /\ sp = SumTo(code, ip) /\ sp' = SumTo(code, ip')
                                /\ Op(ip) \notin Miscounted
  BY <1>4, HeightStep
<1>6. WellCounted(code, ip + 1) => sp = SumTo(code, ip)
  <2>1. ip \in 0..(ip + 1) - 1
    BY <1>1
  <2>2. WellCounted(code, ip + 1) => Op(ip) # "if"
    BY <2>1 DEF WellCounted, Op, Miscounted
  <2> QED BY <1>5, <2>2
<1>7. /\ Len(csp') = Len(csp) + 1 /\ Len(csp) \in Nat
      /\ \A i \in 1..Len(csp) : csp'[i] = csp[i]
      /\ csp'[Len(csp) + 1] = entry
  BY <1>1, AppendProperties, LenProperties
<1>8. entry.begin = ip + 1 /\ entry.frame_sp = sp /\ entry.begin - 1 = ip
  BY <1>1 DEF Label
<1> HIDE DEF entry
<1>9. ASSUME NEW i \in 2..Len(csp'), WellCounted(code, csp'[i].begin)
      PROVE  csp'[i].frame_sp = SumTo(code, csp'[i].begin - 1)
  <2>1. CASE i = Len(csp) + 1
    BY <1>6, <1>7, <1>8, <1>9, <2>1
  <2>2. CASE i # Len(csp) + 1
    <3>1. i \in 2..Len(csp) /\ i \in 1..Len(csp)
      BY <1>7, <2>2
    <3> QED BY <1>7, <1>9, <3>1 DEF Heights
  <2> QED BY <2>1, <2>2
<1> QED
  BY <1>5, <1>9 DEF Heights

(* A step that pushes nothing.                                             *)
LEMMA HeightKept ==
  ASSUME IInv, Heights, ip < target, UNCHANGED <<code, target>>,
         ip' \in Nat, ip < ip',
         \/ Op(ip) = "if"
         \/ /\ ip' = ip + 1
            /\ Op(ip) \notin Miscounted => sp' = sp + Effects(code)[ip],
         Len(csp') \in Nat, Len(csp') <= Len(csp),
         \A i \in 2..Len(csp') : csp'[i] = csp[i]
  PROVE  Heights'
<1>1. WellCounted(code, ip') => sp' = SumTo(code, ip')
  BY HeightStep
<1>2. Len(csp) \in Nat
  BY LenProperties, Replaying
<1>3. \A i \in 2..Len(csp') : i \in 2..Len(csp)
  BY <1>2
<1> QED
  BY <1>1, <1>3 DEF Heights

(* What is left of the stack when its top is taken off.                    *)
LEMMA FrontKeeps ==
  ASSUME NEW s \in Seq(Entry), Len(s) > 1
  PROVE  /\ Len(Front(s)) = Len(s) - 1
         /\ \A i \in 1..Len(s) - 1 : Front(s)[i] = s[i]
<1>1. Len(s) \in Nat
  BY LenProperties
<1>2. \A i \in 1..Len(s) : s[i] \in Entry
  BY ElementOfSeq
<1>3. Len(s) - 1 \in Int /\ 1 \in Int /\ \A i \in 1..Len(s) - 1 : s[i] \in Entry
  BY <1>1, <1>2
<1>4. /\ Len(SubSeq(s, 1, Len(s) - 1))
           = IF 1 <= Len(s) - 1 THEN (Len(s) - 1) - 1 + 1 ELSE 0
      /\ \A i \in 1..(Len(s) - 1) - 1 + 1 : SubSeq(s, 1, Len(s) - 1)[i] = s[1 + i - 1]
  BY <1>3, SubSeqProperties
<1>5. (Len(s) - 1) - 1 + 1 = Len(s) - 1 /\ \A i \in 1..Len(s) - 1 : 1 + i - 1 = i
  BY <1>1
<1> QED BY <1>1, <1>4, <1>5 DEF Front

LEMMA HeightsNext == IInv /\ Heights /\ [Next]_vars => Heights'
<1> SUFFICES ASSUME IInv, Heights, [Next]_vars PROVE Heights'
  OBVIOUS
<1>t. sp \in Int /\ csp \in Seq(Entry) /\ Len(csp) \in Nat
  BY LenProperties DEF IInv, TypeOK, Entry
<1>r. ASSUME ip < target
      PROVE  /\ ip \in Nat /\ target \in Nat /\ Valid(code) /\ Len(code) \in Nat
             /\ ip \in 0..Len(code) - 1 /\ target <= Len(code) - 1
             /\ code[ip + 1] \in Instruction /\ Cells(ip) \in Int
             /\ ip + 1 \in Nat /\ ip < ip + 1
  <2>1. /\ ip \in Nat /\ target \in Nat /\ Valid(code) /\ Len(code) \in Nat
        /\ ip \in 0..Len(code) - 2 /\ target <= Len(code) - 1
        /\ code[ip + 1] \in Instruction
    BY <1>r, Replaying
  <2>2. Cells(ip) \in Int
    BY <2>1 DEF Cells, Instruction
  <2> QED BY <2>1, <2>2
<1>e. ASSUME ip < target
      PROVE  Effects(code)[ip] = IF Op(ip) \in {"block", "loop"} THEN 0
                                  ELSE IF Op(ip) = "if" THEN -1 ELSE Cells(ip)
  BY <1>e, <1>r DEF Effects, Op, Cells
<1>o. ASSUME ip < target, Op(ip) \in Openers
      PROVE  /\ OpensBlock(code, ip) /\ EndIn(code, ip) \in Nat /\ Cells(ip) \in Nat
             /\ ip < EndIn(code, ip)
             /\ Label(ip + 1, EndIn(code, ip), Cells(ip)) \in Entry
             /\ Label(ip + 1, ip + 1, 0) \in Entry
  <2>1. OpensBlock(code, ip)
    BY <1>o, <1>r DEF OpensBlock, Op
  <2>2. EndIn(code, ip) \in Nat /\ ip < EndIn(code, ip)
    BY <1>o, <1>r, <2>1, OpenerNumbers
  <2>3. Cells(ip) \in Nat
    BY <1>o, <1>r DEF Instruction, Openers, Op, Cells
  <2> QED BY <1>o, <1>r, <1>t, <2>1, <2>2, <2>3 DEF Label, Entry
<1>1. CASE Block
  <2>1. /\ ip < target /\ Op(ip) = "block" /\ ip' = ip + 1
        /\ csp' = Append(csp, Label(ip + 1, EndIn(code, ip), Cells(ip)))
        /\ UNCHANGED <<code, target, sp>>
    BY <1>1, SameOperators DEF Block, Replay
  <2>2. Op(ip) \in Openers
    BY <2>1 DEF Openers
  <2> QED BY <1>o, <1>r, <2>1, <2>2, HeightPushed
<1>2. CASE Loop
  <2>1. /\ ip < target /\ Op(ip) = "loop" /\ ip' = ip + 1
        /\ csp' = Append(csp, Label(ip + 1, ip + 1, 0))
        /\ UNCHANGED <<code, target, sp>>
    BY <1>2 DEF Loop, Replay
  <2>2. Op(ip) \in Openers
    BY <2>1 DEF Openers
  <2> QED BY <1>o, <1>r, <2>1, <2>2, HeightPushed
<1>3. CASE IfThen \/ IfElse
  <2>1. /\ ip < target /\ Op(ip) = "if" /\ HasElseIn(code, ip)
        /\ ip' = ip + 1 \/ ip' = ElseIn(code, ip) + 1
        /\ csp' = Append(csp, Label(ip + 1, EndIn(code, ip), Cells(ip)))
        /\ UNCHANGED <<code, target, sp>>
    BY <1>3, SameOperators DEF IfThen, IfElse, InThenPart, Replay, PushIf
  <2>2. Op(ip) \in Openers
    BY <2>1 DEF Openers
  <2>3. ElseIn(code, ip) \in ip + 1..EndIn(code, ip) - 1
    BY <1>o, <1>r, <2>1, <2>2, AroundElse
  <2>4. ElseIn(code, ip) \in Nat /\ ip < ElseIn(code, ip)
    BY <1>o, <1>r, <2>1, <2>2, <2>3
  <2>5. ip' \in Nat /\ ip < ip'
    BY <1>r, <2>1, <2>4
  <2> QED BY <1>o, <1>r, <2>1, <2>2, <2>5, HeightPushed
<1>4. CASE IfSkip
  <2>1. /\ ip < target /\ Op(ip) = "if" /\ ip' = EndIn(code, ip) + 1
        /\ UNCHANGED <<code, target, sp, csp>>
    BY <1>4, SameOperators DEF IfSkip, Replay, PastEnd
  <2>2. Op(ip) \in Openers
    BY <2>1 DEF Openers
  <2>3. ip' \in Nat /\ ip < ip'
    BY <1>o, <1>r, <2>1, <2>2
  <2>4. Len(csp') \in Nat /\ Len(csp') <= Len(csp) /\ \A i \in 2..Len(csp') : csp'[i] = csp[i]
    BY <1>t, <2>1
  <2> QED BY <2>1, <2>3, <2>4, HeightKept
<1>5. CASE End
  <2>1. /\ ip < target /\ Op(ip) = "end" /\ ip' = ip + 1 /\ Len(csp) > 1
        /\ csp' = Front(csp) /\ UNCHANGED <<code, target, sp>>
    BY <1>5 DEF End, Replay
  <2>2. Cells(ip) = 0
    BY <1>r, <2>1 DEF Instruction, Cells, Op, Openers
  <2>3. sp' = sp + Effects(code)[ip]
    BY <1>e, <1>t, <2>1, <2>2
  <2>4. Len(csp') \in Nat /\ Len(csp') <= Len(csp) /\ \A i \in 2..Len(csp') : csp'[i] = csp[i]
    <3>1. csp \in Seq(Entry) /\ Len(csp) \in Nat
      BY <1>t
    <3>2. Len(csp') = Len(csp) - 1 /\ \A i \in 1..Len(csp) - 1 : csp'[i] = csp[i]
      BY <2>1, <3>1, FrontKeeps
    <3>3. \A i \in 2..Len(csp') : i \in 1..Len(csp) - 1
      BY <3>1, <3>2
    <3> QED BY <2>1, <3>1, <3>2, <3>3
  <2> QED BY <1>r, <2>1, <2>3, <2>4, HeightKept
<1>6. CASE NopOrElse \/ Branch \/ Call \/ Variable \/ Memory \/ Numeric
  <2>1. /\ ip < target /\ ip' = ip + 1 /\ UNCHANGED <<code, target, csp>>
        /\ Op(ip) \notin {"block", "loop", "if"}
    BY <1>6, NoElse DEF NopOrElse, Branch, Call, Variable, Memory, Numeric, Replay
  <2>2. /\ Op(ip) = "br_if" => Cells(ip) = -1
        /\ Op(ip) = "nop" => Cells(ip) = 0
    BY <1>r, <2>1 DEF Instruction, Cells, Op, Openers
  <2>3. Op(ip) \notin Miscounted => sp' = sp + Cells(ip)
    <3>1. CASE NopOrElse
      <4>1. Op(ip) \in {"nop", "unreachable", "label"} /\ sp' = sp
        BY <2>1, <3>1, NoElse DEF NopOrElse, Replay
      <4> QED BY <1>t, <2>2, <4>1 DEF Miscounted
    <3>2. CASE Branch
      BY <1>t, <2>1, <2>2, <3>2 DEF Branch, Replay, Miscounted
    <3>3. CASE Call
      BY <3>3 DEF Call, Replay, Miscounted
    <3>4. CASE Variable
      BY <3>4 DEF Variable
    <3>5. CASE Memory
      BY <3>5 DEF Memory, Replay, Miscounted
    <3>6. CASE Numeric
      BY <3>6 DEF Numeric, Replay, Miscounted
    <3> QED BY <1>6, <3>1, <3>2, <3>3, <3>4, <3>5, <3>6
  <2>4. Op(ip) \notin Miscounted => sp' = sp + Effects(code)[ip]
    BY <1>e, <2>1, <2>3
  <2>5. Len(csp') \in Nat /\ Len(csp') <= Len(csp) /\ \A i \in 2..Len(csp') : csp'[i] = csp[i]
    BY <1>t, <2>1
  <2> QED BY <1>r, <2>1, <2>4, <2>5, HeightKept
<1>7. CASE Fault \/ Misread \/ Restore \/ Done \/ UNCHANGED vars
  <2>1. UNCHANGED <<code, target, ip, sp, csp>>
    BY <1>7 DEF Fault, Misread, Restore, Replay, Done, vars
  <2> QED BY <2>1 DEF Heights
<1> QED
  BY <1>1, <1>2, <1>3, <1>4, <1>5, <1>6, <1>7 DEF Next

LEMMA AlwaysHeights == Spec => [](IInv /\ Heights)
  BY InitIInv, NextIInv, InitHeights, HeightsNext, PTL DEF Spec

-----------------------------------------------------------------------------
(***************************************************************************)
(* The sum of all effects is the height that follows from the nesting: a   *)
(* closed block adds its results, because it is balanced.                  *)
(***************************************************************************)
LEMMA ClosedIs ==
  ASSUME Valid(code), NEW t
  PROVE  \A b : b \in Closed(t) <=> OpensBlock(code, b) /\ EndIn(code, b) < t
<1>1. \A b : EndOf(b) = EndIn(code, b)
  BY SameOperators
<1> QED
  BY <1>1 DEF Closed, OpensBlock, Addresses, Op

LEMMA OutsideIs ==
  ASSUME Valid(code), NEW t
  PROVE  \A a : a \in Outside(t) <=>
           /\ a \in 0..t - 1
           /\ \A b \in Closed(t) : ~(b < a /\ a <= EndIn(code, b))
<1>1. \A b : EndOf(b) = EndIn(code, b)
  BY SameOperators
<1> QED
  BY <1>1 DEF Outside

LEMMA LeftIs ==
  ASSUME Valid(code), NEW t
  PROVE  \A a \in 0..Len(code) - 1 :
           /\ Left(t)[a] = IF Op(a) \notin Openers \/ a \in Closed(t) THEN Cells(a) ELSE 0
           /\ Left(t)[a] \in Int
<1> SUFFICES ASSUME NEW a \in 0..Len(code) - 1
             PROVE  /\ Left(t)[a] = IF Op(a) \notin Openers \/ a \in Closed(t)
                                    THEN Cells(a) ELSE 0
                    /\ Left(t)[a] \in Int
  OBVIOUS
<1>1. Left(t)[a] = IF Op(a) \notin Openers \/ a \in Closed(t) THEN Cells(a) ELSE 0
  BY DEF Left, Addresses
<1>2. Cells(a) \in Int
  <2>1. code[a + 1] \in Instruction
    BY CodeTyped
  <2> QED BY <2>1 DEF Instruction, Cells
<1> QED
  BY <1>1, <1>2

(* An instruction that closes no block.                                    *)
LEMMA HeightStraight ==
  ASSUME Valid(code), NEW s \in Nat, s + 1 <= Len(code) - 1,
         Op(s) # "end", Op(s) \notin Miscounted, Height(s) \in Int
  PROVE  Height(s + 1) = Height(s) + Effects(code)[s]
<1>1. Len(code) \in Nat /\ s \in 0..Len(code) - 1 /\ s + 1 \in Nat
  BY DepthOfValid
<1>2. \A b : OpensBlock(code, b) => b \in Nat /\ EndIn(code, b) \in Nat
                                    /\ EndIn(code, b) # s /\ b < EndIn(code, b)
  <2> SUFFICES ASSUME NEW b, OpensBlock(code, b)
               PROVE  b \in Nat /\ EndIn(code, b) \in Nat
                      /\ EndIn(code, b) # s /\ b < EndIn(code, b)
    OBVIOUS
  <2>1. code[EndIn(code, b) + 1].op = "end"
    BY EndIsAnEnd
  <2> QED BY <2>1, OpenerNumbers DEF Op
<1>3. Closed(s + 1) = Closed(s)
  <2>1. \A b : OpensBlock(code, b) => (EndIn(code, b) < s + 1 <=> EndIn(code, b) < s)
    BY <1>2
  <2>2. \A b : b \in Closed(s + 1) <=> b \in Closed(s)
    BY <2>1, ClosedIs
  <2> QED BY <2>2
<1>4. \A b \in Closed(s) : ~(s <= EndIn(code, b))
  BY <1>2, ClosedIs
<1>5. s \in Outside(s + 1) /\ Outside(s + 1) \ {s} = Outside(s)
  <2>1. s \in 0..(s + 1) - 1 /\ \A a : a \in 0..(s + 1) - 1 /\ a # s <=> a \in 0..s - 1
    BY <1>1
  <2>2. s \in Outside(s + 1)
    BY <1>3, <1>4, <2>1, OutsideIs
  <2>3. \A a : a \in Outside(s + 1) /\ a # s <=> a \in Outside(s)
    BY <1>3, <2>1, OutsideIs
  <2> QED BY <2>2, <2>3
<1>6. Left(s + 1) = Left(s)
  BY <1>3 DEF Left
<1>7. IsFiniteSet(Outside(s + 1)) /\ \A x \in Outside(s + 1) : Left(s + 1)[x] \in Int
  <2>1. \A x \in Outside(s + 1) : x \in 0..s /\ x \in 0..Len(code) - 1
    BY <1>1, OutsideIs
  <2>2. IsFiniteSet(0..s)
    BY FS_Interval
  <2> QED BY <2>1, <2>2, FS_Subset, LeftIs
<1>8. Height(s + 1) = Left(s)[s] + Height(s)
  <2>1. SumFunctionOnSet(Left(s + 1), Outside(s + 1))
          = Left(s + 1)[s] + SumFunctionOnSet(Left(s + 1), Outside(s + 1) \ {s})
    BY <1>5, <1>7, SumRemove
  <2> QED BY <1>5, <1>6, <2>1 DEF Height
<1>9. Left(s)[s] = Effects(code)[s] /\ Left(s)[s] \in Int
  <2>1. s \notin Closed(s)
    BY <1>2, ClosedIs, <1>1
  <2>2. Left(s)[s] = (IF Op(s) \notin Openers THEN Cells(s) ELSE 0) /\ Left(s)[s] \in Int
    BY <1>1, <2>1, LeftIs
  <2>3. Effects(code)[s] = IF Op(s) \in {"block", "loop"} THEN 0 ELSE Cells(s)
    BY <1>1 DEF Effects, Miscounted, Op, Cells
  <2>4. Op(s) \in Openers <=> Op(s) \in {"block", "loop"}
    BY DEF Openers, Miscounted
  <2> QED BY <2>2, <2>3, <2>4
<1> DEFINE h == Height(s)
           l == Left(s)[s]
<1>10. Height(s + 1) = l + h /\ l \in Int /\ h \in Int /\ Effects(code)[s] = l
  BY <1>8, <1>9
<1> HIDE DEF h, l
<1>11. Height(s + 1) = h + l
  BY <1>10
<1> QED
  BY <1>10, <1>11 DEF h

(* The end of a block.                                                     *)
LEMMA HeightClosed ==
  ASSUME Valid(code), NEW d, OpensBlock(code, d)
  PROVE  Height(EndIn(code, d) + 1) = Cells(d) + Height(d)
<1> DEFINE s == EndIn(code, d)
<1>1. /\ d \in Nat /\ s \in Nat /\ d < s /\ s < Len(code) - 1 /\ Len(code) \in Nat
      /\ d \in 0..Len(code) - 1
  BY OpenerNumbers, DepthOfValid DEF OpensBlock
<1>2. ASSUME NEW b, OpensBlock(code, b), b < d
      PROVE  b \in Nat /\ EndIn(code, b) \in Nat
             /\ (EndIn(code, b) < s + 1 <=> EndIn(code, b) < d)
  <2>1. b \in Nat /\ EndIn(code, b) \in Nat
    BY <1>2, OpenerNumbers
  <2>2. d <= EndIn(code, b) => s < EndIn(code, b)
    BY <1>2, BlocksNest
  <2> HIDE DEF s
  <2> QED BY <1>1, <2>1, <2>2
<1>3. d \in Closed(s + 1)
  BY <1>1, ClosedIs
<1> HIDE DEF s
<1>4. \A b : b < d => (b \in Closed(s + 1) <=> b \in Closed(d))
  BY <1>2, ClosedIs
<1>5. \A b \in Closed(d) : b \in Closed(s + 1)
  <2> SUFFICES ASSUME NEW b \in Closed(d) PROVE b \in Closed(s + 1)
    OBVIOUS
  <2>1. OpensBlock(code, b) /\ EndIn(code, b) < d /\ EndIn(code, b) \in Nat
    BY ClosedIs, OpenerNumbers
  <2> QED BY <1>1, <2>1, ClosedIs
<1>6. Outside(s + 1) \ {d} = Outside(d)
  <2>1. ASSUME NEW a \in Outside(s + 1), a # d
        PROVE  a \in Outside(d)
    <3>1. a \in 0..s /\ ~(d < a /\ a <= s)
      BY <1>1, <1>3, OutsideIs DEF s
    <3>2. a \in 0..d - 1
      BY <1>1, <2>1, <3>1
    <3> QED BY <1>5, <2>1, <3>2, OutsideIs
  <2>2. ASSUME NEW a \in Outside(d)
        PROVE  a \in Outside(s + 1) /\ a # d
    <3>1. a \in 0..d - 1 /\ a \in 0..(s + 1) - 1 /\ a # d /\ a < d /\ a \in Nat
      BY <1>1, OutsideIs
    <3>2. ASSUME NEW b \in Closed(s + 1), b < a PROVE ~(a <= EndIn(code, b))
      <4>1. b < d
        <5>1. b \in Nat
          BY <3>2, ClosedIs, OpenerNumbers
        <5> QED BY <1>1, <3>1, <3>2, <5>1
      <4>2. b \in Closed(d)
        BY <1>4, <4>1
      <4> QED BY <3>2, <4>2, OutsideIs
    <3> QED BY <3>1, <3>2, OutsideIs
  <2> QED BY <2>1, <2>2
<1>7. d \in Outside(s + 1)
  <2>1. ASSUME NEW b \in Closed(s + 1), b < d PROVE ~(d <= EndIn(code, b))
    <3>1. OpensBlock(code, b) /\ EndIn(code, b) < s + 1
      BY ClosedIs
    <3>2. EndIn(code, b) < d /\ EndIn(code, b) \in Nat
      BY <1>2, <2>1, <3>1
    <3> QED BY <1>1, <3>2
  <2>2. d \in 0..(s + 1) - 1
    BY <1>1
  <2> QED BY <2>1, <2>2, OutsideIs
<1>8. \A x \in Outside(d) : Left(s + 1)[x] = Left(d)[x]
  <2> SUFFICES ASSUME NEW x \in Outside(d) PROVE Left(s + 1)[x] = Left(d)[x]
    OBVIOUS
  <2>1. x \in 0..d - 1
    BY OutsideIs
  <2>2. x < d /\ x \in 0..Len(code) - 1
    BY <1>1, <2>1
  <2> QED BY <1>4, <2>2, LeftIs
<1>9. /\ IsFiniteSet(Outside(s + 1)) /\ IsFiniteSet(Outside(d))
      /\ \A x \in Outside(s + 1) : Left(s + 1)[x] \in Int
  <2>1. \A x \in Outside(s + 1) : x \in 0..s /\ x \in 0..Len(code) - 1
    BY <1>1, OutsideIs
  <2>2. IsFiniteSet(0..s)
    BY <1>1, FS_Interval
  <2>3. IsFiniteSet(Outside(s + 1)) /\ Outside(d) \in SUBSET Outside(s + 1)
    BY <1>6, <2>1, <2>2, FS_Subset
  <2> QED BY <2>1, <2>3, FS_Subset, LeftIs
<1>10. Left(s + 1)[d] = Cells(d)
  BY <1>1, <1>3, LeftIs
<1>11. SumFunctionOnSet(Left(s + 1), Outside(s + 1))
         = Left(s + 1)[d] + SumFunctionOnSet(Left(s + 1), Outside(s + 1) \ {d})
  BY <1>7, <1>9, SumRemove
<1>12. SumFunctionOnSet(Left(s + 1), Outside(d)) = SumFunctionOnSet(Left(d), Outside(d))
  BY <1>8, <1>9, SumSame
<1> QED
  BY <1>6, <1>10, <1>11, <1>12 DEF Height, s

(* And the sum at the end of a block, which is balanced.                   *)
LEMMA SumClosed ==
  ASSUME Valid(code), NEW d, OpensBlock(code, d),
         WellCounted(code, EndIn(code, d) + 1)
  PROVE  /\ SumTo(code, EndIn(code, d) + 1) = SumTo(code, d) + Cells(d)
         /\ SumTo(code, d) \in Int /\ Cells(d) \in Int
<1> DEFINE s == EndIn(code, d)
<1>1. /\ d \in Nat /\ s \in Nat /\ d < s /\ s < Len(code) - 1 /\ Len(code) \in Nat
      /\ d \in 0..Len(code) - 1 /\ s \in 0..Len(code) - 1 /\ d + 1 \in 0..Len(code) - 1
  BY OpenerNumbers, DepthOfValid DEF OpensBlock
<1>2. Spans(code, d, s)
  BY <1>1, OpenUntilEnd DEF Spans
<1>3. code[s + 1].op = "end"
  BY EndIsAnEnd
<1>4. \A a \in 0..s : code[a + 1].op \notin Miscounted
  BY <1>1 DEF WellCounted
<1> HIDE DEF s
<1>5. code[d + 1].op \in {"block", "loop"}
  <2>1. d \in 0..s
    BY <1>1
  <2> QED BY <1>4, <2>1 DEF OpensBlock, Openers, Miscounted
<1>6. \A a \in d + 1..s - 1 : code[a + 1].op \notin Miscounted
  <2>1. \A a \in d + 1..s - 1 : a \in 0..s
    BY <1>1
  <2> QED BY <1>4, <2>1
<1>7. SumTo(code, s) - SumTo(code, d + 1) = code[d + 1].n
  BY <1>1, <1>2, <1>5, <1>6 DEF Valid, Balanced
<1>8. Effects(code)[d] = 0 /\ Effects(code)[s] = 0
  <2>1. code[s + 1].n = 0
    <3>1. code[s + 1] \in Instruction
      BY <1>1, CodeTyped
    <3> QED BY <1>3, <3>1 DEF Instruction, Openers
  <2> QED BY <1>1, <1>3, <1>5, <2>1 DEF Effects
<1>9. /\ SumTo(code, d) \in Int /\ SumTo(code, d + 1) = SumTo(code, d) + Effects(code)[d]
      /\ SumTo(code, s) \in Int /\ SumTo(code, s + 1) = SumTo(code, s) + Effects(code)[s]
      /\ SumTo(code, d + 1) \in Int
  BY <1>1, HeightNext
<1>10. Cells(d) \in Int
  <2>1. code[d + 1] \in Instruction
    BY <1>1, CodeTyped
  <2> QED BY <2>1 DEF Instruction, Cells
<1> DEFINE x == SumTo(code, d)
           y == SumTo(code, s)
           z == SumTo(code, s + 1)
           n == Cells(d)
<1>11. x \in Int /\ y \in Int /\ n \in Int /\ y - (x + 0) = n /\ z = y + 0
  BY <1>7, <1>8, <1>9, <1>10 DEF Cells
<1>12. z = x + n
  <2> HIDE DEF x, y, z, n
  <2> QED BY <1>11
<1> QED
  BY <1>9, <1>10, <1>12 DEF s

LEMMA HeightIsSum ==
  ASSUME Valid(code), NEW t \in Nat, t <= Len(code) - 1, WellCounted(code, t)
  PROVE  Height(t) = SumTo(code, t)
<1> DEFINE T == {u \in Nat : u <= t /\ Height(u) # SumTo(code, u)}
<1>1. SUFFICES ASSUME T # {} PROVE FALSE
  OBVIOUS
<1>2. PICK u \in T : \A k \in T : u <= k
  <2>1. T \in SUBSET Nat
    OBVIOUS
  <2> HIDE DEF T
  <2> QED BY <1>1, <2>1, LeastNatural
<1>3. u \in Nat /\ u <= t /\ Height(u) # SumTo(code, u) /\ Len(code) \in Nat
  BY <1>2, DepthOfValid
<1>4. \A k \in Nat : k < u => Height(k) = SumTo(code, k)
  <2> SUFFICES ASSUME NEW k \in Nat, k < u PROVE Height(k) = SumTo(code, k)
    OBVIOUS
  <2>1. k \notin T /\ k <= t
    BY <1>2, <1>3
  <2> QED BY <2>1
<1>5. \A a \in 0..u - 1 : code[a + 1].op \notin Miscounted
  BY <1>3 DEF WellCounted
<1> HIDE DEF T
<1>6. u # 0
  <2> SUFFICES ASSUME u = 0 PROVE FALSE
    OBVIOUS
  <2>1. 0..0 - 1 = {}
    OBVIOUS
  <2>2. Outside(0) = {}
    BY <2>1, OutsideIs
  <2> QED BY <1>3, <2>1, <2>2, SumEmpty DEF Height, SumTo
<1> DEFINE s == u - 1
<1>7. s \in Nat /\ s + 1 = u /\ s < u /\ s \in 0..Len(code) - 2 /\ s \in 0..u - 1
      /\ s \in 0..Len(code) - 1 /\ s + 1 <= Len(code) - 1
  BY <1>3, <1>6
<1> HIDE DEF s
<1>8. /\ SumTo(code, s) \in Int
      /\ SumTo(code, s + 1) = SumTo(code, s) + Effects(code)[s]
  BY <1>7, HeightNext
<1>9. CASE Op(s) # "end"
  <2>1. Op(s) \notin Miscounted
    BY <1>5, <1>7 DEF Op
  <2>2. Height(s) = SumTo(code, s)
    BY <1>4, <1>7
  <2>3. Height(s + 1) = Height(s) + Effects(code)[s]
    BY <1>7, <1>8, <1>9, <2>1, <2>2, HeightStraight
  <2> QED BY <1>3, <1>7, <1>8, <2>2, <2>3
<1>10. CASE Op(s) = "end"
  <2>1. PICK d : OpensBlock(code, d) /\ EndIn(code, d) = s
    BY <1>7, <1>10, EndMatched DEF Op
  <2>2. d \in Nat /\ d < u
    BY <1>7, <2>1, OpenerNumbers
  <2>3. WellCounted(code, s + 1)
    BY <1>5, <1>7 DEF WellCounted
  <2>4. /\ SumTo(code, s + 1) = SumTo(code, d) + Cells(d)
        /\ SumTo(code, d) \in Int /\ Cells(d) \in Int
    BY <2>1, <2>3, SumClosed
  <2>5. Height(s + 1) = Cells(d) + Height(d)
    BY <2>1, HeightClosed
  <2>6. Height(d) = SumTo(code, d)
    BY <1>4, <2>2
  <2> QED BY <1>3, <1>7, <2>4, <2>5, <2>6
<1> QED
  BY <1>9, <1>10

(* A branch to a restored block cuts the stack to the height the nesting   *)
(* calls for where the block was entered - what is open and the results of *)
(* what is closed -, unless an instruction came before that                *)
(* wasm_replay_csp_bytecode does not count or behind which the sum of the  *)
(* effects is not the height.                                              *)
THEOREM StackHeightsRestored == Spec => []HeightsRestored
<1>1. IInv /\ Heights => HeightsRestored
  <2> SUFFICES ASSUME IInv, Heights, status = "restored",
                      NEW i \in 2..Len(frame),
                      \A a \in 0..frame[i].begin - 1 : Op(a) \notin Miscounted
               PROVE  frame[i].frame_sp = Height(frame[i].begin - 1)
    BY DEF HeightsRestored
  <2>1. Valid(code) /\ csp \in Seq(Entry) /\ frame = [j \in 1..Len(csp) |-> Written(csp[j])]
    BY DEF IInv, TypeOK, Restored, Entry
  <2>2. Len(csp) \in Nat
    BY <2>1, LenProperties
  <2>3. Len(frame) = Len(csp)
    <3>1. DOMAIN frame = 1..Len(csp)
      BY <2>1
    <3>2. DOMAIN frame = 1..Len(frame) /\ Len(frame) \in Nat
      BY LenProperties DEF IInv, TypeOK
    <3> QED BY <2>2, <3>1, <3>2
  <2>4. i \in 1..Len(csp) /\ i \in 2..Len(csp) /\ csp[i] \in Entry
    BY <2>1, <2>2, <2>3, ElementOfSeq
  <2>5. frame[i] = Written(csp[i])
    BY <2>1, <2>4
  <2>6. \E b : OpensBlock(code, b) /\ csp[i].begin - 1 = b
    <3>1. \/ csp[i].begin - 1 \in Around(code, ip)
          \/ csp[i].begin - 1 \in KeptIn(code, target)
      BY <2>4 DEF IInv, Stack, Entries
    <3>2. \/ csp[i].begin - 1 \in Around(code, ip)
          \/ csp[i].begin - 1 \in Around(code, target)
      BY <3>1 DEF KeptIn
    <3> QED BY <2>1, <3>2, AroundIs
  <2> DEFINE b == csp[i].begin - 1
  <2>7. b \in Nat /\ b < Len(code) /\ csp[i].begin = b + 1 /\ csp[i].begin # 0
        /\ Len(code) \in Nat
    <3>1. b \in Nat /\ b < Len(code) /\ csp[i].begin \in Nat
      BY <2>1, <2>4, <2>6, OpenerNumbers DEF Entry
    <3> QED BY <2>1, <3>1, DepthOfValid
  <2>8. frame[i].begin = b + 1 /\ frame[i].begin - 1 = b /\ frame[i].frame_sp = csp[i].frame_sp
    BY <2>4, <2>5, <2>7 DEF Written, Write, Entry
  <2> HIDE DEF b
  <2>9. \A a \in 0..b : Op(a) \notin Miscounted
    BY <2>8
  <2>10. WellCounted(code, b + 1) /\ WellCounted(code, b)
    <3>1. (\A a \in 0..(b + 1) - 1 : a \in 0..b) /\ (\A a \in 0..b - 1 : a \in 0..b)
      BY <2>7
    <3>2. \A a \in 0..b : code[a + 1].op \notin Miscounted
      BY <2>9 DEF Op
    <3> QED BY <3>1, <3>2 DEF WellCounted
  <2>11. csp[i].frame_sp = SumTo(code, b)
    BY <2>4, <2>7, <2>10 DEF Heights, b
  <2>12. Height(b) = SumTo(code, b)
    BY <2>1, <2>7, <2>10, HeightIsSum
  <2> QED BY <2>8, <2>11, <2>12
<1> QED
  BY <1>1, AlwaysHeights, PTL
=============================================================================
