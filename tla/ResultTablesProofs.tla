------------------------- MODULE ResultTablesProofs -------------------------
(***************************************************************************)
(* Proofs about ResultTables, for every number of benchmarks, trials,      *)
(* executions and runs that do not print what one expects.                 *)
(*                                                                         *)
(* LinesRead and Read are recursive functions: Recursion shows that such a *)
(* function exists, the lemmas that end in Unfold that it has a type, and  *)
(* RunExact and ReadFaithful what the entries of a column say of its runs. *)
(* TablesInv says this of every complete column, and that nothing of a     *)
(* session is in the file before all its columns are complete.  Where a    *)
(* script sorts by the variant, NthOfFives gives the place of an entry.    *)
(***************************************************************************)
EXTENDS ResultTables, BasicProofs

-----------------------------------------------------------------------------
(***************************************************************************)
(* Reading a run.                                                          *)
(***************************************************************************)
Time == [run : Int, number : BOOLEAN]
Acc  == [time : Time, entries : Seq(Time), ok : BOOLEAN]
Line == {"report", "short", "long", "day", "guest"}
Reads == {"always", "on_line", "elapsed", "elapsed_or_user", "user", "output"}

LEMMA LineReadType ==
  ASSUME NEW reads, NEW acc \in Acc, NEW k \in Int, NEW line
  PROVE  LineRead(reads, acc, k, line) \in Acc
<1>1. Own(k) \in Time
  BY DEF Own, Time
<1>2. [acc EXCEPT !.time = Own(k)] \in Acc
  BY <1>1 DEF Acc
<1>3. \A r \in Acc : Enter(r) \in Acc
  <2> SUFFICES ASSUME NEW r \in Acc PROVE Enter(r) \in Acc
    OBVIOUS
  <2>1. r.time \in Time /\ r.entries \in Seq(Time)
    BY DEF Acc
  <2>2. Append(r.entries, r.time) \in Seq(Time)
    BY <2>1
  <2> QED BY <2>2 DEF Enter, Acc
<1>4. \A r \in Acc : Failed(r) \in Acc
  BY DEF Failed, Acc
<1> QED
  BY <1>2, <1>3, <1>4 DEF LineRead

IsLinesRead(reads, acc, got, g) ==
  g = [l \in 0..Len(got.lines) |->
         IF l = 0 THEN acc ELSE LineRead(reads, g[l - 1], got.run, got.lines[l])]

LEMMA LinesReadIs ==
  ASSUME NEW reads, NEW acc, NEW got
  PROVE  LinesRead(reads, acc, got)
           = (CHOOSE g : IsLinesRead(reads, acc, got, g))[Len(got.lines)]
BY Zenon DEF LinesRead, IsLinesRead

LEMMA LinesReadUnfold ==
  ASSUME NEW reads, NEW acc \in Acc, NEW got, got.run \in Int, got.lines \in Seq(Line)
  PROVE  \E g \in [0..Len(got.lines) -> Acc] :
           /\ IsLinesRead(reads, acc, got, g)
           /\ LinesRead(reads, acc, got) = g[Len(got.lines)]
<1> DEFINE F == [p \in Nat \X Acc |-> LineRead(reads, p[2], got.run, got.lines[p[1]])]
           n == Len(got.lines)
<1>1. F \in [Nat \X Acc -> Acc]
  BY LineReadType
<1>2. n \in Nat
  BY LenProperties
<1> DEFINE g == Iteration(Acc, acc, F, n)
<1>3. g \in [0..n -> Acc] /\ Steps(acc, F, n, g)
  <2> HIDE DEF F, n
  <2> QED BY <1>1, <1>2, Recursion
<1> HIDE DEF g
<1>4. IsLinesRead(reads, acc, got, g)
  <2>1. \A k \in 0..n : g[k] = IF k = 0 THEN acc
                               ELSE LineRead(reads, g[k - 1], got.run, got.lines[k])
    <3> SUFFICES ASSUME NEW k \in 0..n, k # 0
                 PROVE  g[k] = LineRead(reads, g[k - 1], got.run, got.lines[k])
      BY <1>2, <1>3 DEF Steps
    <3>1. k - 1 \in 0..n /\ k \in Nat
      BY <1>2
    <3>2. <<k, g[k - 1]>> \in Nat \X Acc
      <4> HIDE DEF n
      <4> QED BY <1>3, <3>1
    <3>3. F[<<k, g[k - 1]>>] = LineRead(reads, g[k - 1], got.run, got.lines[k])
      BY <3>2
    <3> HIDE DEF F
    <3> QED BY <1>3, <3>3 DEF Steps
  <2>2. g = [k \in 0..n |-> g[k]]
    BY <1>3
  <2> QED BY <2>1, <2>2 DEF IsLinesRead
<1> DEFINE h == CHOOSE h : IsLinesRead(reads, acc, got, h)
<1>5. IsLinesRead(reads, acc, got, h)
  <2>1. \E f : IsLinesRead(reads, acc, got, f)
    BY <1>4
  <2> QED BY <2>1, Zenon
<1>6. LinesRead(reads, acc, got) = h[Len(got.lines)]
  BY LinesReadIs
<1> HIDE DEF h, F, n
<1>7. h \in [0..n -> Acc]
  <2>1. h = [l \in 0..n |-> h[l]]
    BY <1>5 DEF IsLinesRead, n
  <2>2. \A l \in 0..n : h[l] \in Acc
    <3> DEFINE T == {l \in 0..n : h[l] \notin Acc}
    <3>1. SUFFICES ASSUME T # {} PROVE FALSE
      OBVIOUS
    <3>2. PICK m \in T : \A k \in T : m <= k
      <4>1. T \in SUBSET Nat
        BY <1>2
      <4> HIDE DEF T
      <4> QED BY <3>1, <4>1, LeastNatural
    <3>3. m \in 0..n /\ m \in Nat /\ h[m] \notin Acc
      BY <3>2, <1>2
    <3>4. h[m] = IF m = 0 THEN acc ELSE LineRead(reads, h[m - 1], got.run, got.lines[m])
      BY <1>5, <3>3 DEF IsLinesRead, n
    <3>5. m # 0
      BY <3>3, <3>4
    <3>6. m - 1 \in 0..n /\ m - 1 \notin T
      BY <1>2, <3>2, <3>3, <3>5
    <3>7. h[m - 1] \in Acc
      BY <3>6
    <3> QED BY <3>3, <3>4, <3>5, <3>7, LineReadType
  <2> QED BY <2>1, <2>2
<1> QED
  BY <1>5, <1>6, <1>7 DEF n

LEMMA LinesReadCases ==
  ASSUME NEW reads, NEW acc \in Acc, NEW got, got.run \in Int, got.lines \in Seq(Line)
  PROVE  /\ LinesRead(reads, acc, got) \in Acc
         /\ Len(got.lines) = 0 => LinesRead(reads, acc, got) = acc
         /\ Len(got.lines) = 1 =>
              LinesRead(reads, acc, got) = LineRead(reads, acc, got.run, got.lines[1])
         /\ Len(got.lines) = 2 =>
              LinesRead(reads, acc, got)
                = LineRead(reads, LineRead(reads, acc, got.run, got.lines[1]),
                           got.run, got.lines[2])
<1>1. Len(got.lines) \in Nat
  BY LenProperties
<1>2. PICK g \in [0..Len(got.lines) -> Acc] :
        /\ IsLinesRead(reads, acc, got, g)
        /\ LinesRead(reads, acc, got) = g[Len(got.lines)]
  BY LinesReadUnfold
<1>3. \A l \in 0..Len(got.lines) :
        g[l] = IF l = 0 THEN acc ELSE LineRead(reads, g[l - 1], got.run, got.lines[l])
  BY <1>2 DEF IsLinesRead
<1>4. LinesRead(reads, acc, got) \in Acc
  BY <1>1, <1>2
<1>5. g[0] = acc
  BY <1>1, <1>3
<1>6. Len(got.lines) >= 1 => g[1] = LineRead(reads, acc, got.run, got.lines[1])
  <2>1. 1 - 1 = 0 /\ (Len(got.lines) >= 1 => 1 \in 0..Len(got.lines))
    BY <1>1
  <2> QED BY <1>3, <1>5, <2>1
<1>7. Len(got.lines) = 2 => g[2] = LineRead(reads, g[1], got.run, got.lines[2])
  <2> SUFFICES ASSUME Len(got.lines) = 2
               PROVE  g[2] = LineRead(reads, g[1], got.run, got.lines[2])
    OBVIOUS
  <2>1. 2 \in 0..Len(got.lines) /\ 2 # 0
    BY <1>1
  <2>2. g[2] = LineRead(reads, g[2 - 1], got.run, got.lines[2])
    BY <1>3, <2>1
  <2>3. 2 - 1 = 1
    OBVIOUS
  <2> QED BY <2>2, <2>3
<1> QED
  BY <1>1, <1>2, <1>4, <1>5, <1>6, <1>7

(* What reading more never takes back.                                     *)
Grew(acc, new, k) ==
  /\ new \in Acc
  /\ new.ok => acc.ok
  /\ Len(acc.entries) <= Len(new.entries)
  /\ \A i \in 1..Len(acc.entries) : new.entries[i] = acc.entries[i]
  /\ acc.time.run <= k => new.time.run <= k

LEMMA GrewMore ==
  ASSUME NEW a \in Acc, NEW b, NEW c, NEW k \in Int, Grew(a, b, k), Grew(b, c, k)
  PROVE  Grew(a, c, k)
<1>1. Len(a.entries) \in Nat /\ Len(b.entries) \in Nat /\ Len(c.entries) \in Nat
  BY LenProperties DEF Grew, Acc
<1>2. \A i \in 1..Len(a.entries) : i \in 1..Len(b.entries)
  BY <1>1 DEF Grew
<1> QED
  BY <1>1, <1>2 DEF Grew

LEMMA EnterGrows ==
  ASSUME NEW acc \in Acc, NEW k \in Int
  PROVE  /\ Grew(acc, Enter(acc), k)
         /\ Enter(acc).ok => Enter(acc).entries = Append(acc.entries, acc.time)
         /\ Enter(acc).time = acc.time
<1>1. /\ acc.time \in Time /\ acc.entries \in Seq(Time) /\ acc.ok \in BOOLEAN
      /\ Len(acc.entries) \in Nat
  BY LenProperties DEF Acc
<1>2. /\ Append(acc.entries, acc.time) \in Seq(Time)
      /\ Len(Append(acc.entries, acc.time)) = Len(acc.entries) + 1
      /\ \A i \in 1..Len(acc.entries) : Append(acc.entries, acc.time)[i] = acc.entries[i]
  BY <1>1, AppendProperties
<1>3. CASE acc.time = Unbound
  <2>1. Enter(acc) = [acc EXCEPT !.ok = FALSE]
    BY <1>3 DEF Enter
  <2>2. /\ Enter(acc) \in Acc /\ Enter(acc).ok = FALSE
        /\ Enter(acc).time = acc.time /\ Enter(acc).entries = acc.entries
    BY <2>1 DEF Acc
  <2> QED BY <1>1, <2>2 DEF Grew
<1>4. CASE acc.time # Unbound
  <2>1. Enter(acc) = [acc EXCEPT !.entries = Append(acc.entries, acc.time)]
    BY <1>4 DEF Enter
  <2>2. /\ Enter(acc) \in Acc /\ Enter(acc).ok = acc.ok
        /\ Enter(acc).time = acc.time
        /\ Enter(acc).entries = Append(acc.entries, acc.time)
    BY <1>2, <2>1 DEF Acc
  <2> QED BY <1>1, <1>2, <2>2 DEF Grew
<1> QED
  BY <1>3, <1>4

LEMMA FailedGrows ==
  ASSUME NEW acc \in Acc, NEW k \in Int
  PROVE  /\ Grew(acc, Failed(acc), k) /\ ~Failed(acc).ok
<1>1. Failed(acc) = [acc EXCEPT !.ok = FALSE]
  BY DEF Failed
<1>2. Len(acc.entries) \in Nat /\ acc.time.run \in Int
  BY LenProperties DEF Acc, Time
<1>3. /\ Failed(acc) \in Acc /\ Failed(acc).ok = FALSE
      /\ Failed(acc).time = acc.time /\ Failed(acc).entries = acc.entries
  BY <1>1 DEF Acc
<1> QED
  BY <1>2, <1>3 DEF Grew

Timed(acc, k) == [acc EXCEPT !.time = Own(k)]

LEMMA TimedGrows ==
  ASSUME NEW acc \in Acc, NEW k \in Int
  PROVE  /\ Grew(acc, Timed(acc, k), k) /\ Timed(acc, k) \in Acc
         /\ Timed(acc, k).time.run = k /\ Timed(acc, k).time \in Time
         /\ Timed(acc, k).entries = acc.entries /\ Timed(acc, k).ok = acc.ok
<1>1. Own(k) \in Time /\ Own(k).run = k
  BY DEF Own, Time
<1>2. Len(acc.entries) \in Nat
  BY LenProperties DEF Acc
<1>3. /\ Timed(acc, k) \in Acc /\ Timed(acc, k).time = Own(k)
      /\ Timed(acc, k).entries = acc.entries /\ Timed(acc, k).ok = acc.ok
  BY <1>1 DEF Acc, Timed
<1> QED
  BY <1>1, <1>2, <1>3 DEF Grew

LEMMA SameGrows ==
  ASSUME NEW acc \in Acc, NEW k \in Int
  PROVE  Grew(acc, acc, k)
<1>1. Len(acc.entries) \in Nat
  BY LenProperties DEF Acc
<1> QED
  BY <1>1 DEF Grew

LEMMA LineGrows ==
  ASSUME NEW reads, NEW acc \in Acc, NEW k \in Int, NEW line
  PROVE  Grew(acc, LineRead(reads, acc, k, line), k)
<1> DEFINE timed == Timed(acc, k)
<1>1. timed \in Acc /\ Grew(acc, timed, k)
  BY TimedGrows
<1>2. Grew(acc, Enter(timed), k)
  <2> HIDE DEF timed
  <2>1. Grew(timed, Enter(timed), k)
    BY <1>1, EnterGrows
  <2> QED BY <1>1, <2>1, GrewMore
<1>3. Grew(acc, Enter(acc), k) /\ Grew(acc, Failed(acc), k) /\ Grew(acc, acc, k)
  BY EnterGrows, FailedGrows, SameGrows
<1>4. LineRead(reads, acc, k, line) \in {timed, Enter(timed), Enter(acc), Failed(acc), acc}
  BY DEF LineRead, Timed
<1> HIDE DEF timed
<1> QED
  BY <1>1, <1>2, <1>3, <1>4

(* What the outcomes of a run may be, without its column.                  *)
Fates == {"ended", "bytes", "raised"}
Printouts == {<<>>, <<"report">>, <<"short">>, <<"long">>, <<"day">>, <<"guest", "short">>}

ResultsOf(c) == Odd(c) \cup {Expected(c)}

LEMMA ResultsAre ==
  ASSUME NEW c, NEW r \in ResultsOf(c)
  PROVE  /\ r.fate \in Fates /\ r.lines \in Printouts /\ r.lines \in Seq(Line)
         /\ r # NotEnded
<1>1. /\ r.fate \in Fates /\ r.lines \in Printouts
      /\ r # NotEnded
  BY DEF ResultsOf, Odd, Expected, Result, NotEnded, Fates, Printouts
<1>2. Printouts \subseteq Seq(Line)
  BY DEF Printouts, Line
<1> QED
  BY <1>1, <1>2

LEMMA LinesGrow ==
  ASSUME NEW reads, NEW acc \in Acc, NEW got, got.run \in Int, got.lines \in Printouts
  PROVE  Grew(acc, LinesRead(reads, acc, got), got.run)
<1>1. got.lines \in Seq(Line) /\ Len(got.lines) \in {0, 1, 2}
  <2>1. Printouts \subseteq Seq(Line)
    BY DEF Printouts, Line
  <2> QED BY <2>1 DEF Printouts
<1> DEFINE one == LineRead(reads, acc, got.run, got.lines[1])
           two == LineRead(reads, one, got.run, got.lines[2])
<1>2. one \in Acc /\ Grew(acc, one, got.run)
  BY LineGrows, LineReadType
<1>3. Grew(acc, two, got.run)
  <2> HIDE DEF one
  <2>1. Grew(one, two, got.run)
    BY <1>2, LineGrows
  <2> HIDE DEF two
  <2> QED BY <1>2, <2>1, GrewMore
<1>4. LinesRead(reads, acc, got) \in {acc, one, two}
  BY <1>1, LinesReadCases
<1> HIDE DEF one, two
<1> QED
  BY <1>2, <1>3, <1>4, SameGrows

GotOf(k, r) == [run |-> k, fate |-> r.fate, lines |-> r.lines]

LEMMA RunGrows ==
  ASSUME NEW reads, NEW acc \in Acc, NEW k \in Int, NEW r, r.lines \in Printouts
  PROVE  Grew(acc, RunRead(reads, acc, GotOf(k, r)), k)
<1> DEFINE got  == GotOf(k, r)
           read == LinesRead(reads, acc, got)
           out1 == [acc EXCEPT !.entries = Append(@, [run |-> k, number |-> FALSE])]
<1>1. got.run = k /\ got.lines = r.lines /\ got.fate = r.fate
  BY DEF GotOf
<1>2. read \in Acc /\ Grew(acc, read, k)
  <2> HIDE DEF got
  <2>1. Grew(acc, read, k)
    BY <1>1, LinesGrow
  <2> QED BY <2>1 DEF Grew
<1>3. Grew(acc, Enter(read), k)
  <2> HIDE DEF read
  <2>1. Grew(read, Enter(read), k)
    BY <1>2, EnterGrows
  <2> QED BY <1>2, <2>1, GrewMore
<1>4. Grew(acc, Failed(acc), k)
  BY FailedGrows
<1>5. Grew(acc, out1, k)
  <2>1. acc.entries \in Seq(Time) /\ Len(acc.entries) \in Nat
    BY LenProperties DEF Acc
  <2>2. [run |-> k, number |-> FALSE] \in Time
    BY DEF Time
  <2> DEFINE more == Append(acc.entries, [run |-> k, number |-> FALSE])
  <2>3. /\ more \in Seq(Time) /\ Len(more) = Len(acc.entries) + 1
        /\ \A i \in 1..Len(acc.entries) : more[i] = acc.entries[i]
    BY <2>1, <2>2, AppendProperties
  <2>4. out1 = [acc EXCEPT !.entries = more]
    OBVIOUS
  <2> HIDE DEF more, out1
  <2>5. /\ out1 \in Acc /\ out1.entries = more /\ out1.time = acc.time /\ out1.ok = acc.ok
    BY <2>3, <2>4 DEF Acc
  <2> QED BY <2>1, <2>3, <2>5 DEF Grew
<1>6. RunRead(reads, acc, got) \in {Failed(acc), Enter(read), out1, read}
  <2>1. got.run = k
    BY <1>1
  <2> HIDE DEF got
  <2> QED BY <2>1 DEF RunRead
<1> HIDE DEF got, read, out1
<1>7. Grew(acc, RunRead(reads, acc, got), k)
  BY <1>2, <1>3, <1>4, <1>5, <1>6
<1> QED
  BY <1>7 DEF got

(* A run that makes one entry: with its own time if one was understood,    *)
(* and otherwise with the time before.                                     *)
Entered(c, r, k, acc, new) ==
  \E x \in Time :
    /\ new.entries = Append(acc.entries, x)
    /\ IF Understood(c, r) THEN x.run = k ELSE x.run < k

LEMMA EnterOwn ==
  ASSUME NEW c, NEW r, NEW k \in Int, NEW acc, NEW read \in Acc,
         read.entries = acc.entries,
         IF Understood(c, r) THEN read.time.run = k ELSE read.time.run < k,
         Enter(read).ok
  PROVE  Entered(c, r, k, acc, Enter(read))
<1>1. Enter(read).entries = Append(acc.entries, read.time)
  BY EnterGrows
<1>2. read.time \in Time
  BY DEF Acc
<1> QED
  BY <1>1, <1>2 DEF Entered

(* A run that prints one line does not print one of the guest.             *)
LEMMA OnlyLine ==
  ASSUME NEW lines \in Printouts, Len(lines) = 1
  PROVE  1 \in DOMAIN lines /\ lines[1] # "guest"
BY DEF Printouts

LEMMA RunExact ==
  ASSUME NEW c, c.reads \in Reads, NEW r, r.fate \in Fates, r.lines \in Printouts,
         OneEntry(c, r), NEW acc \in Acc, NEW k \in Int, acc.time.run < k,
         RunRead(c.reads, acc, GotOf(k, r)).ok
  PROVE  Entered(c, r, k, acc, RunRead(c.reads, acc, GotOf(k, r)))
<1> DEFINE got  == GotOf(k, r)
           read == LinesRead(c.reads, acc, got)
<1>1. got.run = k /\ got.lines = r.lines /\ got.fate = r.fate
  BY DEF GotOf
<1>2. got.lines \in Seq(Line)
  <2>1. Printouts \subseteq Seq(Line)
    BY DEF Printouts, Line
  <2> QED BY <1>1, <2>1
<1> DEFINE one == LineRead(c.reads, acc, k, r.lines[1])
           two == LineRead(c.reads, one, k, r.lines[2])
<1>3. /\ read \in Acc
      /\ Len(r.lines) = 0 => read = acc
      /\ Len(r.lines) = 1 => read = one
      /\ Len(r.lines) = 2 => read = two
  <2>1. got.run \in Int
    BY <1>1
  <2> HIDE DEF got
  <2> QED BY <1>1, <1>2, <2>1, LinesReadCases
<1>4. CASE r.fate = "bytes" /\ c.reads # "output"
  <2>1. RunRead(c.reads, acc, got) = Failed(acc)
    BY <1>1, <1>4 DEF RunRead
  <2> QED BY <2>1, FailedGrows
<1>5. CASE c.reads = "output"
  <2> DEFINE x == [run |-> k, number |-> FALSE]
             new == RunRead(c.reads, acc, got)
  <2>1. new = [acc EXCEPT !.entries = Append(@, x)]
    BY <1>1, <1>5 DEF RunRead
  <2>2. new.entries = Append(acc.entries, x)
    BY <2>1 DEF Acc
  <2>3. x \in Time /\ x.run = k
    BY DEF Time
  <2>4. Understood(c, r)
    BY <1>5 DEF Understood
  <2> QED BY <2>2, <2>3, <2>4 DEF Entered
<1>6. CASE r.fate # "bytes" /\ c.reads \in {"always", "user"}
  <2>1. RunRead(c.reads, acc, got) = Enter(read)
    BY <1>1, <1>6 DEF RunRead
  <2>2. CASE r.lines = <<>>
    <3>1. read = acc
      BY <1>3, <2>2
    <3>2. ~Understood(c, r)
      BY <1>6, <2>2 DEF Understood
    <3> HIDE DEF read, got
    <3> QED BY <2>1, <3>1, <3>2, EnterOwn DEF got
  <2>3. CASE Len(r.lines) = 1
    <3>0. 1 \in DOMAIN r.lines /\ r.lines[1] # "guest"
      BY <2>3, OnlyLine
    <3>1. read = Timed(acc, k)
      <4>1. one = Timed(acc, k)
        <5> HIDE DEF read, got
        <5> QED BY <1>6, <3>0 DEF LineRead, Timed
      <4> HIDE DEF read, one
      <4> QED BY <1>3, <2>3, <4>1
    <3>2. Understood(c, r)
      BY <1>6, <3>0 DEF Understood
    <3>3. read.time.run = k /\ read.entries = acc.entries
      BY <3>1, TimedGrows
    <3> HIDE DEF read, got
    <3> QED BY <1>3, <2>1, <3>2, <3>3, EnterOwn DEF got
  <2>4. CASE r.lines = <<"guest", "short">>
    <3>1. CASE c.reads = "always"
      <4>1. one = Timed(acc, k) /\ read = Timed(one, k)
        BY <1>3, <3>1, <2>4 DEF LineRead, Timed
      <4>2. Understood(c, r)
        BY <1>6, <2>4 DEF Understood
      <4>3. read.time.run = k /\ read.entries = acc.entries
        <5> HIDE DEF one, read
        <5>1. one \in Acc /\ one.entries = acc.entries
          BY <4>1, TimedGrows
        <5> QED BY <4>1, <5>1, TimedGrows
      <4> HIDE DEF read, got
      <4> QED BY <1>3, <2>1, <4>2, <4>3, EnterOwn DEF got
    <3>2. CASE c.reads = "user"
      <4>1. one = Failed(acc)
        BY <3>2, <2>4 DEF LineRead
      <4>2. read = two
        BY <1>3, <2>4
      <4>3. ~read.ok
        <5> HIDE DEF one, read
        <5>1. ~one.ok /\ one \in Acc
          BY <4>1, FailedGrows DEF Grew
        <5>2. Grew(one, two, k)
          BY <5>1, LineGrows
        <5> HIDE DEF two
        <5> QED BY <4>2, <5>1, <5>2 DEF Grew
      <4>4. ~Enter(read).ok
        <5> HIDE DEF read
        <5> QED BY <1>3, <4>3, EnterGrows DEF Grew
      <4> QED BY <2>1, <4>4
    <3> QED BY <1>6, <3>1, <3>2
  <2> QED BY <2>2, <2>3, <2>4 DEF Printouts
<1>7. CASE r.fate # "bytes" /\ c.reads \in {"on_line", "elapsed", "elapsed_or_user"}
  <2>1. RunRead(c.reads, acc, got) = read
    BY <1>1, <1>7 DEF RunRead
  <2>2. Len(r.lines) = 1 /\ read = one
    BY <1>3, <1>7 DEF OneEntry
  <2>3. r.lines[1] \in {"report", "short", "long", "day"} /\ DOMAIN r.lines = {1}
    BY <2>2 DEF Printouts
  <2>4. CASE c.reads = "elapsed" /\ r.lines[1] = "long"
    <3>1. read = Enter(acc)
      BY <2>2, <2>4 DEF LineRead
    <3>2. ~Understood(c, r)
      <4>1. c.reads # "output" /\ \A l \in DOMAIN r.lines : r.lines[l] = "long"
        BY <2>3, <2>4
      <4> QED BY <2>4, <4>1 DEF Understood
    <3> HIDE DEF read, got
    <3> QED BY <2>1, <3>1, <3>2, EnterOwn DEF got
  <2>5. CASE ~(c.reads = "elapsed" /\ r.lines[1] = "long")
    <3>1. read = Enter(Timed(acc, k))
      BY <1>7, <2>2, <2>3, <2>5 DEF LineRead, Timed
    <3>2. Understood(c, r)
      BY <1>7, <2>3, <2>5 DEF Understood
    <3>3. /\ Timed(acc, k) \in Acc /\ Timed(acc, k).time.run = k
          /\ Timed(acc, k).entries = acc.entries
      BY TimedGrows
    <3> HIDE DEF read, got
    <3> QED BY <2>1, <3>1, <3>2, <3>3, EnterOwn DEF got
  <2> QED BY <2>4, <2>5
<1> QED
  BY <1>4, <1>5, <1>6, <1>7 DEF Reads

-----------------------------------------------------------------------------
(***************************************************************************)
(* Reading a column.                                                       *)
(***************************************************************************)
ColumnOK(c) == c.reads \in Reads /\ c.runs \in Nat /\ c.starts \in {Unbound, Blank}

IsRead(c, g) ==
  g = [k \in 0..c.runs |-> IF k = 0 THEN Start(c) ELSE RunRead(c.reads, g[k - 1], Got(k))]

LEMMA ReadIs ==
  ASSUME NEW c
  PROVE  Read(c) = (CHOOSE g : IsRead(c, g))[c.runs]
BY Zenon DEF Read, IsRead

LEMMA ReadUnfold ==
  ASSUME NEW c, ColumnOK(c), \A k \in 1..c.runs : out[k].lines \in Printouts
  PROVE  \E g \in [0..c.runs -> Acc] : IsRead(c, g) /\ Read(c) = g[c.runs]
<1> DEFINE F == [p \in Nat \X Acc |->
                   IF p[1] \in 1..c.runs THEN RunRead(c.reads, p[2], GotOf(p[1], out[p[1]]))
                   ELSE p[2]]
           n == c.runs
<1>1. n \in Nat
  BY DEF ColumnOK
<1>2. \A k \in 1..n, acc \in Acc : RunRead(c.reads, acc, GotOf(k, out[k])) \in Acc
  <2> SUFFICES ASSUME NEW k \in 1..n, NEW acc \in Acc
               PROVE  RunRead(c.reads, acc, GotOf(k, out[k])) \in Acc
    OBVIOUS
  <2>1. k \in Int /\ out[k].lines \in Printouts
    BY <1>1
  <2>2. Grew(acc, RunRead(c.reads, acc, GotOf(k, out[k])), k)
    BY <2>1, RunGrows
  <2> QED BY <2>2 DEF Grew
<1>3. F \in [Nat \X Acc -> Acc]
  <2> SUFFICES ASSUME NEW p \in Nat \X Acc PROVE F[p] \in Acc
    OBVIOUS
  <2>1. p[1] \in Nat /\ p[2] \in Acc
    OBVIOUS
  <2>2. F[p] = IF p[1] \in 1..n THEN RunRead(c.reads, p[2], GotOf(p[1], out[p[1]]))
               ELSE p[2]
    OBVIOUS
  <2>3. CASE p[1] \in 1..n
    BY <1>2, <2>1, <2>2, <2>3
  <2>4. CASE p[1] \notin 1..n
    BY <2>1, <2>2, <2>4
  <2> HIDE DEF F, n
  <2> QED BY <2>3, <2>4
<1>4. Start(c) \in Acc
  <2> HIDE DEF F, n
  <2>1. Unbound \in Time /\ Blank \in Time
    BY DEF Unbound, Blank, Time
  <2>2. c.starts \in Time
    BY <2>1 DEF ColumnOK
  <2>3. <<>> \in Seq(Time)
    OBVIOUS
  <2> QED BY <2>2, <2>3 DEF Start, Acc
<1> DEFINE g == Iteration(Acc, Start(c), F, n)
<1>5. g \in [0..n -> Acc] /\ Steps(Start(c), F, n, g)
  <2> HIDE DEF F, n
  <2> QED BY <1>1, <1>3, <1>4, Recursion
<1> HIDE DEF g
<1>6. \A k : Got(k) = GotOf(k, out[k])
  BY DEF Got, GotOf
<1>7. IsRead(c, g)
  <2>1. \A k \in 0..n : g[k] = IF k = 0 THEN Start(c)
                               ELSE RunRead(c.reads, g[k - 1], Got(k))
    <3> SUFFICES ASSUME NEW k \in 0..n, k # 0
                 PROVE  g[k] = RunRead(c.reads, g[k - 1], Got(k))
      BY <1>1, <1>5 DEF Steps
    <3>1. k - 1 \in 0..n /\ k \in Nat /\ k \in 1..n
      BY <1>1
    <3>2. <<k, g[k - 1]>> \in Nat \X Acc
      <4> HIDE DEF n
      <4> QED BY <1>5, <3>1
    <3>3. F[<<k, g[k - 1]>>] = RunRead(c.reads, g[k - 1], Got(k))
      BY <1>6, <3>1, <3>2
    <3> HIDE DEF F
    <3> QED BY <1>5, <3>3 DEF Steps
  <2>2. g = [k \in 0..n |-> g[k]]
    BY <1>5
  <2> QED BY <2>1, <2>2 DEF IsRead
<1> DEFINE h == CHOOSE h : IsRead(c, h)
<1>8. IsRead(c, h)
  <2>1. \E f : IsRead(c, f)
    BY <1>7
  <2> QED BY <2>1, Zenon
<1>9. Read(c) = h[c.runs]
  BY ReadIs
<1> HIDE DEF h, F, n
<1>10. h \in [0..n -> Acc]
  <2>1. h = [l \in 0..n |-> h[l]]
    BY <1>8 DEF IsRead, n
  <2>2. \A l \in 0..n : h[l] \in Acc
    <3> DEFINE T == {l \in 0..n : h[l] \notin Acc}
    <3>1. SUFFICES ASSUME T # {} PROVE FALSE
      OBVIOUS
    <3>2. PICK m \in T : \A k \in T : m <= k
      <4>1. T \in SUBSET Nat
        BY <1>1
      <4> HIDE DEF T
      <4> QED BY <3>1, <4>1, LeastNatural
    <3>3. m \in 0..n /\ m \in Nat /\ h[m] \notin Acc
      BY <3>2, <1>1
    <3>4. h[m] = IF m = 0 THEN Start(c) ELSE RunRead(c.reads, h[m - 1], GotOf(m, out[m]))
      BY <1>6, <1>8, <3>3 DEF IsRead, n
    <3>5. m # 0
      BY <1>4, <3>3, <3>4
    <3>6. m - 1 \in 0..n /\ m - 1 \notin T /\ m \in 1..n
      BY <1>1, <3>2, <3>3, <3>5
    <3>7. h[m - 1] \in Acc
      BY <3>6
    <3> QED BY <1>2, <3>3, <3>4, <3>5, <3>6, <3>7
  <2> QED BY <2>1, <2>2
<1> QED
  BY <1>8, <1>9, <1>10 DEF n

(* What the entries of a column say of its runs.                           *)
Faithful(c, runs, L) ==
  /\ L \in Seq(Time)
  /\ \A k \in 1..c.runs : (\A m \in 1..k : OneEntry(c, runs[m])) =>
       /\ k <= Len(L)
       /\ IF Understood(c, runs[k]) THEN L[k].run = k ELSE L[k].run < k
  /\ (\A m \in 1..c.runs : OneEntry(c, runs[m])) => Len(L) = c.runs

Extends(a, b) ==
  /\ b.ok => a.ok
  /\ Len(a.entries) <= Len(b.entries)
  /\ \A i \in 1..Len(a.entries) : b.entries[i] = a.entries[i]

(* One entry for each run so far.                                          *)
SoFar(c, runs, k, acc) ==
  /\ acc.time.run <= k
  /\ acc.ok /\ (\A m \in 1..k : OneEntry(c, runs[m])) =>
       /\ Len(acc.entries) = k
       /\ \A i \in 1..k : IF Understood(c, runs[i]) THEN acc.entries[i].run = i
                          ELSE acc.entries[i].run < i

LEMMA SoFarStep ==
  ASSUME NEW c, ColumnOK(c), NEW runs, NEW k \in Nat,
         runs[k + 1].lines \in Printouts, runs[k + 1].fate \in Fates,
         NEW acc \in Acc, SoFar(c, runs, k, acc)
  PROVE  SoFar(c, runs, k + 1, RunRead(c.reads, acc, GotOf(k + 1, runs[k + 1])))
<1> DEFINE r   == runs[k + 1]
           new == RunRead(c.reads, acc, GotOf(k + 1, r))
<1>1. k + 1 \in Int
  OBVIOUS
<1>2. Grew(acc, new, k + 1)
  <2> HIDE DEF new
  <2> QED BY <1>1, RunGrows DEF new
<1>3. acc.time.run \in Int /\ acc.time.run <= k /\ Len(acc.entries) \in Nat
      /\ acc.entries \in Seq(Time)
  BY LenProperties DEF Acc, Time, SoFar
<1>4. new.time.run <= k + 1
  <2> HIDE DEF new
  <2> QED BY <1>2, <1>3 DEF Grew
<1>5. ASSUME new.ok, \A m \in 1..k + 1 : OneEntry(c, runs[m])
      PROVE  /\ Len(new.entries) = k + 1
             /\ \A i \in 1..k + 1 : IF Understood(c, runs[i]) THEN new.entries[i].run = i
                                    ELSE new.entries[i].run < i
  <2>1. acc.ok /\ OneEntry(c, r) /\ \A m \in 1..k : OneEntry(c, runs[m])
    <3> HIDE DEF new
    <3> QED BY <1>2, <1>5 DEF Grew
  <2>2. Len(acc.entries) = k
    BY <2>1 DEF SoFar
  <2>3. Entered(c, r, k + 1, acc, new)
    <3>1. acc.time.run < k + 1
      BY <1>3
    <3> QED BY <1>1, <1>5, <2>1, <3>1, RunExact DEF ColumnOK
  <2> HIDE DEF new
  <2>4. PICK x \in Time : /\ new.entries = Append(acc.entries, x)
                          /\ IF Understood(c, r) THEN x.run = k + 1 ELSE x.run < k + 1
    BY <2>3 DEF Entered
  <2>5. /\ Len(new.entries) = k + 1 /\ new.entries[k + 1] = x
        /\ \A i \in 1..k : new.entries[i] = acc.entries[i]
    BY <1>3, <2>2, <2>4, AppendProperties
  <2>6. \A i \in 1..k : IF Understood(c, runs[i]) THEN acc.entries[i].run = i
                        ELSE acc.entries[i].run < i
    BY <2>1 DEF SoFar
  <2>7. \A i \in 1..k + 1 : i \in 1..k \/ i = k + 1
    OBVIOUS
  <2> QED BY <2>4, <2>5, <2>6, <2>7
<1> QED
  <2> HIDE DEF new
  <2>1. SoFar(c, runs, k + 1, new)
    BY <1>4, <1>5 DEF SoFar
  <2> QED BY <2>1 DEF new

LEMMA RunExtends ==
  ASSUME NEW reads, NEW acc \in Acc, NEW k \in Int, NEW r, r.lines \in Printouts
  PROVE  Extends(acc, RunRead(reads, acc, GotOf(k, r)))
BY RunGrows DEF Grew, Extends

LEMMA ExtendsMore ==
  ASSUME NEW a \in Acc, NEW b \in Acc, NEW c \in Acc, Extends(a, b), Extends(b, c)
  PROVE  Extends(a, c)
<1>1. Len(a.entries) \in Nat /\ Len(b.entries) \in Nat /\ Len(c.entries) \in Nat
  BY LenProperties DEF Acc
<1>2. \A i \in 1..Len(a.entries) : i \in 1..Len(b.entries)
  BY <1>1 DEF Extends
<1> QED
  BY <1>1, <1>2 DEF Extends

LEMMA ReadFaithful ==
  ASSUME NEW c, ColumnOK(c), Read(c).ok,
         \A k \in 1..c.runs : out[k].lines \in Printouts /\ out[k].fate \in Fates
  PROVE  Faithful(c, out, Read(c).entries)
<1> DEFINE n == c.runs
<1>1. n \in Nat
  BY DEF ColumnOK
<1>2. PICK g \in [0..n -> Acc] : IsRead(c, g) /\ Read(c) = g[n]
  BY ReadUnfold
<1>3. /\ g[0] = Start(c)
      /\ \A k \in 1..n : g[k] = RunRead(c.reads, g[k - 1], GotOf(k, out[k]))
  BY <1>1, <1>2 DEF IsRead, Got, GotOf
<1> HIDE DEF n
<1> DEFINE Good(k) == SoFar(c, out, k, g[k]) /\ \A i \in 0..k : Extends(g[i], g[k])
           T == {k \in 0..n : ~Good(k)}
<1>4. \A a \in Acc : Extends(a, a)
  BY LenProperties DEF Extends, Acc
<1>5. \A k \in 0..n : Good(k)
  <2>1. SUFFICES ASSUME T # {} PROVE FALSE
    OBVIOUS
  <2>2. PICK m \in T : \A k \in T : m <= k
    <3>1. T \in SUBSET Nat
      BY <1>1
    <3> HIDE DEF T
    <3> QED BY <2>1, <3>1, LeastNatural
  <2>3. m \in 0..n /\ m \in Nat /\ ~Good(m)
    BY <2>2, <1>1
  <2>4. CASE m = 0
    <3>1. /\ g[0] \in Acc /\ g[0].time.run <= 0 /\ Len(g[0].entries) = 0
          /\ g[0].entries = <<>>
      <4>1. 0 \in 0..n
        BY <1>1
      <4>2. g[0].time = c.starts /\ g[0].entries = <<>>
        BY <1>3 DEF Start
      <4>3. c.starts.run <= 0
        BY DEF ColumnOK, Unbound, Blank
      <4> QED BY <1>2, <4>1, <4>2, <4>3
    <3>2. SoFar(c, out, 0, g[0])
      BY <3>1 DEF SoFar
    <3>3. \A i \in 0..0 : Extends(g[i], g[0])
      BY <1>4, <3>1
    <3> HIDE DEF T
    <3> QED BY <2>3, <2>4, <3>2, <3>3
  <2>5. CASE m # 0
    <3> DEFINE k == m - 1
    <3>1. k \in Nat /\ k \in 0..n /\ m \in 1..n /\ k + 1 = m /\ m \in Int
      BY <1>1, <2>3, <2>5
    <3>2. Good(k)
      <4> k \notin T
        BY <2>2, <2>3, <2>5
      <4> QED BY <3>1
    <3> HIDE DEF T, k, Good
    <3>3. g[k] \in Acc /\ g[m] \in Acc /\ SoFar(c, out, k, g[k])
          /\ \A i \in 0..k : Extends(g[i], g[k])
      BY <1>2, <3>1, <3>2 DEF Good
    <3>4. g[m] = RunRead(c.reads, g[k], GotOf(m, out[m]))
      BY <1>3, <3>1 DEF k
    <3>5. out[m].lines \in Printouts /\ out[m].fate \in Fates
      BY <3>1 DEF n
    <3>6. SoFar(c, out, m, g[m])
      <4>1. out[k + 1].lines \in Printouts /\ out[k + 1].fate \in Fates
        BY <3>1, <3>5
      <4>2. SoFar(c, out, k + 1, RunRead(c.reads, g[k], GotOf(k + 1, out[k + 1])))
        BY <3>1, <3>3, <4>1, SoFarStep
      <4> QED BY <3>1, <3>4, <4>2
    <3>7. Extends(g[k], g[m])
      BY <3>1, <3>3, <3>4, <3>5, RunExtends
    <3>8. \A i \in 0..m : Extends(g[i], g[m])
      <4> SUFFICES ASSUME NEW i \in 0..m, i # m PROVE Extends(g[i], g[m])
        BY <1>4, <3>3
      <4>1. i \in 0..k /\ i \in 0..n
        BY <1>1, <2>3, <3>1
      <4>2. g[i] \in Acc /\ Extends(g[i], g[k])
        BY <1>2, <3>3, <4>1
      <4> QED BY <3>3, <3>7, <4>2, ExtendsMore
    <3> QED BY <2>3, <3>6, <3>8 DEF Good
  <2> QED BY <2>4, <2>5
<1> HIDE DEF T
<1> DEFINE L == Read(c).entries
<1>6. g[n] \in Acc /\ L = g[n].entries /\ g[n].ok /\ L \in Seq(Time) /\ Len(L) \in Nat
  BY <1>1, <1>2, LenProperties DEF Acc
<1>7. ASSUME NEW k \in 1..n, \A m \in 1..k : OneEntry(c, out[m])
      PROVE  /\ k <= Len(L)
             /\ IF Understood(c, out[k]) THEN L[k].run = k ELSE L[k].run < k
  <2>1. k \in 0..n /\ n \in 0..n /\ k \in 1..k
    BY <1>1
  <2>2. SoFar(c, out, k, g[k]) /\ Extends(g[k], g[n])
    BY <1>5, <2>1
  <2>3. g[k].ok
    BY <1>6, <2>2 DEF Extends
  <2>4. /\ Len(g[k].entries) = k
        /\ IF Understood(c, out[k]) THEN g[k].entries[k].run = k ELSE g[k].entries[k].run < k
    BY <1>7, <2>1, <2>2, <2>3 DEF SoFar
  <2>5. k <= Len(L) /\ L[k] = g[k].entries[k]
    BY <1>6, <2>1, <2>2, <2>4 DEF Extends
  <2> QED BY <2>4, <2>5
<1>8. (\A m \in 1..n : OneEntry(c, out[m])) => Len(L) = n
  <2>1. SoFar(c, out, n, g[n])
    BY <1>1, <1>5
  <2> QED BY <1>6, <2>1 DEF SoFar
<1> HIDE DEF L
<1>9. Faithful(c, out, L)
  BY <1>6, <1>7, <1>8 DEF Faithful, n
<1> QED
  BY <1>9 DEF L

-----------------------------------------------------------------------------
(***************************************************************************)
(* The scripts.                                                            *)
(***************************************************************************)
ColumnsOK(t) == Len(t.columns) \in Nat \ {0} /\ \A j \in 1..Len(t.columns) : ColumnOK(t.columns[j])

(* A list per variant, or a list that stays empty.                         *)
SortedOK(t) ==
  /\ Len(t.columns) = 1 /\ t.columns[1] = OfVariants(t.variants)
  /\ \/ t.variants = aot_variant_freq /\ t.sorted = ListPerVariant
     \/ t.variants = aot_variant /\ 6 \in DOMAIN t.sorted /\ t.sorted[6] = {"loop_dirty"}

LEMMA EveryIsNatural == Every \in Nat /\ Every * trials \in Nat
<1>1. \A a, b \in Nat : a * b \in Nat
  OBVIOUS
<1> QED
  BY <1>1, RunsAssumption DEF Every

LEMMA ColumnsAreOK ==
  /\ ColumnOK(Reported(Unbound)) /\ ColumnOK(Reported(Blank))
  /\ ColumnOK(OnLine) /\ ColumnOK(Elapsed) /\ ColumnOK(ElapsedOrUser)
  /\ ColumnOK(mac_native) /\ ColumnOK(windows_native) /\ ColumnOK(optimistic_snapshot)
  /\ ColumnOK(OfVariants(aot_variant)) /\ ColumnOK(OfVariants(aot_variant_freq))
<1>1. \A p, r, st, n :
        r \in Reads /\ n \in Nat /\ st \in {Unbound, Blank} => ColumnOK(Column(p, r, st, n))
  BY DEF ColumnOK, Column
<1>2. /\ {"always", "on_line", "elapsed", "elapsed_or_user", "user", "output"} \subseteq Reads
      /\ Unbound \in {Unbound, Blank} /\ Blank \in {Unbound, Blank}
  BY DEF Reads
<1>3. /\ ColumnOK(Reported(Unbound)) /\ ColumnOK(Reported(Blank))
      /\ ColumnOK(OnLine) /\ ColumnOK(Elapsed) /\ ColumnOK(ElapsedOrUser)
      /\ ColumnOK(mac_native) /\ ColumnOK(windows_native) /\ ColumnOK(optimistic_snapshot)
  BY <1>1, <1>2, EveryIsNatural
  DEF Reported, OnLine, Elapsed, ElapsedOrUser, mac_native, windows_native, optimistic_snapshot
<1>4. \A variants : Len(variants) \in {5, 6} => ColumnOK(OfVariants(variants))
  <2>1. Every * 6 \in Nat /\ Every * 5 \in Nat
    BY EveryIsNatural
  <2> QED BY <1>1, <1>2, <2>1 DEF OfVariants
<1>5. Len(aot_variant) = 6 /\ Len(aot_variant_freq) = 5
  BY DEF aot_variant, aot_variant_freq
<1> QED
  BY <1>3, <1>4, <1>5

LEMMA ScriptsAreOK ==
  ASSUME NEW t \in Scripts
  PROVE  ColumnsOK(t) /\ (t.sorted # <<>> => SortedOK(t))
<1> DEFINE OK(s) == ColumnsOK(s) /\ s.sorted = <<>>
<1>1. \A pool, a, b : ColumnOK(a) /\ ColumnOK(b) =>
        OK(Joined(pool, <<a, b>>, TRUE)) /\ OK(Joined(pool, <<a, b>>, FALSE))
  BY DEF ColumnsOK, Joined
<1>2. \A pool, a, b, c : ColumnOK(a) /\ ColumnOK(b) /\ ColumnOK(c) =>
        OK(Joined(pool, <<a, b, c>>, TRUE)) /\ OK(Joined(pool, <<a, b, c>>, FALSE))
  BY DEF ColumnsOK, Joined
<1>3. \A pool, a, b, c, d : ColumnOK(a) /\ ColumnOK(b) /\ ColumnOK(c) /\ ColumnOK(d) =>
        OK(Joined(pool, <<a, b, c, d>>, TRUE)) /\ OK(Joined(pool, <<a, b, c, d>>, FALSE))
  BY DEF ColumnsOK, Joined
<1>4. \A pool, a, b, c, d, e :
        ColumnOK(a) /\ ColumnOK(b) /\ ColumnOK(c) /\ ColumnOK(d) /\ ColumnOK(e) =>
        OK(Joined(pool, <<a, b, c, d, e>>, TRUE)) /\ OK(Joined(pool, <<a, b, c, d, e>>, FALSE))
  BY DEF ColumnsOK, Joined
<1>5. \A variants, lst :
        /\ Len(Sorted(variants, lst).columns) = 1
        /\ Sorted(variants, lst).columns[1] = OfVariants(variants)
        /\ Sorted(variants, lst).variants = variants /\ Sorted(variants, lst).sorted = lst
  BY DEF Sorted
<1>6. \A variants, lst : ColumnOK(OfVariants(variants)) => ColumnsOK(Sorted(variants, lst))
  BY <1>5 DEF ColumnsOK
<1> HIDE DEF OK
<1>7. OK(bench_comparison) /\ OK(bench_comparison_mac)
  <2>1. OK(Joined(20, <<Reported(Unbound), Elapsed, Elapsed, Elapsed, Elapsed>>, TRUE))
    BY <1>4, ColumnsAreOK
  <2>2. OK(Joined(10, <<Reported(Unbound), ElapsedOrUser, Elapsed, ElapsedOrUser, ElapsedOrUser>>, TRUE))
    BY <1>4, ColumnsAreOK
  <2> QED BY <2>1, <2>2
  DEF bench_comparison, bench_comparison_mac, comparison_mvvm, comparison_hcontainer,
      comparison_qemu_x86_64, comparison_qemu_aarch64, comparison_native, comparison_mac_mvvm,
      comparison_mac_native, comparison_mac_qemu_x86_64, comparison_mac_qemu_aarch64,
      comparison_mac_hcontainer
<1>8. OK(bench_comparison_gapbs) /\ OK(bench_comparison_gapbs_mac)
  <2>1. OK(Joined(20, <<Reported(Unbound), Elapsed, Elapsed, Elapsed>>, TRUE))
    BY <1>3, ColumnsAreOK
  <2> QED BY <2>1
  DEF bench_comparison_gapbs, bench_comparison_gapbs_mac, gapbs_mvvm, gapbs_native,
      gapbs_qemu_x86_64, gapbs_qemu_aarch64, gapbs_mac_mvvm, gapbs_mac_native,
      gapbs_mac_qemu_x86_64, gapbs_mac_qemu_aarch64
<1>9. OK(bench_mac) /\ OK(bench_windows)
  BY <1>1, ColumnsAreOK DEF bench_mac, bench_windows, mac_mvvm, windows_mvvm
<1>10. OK(usecase_burst) /\ OK(usecase_optimistic)
  BY <1>2, ColumnsAreOK
  DEF usecase_burst, usecase_optimistic, burst_cloud, burst_edge, burst_snapshot,
      optimistic_fasttier, optimistic_slowtier
<1>11. CASE t \in {bench_policy, bench_policy_mac, bench_policy_multithread}
  <2>1. \A lst \in {policy_lists, policy_mac_lists, policy_multithread_lists} :
          6 \in DOMAIN lst /\ lst[6] = {"loop_dirty"}
    BY DEF policy_lists, policy_mac_lists, policy_multithread_lists
  <2>2. \E lst \in {policy_lists, policy_mac_lists, policy_multithread_lists} :
          t = Sorted(aot_variant, lst)
    BY <1>11 DEF bench_policy, bench_policy_mac, bench_policy_multithread
  <2> QED BY <1>5, <1>6, <2>1, <2>2, ColumnsAreOK DEF SortedOK
<1>12. CASE t \in {bench_loop_counter, bench_loop_snapshot}
  <2>1. t = Sorted(aot_variant_freq, ListPerVariant)
    BY <1>12 DEF bench_loop_counter, bench_loop_snapshot, loop_counter_lists, loop_snapshot_lists
  <2> QED BY <1>5, <1>6, <2>1, ColumnsAreOK DEF SortedOK
<1>13. OK(t) \/ t \in {bench_policy, bench_policy_mac, bench_policy_multithread,
                      bench_loop_counter, bench_loop_snapshot}
  BY <1>7, <1>8, <1>9, <1>10 DEF Scripts
<1> QED
  BY <1>11, <1>12, <1>13 DEF OK

-----------------------------------------------------------------------------
(***************************************************************************)
(* The invariant.                                                          *)
(***************************************************************************)
Outcome == [fate : Fates \cup {"none"}, lines : Printouts]

Lost(runs) == \E k \in DOMAIN runs : runs[k].fate = "raised"

(* The complete columns say what their runs came to and have lost none.    *)
ColumnsInv ==
  /\ lists \in Seq(Seq(Time)) /\ outs \in Seq(Seq(Outcome)) /\ Len(outs) = Len(lists)
  /\ \A c \in 1..Len(lists) : Faithful(table.columns[c], outs[c], lists[c]) /\ ~Lost(outs[c])

RunsInv ==
  /\ table \in Scripts /\ session \in Nat
  /\ phase \in {"run", "write", "read", "plotted", "raised"}
  /\ phase = "run" => /\ Len(lists) < Len(table.columns)
                      /\ out \in [1..column.runs -> ResultsOf(column) \cup {NotEnded}]
  /\ phase = "write" => Len(lists) = Len(table.columns) /\ out = <<>>

(* Nothing is written before the columns are complete.                     *)
IsSeq(s) == Len(s) \in Nat /\ s = [i \in 1..Len(s) |-> s[i]]

FileInv ==
  /\ IsSeq(file)
  /\ \A i \in DOMAIN file :
       /\ file[i].session \in Nat /\ file[i].session <= session
       /\ phase \in {"run", "write"} => file[i].session < session
  /\ Ours # {} => out = <<>>

TablesInv == ColumnsInv /\ RunsInv /\ FileInv /\ CellsAreTheRowsOwn

-----------------------------------------------------------------------------
(***************************************************************************)
(* Sorting by the name of the variant.                                     *)
(***************************************************************************)
(* The places of the j-th of five variants among n rounds.                 *)
Fives(n, j) == {k \in 1..n * 5 : ((k - 1) % 5) + 1 = j}

LEMMA FivesAre ==
  ASSUME NEW n \in Nat, NEW j \in 1..5, NEW k \in Int
  PROVE  k \in Fives(n, j) <=> \E q \in 1..n : k = (q - 1) * 5 + j
<1>1. ASSUME k \in Fives(n, j) PROVE \E q \in 1..n : k = (q - 1) * 5 + j
  <2> DEFINE q == (k - 1) \div 5 + 1
  <2>1. k \in 1..n * 5 /\ (k - 1) % 5 = j - 1
    BY <1>1 DEF Fives
  <2>2. q \in 1..n /\ k = (q - 1) * 5 + j
    BY <2>1
  <2> QED BY <2>2
<1>2. ASSUME NEW q \in 1..n, k = (q - 1) * 5 + j PROVE k \in Fives(n, j)
  BY <1>2 DEF Fives
<1> QED
  BY <1>1, <1>2

LEMMA FivesUpTo ==
  ASSUME NEW n \in Nat, NEW j \in 1..5, NEW i \in 0..n
  PROVE  /\ IsFiniteSet({l \in Fives(n, j) : l <= (i - 1) * 5 + j})
         /\ Cardinality({l \in Fives(n, j) : l <= (i - 1) * 5 + j}) = i
<1> DEFINE S == {l \in Fives(n, j) : l <= (i - 1) * 5 + j}
           f == [q \in 1..i |-> (q - 1) * 5 + j]
<1>1. \A q \in 1..i : f[q] \in S
  <2> SUFFICES ASSUME NEW q \in 1..i PROVE f[q] \in S
    OBVIOUS
  <2>1. f[q] \in Int /\ q \in 1..n /\ f[q] = (q - 1) * 5 + j /\ f[q] <= (i - 1) * 5 + j
    OBVIOUS
  <2>2. f[q] \in Fives(n, j)
    <3> HIDE DEF f
    <3> QED BY <2>1, FivesAre
  <2> QED BY <2>1, <2>2
<1>2. \A l \in S : \E q \in 1..i : f[q] = l
  <2> SUFFICES ASSUME NEW l \in Fives(n, j), l <= (i - 1) * 5 + j
               PROVE  \E q \in 1..i : f[q] = l
    OBVIOUS
  <2>1. l \in Int
    BY DEF Fives
  <2>2. PICK q \in 1..n : l = (q - 1) * 5 + j
    BY <2>1, FivesAre
  <2>3. q \in 1..i
    BY <2>2
  <2> QED BY <2>2, <2>3
<1>3. \A p, q \in 1..i : f[p] = f[q] => p = q
  OBVIOUS
<1>4. f \in Bijection(1..i, S)
  <2>1. f \in [1..i -> S]
    BY <1>1
  <2> HIDE DEF f, S
  <2> QED BY <1>2, <1>3, <2>1 DEF Bijection, Injection, Surjection, IsInjective
<1> HIDE DEF f
<1>5. IsFiniteSet(1..i) /\ Cardinality(1..i) = i
  <2>1. i \in Int /\ 1 \in Int /\ i >= 0
    OBVIOUS
  <2> QED BY <2>1, FS_Interval
<1>6. ExistsBijection(1..i, S)
  BY <1>4 DEF ExistsBijection
<1> HIDE DEF S
<1>7. IsFiniteSet(S) /\ Cardinality(S) = i
  BY <1>5, <1>6, FS_Bijection
<1> QED
  BY <1>7 DEF S

LEMMA NthOfFives ==
  ASSUME NEW n \in Nat, NEW j \in 1..5
  PROVE  /\ Cardinality(Fives(n, j)) = n
         /\ \A i \in 1..n : Nth(Fives(n, j), i) = (i - 1) * 5 + j
<1> DEFINE P == Fives(n, j)
           UpTo(k) == {l \in P : l <= k}
<1>1. IsFiniteSet(P) /\ Cardinality(P) = n
  <2>1. P = UpTo((n - 1) * 5 + j)
    <3> SUFFICES ASSUME NEW l \in P PROVE l <= (n - 1) * 5 + j
      OBVIOUS
    <3>1. l \in Int
      BY DEF Fives
    <3>2. PICK q \in 1..n : l = (q - 1) * 5 + j
      BY <3>1, FivesAre
    <3> QED BY <3>2
  <2>2. IsFiniteSet(UpTo((n - 1) * 5 + j)) /\ Cardinality(UpTo((n - 1) * 5 + j)) = n
    <3>1. n \in 0..n
      OBVIOUS
    <3> QED BY <3>1, FivesUpTo
  <2> HIDE DEF P, UpTo
  <2> QED BY <2>1, <2>2
<1>2. \A k, l \in P : Cardinality(UpTo(k)) = Cardinality(UpTo(l)) => k = l
  <2>1. ASSUME NEW k \in P, NEW l \in P, k < l PROVE Cardinality(UpTo(k)) # Cardinality(UpTo(l))
    <3>1. k \in Int /\ l \in Int
      BY DEF Fives
    <3>2. IsFiniteSet(UpTo(l))
      <4>1. UpTo(l) \in SUBSET P
        OBVIOUS
      <4> HIDE DEF P, UpTo
      <4> QED BY <1>1, <4>1, FS_Subset
    <3>3. UpTo(k) \in SUBSET UpTo(l) /\ l \in UpTo(l) /\ l \notin UpTo(k)
      <4>1. \A m \in P : m \in Int
        BY DEF Fives
      <4> HIDE DEF P
      <4>2. \A m \in P : m <= k => m <= l
        BY <2>1, <3>1, <4>1
      <4>3. l <= l /\ ~(l <= k)
        BY <2>1, <3>1
      <4> QED BY <2>1, <4>2, <4>3
    <3> HIDE DEF UpTo, P
    <3>4. Cardinality(UpTo(k)) = Cardinality(UpTo(l)) => UpTo(l) = UpTo(k)
      BY <3>2, <3>3, FS_Subset
    <3> QED BY <3>3, <3>4
  <2>2. \A k \in P : k \in Int
    BY DEF Fives
  <2> HIDE DEF P, UpTo
  <2>3. \A k, l \in P : k < l => Cardinality(UpTo(k)) # Cardinality(UpTo(l))
    BY <2>1
  <2> QED BY <2>2, <2>3
<1>3. ASSUME NEW i \in 1..n PROVE Nth(P, i) = (i - 1) * 5 + j
  <2> DEFINE k == (i - 1) * 5 + j
  <2>1. k \in Int /\ i \in 0..n
    OBVIOUS
  <2>2. k \in P
    BY <2>1, FivesAre
  <2>3. Cardinality(UpTo(k)) = i
    BY <2>1, FivesUpTo
  <2> HIDE DEF P, k
  <2>4. Nth(P, i) \in P /\ Cardinality(UpTo(Nth(P, i))) = i
    <3>1. \E l \in P : Cardinality({m \in P : m <= l}) = i
      BY <2>2, <2>3
    <3> QED BY <3>1 DEF Nth
  <2> HIDE DEF UpTo
  <2>5. Nth(P, i) = k
    BY <1>2, <2>2, <2>3, <2>4
  <2> QED BY <2>5 DEF k
<1> QED
  BY <1>1, <1>3

LEMMA ShortestIs ==
  ASSUME NEW columns, DOMAIN columns # {}, \A j \in DOMAIN columns : Len(columns[j]) \in Nat
  PROVE  /\ Shortest(columns) \in Nat
         /\ \A j \in DOMAIN columns : Shortest(columns) <= Len(columns[j])
<1> DEFINE S == {Len(columns[j]) : j \in DOMAIN columns}
<1>1. S \in SUBSET Nat /\ S # {}
  OBVIOUS
<1>2. \E n \in S : \A m \in S : n <= m
  <2> HIDE DEF S
  <2> QED BY <1>1, LeastNatural
<1>3. \E n \in S : \A j \in DOMAIN columns : n <= Len(columns[j])
  BY <1>2
<1>4. Shortest(columns) \in S /\ \A j \in DOMAIN columns : Shortest(columns) <= Len(columns[j])
  <2>1. Shortest(columns) = CHOOSE n \in S : \A j \in DOMAIN columns : n <= Len(columns[j])
    BY DEF Shortest
  <2> HIDE DEF S
  <2> QED BY <1>3, <2>1
<1> QED
  BY <1>1, <1>4

(* The five variants differ.                                               *)
LEMMA VariantsDiffer ==
  ASSUME NEW j \in 1..5
  PROVE  /\ DOMAIN aot_variant_freq = 1..5 /\ Len(aot_variant_freq) = 5
         /\ \A v \in 1..5 : aot_variant_freq[v] = aot_variant_freq[j] <=> v = j
<1>1. /\ aot_variant_freq[1] = "counter_1" /\ aot_variant_freq[2] = "counter_30"
      /\ aot_variant_freq[3] = "pgo" /\ aot_variant_freq[4] = "aot" /\ aot_variant_freq[5] = "pure"
  BY DEF aot_variant_freq
<1>2. DOMAIN aot_variant_freq = 1..5 /\ Len(aot_variant_freq) = 5
  BY DEF aot_variant_freq
<1>3. \A v \in 1..5 : aot_variant_freq[v] = aot_variant_freq[j] <=> v = j
  <2>1. \A v \in 1..5 : v \in {1, 2, 3, 4, 5}
    OBVIOUS
  <2> QED BY <1>1, <2>1
<1> QED
  BY <1>2, <1>3

WrittenColumns ==
  IF table.sorted # <<>> THEN [j \in DOMAIN table.sorted |-> EntriesOf(table.sorted[j])]
  ELSE lists

(* A cell has the time of the run that it is to show.                      *)
CellOwn(i, j, cell) ==
  LET k    == RunFor(i, j)
      c    == table.columns[ColumnOf(j)]
      runs == outs[ColumnOf(j)]
  IN (\A m \in 1..k : OneEntry(c, runs[m])) =>
       IF Understood(c, runs[k]) THEN cell.run = k ELSE cell.run < k

LEMMA EntryOfFaithful ==
  ASSUME NEW c, ColumnOK(c), NEW runs, NEW L, Faithful(c, runs, L),
         NEW k \in 1..Len(L), \A m \in 1..k : OneEntry(c, runs[m])
  PROVE  IF Understood(c, runs[k]) THEN L[k].run = k ELSE L[k].run < k
<1>1. Len(L) \in Nat /\ c.runs \in Nat
  BY LenProperties DEF Faithful, ColumnOK
<1>2. CASE k <= c.runs
  <2>1. k \in 1..c.runs
    BY <1>1, <1>2
  <2> QED BY <2>1 DEF Faithful
<1>3. CASE ~(k <= c.runs)
  <2>1. \A m \in 1..c.runs : m \in 1..k
    BY <1>1, <1>3
  <2>2. Len(L) = c.runs
    BY <2>1 DEF Faithful
  <2> QED BY <1>1, <1>3, <2>2
<1> QED
  BY <1>2, <1>3

(* In the script whose list "loop_dirty" stays empty there are no rows.    *)
LEMMA NobodyIsLoopDirty ==
  ASSUME table.variants = aot_variant, Len(lists[1]) \in Nat
  PROVE  Len(EntriesOf({"loop_dirty"})) = 0
<1>1. \A v \in 1..6 : aot_variant[v] # "loop_dirty"
  BY DEF aot_variant
<1>2. Len(aot_variant) = 6
  BY DEF aot_variant
<1>3. \A k \in 1..Len(lists[1]) : ((k - 1) % 6) + 1 \in 1..6
  OBVIOUS
<1>4. PlacesOf({"loop_dirty"}) = {}
  BY <1>1, <1>2, <1>3 DEF PlacesOf
<1>5. Cardinality(PlacesOf({"loop_dirty"})) = 0
  BY <1>4, FS_EmptySet
<1>6. \A f : EntriesOf({"loop_dirty"}) = [i \in 1..0 |-> lists[1][Nth(PlacesOf({"loop_dirty"}), i)]]
  BY <1>5 DEF EntriesOf
<1> QED
  BY <1>6

LEMMA EntriesCounted ==
  ASSUME Len(lists[1]) \in Nat, NEW variants
  PROVE  Len(EntriesOf(variants)) \in Nat
<1> DEFINE P == PlacesOf(variants)
<1>1. Cardinality(P) \in Nat
  <2>1. P \in SUBSET (1..Len(lists[1]))
    BY DEF PlacesOf
  <2>2. IsFiniteSet(1..Len(lists[1]))
    <3>1. Len(lists[1]) \in Int /\ 1 \in Int
      OBVIOUS
    <3> QED BY <3>1, FS_Interval
  <2> HIDE DEF P
  <2>3. IsFiniteSet(P)
    BY <2>1, <2>2, FS_Subset
  <2> QED BY <2>3, FS_CardinalityType
<1> DEFINE E == [i \in 1..Cardinality(P) |-> lists[1][Nth(P, i)]]
<1>2. Len(E) = Cardinality(P)
  <2> HIDE DEF P
  <2> QED BY <1>1
<1> QED
  BY <1>1, <1>2 DEF EntriesOf

LEMMA EntriesOfVariant ==
  ASSUME table.variants = aot_variant_freq, NEW n \in Nat, Len(lists[1]) = n * 5, NEW j \in 1..5
  PROVE  LET L == EntriesOf({aot_variant_freq[j]})
         IN Len(L) = n /\ \A i \in 1..n : L[i] = lists[1][(i - 1) * 5 + j]
<1>1. \A k \in 1..n * 5 : ((k - 1) % 5) + 1 \in 1..5
  OBVIOUS
<1>2. PlacesOf({aot_variant_freq[j]}) = Fives(n, j)
  <2>1. \A k \in 1..n * 5 : aot_variant_freq[((k - 1) % 5) + 1] \in {aot_variant_freq[j]}
                              <=> ((k - 1) % 5) + 1 = j
    BY <1>1, VariantsDiffer
  <2>2. Len(aot_variant_freq) = 5
    BY VariantsDiffer
  <2> QED BY <2>1, <2>2 DEF PlacesOf, Fives
<1>3. EntriesOf({aot_variant_freq[j]}) = [i \in 1..n |-> lists[1][Nth(Fives(n, j), i)]]
  BY <1>2, NthOfFives DEF EntriesOf
<1>4. \A i \in 1..n : Nth(Fives(n, j), i) = (i - 1) * 5 + j
  BY NthOfFives
<1> DEFINE L == EntriesOf({aot_variant_freq[j]})
<1>5. L = [i \in 1..n |-> lists[1][Nth(Fives(n, j), i)]]
  BY <1>3
<1> HIDE DEF L
<1>6. Len(L) = n /\ \A i \in 1..n : L[i] = lists[1][Nth(Fives(n, j), i)]
  BY <1>5
<1>7. Len(L) = n /\ \A i \in 1..n : L[i] = lists[1][(i - 1) * 5 + j]
  BY <1>4, <1>6
<1> QED
  BY <1>7 DEF L

LEMMA CellsWritten ==
  ASSUME ColumnsInv, RunsInv, phase = "write"
  PROVE  /\ Shortest(WrittenColumns) \in Nat
         /\ \A i \in 1..Shortest(WrittenColumns), j \in DOMAIN WrittenColumns :
              CellOwn(i, j, WrittenColumns[j][i])
<1>1. /\ ColumnsOK(table) /\ (table.sorted # <<>> => SortedOK(table))
      /\ Len(lists) = Len(table.columns) /\ Len(lists) \in Nat \ {0}
  BY ScriptsAreOK DEF RunsInv, ColumnsOK
<1>2. \A j \in 1..Len(lists) :
        /\ ColumnOK(table.columns[j]) /\ Faithful(table.columns[j], outs[j], lists[j])
        /\ Len(lists[j]) \in Nat
  <2>1. \A j \in 1..Len(lists) :
          ColumnOK(table.columns[j]) /\ Faithful(table.columns[j], outs[j], lists[j])
    BY <1>1 DEF ColumnsInv, ColumnsOK
  <2>2. \A L \in Seq(Time) : Len(L) \in Nat
    BY LenProperties
  <2> QED BY <2>1, <2>2 DEF Faithful
<1>3. CASE table.sorted = <<>>
  <2>1. WrittenColumns = lists /\ DOMAIN lists = 1..Len(lists) /\ DOMAIN lists # {}
    <3>1. DOMAIN lists = 1..Len(lists)
      BY LenProperties DEF ColumnsInv
    <3> QED BY <1>1, <1>3, <3>1 DEF WrittenColumns
  <2>2. /\ Shortest(lists) \in Nat
        /\ \A j \in 1..Len(lists) : Shortest(lists) <= Len(lists[j])
    BY <1>2, <2>1, ShortestIs
  <2>3. ASSUME NEW i \in 1..Shortest(lists), NEW j \in 1..Len(lists)
        PROVE  CellOwn(i, j, lists[j][i])
    <3>1. RunFor(i, j) = i /\ ColumnOf(j) = j
      BY <1>3 DEF RunFor, ColumnOf
    <3>2. i \in 1..Len(lists[j])
      BY <1>2, <2>2, <2>3
    <3>3. (\A m \in 1..i : OneEntry(table.columns[j], outs[j][m])) =>
            IF Understood(table.columns[j], outs[j][i]) THEN lists[j][i].run = i
            ELSE lists[j][i].run < i
      BY <1>2, <3>2, EntryOfFaithful
    <3> QED BY <3>1, <3>3 DEF CellOwn
  <2> QED BY <2>1, <2>2, <2>3
<1>4. CASE table.sorted # <<>>
  <2>1. /\ WrittenColumns = [j \in DOMAIN table.sorted |-> EntriesOf(table.sorted[j])]
        /\ DOMAIN WrittenColumns = DOMAIN table.sorted
    BY <1>4 DEF WrittenColumns
  <2>2. Len(lists) = 1 /\ 1 \in 1..Len(lists) /\ table.columns[1] = OfVariants(table.variants)
    BY <1>1, <1>4 DEF SortedOK
  <2> DEFINE c == table.columns[1]
             L == lists[1]
  <2>3. ColumnOK(c) /\ Faithful(c, outs[1], L) /\ Len(L) \in Nat
    BY <1>2, <2>2
  <2>4. c.reads = "always" /\ c.runs = Every * Len(table.variants)
    BY <2>2 DEF OfVariants, Column
  <2>5. \A r : OneEntry(c, r)
    BY <2>4 DEF OneEntry
  <2>6. Len(L) = Every * Len(table.variants)
    BY <2>3, <2>4, <2>5 DEF Faithful
  <2> HIDE DEF c, L
  <2>7. CASE table.variants = aot_variant /\ 6 \in DOMAIN table.sorted /\ table.sorted[6] = {"loop_dirty"}
    <3>1. 6 \in DOMAIN WrittenColumns /\ Len(WrittenColumns[6]) = 0
      BY <2>1, <2>3, <2>7, NobodyIsLoopDirty DEF L
    <3>2. Shortest(WrittenColumns) \in Nat /\ Shortest(WrittenColumns) <= 0
      <4> HIDE DEF L
      <4>1. \A j \in DOMAIN WrittenColumns : Len(WrittenColumns[j]) \in Nat
        BY <2>1, <2>3, EntriesCounted DEF L
      <4> QED BY <3>1, <4>1, ShortestIs
    <3> QED BY <3>2
  <2>8. CASE table.variants = aot_variant_freq /\ table.sorted = ListPerVariant
    <3>1. Every \in Nat /\ Len(lists[1]) = Every * 5
      <4>1. Len(aot_variant_freq) = 5
        BY DEF aot_variant_freq
      <4> QED BY <2>6, <2>8, <4>1, EveryIsNatural DEF L
    <3>2. /\ DOMAIN table.sorted = 1..5 /\ DOMAIN WrittenColumns = 1..5
          /\ \A j \in 1..5 : /\ table.sorted[j] = {aot_variant_freq[j]}
                             /\ WrittenColumns[j] = EntriesOf({aot_variant_freq[j]})
      BY <2>1, <2>8, VariantsDiffer DEF ListPerVariant
    <3>3. \A j \in 1..5 : /\ Len(WrittenColumns[j]) = Every
                          /\ \A i \in 1..Every : WrittenColumns[j][i] = L[(i - 1) * 5 + j]
      BY <2>8, <3>1, <3>2, EntriesOfVariant DEF L
    <3>4. Shortest(WrittenColumns) \in Nat /\ Shortest(WrittenColumns) <= Every
      <4>1. 1 \in DOMAIN WrittenColumns /\ Len(WrittenColumns[1]) = Every
        BY <3>2, <3>3
      <4>2. \A j \in DOMAIN WrittenColumns : Len(WrittenColumns[j]) \in Nat
        BY <3>1, <3>2, <3>3
      <4> QED BY <4>1, <4>2, ShortestIs
    <3>5. ASSUME NEW i \in 1..Shortest(WrittenColumns), NEW j \in 1..5
          PROVE  CellOwn(i, j, WrittenColumns[j][i])
      <4>1. i \in 1..Every
        BY <3>1, <3>4
      <4> DEFINE k == (i - 1) * 5 + j
      <4>2. k \in 1..Len(L)
        BY <3>1, <4>1 DEF L
      <4>3. RunFor(i, j) = k
        <5>1. (CHOOSE v \in DOMAIN table.variants : table.variants[v] \in table.sorted[j]) = j
          <6>1. \A v \in 1..5 : aot_variant_freq[v] \in {aot_variant_freq[j]} <=> v = j
            BY VariantsDiffer
          <6>2. DOMAIN table.variants = 1..5
            BY <2>8, VariantsDiffer
          <6> QED BY <2>8, <3>2, <6>1, <6>2
        <5>2. Len(table.variants) = 5
          BY <2>8, VariantsDiffer
        <5> QED BY <1>4, <5>1, <5>2 DEF RunFor
      <4>4. ColumnOf(j) = 1
        BY <1>4 DEF ColumnOf
      <4>5. WrittenColumns[j][i] = L[k]
        BY <3>3, <4>1
      <4> HIDE DEF k
      <4>6. IF Understood(c, outs[1][k]) THEN L[k].run = k ELSE L[k].run < k
        BY <2>3, <2>5, <4>2, EntryOfFaithful
      <4> QED BY <4>3, <4>4, <4>5, <4>6 DEF CellOwn, c
    <3> QED BY <3>2, <3>4, <3>5
  <2> QED BY <1>1, <1>4, <2>7, <2>8 DEF SortedOK
<1> QED
  BY <1>3, <1>4

-----------------------------------------------------------------------------
(***************************************************************************)
(* The steps.                                                              *)
(***************************************************************************)
LEMMA SequencesAre ==
  ASSUME NEW s, IsSeq(s)
  PROVE  DOMAIN s = 1..Len(s) /\ \E S : s \in Seq(S)
<1>1. Len(s) \in Nat /\ s = [i \in 1..Len(s) |-> s[i]]
  BY DEF IsSeq
<1> DEFINE S == {s[i] : i \in 1..Len(s)}
<1>2. s \in [1..Len(s) -> S]
  BY <1>1
<1>3. s \in Seq(S)
  <2> HIDE DEF S
  <2> QED BY <1>1, <1>2
<1> QED
  BY <1>1, <1>3

LEMMA TablesInit ==
  ASSUME TInit
  PROVE  TablesInv
<1>1. file = <<>> /\ lists = <<>> /\ outs = <<>> /\ session = 1 /\ phase = "run"
      /\ table \in Scripts /\ out = None(table.columns[1].runs)
  BY DEF TInit
<1>2. /\ <<>> \in Seq(Seq(Time)) /\ <<>> \in Seq(Seq(Outcome)) /\ Len(<<>>) = 0
      /\ IsSeq(<<>>)
  BY DEF IsSeq
<1>3. ColumnsInv
  BY <1>1, <1>2 DEF ColumnsInv
<1>4. RunsInv
  <2>1. Len(table.columns) \in Nat \ {0} /\ column = table.columns[1]
    BY <1>1, <1>2, ScriptsAreOK DEF ColumnsOK, column
  <2>2. None(column.runs) \in [1..column.runs -> ResultsOf(column) \cup {NotEnded}]
    BY DEF None
  <2> QED BY <1>1, <1>2, <2>1, <2>2 DEF RunsInv
<1>5. Ours = {} /\ FileInv
  BY <1>1, <1>2 DEF Ours, FileInv
<1> QED
  BY <1>3, <1>4, <1>5 DEF TablesInv, CellsAreTheRowsOwn

(* The property, row by row.                                               *)
HeaderAt == CHOOSE h \in DOMAIN file : file[h] = Header(session)

LEMMA RowsOwn ==
  CellsAreTheRowsOwn <=>
    \A row \in Ours : \A j \in DOMAIN file[row].cells :
      CellOwn(row - HeaderAt, j, file[row].cells[j])
BY DEF CellsAreTheRowsOwn, CellOwn, HeaderAt

(* Without rows of this session there is nothing to show.                  *)
LEMMA NoRowsYet ==
  ASSUME FileInv, phase \in {"run", "write"}
  PROVE  Ours = {}
BY DEF FileInv, Ours

LEMMA EndRunKeeps ==
  ASSUME TablesInv, NEW k \in DOMAIN out, EndRun(k)
  PROVE  TablesInv'
<1>1. /\ phase = "run" /\ UNCHANGED <<table, phase, session, outs, lists, file>>
      /\ \E r \in ResultsOf(column) : out' = [out EXCEPT ![k] = r]
  BY DEF EndRun, ResultsOf
<1>2. ColumnsInv' /\ Ours' = {}
  BY <1>1, NoRowsYet DEF TablesInv, ColumnsInv, Ours
<1>3. RunsInv'
  <2>1. column' = column
    BY <1>1 DEF column
  <2>2. out \in [1..column.runs -> ResultsOf(column) \cup {NotEnded}]
    BY <1>1 DEF TablesInv, RunsInv
  <2>3. out' \in [1..column.runs -> ResultsOf(column) \cup {NotEnded}]
    BY <1>1, <2>2
  <2>4. ResultsOf(column)' = ResultsOf(column)
    BY <2>1 DEF ResultsOf, Odd, Expected
  <2> QED BY <1>1, <2>1, <2>3, <2>4 DEF TablesInv, RunsInv
<1>4. FileInv'
  BY <1>1, <1>2 DEF TablesInv, FileInv
<1> QED
  BY <1>2, <1>3, <1>4 DEF TablesInv, CellsAreTheRowsOwn

LEMMA SomeGetRaisesKeeps ==
  ASSUME TablesInv, SomeGetRaises
  PROVE  TablesInv'
<1>1. phase = "run" /\ phase' = "raised" /\ UNCHANGED <<table, session, out, outs, lists, file, odd>>
  BY DEF SomeGetRaises
<1>2. ColumnsInv' /\ RunsInv' /\ Ours' = {}
  BY <1>1, NoRowsYet DEF TablesInv, ColumnsInv, RunsInv, Ours
<1>3. FileInv'
  BY <1>1, <1>2 DEF TablesInv, FileInv
<1> QED
  BY <1>2, <1>3 DEF TablesInv, CellsAreTheRowsOwn

LEMMA ReadFromCsvKeeps ==
  ASSUME TablesInv, read_from_csv
  PROVE  TablesInv'
<1>1. /\ phase = "read" /\ phase' \in {"raised", "plotted"}
      /\ UNCHANGED <<table, session, out, outs, lists, file, odd>>
  BY DEF read_from_csv
<1>2. ColumnsInv' /\ RunsInv' /\ Ours' = Ours
  BY <1>1 DEF TablesInv, ColumnsInv, RunsInv, Ours
<1>3. FileInv'
  BY <1>1, <1>2 DEF TablesInv, FileInv
<1>4. CellsAreTheRowsOwn'
  <2>1. Header(session)' = Header(session)
    BY <1>1 DEF Header
  <2>2. HeaderAt' = HeaderAt
    BY <1>1, <2>1 DEF HeaderAt
  <2>3. \A i, j, cell : CellOwn(i, j, cell)' <=> CellOwn(i, j, cell)
    BY <1>1 DEF CellOwn, RunFor, ColumnOf
  <2>4. \A row \in Ours : \A j \in DOMAIN file[row].cells :
          CellOwn(row - HeaderAt, j, file[row].cells[j])
    BY RowsOwn DEF TablesInv
  <2>5. (\A row \in Ours : \A j \in DOMAIN file[row].cells :
          CellOwn(row - HeaderAt, j, file[row].cells[j]))'
    BY <1>1, <1>2, <2>2, <2>3, <2>4
  <2> QED BY <2>5 DEF CellsAreTheRowsOwn, CellOwn, HeaderAt
<1> QED
  BY <1>2, <1>3, <1>4 DEF TablesInv

LEMMA AgainKeeps ==
  ASSUME TablesInv, Again
  PROVE  TablesInv'
<1>1. /\ table' = table /\ phase' = "run" /\ session' = session + 1
      /\ out' = None(table.columns[1].runs) /\ outs' = <<>> /\ lists' = <<>> /\ file' = file
  BY DEF Again, Execute
<1>2. <<>> \in Seq(Seq(Time)) /\ <<>> \in Seq(Seq(Outcome)) /\ Len(<<>>) = 0
  OBVIOUS
<1>3. ColumnsInv'
  BY <1>1, <1>2 DEF ColumnsInv
<1>4. RunsInv'
  <2>1. Len(table.columns) \in Nat \ {0} /\ column' = table.columns[1]
    BY <1>1, <1>2, ScriptsAreOK DEF TablesInv, RunsInv, ColumnsOK, column
  <2>2. None(table.columns[1].runs)
          \in [1..table.columns[1].runs -> ResultsOf(table.columns[1]) \cup {NotEnded}]
    BY DEF None
  <2>3. ResultsOf(column)' = ResultsOf(table.columns[1])
    BY <2>1 DEF ResultsOf, Odd, Expected
  <2> QED BY <1>1, <1>2, <2>1, <2>2, <2>3 DEF TablesInv, RunsInv
<1>5. \A i \in DOMAIN file' : /\ file'[i].session \in Nat /\ file'[i].session <= session'
                              /\ file'[i].session < session'
  BY <1>1 DEF TablesInv, FileInv, RunsInv
<1>6. Ours' = {} /\ FileInv'
  BY <1>1, <1>5 DEF TablesInv, Ours, FileInv
<1> QED
  BY <1>3, <1>4, <1>6 DEF TablesInv, CellsAreTheRowsOwn

LEMMA GetAllKeeps ==
  ASSUME TablesInv, GetAll
  PROVE  TablesInv'
<1> DEFINE c    == column
           n    == c.runs
           read == Read(column)
<1>1. /\ phase = "run" /\ UNCHANGED <<table, session, file>>
      /\ \A k \in DOMAIN out : Ended(k) /\ ~GetRaises(k)
  BY DEF GetAll
<1>2. /\ Len(lists) \in Nat /\ Len(lists) + 1 \in 1..Len(table.columns)
      /\ c = table.columns[Len(lists) + 1] /\ ColumnOK(c) /\ n \in Nat
  <2>1. Len(lists) \in Nat /\ Len(lists) < Len(table.columns) /\ Len(table.columns) \in Nat
    BY <1>1, LenProperties, ScriptsAreOK DEF TablesInv, ColumnsInv, RunsInv, ColumnsOK
  <2>2. ColumnsOK(table)
    BY ScriptsAreOK DEF TablesInv, RunsInv
  <2> QED BY <2>1, <2>2 DEF ColumnsOK, ColumnOK, column
<1>3. Ours = {} /\ Ours' = {}
  BY <1>1, NoRowsYet DEF TablesInv, Ours
<1>4. CASE ~read.ok
  <2>1. phase' = "raised" /\ UNCHANGED <<out, outs, lists>>
    BY <1>4 DEF GetAll
  <2>2. ColumnsInv' /\ RunsInv' /\ FileInv'
    BY <1>1, <1>3, <2>1 DEF TablesInv, ColumnsInv, RunsInv, FileInv
  <2> QED BY <1>3, <2>2 DEF TablesInv, CellsAreTheRowsOwn
<1>5. CASE read.ok
  <2>1. /\ lists' = Append(lists, read.entries) /\ outs' = Append(outs, out)
        /\ IF Len(lists') = Len(table.columns) THEN phase' = "write" /\ out' = <<>>
           ELSE phase' = "run" /\ out' = None(table.columns[Len(lists') + 1].runs)
    BY <1>5 DEF GetAll
  <2>2. out \in [1..n -> ResultsOf(c) \cup {NotEnded}] /\ DOMAIN out = 1..n
    BY <1>1 DEF TablesInv, RunsInv
  <2>3. \A k \in 1..n : out[k] \in ResultsOf(c) /\ out[k].fate # "raised"
    BY <1>1, <2>2 DEF Ended, GetRaises
  <2> HIDE DEF c, n, read
  <2>4. \A k \in 1..n : out[k].lines \in Printouts /\ out[k].fate \in Fates
    BY <2>3, ResultsAre
  <2>5. Faithful(c, out, read.entries)
    BY <1>2, <1>5, <2>4, ReadFaithful DEF c, n, read
  <2>6. out \in Seq(Outcome) /\ ~Lost(out)
    <3>1. ResultsOf(c) \subseteq Outcome
      BY DEF ResultsOf, Odd, Expected, Result, Outcome, Fates, Printouts
    <3>2. out \in [1..n -> Outcome]
      BY <2>2, <2>3, <3>1
    <3> QED BY <1>2, <2>2, <2>3, <3>2 DEF Lost
  <2>7. /\ lists \in Seq(Seq(Time)) /\ outs \in Seq(Seq(Outcome)) /\ Len(outs) = Len(lists)
        /\ read.entries \in Seq(Time)
    BY <2>5 DEF TablesInv, ColumnsInv, Faithful
  <2>8. /\ lists' \in Seq(Seq(Time)) /\ Len(lists') = Len(lists) + 1
        /\ \A j \in 1..Len(lists) : lists'[j] = lists[j]
        /\ lists'[Len(lists) + 1] = read.entries
    BY <2>1, <2>7, AppendProperties
  <2>9. /\ outs' \in Seq(Seq(Outcome)) /\ Len(outs') = Len(lists) + 1
        /\ \A j \in 1..Len(lists) : outs'[j] = outs[j]
        /\ outs'[Len(lists) + 1] = out
    BY <2>1, <2>6, <2>7, AppendProperties
  <2>10. ColumnsInv'
    <3>1. \A j \in 1..Len(lists)' :
            Faithful(table.columns[j], outs'[j], lists'[j]) /\ ~Lost(outs'[j])
      <4> SUFFICES ASSUME NEW j \in 1..Len(lists)'
                   PROVE  Faithful(table.columns[j], outs'[j], lists'[j]) /\ ~Lost(outs'[j])
        OBVIOUS
      <4>1. j \in 1..Len(lists) \/ j = Len(lists) + 1
        BY <1>2, <2>8
      <4>2. CASE j \in 1..Len(lists)
        BY <2>8, <2>9, <4>2 DEF TablesInv, ColumnsInv
      <4>3. CASE j = Len(lists) + 1
        BY <1>2, <2>5, <2>6, <2>8, <2>9, <4>3
      <4> QED BY <4>1, <4>2, <4>3
    <3> QED BY <1>1, <2>8, <2>9, <3>1 DEF ColumnsInv
  <2>11. RunsInv'
    <3>1. CASE Len(lists') = Len(table.columns)
      BY <1>1, <2>1, <3>1 DEF TablesInv, RunsInv
    <3>2. CASE Len(lists') # Len(table.columns)
      <4>1. phase' = "run" /\ out' = None(table.columns[Len(lists') + 1].runs)
        BY <2>1, <3>2
      <4>2. column' = table.columns[Len(lists') + 1]
        BY <1>1 DEF column
      <4>3. (ResultsOf(column) \cup {NotEnded})' = ResultsOf(column') \cup {NotEnded}
        BY DEF ResultsOf, Odd, Expected
      <4>4. out' \in [1..column'.runs -> ResultsOf(column') \cup {NotEnded}]
        BY <4>1, <4>2 DEF None
      <4>5. Len(lists') < Len(table'.columns)
        BY <1>1, <1>2, <2>8, <3>2
      <4> QED BY <1>1, <4>1, <4>3, <4>4, <4>5 DEF TablesInv, RunsInv
    <3> QED BY <3>1, <3>2
  <2>12. FileInv'
    <3>1. phase' \in {"run", "write"}
      BY <2>1
    <3> QED BY <1>1, <1>3, <3>1 DEF TablesInv, FileInv
  <2> QED BY <1>3, <2>10, <2>11, <2>12 DEF TablesInv, CellsAreTheRowsOwn
<1> QED
  BY <1>4, <1>5

LEMMA WriteToCsvKeeps ==
  ASSUME TablesInv, write_to_csv
  PROVE  TablesInv'
<1> DEFINE n    == Shortest(WrittenColumns)
           rows == RowsOf(WrittenColumns, n)
           m    == Len(file)
<1>1. /\ phase = "write" /\ file' = file \o <<Header(session)>> \o rows
      /\ phase' \in {"raised", "read"} /\ UNCHANGED <<table, session, out, outs, lists>>
  BY DEF write_to_csv, WrittenColumns
<1>2. /\ n \in Nat /\ session \in Nat
      /\ \A i \in 1..n, j \in DOMAIN WrittenColumns : CellOwn(i, j, WrittenColumns[j][i])
  BY <1>1, CellsWritten DEF TablesInv, RunsInv
<1>3. m \in Nat /\ DOMAIN file = 1..m
  BY SequencesAre DEF TablesInv, FileInv, IsSeq
<1>4. /\ Len(rows) = n /\ DOMAIN rows = 1..n
      /\ \A i \in 1..n :
           rows[i] = Row(session, [j \in DOMAIN WrittenColumns |-> WrittenColumns[j][i]])
  <2> HIDE DEF n
  <2> QED BY <1>2 DEF RowsOf
<1> HIDE DEF n, rows
<1>5. /\ Len(file') = m + 1 + n /\ IsSeq(file') /\ DOMAIN file' = 1..m + 1 + n
      /\ \A i \in 1..m : file'[i] = file[i]
      /\ file'[m + 1] = Header(session)
      /\ \A i \in 1..n : file'[m + 1 + i] = rows[i]
  <2>1. PICK S : file \in Seq(S)
    BY SequencesAre DEF TablesInv, FileInv
  <2> DEFINE U == S \cup {Header(session)} \cup {rows[i] : i \in 1..n}
  <2>2. file \in Seq(U) /\ <<Header(session)>> \in Seq(U)
    BY <2>1, SeqMonotonic
  <2>3. rows \in Seq(U)
    <3>1. rows = [i \in 1..n |-> rows[i]]
      BY <1>4 DEF rows, RowsOf
    <3>2. rows \in [1..n -> U]
      BY <3>1
    <3> HIDE DEF U
    <3> QED BY <1>2, <3>2
  <2> HIDE DEF U
  <2> DEFINE s == file \o <<Header(session)>>
             h == <<Header(session)>>
  <2>4. Len(h) = 1 /\ h[1] = Header(session)
    OBVIOUS
  <2>5. /\ s \in Seq(U) /\ Len(s) = m + 1
        /\ \A i \in 1..m + 1 : s[i] = IF i <= m THEN file[i] ELSE h[i - m]
    <3> HIDE DEF h
    <3> QED BY <2>2, <2>4, ConcatProperties DEF h
  <2> HIDE DEF s, h
  <2>6. /\ file' \in Seq(U) /\ Len(file') = m + 1 + n
        /\ \A i \in 1..m + 1 + n : file'[i] = IF i <= m + 1 THEN s[i] ELSE rows[i - (m + 1)]
    <3>1. file' = s \o rows
      BY <1>1 DEF s
    <3> HIDE DEF m
    <3>2. /\ s \o rows \in Seq(U) /\ Len(s \o rows) = Len(s) + Len(rows)
          /\ \A i \in 1..Len(s) + Len(rows) :
               (s \o rows)[i] = IF i <= Len(s) THEN s[i] ELSE rows[i - Len(s)]
      BY <2>3, <2>5, ConcatProperties
    <3> QED BY <1>4, <2>5, <3>1, <3>2
  <2>7. DOMAIN file' = 1..m + 1 + n /\ IsSeq(file')
    BY <2>6, LenProperties DEF IsSeq
  <2>8. \A i \in 1..m : file'[i] = file[i]
    BY <1>2, <1>3, <2>5, <2>6
  <2>9. file'[m + 1] = Header(session)
    <3>1. m + 1 \in 1..m + 1 + n /\ m + 1 \in 1..m + 1 /\ (m + 1) - m = 1 /\ ~(m + 1 <= m)
      BY <1>2, <1>3
    <3> QED BY <2>4, <2>5, <2>6, <3>1
  <2>10. \A i \in 1..n : file'[m + 1 + i] = rows[i]
    <3> SUFFICES ASSUME NEW i \in 1..n PROVE file'[m + 1 + i] = rows[i]
      OBVIOUS
    <3>1. /\ m + 1 + i \in 1..m + 1 + n /\ (m + 1 + i) - (m + 1) = i
          /\ ~(m + 1 + i <= m + 1)
      BY <1>2, <1>3
    <3> QED BY <2>6, <3>1
  <2> QED BY <2>6, <2>7, <2>8, <2>9, <2>10
<1> HIDE DEF m
<1>6. /\ \A i \in 1..m : file[i].session \in Nat /\ file[i].session < session
      /\ Header(session).session = session /\ Header(session).header
      /\ \A i \in 1..n : rows[i].session = session /\ ~rows[i].header
  <2>1. \A i \in 1..m : file[i].session \in Nat /\ file[i].session < session
    BY <1>1, <1>3 DEF TablesInv, FileInv
  <2>2. Header(session).session = session /\ Header(session).header
    BY DEF Header
  <2>3. \A i \in 1..n : rows[i].session = session /\ ~rows[i].header
    BY <1>4 DEF Row
  <2> QED BY <2>1, <2>2, <2>3
<1>7. ASSUME NEW i \in DOMAIN file', i \notin 1..m, i # m + 1
      PROVE  i - (m + 1) \in 1..n /\ i = m + 1 + (i - (m + 1)) /\ file'[i] = rows[i - (m + 1)]
  <2>1. i - (m + 1) \in 1..n /\ i = m + 1 + (i - (m + 1))
    BY <1>2, <1>3, <1>5, <1>7
  <2> QED BY <1>5, <2>1
<1>8. HeaderAt' = m + 1
  <2>1. ASSUME NEW h \in DOMAIN file', h # m + 1 PROVE file'[h] # Header(session)
    <3>1. CASE h \in 1..m
      <4>1. file'[h].session \in Nat /\ file'[h].session < session
        BY <1>5, <1>6, <3>1
      <4> QED BY <1>2, <1>6, <4>1
    <3>2. CASE h \notin 1..m
      BY <1>6, <1>7, <2>1, <3>2
    <3> QED BY <3>1, <3>2
  <2>2. m + 1 \in DOMAIN file' /\ file'[m + 1] = Header(session)
    BY <1>2, <1>3, <1>5
  <2>3. Header(session)' = Header(session)
    BY <1>1 DEF Header
  <2> QED BY <2>1, <2>2, <2>3 DEF HeaderAt
<1>9. CellsAreTheRowsOwn'
  <2>1. ASSUME NEW row \in Ours', NEW j \in DOMAIN file'[row].cells
        PROVE  CellOwn(row - HeaderAt', j, file'[row].cells[j])
    <3>1. row \in 1..m + 1 + n /\ file'[row].session = session /\ ~file'[row].header
      BY <1>1, <1>5 DEF Ours
    <3> DEFINE i == row - (m + 1)
    <3>2. i \in 1..n /\ file'[row] = rows[i]
      <4>1. row \notin 1..m
        <5>1. ASSUME row \in 1..m PROVE FALSE
          <6>1. file'[row] = file[row] /\ file[row].session < session
            BY <1>5, <1>6, <5>1
          <6> QED BY <1>2, <3>1, <6>1
        <5> QED BY <5>1
      <4>2. row # m + 1
        BY <1>5, <1>6, <3>1
      <4>3. row \in DOMAIN file'
        BY <1>5, <3>1
      <4> QED BY <1>7, <4>1, <4>2, <4>3
    <3>3. row - HeaderAt' = i
      BY <1>8
    <3> HIDE DEF i
    <3>4. file'[row].cells = [l \in DOMAIN WrittenColumns |-> WrittenColumns[l][i]]
      BY <1>4, <3>2 DEF Row
    <3>5. j \in DOMAIN WrittenColumns /\ file'[row].cells[j] = WrittenColumns[j][i]
      BY <2>1, <3>4
    <3> QED BY <1>2, <3>2, <3>3, <3>5
  <2>2. \A i, j, cell : CellOwn(i, j, cell)' <=> CellOwn(i, j, cell)
    BY <1>1 DEF CellOwn, RunFor, ColumnOf
  <2>3. (\A row \in Ours : \A j \in DOMAIN file[row].cells :
          CellOwn(row - HeaderAt, j, file[row].cells[j]))'
    BY <2>1, <2>2
  <2> QED BY <2>3 DEF CellsAreTheRowsOwn, CellOwn, HeaderAt
<1>10. ColumnsInv' /\ RunsInv'
  BY <1>1 DEF TablesInv, ColumnsInv, RunsInv
<1>11. FileInv'
  <2>1. \A i \in DOMAIN file' : file'[i].session \in Nat /\ file'[i].session <= session
    <3> SUFFICES ASSUME NEW i \in DOMAIN file'
                 PROVE  file'[i].session \in Nat /\ file'[i].session <= session
      OBVIOUS
    <3>1. CASE i \in 1..m
      BY <1>2, <1>5, <1>6, <3>1
    <3>2. CASE i = m + 1
      BY <1>2, <1>5, <1>6, <3>2
    <3>3. CASE i \notin 1..m /\ i # m + 1
      BY <1>2, <1>6, <1>7, <3>3
    <3> QED BY <3>1, <3>2, <3>3
  <2>2. out' = <<>>
    BY <1>1 DEF TablesInv, RunsInv
  <2> QED BY <1>1, <1>5, <2>1, <2>2 DEF FileInv
<1> QED
  BY <1>9, <1>10, <1>11 DEF TablesInv

-----------------------------------------------------------------------------
(***************************************************************************)
(* The theorems.                                                           *)
(***************************************************************************)
LEMMA StutterKeeps ==
  ASSUME TablesInv, UNCHANGED tvars
  PROVE  TablesInv'
<1>1. UNCHANGED <<table, phase, session, out, outs, lists, file>>
  BY DEF tvars
<1>2. ColumnsInv' /\ RunsInv' /\ FileInv'
  <2>1. column' = column /\ Ours' = Ours
    BY <1>1 DEF column, Ours
  <2>2. ResultsOf(column)' = ResultsOf(column)
    BY <2>1 DEF ResultsOf, Odd, Expected
  <2> QED BY <1>1, <2>1, <2>2 DEF TablesInv, ColumnsInv, RunsInv, FileInv
<1>3. CellsAreTheRowsOwn'
  <2>1. HeaderAt' = HeaderAt /\ Ours' = Ours
    BY <1>1 DEF HeaderAt, Header, Ours
  <2>2. \A i, j, cell : CellOwn(i, j, cell)' <=> CellOwn(i, j, cell)
    BY <1>1 DEF CellOwn, RunFor, ColumnOf
  <2>3. (\A row \in Ours : \A j \in DOMAIN file[row].cells :
          CellOwn(row - HeaderAt, j, file[row].cells[j]))'
    BY <1>1, <2>1, <2>2, RowsOwn DEF TablesInv
  <2> QED BY <2>3 DEF CellsAreTheRowsOwn, CellOwn, HeaderAt
<1> QED
  BY <1>2, <1>3 DEF TablesInv

(* What the proofs rest on is an invariant.                                *)
THEOREM TablesInvariant == TSpec => []TablesInv
<1>1. TInit => TablesInv
  BY TablesInit
<1>2. TablesInv /\ [TNext]_tvars => TablesInv'
  BY EndRunKeeps, SomeGetRaisesKeeps, GetAllKeeps, WriteToCsvKeeps, ReadFromCsvKeeps, AgainKeeps,
     StutterKeeps DEF TNext
<1> QED
  BY <1>1, <1>2, PTL DEF TSpec

(* Whatever the runs of a script come to and however often it is executed, *)
(* the time of a benchmark stands in the row of that benchmark (run_*,     *)
(* write_to_csv).                                                          *)
THEOREM CellsBelongToTheirRows == TSpec => []CellsAreTheRowsOwn
<1>1. TablesInv => CellsAreTheRowsOwn
  BY DEF TablesInv
<1> QED
  BY <1>1, TablesInvariant, PTL

(* A script that loses a run writes no row (x.get, write_to_csv).          *)
THEOREM NoRowAfterALoss == TSpec => []NoTableOfAFailedMeasurement
<1>1. TablesInv => NoTableOfAFailedMeasurement
  <2> SUFFICES ASSUME TablesInv, Ours # {}
               PROVE  ~Lost(out) /\ \A c \in DOMAIN outs : ~Lost(outs[c])
    BY DEF NoTableOfAFailedMeasurement, Lost
  <2>1. ~Lost(out)
    BY DEF TablesInv, FileInv, Lost
  <2>2. DOMAIN outs = 1..Len(lists)
    BY LenProperties DEF TablesInv, ColumnsInv
  <2> QED BY <2>1, <2>2 DEF TablesInv, ColumnsInv
<1> QED
  BY <1>1, TablesInvariant, PTL
=============================================================================
