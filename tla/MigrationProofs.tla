--------------------------- MODULE MigrationProofs ---------------------------
(***************************************************************************)
(* Theorems about Migration, for any scripts among the fifteen, any number *)
(* of trials and any jobs: the guest that is restored is the right one,    *)
(* and the snapshot time that is read is the iteration's own.              *)
(*                                                                         *)
(* First what the scripts are, as sequences of steps: only these facts     *)
(* (Scripted) are used later.  Then the invariant and, part by part, that  *)
(* the steps of the processes and of the script preserve it.               *)
(***************************************************************************)
EXTENDS Migration, BasicProofs

-----------------------------------------------------------------------------
(***************************************************************************)
(* The steps of the scripts.                                               *)
(***************************************************************************)

(* Sequences of the same length one after the other.                       *)
AreTuples(seqs, n, L) == \A t \in 1..n : seqs[t] = [k \in 1..L |-> seqs[t][k]]
IsTuple(s, n) == s = [t \in 1..n |-> s[t]]

InBlocks(s, seqs, n, L) ==
  /\ Len(s) = L * n /\ IsTuple(s, L * n)
  /\ \A t \in 1..n : \A j \in 1..L :
       L * (t - 1) + j \in 1..Len(s) /\ s[L * (t - 1) + j] = seqs[t][j]
  /\ \A k \in 1..Len(s) : \E t \in 1..n : \E j \in 1..L : k = L * (t - 1) + j

LEMMA Blocks ==
  ASSUME NEW n \in Nat, NEW L \in Nat, NEW seqs, IsTuple(seqs, n), AreTuples(seqs, n, L)
  PROVE  InBlocks(FlattenSeq(seqs), seqs, n, L)
<1> USE DEF IsTuple, AreTuples
<1> DEFINE S == {seqs[t][j] : t \in 1..n, j \in 1..L}
           s == FlattenSeq(seqs)
<1>1. ASSUME NEW t \in 1..n PROVE seqs[t] \in Seq(S) /\ Len(seqs[t]) = L
  <2>1. seqs[t] = [k \in 1..L |-> seqs[t][k]]
    OBVIOUS
  <2>2. \A k \in 1..L : seqs[t][k] \in S
    OBVIOUS
  <2> HIDE DEF S
  <2> QED BY <2>1, <2>2
<1>2. seqs \in Seq(Seq(S)) /\ Len(seqs) = n
  <2> HIDE DEF S
  <2> QED BY <1>1, SMTT(60)
<1> HIDE DEF S
<1>3. PICK ends : InPlace(seqs, s, ends)
  BY <1>2, FlattenInPlace
<1> HIDE DEF s
<1>4. /\ ends \in [0..n -> Nat] /\ ends[0] = 0 /\ Len(s) = ends[n]
      /\ \A i \in 1..n : ends[i] = ends[i - 1] + L
      /\ \A i \in 1..n : \A j \in 1..L : ends[i - 1] + j \in 1..Len(s) /\ s[ends[i - 1] + j] = seqs[i][j]
      /\ \A k \in 1..Len(s) : \E i \in 1..n : \E j \in 1..L : k = ends[i - 1] + j
  <2>1. \A t \in 1..n : Len(seqs[t]) = L
    BY <1>1
  <2>2. ends \in [0..n -> Nat] /\ ends[0] = 0 /\ Len(s) = ends[n]
    BY <1>2, <1>3 DEF InPlace
  <2>3. \A i \in 1..n : ends[i] = ends[i - 1] + L
    BY <1>2, <1>3, <2>1 DEF InPlace
  <2>4. \A i \in 1..n : \A j \in 1..L : ends[i - 1] + j \in 1..Len(s) /\ s[ends[i - 1] + j] = seqs[i][j]
    BY <1>2, <1>3, <2>1 DEF InPlace
  <2>5. ASSUME NEW k \in 1..Len(s)
        PROVE  \E i \in 1..n : \E j \in 1..L : k = ends[i - 1] + j
    <3>1. PICK i \in 1..Len(seqs) : \E j \in 1..Len(seqs[i]) : k = ends[i - 1] + j
      BY <1>3 DEF InPlace
    <3>2. PICK j \in 1..Len(seqs[i]) : k = ends[i - 1] + j
      BY <3>1
    <3>3. i \in 1..n /\ j \in 1..L
      BY <1>2, <2>1
    <3> QED BY <3>2, <3>3
  <2> QED BY <2>2, <2>3, <2>4, <2>5
<1>5. \A i \in 0..n : ends[i] = L * i
  <2> DEFINE T == {i \in 0..n : ends[i] # L * i}
  <2>1. SUFFICES ASSUME T # {} PROVE FALSE
    OBVIOUS
  <2>2. PICK m \in T : \A k \in T : m <= k
    <3>1. T \in SUBSET Nat
      OBVIOUS
    <3> HIDE DEF T
    <3> QED BY <2>1, <3>1, LeastNatural
  <2>3. m \in 0..n /\ ends[m] # L * m
    BY <2>2
  <2>4. m # 0
    BY <1>4, <2>3
  <2>5. m - 1 \in 0..n /\ m - 1 \notin T /\ m \in 1..n
    BY <2>2, <2>3, <2>4
  <2>6. ends[m - 1] = L * (m - 1) /\ ends[m] = ends[m - 1] + L
    BY <1>4, <2>5
  <2>7. L * (m - 1) + L = L * m
    BY <2>5
  <2> QED BY <2>3, <2>6, <2>7
<1>6. \A t \in 1..n : t - 1 \in 0..n /\ ends[t - 1] = L * (t - 1)
  BY <1>5
<1>7. n \in 0..n /\ Len(s) = L * n
  BY <1>4, <1>5
<1>10. IsTuple(s, L * n)
  <2>1. s \in Seq(S)
    BY <1>2, FlattenInPlace DEF s
  <2> QED BY <1>7, <2>1
<1>8. ASSUME NEW t \in 1..n, NEW j \in 1..L
      PROVE  L * (t - 1) + j \in 1..Len(s) /\ s[L * (t - 1) + j] = seqs[t][j]
  <2>1. ends[t - 1] + j \in 1..Len(s) /\ s[ends[t - 1] + j] = seqs[t][j]
    BY <1>4
  <2>2. ends[t - 1] = L * (t - 1)
    BY <1>6
  <2> QED BY <2>1, <2>2, Zenon
<1>9. ASSUME NEW k \in 1..Len(s)
      PROVE  \E t \in 1..n : \E j \in 1..L : k = L * (t - 1) + j
  BY <1>4, <1>6
<1> QED
  BY <1>7, <1>8, <1>9, <1>10 DEF s, InBlocks

Spawning == {"background", "foreground", "supervised"}

(* The words of the scripts, one by one: the provers know of no word that  *)
(* it is in STRING.                                                        *)
Word == STRING \cup {"none", "image", "stdout", "local", "remote", "low", "high", "restore",
                     "checkpoint", "native", "qemu", "dump", "criu", "burst.out"}

Address  == Word \X Nat
Command  == [role : Word, job : Word, host : Word,
             in : Address, out : Address, log : Address]

Network(a) == a \notin {Nowhere, Image}

Singles == {"slowtier", "burst"}
Images  == {"checkpoint_restore", "criu"}
Networks == {"burst_overhead", "slowtier_overhead", "slowtier", "burst"}

(* The jobs that read from an address in the scripts that move two jobs.   *)
JobAt(name, a) ==
  IF name = "slowtier" \/ a \in {At("remote", 12347), At("local", 1235), At("remote", 1238), At("local", 12347)}
  THEN "high" ELSE "low"

ProperProc(name, proc) ==
  /\ proc \in Command
  /\ name \notin Images => proc.in # Image
  /\ name \in Images => proc.job = "low"
  /\ proc.role = "dump" => name = "criu"
  /\ name \notin Networks => ~Network(proc.in) /\ ~Network(proc.out)
  /\ name \in Singles => /\ Network(proc.in) => proc.job = JobAt(name, proc.in)
                         /\ Network(proc.out) => proc.job = JobAt(name, proc.out)

Proper(name, s) ==
  /\ s.do \in Spawning => ProperProc(name, s.proc)
  /\ s.do = "mv" => name = "slowtier" /\ s.arg[2] \in Address

LEMMA Words ==
  /\ "none" \in Word /\ "image" \in Word /\ "stdout" \in Word /\ "local" \in Word
  /\ "remote" \in Word /\ "low" \in Word /\ "high" \in Word /\ "restore" \in Word
  /\ "checkpoint" \in Word /\ "native" \in Word /\ "qemu" \in Word /\ "dump" \in Word
  /\ "criu" \in Word /\ "burst.out" \in Word
BY DEF Word

LEMMA Addresses ==
  /\ Nowhere \in Address /\ Image \in Address /\ Pipe \in Address /\ Nowhere # Image
  /\ \A h \in Word, n \in Nat : Out(h, n) \in Address /\ At(h, n) \in Address
  /\ \A h \in {"local", "remote"}, n \in Nat : Network(At(h, n))
  /\ \A g, h \in Word : \A m, n \in Nat : At(g, m) = At(h, n) <=> g = h /\ m = n
  /\ ~Network(Nowhere) /\ ~Network(Image)
<1>1. /\ Nowhere \in Address /\ Image \in Address /\ Pipe \in Address /\ Nowhere # Image
  <2>1. Nowhere \in Address /\ Image \in Address /\ Pipe \in Address
    BY DEF Address, Nowhere, Image, Pipe, None, Word
  <2>2. Nowhere[1] = "none" /\ Image[1] = "image" /\ "image" # "none"
    BY DEF Nowhere, Image, None
  <2> QED BY <2>1, <2>2
<1>2. \A h \in Word, n \in Nat : Out(h, n) \in Address /\ At(h, n) \in Address
  BY DEF Address, Out, At
<1>3. ASSUME NEW h \in {"local", "remote"}, NEW n \in Nat
      PROVE  Network(At(h, n))
  <2>1. At(h, n)[1] = h /\ Nowhere[1] = "none" /\ Image[1] = "image"
    BY DEF At, Nowhere, None, Image
  <2>2. "local" # "none" /\ "local" # "image" /\ "remote" # "none" /\ "remote" # "image"
    OBVIOUS
  <2> QED BY <2>1, <2>2 DEF Network
<1>4. \A g, h \in Word : \A m, n \in Nat : At(g, m) = At(h, n) <=> g = h /\ m = n
  BY DEF At
<1>5. ~Network(Nowhere) /\ ~Network(Image)
  BY DEF Network
<1> QED BY <1>1, <1>2, <1>3, <1>4, <1>5

LEMMA PlainProper ==
  ASSUME NEW name, name \notin Networks, name \notin Images,
         NEW role \in Word, role # "dump", NEW job \in Word, NEW host \in Word,
         NEW log \in Address
  PROVE  /\ Len(Plain(role, job, host, log)) = 2
         /\ \A k \in 1..2 : /\ Proper(name, Plain(role, job, host, log)[k])
                            /\ Plain(role, job, host, log)[k].it = 1
<1> DEFINE proc == Proc(role, job, host, Nowhere, IF role = "checkpoint" THEN Image ELSE Nowhere, log)
           steps == <<Foreground(proc), Cat(<<log>>)>>
<1>1. Plain(role, job, host, log) = Numbered(steps, 1)
  BY DEF Plain
<1>2. ProperProc(name, proc)
  <2>1. proc \in Command
    BY Addresses DEF Proc, Command
  <2>2. proc.in = Nowhere /\ proc.out \in {Nowhere, Image} /\ proc.role # "dump"
    BY DEF Proc
  <2> HIDE DEF proc
  <2> QED BY <2>1, <2>2, Addresses DEF ProperProc, Singles, Networks
<1> HIDE DEF proc
<1>3. Len(Numbered(steps, 1)) = 2 /\ \A k \in 1..2 : Numbered(steps, 1)[k] = [steps[k] EXCEPT !.it = 1]
  BY DEF Numbered
<1>4. \A k \in 1..2 : Proper(name, [steps[k] EXCEPT !.it = 1]) /\ [steps[k] EXCEPT !.it = 1].it = 1
  BY <1>2 DEF Proper, Foreground, Cat, Step, Spawning
<1> HIDE DEF steps
<1> QED
  BY <1>1, <1>3, <1>4

(* A step of iteration it.                                                 *)
In(step, it) == [step EXCEPT !.it = it]

(* Which steps start a process, and which.                                 *)
LEMMA SpawnProper ==
  ASSUME NEW name, NEW n, NEW proc, ProperProc(name, proc), NEW mode
  PROVE  /\ Proper(name, In(Background(proc, mode), n))
         /\ Proper(name, In(Foreground(proc), n))
         /\ Proper(name, In(Supervised(proc), n))
BY DEF In, Proper, Background, Foreground, Supervised, Step, Spawning

LEMMA SignalProper ==
  ASSUME NEW name, NEW n, NEW role, NEW host
  PROVE  /\ Proper(name, In(Sigint(role, host), n))
         /\ Proper(name, In(Pkill(role, host), n))
BY DEF In, Proper, Sigint, Pkill, Step, Spawning

LEMMA OtherProper ==
  ASSUME NEW name, NEW n
  PROVE  /\ \A names : Proper(name, In(Cat(names), n))
         /\ Proper(name, In(Sleep, n))
         /\ Proper(name, In(RmOuts, n))
         /\ Proper(name, In(Raise, n))
BY DEF In, Proper, Cat, Sleep, RmOuts, Raise, Step, Spawning

LEMMA MoveProper ==
  ASSUME NEW n, NEW from, NEW to \in Address
  PROVE  Proper("slowtier", In(Move(from, to), n))
BY DEF In, Proper, Move, Step, Spawning

(* The processes of the two scripts that move two jobs: from one address   *)
(* to another, or to the image.                                            *)
LEMMA ProcsProper ==
  ASSUME NEW name \in Singles, NEW job \in Word, NEW log \in Address,
         NEW role \in Word, role # "dump",
         NEW host \in Word, NEW in \in Address, NEW out \in Address, in # Image,
         Network(in) => job = JobAt(name, in), Network(out) => job = JobAt(name, out)
  PROVE  ProperProc(name, Proc(role, job, host, in, out, log))
<1> DEFINE proc == Proc(role, job, host, in, out, log)
<1>1. proc \in Command /\ proc.in = in /\ proc.out = out /\ proc.job = job /\ proc.role # "dump"
  BY DEF Proc, Command
<1> HIDE DEF proc
<1>2. ProperProc(name, proc)
  BY <1>1 DEF ProperProc, Singles, Networks, Images
<1> QED
  BY <1>2 DEF proc

LEMMA SlowtierProper ==
  LET s == run_checkpoint_restore_slowtier("low", "high") IN
  Len(s) = 12 /\ \A k \in 1..12 : Proper("slowtier", s[k]) /\ s[k].it = 1
<1> DEFINE s == run_checkpoint_restore_slowtier("low", "high")
<1>1. Len(s) = 12
  BY DEF run_checkpoint_restore_slowtier, Numbered
<1> DEFINE pc1 == Proc("restore", "high", "remote", At("remote", 12346), At("local", 12353), Out("restore", 1))
           pc2 == Proc("restore", "high", "local", At("local", 12353), Image, Out("restore", 0))
           pc3 == Proc("checkpoint", "high", "local", Nowhere, At("remote", 12346), Out("checkpoint", 0))
           pc4 == Proc("checkpoint", "low", "local", Nowhere, Image, Out("checkpoint", 0))
<1>2. /\ ProperProc("slowtier", pc1) /\ ProperProc("slowtier", pc2)
      /\ ProperProc("slowtier", pc3) /\ ProperProc("slowtier", pc4)
  <2>1. "slowtier" \in Singles /\ \A a : JobAt("slowtier", a) = "high"
    BY DEF Singles, JobAt
  <2>2. At("remote", 12346) # Image /\ At("local", 12353) # Image
    BY Addresses DEF Network
  <2>9. "local" \in Word /\ "remote" \in Word /\ "low" \in Word /\ "high" \in Word
        /\ "restore" \in Word /\ "checkpoint" \in Word
    BY Words
  <2>3. /\ At("remote", 12346) \in Address /\ At("local", 12353) \in Address
        /\ Out("restore", 0) \in Address /\ Out("restore", 1) \in Address
        /\ Out("checkpoint", 0) \in Address /\ Nowhere \in Address /\ Image \in Address
        /\ Nowhere # Image /\ ~Network(Nowhere) /\ ~Network(Image)
    BY <2>9, Addresses
  <2>4. ProperProc("slowtier", pc1)
    BY <2>1, <2>2, <2>3, <2>9, ProcsProper
  <2>5. ProperProc("slowtier", pc2)
    BY <2>1, <2>2, <2>3, <2>9, ProcsProper
  <2>6. ProperProc("slowtier", pc3)
    BY <2>1, <2>2, <2>3, <2>9, ProcsProper
  <2>7. ProperProc("slowtier", pc4)
    BY <2>1, <2>2, <2>3, <2>9, ProcsProper
  <2> QED BY <2>4, <2>5, <2>6, <2>7
<1>3. /\ s[1] = In(RmOuts, 1) /\ s[2] = In(Background(pc1, "append"), 1)
      /\ s[3] = In(Background(pc2, "append"), 1) /\ s[4] = In(Sleep, 1)
      /\ s[5] = In(Background(pc3, "truncate"), 1) /\ s[6] = In(Sleep, 1)
      /\ s[7] = In(Sigint("checkpoint", "local"), 1)
      /\ s[8] = In(Move(Out("checkpoint", 0), Out("checkpoint", 1)), 1)
      /\ s[9] = In(Foreground(pc4), 1)
      /\ s[10] = In(Sigint("restore", "remote"), 1) /\ s[11] = In(Sleep, 1)
      /\ \E names : s[12] = In(Cat(names), 1)
  BY SMTT(60) DEF run_checkpoint_restore_slowtier, Numbered, In
<1>4. \A k \in 1..12 : \/ k = 1 \/ k = 2 \/ k = 3 \/ k = 4 \/ k = 5 \/ k = 6
                       \/ k = 7 \/ k = 8 \/ k = 9 \/ k = 10 \/ k = 11 \/ k = 12
  OBVIOUS
<1> HIDE DEF s, pc1, pc2, pc3, pc4
<1> DEFINE Q(x) == Proper("slowtier", In(x, 1))
<1>5. /\ Q(Background(pc1, "append")) /\ Q(Background(pc2, "append"))
      /\ Q(Background(pc3, "truncate")) /\ Q(Foreground(pc4))
  BY <1>2, SpawnProper
<1>6. /\ Q(RmOuts) /\ Q(Sleep) /\ \A names : Q(Cat(names))
      /\ Q(Sigint("checkpoint", "local")) /\ Q(Sigint("restore", "remote"))
  BY OtherProper, SignalProper
<1>7. Q(Move(Out("checkpoint", 0), Out("checkpoint", 1)))
  <2>1. Out("checkpoint", 1) \in Address
    BY Words, Addresses
  <2> QED BY <2>1, MoveProper
<1>8. \A k \in 1..12 : Proper("slowtier", s[k])
  BY <1>3, <1>4, <1>5, <1>6, <1>7
<1>9. \A k \in 1..12 : s[k].it = 1
  BY DEF s, run_checkpoint_restore_slowtier, Numbered, Foreground, Background, Cat, Step, RmOuts, Sleep, Sigint, Move
<1> QED
  BY <1>1, <1>8, <1>9 DEF s

LEMMA BurstProper ==
  LET s == run_checkpoint_restore_burst("low", "high") IN
  Len(s) = 28 /\ \A k \in 1..28 : Proper("burst", s[k]) /\ s[k].it = 1
<1> DEFINE s == run_checkpoint_restore_burst("low", "high")
<1>1. Len(s) = 28
  BY DEF run_checkpoint_restore_burst, Numbered
<1> DEFINE c0 == Proc("checkpoint", "high", "local", Nowhere, At("remote", 12347), Out("checkpoint", 0))
           c1 == Proc("checkpoint", "low", "remote", Nowhere, At("local", 12346), Out("checkpoint", 1))
           r0 == Proc("restore", "high", "remote", At("remote", 12347), At("local", 1235), Out("restore", 0))
           r1 == Proc("restore", "high", "local", At("local", 1235), At("remote", 1238), Out("restore", 1))
           r2 == Proc("restore", "high", "remote", At("remote", 1238), At("local", 12347), Out("restore", 2))
           r3 == Proc("restore", "high", "local", At("local", 12347), Image, Out("restore", 3))
           r4 == Proc("restore", "low", "local", At("local", 12346), At("remote", 1236), Out("restore", 4))
           r5 == Proc("restore", "low", "remote", At("remote", 1236), At("local", 14440), Out("restore", 5))
           r6 == Proc("restore", "low", "local", At("local", 14440), Image, Out("restore", 6))
<1>2. /\ ProperProc("burst", c0) /\ ProperProc("burst", c1) /\ ProperProc("burst", r0)
      /\ ProperProc("burst", r1) /\ ProperProc("burst", r2) /\ ProperProc("burst", r3)
      /\ ProperProc("burst", r4) /\ ProperProc("burst", r5) /\ ProperProc("burst", r6)
  <2>1. "local" \in Word /\ "remote" \in Word /\ "low" \in Word /\ "high" \in Word
        /\ "restore" \in Word /\ "checkpoint" \in Word
    BY Words
  <2>2. /\ At("local", 12346) \in Address /\ At("local", 12346) # Image
        /\ At("local", 12347) \in Address /\ At("local", 12347) # Image
        /\ At("local", 1235) \in Address /\ At("local", 1235) # Image
        /\ At("local", 14440) \in Address /\ At("local", 14440) # Image
        /\ At("remote", 12347) \in Address /\ At("remote", 12347) # Image
        /\ At("remote", 1236) \in Address /\ At("remote", 1236) # Image
        /\ At("remote", 1238) \in Address /\ At("remote", 1238) # Image
    BY <2>1, Addresses DEF Network
  <2>3. /\ Out("restore", 0) \in Address /\ Out("restore", 1) \in Address
        /\ Out("restore", 2) \in Address /\ Out("restore", 3) \in Address
        /\ Out("restore", 4) \in Address /\ Out("restore", 5) \in Address
        /\ Out("restore", 6) \in Address /\ Out("checkpoint", 0) \in Address
        /\ Out("checkpoint", 1) \in Address
        /\ Nowhere \in Address /\ Image \in Address
        /\ Nowhere # Image /\ ~Network(Nowhere) /\ ~Network(Image)
    BY <2>1, Addresses
  <2>4. /\ JobAt("burst", At("local", 12346)) = "low"
        /\ JobAt("burst", At("local", 12347)) = "high"
        /\ JobAt("burst", At("local", 1235)) = "high"
        /\ JobAt("burst", At("local", 14440)) = "low"
        /\ JobAt("burst", At("remote", 12347)) = "high"
        /\ JobAt("burst", At("remote", 1236)) = "low"
        /\ JobAt("burst", At("remote", 1238)) = "high"
    BY <2>1, Addresses DEF JobAt
  <2>5. "burst" \in Singles
    BY DEF Singles
  <2>6. ProperProc("burst", c0)
    <3>1. /\ Nowhere \in Address /\ Nowhere # Image /\ (Network(Nowhere) => "high" = JobAt("burst", Nowhere))
          /\ At("remote", 12347) \in Address /\ (Network(At("remote", 12347)) => "high" = JobAt("burst", At("remote", 12347)))
          /\ "checkpoint" \in Word /\ "high" \in Word /\ "local" \in Word /\ Out("checkpoint", 0) \in Address
      BY <2>1, <2>2, <2>3, <2>4
    <3> QED BY <2>5, <3>1, ProcsProper
  <2>7. ProperProc("burst", c1)
    <3>1. /\ Nowhere \in Address /\ Nowhere # Image /\ (Network(Nowhere) => "low" = JobAt("burst", Nowhere))
          /\ At("local", 12346) \in Address /\ (Network(At("local", 12346)) => "low" = JobAt("burst", At("local", 12346)))
          /\ "checkpoint" \in Word /\ "low" \in Word /\ "remote" \in Word /\ Out("checkpoint", 1) \in Address
      BY <2>1, <2>2, <2>3, <2>4
    <3> QED BY <2>5, <3>1, ProcsProper
  <2>8. ProperProc("burst", r0)
    <3>1. /\ At("remote", 12347) \in Address /\ At("remote", 12347) # Image /\ (Network(At("remote", 12347)) => "high" = JobAt("burst", At("remote", 12347)))
          /\ At("local", 1235) \in Address /\ (Network(At("local", 1235)) => "high" = JobAt("burst", At("local", 1235)))
          /\ "restore" \in Word /\ "high" \in Word /\ "remote" \in Word /\ Out("restore", 0) \in Address
      BY <2>1, <2>2, <2>3, <2>4
    <3> QED BY <2>5, <3>1, ProcsProper
  <2>9. ProperProc("burst", r1)
    <3>1. /\ At("local", 1235) \in Address /\ At("local", 1235) # Image /\ (Network(At("local", 1235)) => "high" = JobAt("burst", At("local", 1235)))
          /\ At("remote", 1238) \in Address /\ (Network(At("remote", 1238)) => "high" = JobAt("burst", At("remote", 1238)))
          /\ "restore" \in Word /\ "high" \in Word /\ "local" \in Word /\ Out("restore", 1) \in Address
      BY <2>1, <2>2, <2>3, <2>4
    <3> QED BY <2>5, <3>1, ProcsProper
  <2>10. ProperProc("burst", r2)
    <3>1. /\ At("remote", 1238) \in Address /\ At("remote", 1238) # Image /\ (Network(At("remote", 1238)) => "high" = JobAt("burst", At("remote", 1238)))
          /\ At("local", 12347) \in Address /\ (Network(At("local", 12347)) => "high" = JobAt("burst", At("local", 12347)))
          /\ "restore" \in Word /\ "high" \in Word /\ "remote" \in Word /\ Out("restore", 2) \in Address
      BY <2>1, <2>2, <2>3, <2>4
    <3> QED BY <2>5, <3>1, ProcsProper
  <2>11. ProperProc("burst", r3)
    <3>1. /\ At("local", 12347) \in Address /\ At("local", 12347) # Image /\ (Network(At("local", 12347)) => "high" = JobAt("burst", At("local", 12347)))
          /\ Image \in Address /\ (Network(Image) => "high" = JobAt("burst", Image))
          /\ "restore" \in Word /\ "high" \in Word /\ "local" \in Word /\ Out("restore", 3) \in Address
      BY <2>1, <2>2, <2>3, <2>4
    <3> QED BY <2>5, <3>1, ProcsProper
  <2>12. ProperProc("burst", r4)
    <3>1. /\ At("local", 12346) \in Address /\ At("local", 12346) # Image /\ (Network(At("local", 12346)) => "low" = JobAt("burst", At("local", 12346)))
          /\ At("remote", 1236) \in Address /\ (Network(At("remote", 1236)) => "low" = JobAt("burst", At("remote", 1236)))
          /\ "restore" \in Word /\ "low" \in Word /\ "local" \in Word /\ Out("restore", 4) \in Address
      BY <2>1, <2>2, <2>3, <2>4
    <3> QED BY <2>5, <3>1, ProcsProper
  <2>13. ProperProc("burst", r5)
    <3>1. /\ At("remote", 1236) \in Address /\ At("remote", 1236) # Image /\ (Network(At("remote", 1236)) => "low" = JobAt("burst", At("remote", 1236)))
          /\ At("local", 14440) \in Address /\ (Network(At("local", 14440)) => "low" = JobAt("burst", At("local", 14440)))
          /\ "restore" \in Word /\ "low" \in Word /\ "remote" \in Word /\ Out("restore", 5) \in Address
      BY <2>1, <2>2, <2>3, <2>4
    <3> QED BY <2>5, <3>1, ProcsProper
  <2>14. ProperProc("burst", r6)
    <3>1. /\ At("local", 14440) \in Address /\ At("local", 14440) # Image /\ (Network(At("local", 14440)) => "low" = JobAt("burst", At("local", 14440)))
          /\ Image \in Address /\ (Network(Image) => "low" = JobAt("burst", Image))
          /\ "restore" \in Word /\ "low" \in Word /\ "local" \in Word /\ Out("restore", 6) \in Address
      BY <2>1, <2>2, <2>3, <2>4
    <3> QED BY <2>5, <3>1, ProcsProper
  <2> QED BY <2>6, <2>7, <2>8, <2>9, <2>10, <2>11, <2>12, <2>13, <2>14
<1>3. /\ s[1] = In(RmOuts, 1)
      /\ s[2] = In(Pkill("checkpoint", "local"), 1)
      /\ s[3] = In(Pkill("restore", "local"), 1)
      /\ s[4] = In(Pkill("checkpoint", "remote"), 1)
      /\ s[5] = In(Pkill("restore", "remote"), 1)
      /\ s[6] = In(Background(r0, "append"), 1)
      /\ s[7] = In(Background(r1, "append"), 1)
      /\ s[8] = In(Background(r4, "append"), 1)
      /\ s[9] = In(Sleep, 1)
      /\ s[10] = In(Background(c0, "truncate"), 1)
      /\ s[11] = In(Sleep, 1)
      /\ s[12] = In(Background(c1, "truncate"), 1)
      /\ s[13] = In(Sigint("checkpoint", "local"), 1)
      /\ s[14] = In(Raise, 1)
      /\ s[15] = In(Sigint("checkpoint", "local"), 1)
      /\ s[16] = In(Sleep, 1)
      /\ s[17] = In(Sigint("restore", "remote"), 1)
      /\ s[18] = In(Sigint("checkpoint", "remote"), 1)
      /\ s[19] = In(Background(r2, "append"), 1)
      /\ s[20] = In(Background(r5, "append"), 1)
      /\ s[21] = In(Sleep, 1)
      /\ s[22] = In(Sigint("restore", "local"), 1)
      /\ s[23] = In(Background(r6, "append"), 1)
      /\ s[24] = In(Background(r3, "append"), 1)
      /\ s[25] = In(Sleep, 1)
      /\ s[26] = In(Sigint("restore", "remote"), 1)
      /\ s[27] = In(Sleep, 1)
      /\ \E names : s[28] = In(Cat(names), 1)
  <2>1. /\ s[1] = In(RmOuts, 1)
        /\ s[2] = In(Pkill("checkpoint", "local"), 1)
        /\ s[3] = In(Pkill("restore", "local"), 1)
        /\ s[4] = In(Pkill("checkpoint", "remote"), 1)
    BY DEF run_checkpoint_restore_burst, Numbered, In, Restore, Checkpoint, sleep
  <2>2. /\ s[5] = In(Pkill("restore", "remote"), 1)
        /\ s[6] = In(Background(r0, "append"), 1)
        /\ s[7] = In(Background(r1, "append"), 1)
        /\ s[8] = In(Background(r4, "append"), 1)
    BY DEF run_checkpoint_restore_burst, Numbered, In, Restore, Checkpoint, sleep
  <2>3. /\ s[9] = In(Sleep, 1)
        /\ s[10] = In(Background(c0, "truncate"), 1)
        /\ s[11] = In(Sleep, 1)
        /\ s[12] = In(Background(c1, "truncate"), 1)
    BY DEF run_checkpoint_restore_burst, Numbered, In, Restore, Checkpoint, sleep
  <2>4. /\ s[13] = In(Sigint("checkpoint", "local"), 1)
        /\ s[14] = In(Raise, 1)
        /\ s[15] = In(Sigint("checkpoint", "local"), 1)
        /\ s[16] = In(Sleep, 1)
    BY DEF run_checkpoint_restore_burst, Numbered, In, Restore, Checkpoint, sleep
  <2>5. /\ s[17] = In(Sigint("restore", "remote"), 1)
        /\ s[18] = In(Sigint("checkpoint", "remote"), 1)
        /\ s[19] = In(Background(r2, "append"), 1)
        /\ s[20] = In(Background(r5, "append"), 1)
    BY DEF run_checkpoint_restore_burst, Numbered, In, Restore, Checkpoint, sleep
  <2>6. /\ s[21] = In(Sleep, 1)
        /\ s[22] = In(Sigint("restore", "local"), 1)
        /\ s[23] = In(Background(r6, "append"), 1)
        /\ s[24] = In(Background(r3, "append"), 1)
    BY DEF run_checkpoint_restore_burst, Numbered, In, Restore, Checkpoint, sleep
  <2>7. /\ s[25] = In(Sleep, 1)
        /\ s[26] = In(Sigint("restore", "remote"), 1)
        /\ s[27] = In(Sleep, 1)
        /\ \E names : s[28] = In(Cat(names), 1)
    BY DEF run_checkpoint_restore_burst, Numbered, In, Restore, Checkpoint, sleep
  <2> QED BY <2>1, <2>2, <2>3, <2>4, <2>5, <2>6, <2>7
<1>4. \A k \in 1..28 : \/ k = 1 \/ k = 2 \/ k = 3 \/ k = 4 \/ k = 5 \/ k = 6 \/ k = 7
                       \/ k = 8 \/ k = 9 \/ k = 10 \/ k = 11 \/ k = 12 \/ k = 13 \/ k = 14
                       \/ k = 15 \/ k = 16 \/ k = 17 \/ k = 18 \/ k = 19 \/ k = 20 \/ k = 21
                       \/ k = 22 \/ k = 23 \/ k = 24 \/ k = 25 \/ k = 26 \/ k = 27 \/ k = 28
  OBVIOUS
<1> HIDE DEF s, c0, c1, r0, r1, r2, r3, r4, r5, r6
<1> DEFINE Q(x) == Proper("burst", In(x, 1))
<1>5. /\ Q(Background(c0, "truncate"))
      /\ Q(Background(c1, "truncate"))
      /\ Q(Background(r0, "append"))
      /\ Q(Background(r1, "append"))
      /\ Q(Background(r2, "append"))
      /\ Q(Background(r3, "append"))
      /\ Q(Background(r4, "append"))
      /\ Q(Background(r5, "append"))
      /\ Q(Background(r6, "append"))
  BY <1>2, SpawnProper
<1>6. /\ Q(RmOuts) /\ Q(Sleep) /\ Q(Raise) /\ \A names : Q(Cat(names))
      /\ \A role, host : Q(Sigint(role, host)) /\ Q(Pkill(role, host))
  BY OtherProper, SignalProper
<1>7. \A k \in 1..28 : Proper("burst", s[k])
  BY <1>3, <1>4, <1>5, <1>6
<1>8. \A k \in 1..28 : s[k].it = 1
  BY DEF s, run_checkpoint_restore_burst, Numbered, Background, Cat, Step, RmOuts, Sleep, Sigint, Pkill, Restore, Checkpoint, Raise, sleep
<1> QED
  BY <1>1, <1>7, <1>8 DEF s


-----------------------------------------------------------------------------
(* The scripts that repeat.  body[t] are the steps of the t-th time.       *)
Times(body, n, first) == FlattenSeq([t \in 1..n |-> Numbered(body[t], first + t - 1)])

InTimes(s, body, n, L, first) ==
  /\ Len(s) = L * n /\ IsTuple(s, L * n)
  /\ \A t \in 1..n : \A j \in 1..L :
       /\ L * (t - 1) + j \in 1..Len(s)
       /\ s[L * (t - 1) + j] = In(body[t][j], first + t - 1)
  /\ \A k \in 1..Len(s) : \E t \in 1..n : \E j \in 1..L : k = L * (t - 1) + j

LEMMA Repeated ==
  ASSUME NEW n \in Nat, NEW L \in Nat, NEW first \in Nat, NEW body,
         AreTuples(body, n, L)
  PROVE  InTimes(Times(body, n, first), body, n, L, first)
<1> DEFINE seqs == [t \in 1..n |-> Numbered(body[t], first + t - 1)]
<1>1. IsTuple(seqs, n)
  BY DEF IsTuple
<1>2. ASSUME NEW t \in 1..n
      PROVE  /\ seqs[t] = [k \in 1..L |-> seqs[t][k]]
             /\ \A k \in 1..L : seqs[t][k] = In(body[t][k], first + t - 1)
  <2>1. seqs[t] = Numbered(body[t], first + t - 1)
    OBVIOUS
  <2>2. Len(body[t]) = L
    <3>1. body[t] = [k \in 1..L |-> body[t][k]]
      BY DEF AreTuples
    <3> DEFINE f == [k \in 1..L |-> body[t][k]]
    <3>2. Len(f) = L
      OBVIOUS
    <3> HIDE DEF f
    <3>3. body[t] = f
      BY <3>1 DEF f
    <3> QED BY <3>2, <3>3
  <2> HIDE DEF seqs
  <2> QED BY <2>1, <2>2 DEF Numbered, In
<1>3. Times(body, n, first) = FlattenSeq(seqs)
  BY DEF Times
<1> HIDE DEF seqs
<1> DEFINE f == FlattenSeq(seqs)
<1>4. AreTuples(seqs, n, L)
  BY <1>2 DEF AreTuples
<1>5. InBlocks(f, seqs, n, L)
  BY <1>1, <1>4, Blocks
<1> HIDE DEF f
<1>6. ASSUME NEW t \in 1..n, NEW j \in 1..L
      PROVE  L * (t - 1) + j \in 1..Len(f) /\ f[L * (t - 1) + j] = In(body[t][j], first + t - 1)
  BY <1>2, <1>5 DEF InBlocks
<1>7. Len(f) = L * n /\ IsTuple(f, L * n) /\ \A k \in 1..Len(f) : \E t \in 1..n : \E j \in 1..L : k = L * (t - 1) + j
  BY <1>5 DEF InBlocks
<1>8. InTimes(f, body, n, L, first)
  BY <1>6, <1>7 DEF InTimes
<1> QED
  BY <1>3, <1>8 DEF f

(* A script of three steps, n times.                                       *)
Three(s, n, a, b, c) ==
  /\ Len(s) = 3 * n
  /\ \A t \in 1..n : /\ s[3 * (t - 1) + 1] = In(a, t)
                     /\ s[3 * (t - 1) + 2] = In(b, t)
                     /\ s[3 * (t - 1) + 3] = In(c, t)
  /\ \A k \in 1..Len(s) : \E t \in 1..n : k \in {3 * (t - 1) + 1, 3 * (t - 1) + 2, 3 * (t - 1) + 3}

LEMMA ThreeTimes ==
  ASSUME NEW n \in Nat, NEW a, NEW b, NEW c
  PROVE  Three(Times([t \in 1..n |-> <<a, b, c>>], n, 1), n, a, b, c)
<1> DEFINE body == [t \in 1..n |-> <<a, b, c>>]
           s == Times(body, n, 1)
<1>1. \A t \in 1..n : /\ body[t] = [k \in 1..3 |-> body[t][k]]
                      /\ body[t][1] = a /\ body[t][2] = b /\ body[t][3] = c
                      /\ body[t] = <<a, b, c>>
  OBVIOUS
<1>2. s = Times(body, n, 1)
  OBVIOUS
<1> HIDE DEF body, s
<1>3. /\ Len(s) = 3 * n
      /\ \A t \in 1..n : \A j \in 1..3 : s[3 * (t - 1) + j] = In(body[t][j], 1 + t - 1)
      /\ \A k \in 1..Len(s) : \E t \in 1..n : \E j \in 1..3 : k = 3 * (t - 1) + j
  <2>1. 3 \in Nat /\ 1 \in Nat /\ AreTuples(body, n, 3)
    BY <1>1 DEF AreTuples
  <2> DEFINE f == Times(body, n, 1)
  <2>2. InTimes(f, body, n, 3, 1)
    BY <2>1, Repeated
  <2> HIDE DEF f
  <2> QED BY <1>2, <2>2 DEF f, InTimes
<1>4. ASSUME NEW t \in 1..n
      PROVE  /\ s[3 * (t - 1) + 1] = In(a, t)
             /\ s[3 * (t - 1) + 2] = In(b, t)
             /\ s[3 * (t - 1) + 3] = In(c, t)
  <2>1. 1 + t - 1 = t /\ 1 \in 1..3 /\ 2 \in 1..3 /\ 3 \in 1..3
    OBVIOUS
  <2> QED BY <1>1, <1>3, <2>1
<1>5. \A k \in 1..Len(s) : \E t \in 1..n : k \in {3 * (t - 1) + 1, 3 * (t - 1) + 2, 3 * (t - 1) + 3}
  <2> TAKE k \in 1..Len(s)
  <2>1. PICK t \in 1..n, j \in 1..3 : k = 3 * (t - 1) + j
    BY <1>3
  <2>2. j = 1 \/ j = 2 \/ j = 3
    OBVIOUS
  <2> QED BY <2>1, <2>2
<1>6. Three(s, n, a, b, c)
  BY <1>3, <1>4, <1>5 DEF Three
<1> QED
  BY <1>6 DEF s, body

(* What every script is.                                                   *)
ProperScript(name, s) ==
  /\ Len(s) \in Nat /\ 1 <= Len(s)
  /\ \A k \in 1..Len(s) : Proper(name, s[k]) /\ s[k].it \in Nat \ {0}

LEMMA ThreeProper ==
  ASSUME NEW name, NEW n \in Nat, n # 0, NEW s, NEW a, NEW b, NEW c, Three(s, n, a, b, c),
         \A t \in 1..n : /\ Proper(name, In(a, t)) /\ Proper(name, In(b, t)) /\ Proper(name, In(c, t))
                         /\ In(a, t).it = t /\ In(b, t).it = t /\ In(c, t).it = t
  PROVE  ProperScript(name, s)
<1>1. Len(s) = 3 * n /\ 3 * n \in Nat /\ 1 <= 3 * n
  BY DEF Three
<1>2. ASSUME NEW k \in 1..Len(s)
      PROVE  Proper(name, s[k]) /\ s[k].it \in Nat \ {0}
  <2>1. PICK t \in 1..n : k \in {3 * (t - 1) + 1, 3 * (t - 1) + 2, 3 * (t - 1) + 3}
    BY DEF Three
  <2>2. s[k] = In(a, t) \/ s[k] = In(b, t) \/ s[k] = In(c, t)
    BY <2>1 DEF Three
  <2> QED BY <2>2
<1> QED
  BY <1>1, <1>2 DEF ProperScript

(* run_checkpoint, run_restore and the processes of criu.                  *)
Saver    == Proc("checkpoint", "low", "local", Nowhere, Image, Pipe)
Restorer == Proc("restore", "low", "local", Image, Image, Pipe)
Victim   == Proc("native", "low", "local", Nowhere, Nowhere, Nowhere)
Dumper   == Proc("dump", "low", "local", Nowhere, Image, Nowhere)
Reviver  == Proc("criu", "low", "local", Image, Nowhere, Nowhere)

LEMMA ImagesProper ==
  ASSUME NEW name \in Images,
         NEW role \in Word, role = "dump" => name = "criu", NEW in \in {Nowhere, Image}, NEW out \in {Nowhere, Image},
         NEW log \in Address
  PROVE  ProperProc(name, Proc(role, "low", "local", in, out, log))
<1> DEFINE proc == Proc(role, "low", "local", in, out, log)
<1>1. proc.in = in /\ proc.out = out /\ proc.job = "low" /\ proc.role = role
  BY DEF Proc
<1>2. proc \in Command
  BY Words, Addresses DEF Proc, Command
<1> HIDE DEF proc
<1>3. ProperProc(name, proc)
  BY <1>1, <1>2, Addresses DEF ProperProc, Singles, Networks, Images
<1> QED
  BY <1>3 DEF proc

LEMMA ThreeOneByOne ==
  ASSUME NEW a, NEW b, NEW c
  PROVE  <<a>> \o <<b>> \o <<c>> = <<a, b, c>>
<1> DEFINE S == {a, b, c}
           x == <<a>>
           y == <<b>>
           z == <<c>>
           d == <<a, b, c>>
<1>1. /\ x \in Seq(S) /\ y \in Seq(S) /\ z \in Seq(S) /\ d \in Seq(S)
      /\ Len(x) = 1 /\ Len(y) = 1 /\ Len(z) = 1 /\ Len(d) = 3
      /\ x[1] = a /\ y[1] = b /\ z[1] = c /\ d[1] = a /\ d[2] = b /\ d[3] = c
  OBVIOUS
<1> HIDE DEF S, x, y, z, d
<1>2. x \o y \in Seq(S) /\ Len(x \o y) = 2 /\ (x \o y)[1] = a /\ (x \o y)[2] = b
  <2>1. /\ x \o y \in Seq(S) /\ Len(x \o y) = Len(x) + Len(y)
        /\ \A i \in 1..Len(x) + Len(y) : (x \o y)[i] = IF i <= Len(x) THEN x[i] ELSE y[i - Len(x)]
    BY <1>1, ConcatProperties
  <2>2. 1 \in 1..Len(x) + Len(y) /\ 2 \in 1..Len(x) + Len(y) /\ 1 <= Len(x) /\ ~(2 <= Len(x)) /\ 2 - Len(x) = 1
    BY <1>1
  <2> QED BY <1>1, <2>1, <2>2
<1> DEFINE e == x \o y
<1>3. e \in Seq(S) /\ Len(e) = 2 /\ e[1] = a /\ e[2] = b
  BY <1>2
<1> HIDE DEF e
<1>4. e \o z \in Seq(S) /\ Len(e \o z) = 3 /\ (e \o z)[1] = a /\ (e \o z)[2] = b /\ (e \o z)[3] = c
  <2>1. /\ e \o z \in Seq(S) /\ Len(e \o z) = Len(e) + Len(z)
        /\ \A i \in 1..Len(e) + Len(z) : (e \o z)[i] = IF i <= Len(e) THEN e[i] ELSE z[i - Len(e)]
    BY <1>1, <1>3, ConcatProperties
  <2>2. /\ \A i \in 1..3 : i \in 1..Len(e) + Len(z)
        /\ 1 <= Len(e) /\ 2 <= Len(e) /\ ~(3 <= Len(e)) /\ 3 - Len(e) = 1
    BY <1>1, <1>3
  <2> QED BY <1>1, <1>3, <2>1, <2>2
<1>5. \A k \in 1..3 : k = 1 \/ k = 2 \/ k = 3
  OBVIOUS
<1>6. e \o z = d
  BY <1>1, <1>4, <1>5, SeqEqual
<1> QED
  BY <1>6 DEF e, x, y, z, d

LEMMA CheckpointRestoreSteps ==
  LET s == run_checkpoint_restore("low") IN
  /\ Three(s, trial, Foreground(Saver), Supervised(Restorer), Cat(<<Pipe>>))
  /\ ProperScript("checkpoint_restore", s)
<1> DEFINE a == Foreground(Saver)
           b == Supervised(Restorer)
           c == Cat(<<Pipe>>)
           s == run_checkpoint_restore("low")
           name == "checkpoint_restore"
<1>1. trial \in Nat /\ trial # 0
  BY TrialAssumption
<1>2. run_checkpoint("low") \o run_restore("low") \o <<c>> = <<a, b, c>>
  <2>1. run_checkpoint("low") = <<a>> /\ run_restore("low") = <<b>>
    BY DEF run_checkpoint, run_restore, Saver, Restorer
  <2> HIDE DEF a, b, c
  <2> QED BY <2>1, ThreeOneByOne
<1>3. s = Times([t \in 1..trial |-> <<a, b, c>>], trial, 1)
  BY <1>2 DEF Repeat, Times, run_checkpoint_restore
<1> HIDE DEF a, b, c, s
<1>4. Three(s, trial, a, b, c)
  BY <1>1, <1>3, ThreeTimes
<1>5. \A t \in 1..trial : /\ Proper(name, In(a, t)) /\ Proper(name, In(b, t)) /\ Proper(name, In(c, t))
                          /\ In(a, t).it = t /\ In(b, t).it = t /\ In(c, t).it = t
  <2>1. ProperProc(name, Saver) /\ ProperProc(name, Restorer)
    BY Words, Addresses, ImagesProper DEF Saver, Restorer, Images
  <2>2. \A t \in 1..trial : Proper(name, In(a, t)) /\ Proper(name, In(b, t))
    BY <2>1, SpawnProper DEF a, b
  <2>3. \A t \in 1..trial : Proper(name, In(c, t))
    BY OtherProper DEF c
  <2>4. \A t \in 1..trial : In(a, t).it = t /\ In(b, t).it = t /\ In(c, t).it = t
    BY DEF In, a, b, c, Foreground, Supervised, Cat, Step
  <2> QED BY <2>2, <2>3, <2>4
<1>6. ProperScript(name, s)
  BY <1>1, <1>4, <1>5, ThreeProper
<1> QED
  BY <1>4, <1>6 DEF a, b, c, s

LEMMA CriuSteps ==
  LET s == run_criu_checkpoint_restore("low") IN
  /\ Three(s, trial, Background(Victim, "append"), Supervised(Dumper), Supervised(Reviver))
  /\ ProperScript("criu", s)
<1> DEFINE a == Background(Victim, "append")
           b == Supervised(Dumper)
           c == Supervised(Reviver)
           s == run_criu_checkpoint_restore("low")
           name == "criu"
<1>1. trial \in Nat /\ trial # 0
  BY TrialAssumption
<1>2. run_criu_checkpoint("low") \o run_criu_restore("low") = <<a, b, c>>
  <2>1. run_criu_checkpoint("low") = <<a>> \o <<b>> /\ run_criu_restore("low") = <<c>>
    BY DEF run_criu_checkpoint, run_subprocess, run_criu_restore, Victim, Dumper, Reviver
  <2> HIDE DEF a, b, c
  <2> QED BY <2>1, ThreeOneByOne
<1>3. s = Times([t \in 1..trial |-> <<a, b, c>>], trial, 1)
  BY <1>2 DEF Repeat, Times, run_criu_checkpoint_restore
<1> HIDE DEF a, b, c, s
<1>4. Three(s, trial, a, b, c)
  BY <1>1, <1>3, ThreeTimes
<1>5. \A t \in 1..trial : /\ Proper(name, In(a, t)) /\ Proper(name, In(b, t)) /\ Proper(name, In(c, t))
                          /\ In(a, t).it = t /\ In(b, t).it = t /\ In(c, t).it = t
  <2>1. ProperProc(name, Victim) /\ ProperProc(name, Dumper) /\ ProperProc(name, Reviver)
    BY Words, Addresses, ImagesProper DEF Victim, Dumper, Reviver, Images
  <2>2. \A t \in 1..trial : Proper(name, In(a, t)) /\ Proper(name, In(b, t)) /\ Proper(name, In(c, t))
    BY <2>1, SpawnProper DEF a, b, c
  <2>3. \A t \in 1..trial : In(a, t).it = t /\ In(b, t).it = t /\ In(c, t).it = t
    BY DEF In, a, b, c, Background, Supervised, Step
  <2> QED BY <2>2, <2>3
<1>6. ProperScript(name, s)
  BY <1>1, <1>4, <1>5, ThreeProper
<1> QED
  BY <1>4, <1>6 DEF a, b, c, s

LEMMA QemuSteps == ProperScript("qemu", run_qemu_checkpoint_restore("low"))
<1> DEFINE q == Proc("qemu", "low", "local", Nowhere, Nowhere, Nowhere)
           g == Proc("native", "low", "local", Nowhere, Nowhere, Pipe)
           a == Background(q, "append")
           d == Foreground(g)
           S == {a, Sleep, d, Cat(<<Pipe>>), Pkill("qemu", "local")}
           x == <<a, a, Sleep>>
           y == <<d, Cat(<<Pipe>>)>>
           z == <<Pkill("qemu", "local")>>
           e == x \o y
           b == e \o z
           s == run_qemu_checkpoint_restore("low")
           body == [t \in 1..trial |-> b]
<1>1. trial \in Nat /\ trial # 0
  BY TrialAssumption
<1>2. s = Times(body, trial, 1)
  BY DEF Repeat, Times, run_qemu_checkpoint_restore, run_qemu_checkpoint
<1>3. \A step \in S, t \in Nat : Proper("qemu", In(step, t)) /\ In(step, t).it = t
  <2>1. ProperProc("qemu", q) /\ ProperProc("qemu", g)
    <3>1. q \in Command /\ g \in Command
      BY Words, Addresses DEF Proc, Command
    <3>2. /\ q.in = Nowhere /\ q.out = Nowhere /\ g.in = Nowhere /\ g.out = Nowhere
          /\ q.role # "dump" /\ g.role # "dump"
      BY DEF Proc
    <3> HIDE DEF q, g
    <3> QED BY <3>1, <3>2, Addresses DEF ProperProc, Singles, Networks, Images
  <2> HIDE DEF q, g
  <2>2. \A t \in Nat : Proper("qemu", In(a, t)) /\ Proper("qemu", In(d, t))
    BY <2>1, SpawnProper
  <2>3. \A t \in Nat : /\ Proper("qemu", In(Sleep, t)) /\ Proper("qemu", In(Cat(<<Pipe>>), t))
                       /\ Proper("qemu", In(Pkill("qemu", "local"), t))
    BY OtherProper, SignalProper
  <2>4. \A step \in S, t \in Nat : In(step, t).it = t
    BY DEF In, Background, Foreground, Sleep, Cat, Pkill, Step
  <2> HIDE DEF a, d
  <2> QED BY <2>2, <2>3, <2>4
<1>4. x \in Seq(S) /\ y \in Seq(S) /\ z \in Seq(S) /\ Len(x) = 3
  OBVIOUS
<1> HIDE DEF S, x, y, z, s, e
<1>5. e \in Seq(S) /\ Len(e) = 3 + Len(y) /\ Len(y) \in Nat
  <2>1. e \in Seq(S) /\ Len(e) = Len(x) + Len(y)
    BY <1>4, ConcatProperties DEF e
  <2> QED BY <1>4, <2>1
<1>6. b \in Seq(S) /\ Len(b) = Len(e) + Len(z) /\ Len(z) \in Nat
  BY <1>4, <1>5, ConcatProperties, LenProperties
<1> HIDE DEF b
<1> DEFINE L == Len(b)
<1>7. L \in Nat /\ 1 \in 1..L /\ b = [k \in 1..L |-> b[k]] /\ \A k \in 1..L : b[k] \in S
  BY <1>5, <1>6
<1>8. AreTuples(body, trial, L)
  BY <1>7 DEF AreTuples
<1>9. \A t \in 1..trial : body[t] = b
  OBVIOUS
<1> HIDE DEF L, body
<1>10. InTimes(s, body, trial, L, 1)
  BY <1>1, <1>2, <1>7, <1>8, Repeated
<1>11. Len(s) \in Nat
  <2>1. Len(s) = L * trial
    BY <1>10 DEF InTimes
  <2> QED BY <1>1, <1>7, <2>1
<1>12. 1 <= Len(s)
  <2>1. 1 \in 1..trial
    BY <1>1
  <2>2. L * (1 - 1) + 1 \in 1..Len(s)
    BY <1>7, <1>10, <2>1 DEF InTimes
  <2> QED BY <1>7, <2>2
<1>13. ASSUME NEW k \in 1..Len(s)
       PROVE  Proper("qemu", s[k]) /\ s[k].it \in Nat \ {0}
  <2>1. PICK t \in 1..trial : \E j \in 1..L : k = L * (t - 1) + j
    BY <1>10 DEF InTimes
  <2>2. PICK j \in 1..L : k = L * (t - 1) + j
    BY <2>1
  <2>3. s[L * (t - 1) + j] = In(body[t][j], 1 + t - 1)
    BY <1>10 DEF InTimes
  <2>4. s[k] = In(b[j], t)
    <3>1. body[t] = b /\ 1 + t - 1 = t
      BY <1>9
    <3> QED BY <2>2, <2>3, <3>1
  <2> QED BY <1>3, <1>7, <2>4
<1> QED
  BY <1>11, <1>12, <1>13 DEF ProperScript, s

(* The scripts that measure the overhead.  A block is what is done for a   *)
(* job the i-th time.                                                      *)
Overheads == {"burst_overhead", "slowtier_overhead"}
Length(name) == IF name = "burst_overhead" THEN 8 ELSE 7
Waiter(name, job) ==
  Proc("restore", job, "remote",
       IF name = "burst_overhead" THEN At("remote", 12347) ELSE At("remote", 12346), Image, Nowhere)
Mover(name, job, i) ==
  Proc("checkpoint", job, "local", Nowhere,
       IF name = "burst_overhead" THEN At("remote", 12347) ELSE At("remote", 12346), <<job, i>>)

Block(name, job, i) ==
  IF name = "burst_overhead"
  THEN <<Background(Waiter(name, job), "append"), Sleep,
         Background(Mover(name, job, i), "truncate"), Sleep,
         Sigint("checkpoint", "local"), Sleep,
         Pkill("restore", "remote"), Cat(<<<<job, i>>>>)>>
  ELSE <<Background(Waiter(name, job), "append"), Sleep,
         Background(Mover(name, job, i), "append"), Sleep,
         Sigint("checkpoint", "local"),
         Pkill("restore", "remote"), Cat(<<<<job, i>>>>)>>

(* The block of iteration b.                                               *)
BlockAt(name, s, b, job, i) ==
  \A j \in 1..Length(name) :
    /\ Length(name) * (b - 1) + j \in 1..Len(s)
    /\ s[Length(name) * (b - 1) + j] = In(Block(name, job, i)[j], b)

Calls(name, jobs, n) ==
  FlattenSeq([c \in 1..n |->
    Times([t \in 1..trial |-> Block(name, jobs[c], t - 1)], trial, 1 + trial * (c - 1))])

InCalls(name, s, jobs, n) ==
  \A k \in 1..Len(s) : \E c \in 1..n : \E t \in 1..trial :
    /\ \E j \in 1..Length(name) : k = Length(name) * (trial * (c - 1) + t - 1) + j
    /\ BlockAt(name, s, trial * (c - 1) + t, jobs[c], t - 1)

LEMMA BlocksOfCalls ==
  ASSUME NEW name \in Overheads, NEW n \in Nat, n # 0, NEW jobs
  PROVE  /\ Len(Calls(name, jobs, n)) \in Nat /\ 1 <= Len(Calls(name, jobs, n))
         /\ InCalls(name, Calls(name, jobs, n), jobs, n)
<1> DEFINE L == Length(name)
           body(c) == [t \in 1..trial |-> Block(name, jobs[c], t - 1)]
           inner == [c \in 1..n |-> Times(body(c), trial, 1 + trial * (c - 1))]
           s == Calls(name, jobs, n)
<1>1. trial \in Nat /\ trial # 0 /\ L \in Nat /\ L # 0 /\ L * trial \in Nat
  BY TrialAssumption DEF Length
<1>2. s = FlattenSeq(inner)
  BY DEF Calls
<1>3. \A c \in 1..n : AreTuples(body(c), trial, L)
  <2>1. \A job, i : Block(name, job, i) = [j \in 1..L |-> Block(name, job, i)[j]]
    <3>1. \A x1, x2, x3, x4, x5, x6, x7, x8 :
            LET x == <<x1, x2, x3, x4, x5, x6, x7, x8>> IN x = [j \in 1..8 |-> x[j]]
      OBVIOUS
    <3>2. \A x1, x2, x3, x4, x5, x6, x7 :
            LET x == <<x1, x2, x3, x4, x5, x6, x7>> IN x = [j \in 1..7 |-> x[j]]
      OBVIOUS
    <3>3. CASE name = "burst_overhead"
      BY <3>3 DEF Block, Length
    <3>4. CASE name # "burst_overhead"
      BY <3>4 DEF Block, Length
    <3> QED BY <3>3, <3>4
  <2> QED BY <2>1 DEF AreTuples
<1> HIDE DEF L, s
<1>4. ASSUME NEW c \in 1..n
      PROVE  /\ InTimes(inner[c], body(c), trial, L, 1 + trial * (c - 1))
             /\ 1 + trial * (c - 1) \in Nat
  <2>1. inner[c] = Times(body(c), trial, 1 + trial * (c - 1))
    OBVIOUS
  <2>2. 1 + trial * (c - 1) \in Nat
    BY <1>1
  <2>3. AreTuples(body(c), trial, L)
    BY <1>3
  <2> HIDE DEF body, inner
  <2> QED BY <1>1, <2>1, <2>2, <2>3, Repeated
<1>5. \A c \in 1..n : \A t \in 1..trial : body(c)[t] = Block(name, jobs[c], t - 1)
  OBVIOUS
<1>6. IsTuple(inner, n)
  BY DEF IsTuple
<1>7. AreTuples(inner, n, L * trial)
  <2>1. ASSUME NEW c \in 1..n
        PROVE  inner[c] = [k \in 1..L * trial |-> inner[c][k]]
    BY <1>4 DEF InTimes, IsTuple
  <2> QED BY <2>1 DEF AreTuples
<1> HIDE DEF body, inner
<1>8. InBlocks(s, inner, n, L * trial)
  BY <1>1, <1>2, <1>6, <1>7, Blocks
<1>9. Len(s) = L * trial * n /\ Len(s) \in Nat
  <2>1. Len(s) = L * trial * n
    BY <1>8 DEF InBlocks
  <2> QED BY <1>1, <2>1
<1>10. ASSUME NEW c \in 1..n, NEW t \in 1..trial, NEW j \in 1..L
       PROVE  /\ L * (trial * (c - 1) + t - 1) + j \in 1..Len(s)
              /\ s[L * (trial * (c - 1) + t - 1) + j]
                   = In(Block(name, jobs[c], t - 1)[j], trial * (c - 1) + t)
  <2> DEFINE m == L * (t - 1) + j
  <2>1. Len(inner[c]) = L * trial
    BY <1>4 DEF InTimes
  <2>2. m \in 1..Len(inner[c]) /\ inner[c][m] = In(body(c)[t][j], 1 + trial * (c - 1) + t - 1)
    BY <1>4 DEF InTimes
  <2>3. m \in 1..L * trial
    BY <2>1, <2>2
  <2> HIDE DEF m
  <2>4. L * trial * (c - 1) + m \in 1..Len(s) /\ s[L * trial * (c - 1) + m] = inner[c][m]
    BY <1>8, <2>3 DEF InBlocks
  <2>5. L * trial * (c - 1) + m = L * (trial * (c - 1) + t - 1) + j
    BY <1>1 DEF m
  <2>6. 1 + trial * (c - 1) + t - 1 = trial * (c - 1) + t
    BY <1>1
  <2> QED BY <1>5, <2>2, <2>4, <2>5, <2>6
<1>11. ASSUME NEW k \in 1..Len(s)
       PROVE  \E c \in 1..n : \E t \in 1..trial : \E j \in 1..L :
                k = L * (trial * (c - 1) + t - 1) + j
  <2>1. PICK c \in 1..n : \E m \in 1..L * trial : k = L * trial * (c - 1) + m
    BY <1>8 DEF InBlocks
  <2>2. PICK m \in 1..L * trial : k = L * trial * (c - 1) + m
    BY <2>1
  <2>3. m \in 1..Len(inner[c])
    BY <1>4 DEF InTimes
  <2>4. PICK t \in 1..trial : \E j \in 1..L : m = L * (t - 1) + j
    BY <1>4, <2>3 DEF InTimes
  <2>5. PICK j \in 1..L : m = L * (t - 1) + j
    BY <2>4
  <2>6. k = L * (trial * (c - 1) + t - 1) + j
    BY <1>1, <2>2, <2>5
  <2> QED BY <2>6
<1>12. 1 <= Len(s)
  <2>1. 1 \in 1..n /\ 1 \in 1..trial /\ 1 \in 1..L
    BY <1>1
  <2>2. L * (trial * (1 - 1) + 1 - 1) + 1 \in 1..Len(s)
    BY <1>10, <2>1
  <2> QED BY <1>9, <2>2
<1>13. ASSUME NEW c \in 1..n, NEW t \in 1..trial
       PROVE  BlockAt(name, s, trial * (c - 1) + t, jobs[c], t - 1)
  <2>1. trial * (c - 1) + t - 1 = (trial * (c - 1) + t) - 1
    BY <1>1
  <2> QED BY <1>10, <2>1 DEF BlockAt, L
<1>14. InCalls(name, s, jobs, n)
  BY <1>11, <1>13 DEF InCalls, L
<1> QED
  BY <1>9, <1>12, <1>14 DEF s

(* What the proofs need of such a script s.                                *)
OverheadScript(name, s) ==
  /\ \A k \in 1..Len(s) : \E b \in Nat \ {0} : \E job \in Job : \E i \in Nat :
       /\ \E j \in 1..Length(name) : k = Length(name) * (b - 1) + j
       /\ BlockAt(name, s, b, job, i)
  /\ name = "burst_overhead" =>
       \A b, d \in Nat \ {0} : \A job \in Job : \A i \in Nat :
         BlockAt(name, s, b, job, i) /\ BlockAt(name, s, d, job, i) => b = d

LEMMA BurstIsCalls ==
  burst_overhead = Calls("burst_overhead", BurstJobs, Len(BurstJobs))
<1> DEFINE name == "burst_overhead"
<1>1. ASSUME NEW job, NEW first
      PROVE  run_checkpoint_restore_burst_overhead(job, first)
               = Times([t \in 1..trial |-> Block(name, job, t - 1)], trial, first)
  <2> DEFINE body == [t \in 1..trial |-> Block(name, job, t - 1)]
             steps(i) ==
          <<Background(Proc("restore", job, "remote", At("remote", 12347), Image, Nowhere), "append"),
            Sleep,
            Background(Proc("checkpoint", job, "local", Nowhere, At("remote", 12347),
                            BurstLog(job, i)), "truncate"),
            Sleep,
            Sigint("checkpoint", "local"),
            Sleep,
            Pkill("restore", "remote"),
            Cat(<<BurstLog(job, i)>>)>>
             f == [t \in 1..trial |-> Numbered(steps(t - 1), first + t - 1)]
             g == [t \in 1..trial |-> Numbered(body[t], first + t - 1)]
  <2>1. \A t \in 1..trial : body[t] = steps(t - 1)
    BY DEF Block, Waiter, Mover, BurstLog
  <2>2. f = g
    <3> HIDE DEF body, steps
    <3> QED BY <2>1
  <2>3. run_checkpoint_restore_burst_overhead(job, first) = FlattenSeq(f)
    BY DEF run_checkpoint_restore_burst_overhead, Repeat
  <2>4. Times(body, trial, first) = FlattenSeq(g)
    BY DEF Times
  <2> HIDE DEF f, g, steps
  <2> QED BY <2>2, <2>3, <2>4
<1>2. \A i \in 1..Len(BurstJobs) :
        run_checkpoint_restore_burst_overhead(BurstJobs[i], 1 + trial * (i - 1))
          = Times([t \in 1..trial |-> Block(name, BurstJobs[i], t - 1)], trial, 1 + trial * (i - 1))
  BY <1>1
<1> QED
  BY <1>2 DEF burst_overhead, Calls

SlowtierCalls == trial * Len(SlowtierJobs)
SlowtierJob   == [call \in 1..SlowtierCalls |-> SlowtierJobs[((call - 1) % Len(SlowtierJobs)) + 1]]

LEMMA SlowtierIsCalls ==
  slowtier_overhead = Calls("slowtier_overhead", SlowtierJob, SlowtierCalls)
<1> DEFINE name == "slowtier_overhead"
<1>1. ASSUME NEW job, NEW first
      PROVE  run_checkpoint_restore_slowtier_overhead(job, first)
               = Times([t \in 1..trial |-> Block(name, job, t - 1)], trial, first)
  <2> DEFINE body == [t \in 1..trial |-> Block(name, job, t - 1)]
             steps(i) ==
          <<Background(Proc("restore", job, "remote", At("remote", 12346), Image, Nowhere), "append"),
            Sleep,
            Background(Proc("checkpoint", job, "local", Nowhere, At("remote", 12346),
                            <<job, i>>), "append"),
            Sleep,
            Sigint("checkpoint", "local"),
            Pkill("restore", "remote"),
            Cat(<<<<job, i>>>>)>>
             f == [t \in 1..trial |-> Numbered(steps(t - 1), first + t - 1)]
             g == [t \in 1..trial |-> Numbered(body[t], first + t - 1)]
  <2>1. \A t \in 1..trial : body[t] = steps(t - 1)
    BY DEF Block, Waiter, Mover
  <2>2. f = g
    <3> HIDE DEF body, steps
    <3> QED BY <2>1
  <2>3. run_checkpoint_restore_slowtier_overhead(job, first) = FlattenSeq(f)
    BY DEF run_checkpoint_restore_slowtier_overhead, Repeat
  <2>4. Times(body, trial, first) = FlattenSeq(g)
    BY DEF Times
  <2> HIDE DEF f, g, steps
  <2> QED BY <2>2, <2>3, <2>4
<1>2. \A c \in 1..SlowtierCalls :
        run_checkpoint_restore_slowtier_overhead(SlowtierJob[c], 1 + trial * (c - 1))
          = Times([t \in 1..trial |-> Block(name, SlowtierJob[c], t - 1)], trial, 1 + trial * (c - 1))
  BY <1>1
<1>3. \A c \in 1..SlowtierCalls : SlowtierJob[c] = SlowtierJobs[((c - 1) % Len(SlowtierJobs)) + 1]
  BY DEF SlowtierJob
<1>4. slowtier_overhead = FlattenSeq([c \in 1..SlowtierCalls |->
        run_checkpoint_restore_slowtier_overhead(SlowtierJob[c], 1 + trial * (c - 1))])
  BY <1>3 DEF slowtier_overhead, SlowtierCalls
<1> QED
  BY <1>2, <1>4 DEF Calls

LEMMA CallsOverhead ==
  ASSUME NEW name \in Overheads, NEW n \in Nat, n # 0, NEW jobs, \A c \in 1..n : jobs[c] \in Job,
         name = "burst_overhead" => \A c, d \in 1..n : jobs[c] = jobs[d] => c = d
  PROVE  OverheadScript(name, Calls(name, jobs, n))
<1> DEFINE s == Calls(name, jobs, n)
           L == Length(name)
<1>1. Len(s) \in Nat /\ InCalls(name, s, jobs, n) /\ L \in {7, 8} /\ trial \in Nat
  BY BlocksOfCalls, TrialAssumption DEF Length
<1> HIDE DEF s
<1>2. ASSUME NEW k \in 1..Len(s)
      PROVE  \E b \in Nat \ {0} : \E job \in Job : \E i \in Nat :
               (\E j \in 1..L : k = L * (b - 1) + j) /\ BlockAt(name, s, b, job, i)
  <2>1. PICK c \in 1..n : \E t \in 1..trial :
               /\ \E j \in 1..L : k = L * (trial * (c - 1) + t - 1) + j
               /\ BlockAt(name, s, trial * (c - 1) + t, jobs[c], t - 1)
    BY <1>1 DEF InCalls
  <2>2. PICK t \in 1..trial :
               /\ \E j \in 1..L : k = L * (trial * (c - 1) + t - 1) + j
               /\ BlockAt(name, s, trial * (c - 1) + t, jobs[c], t - 1)
    BY <2>1
  <2> DEFINE b == trial * (c - 1) + t
  <2>3. b \in Nat \ {0} /\ t - 1 \in Nat /\ jobs[c] \in Job /\ trial * (c - 1) + t - 1 = b - 1
    <3>1. trial * (c - 1) \in Nat
      BY <1>1
    <3> QED BY <1>1, <3>1
  <2> HIDE DEF b, L
  <2> QED BY <2>2, <2>3 DEF b
<1>3. ASSUME NEW b \in Nat \ {0}, NEW job \in Job, NEW i \in Nat, BlockAt(name, s, b, job, i)
      PROVE  \E c \in 1..n : \E t \in 1..trial :
               b = trial * (c - 1) + t /\ job = jobs[c] /\ i = t - 1
  <2>1. L * (b - 1) + 1 \in 1..Len(s)
    BY <1>1, <1>3 DEF BlockAt
  <2>2. PICK c \in 1..n : \E t \in 1..trial :
               /\ \E j \in 1..L : L * (b - 1) + 1 = L * (trial * (c - 1) + t - 1) + j
               /\ BlockAt(name, s, trial * (c - 1) + t, jobs[c], t - 1)
    BY <1>1, <2>1 DEF InCalls
  <2>3. PICK t \in 1..trial :
               /\ \E j \in 1..L : L * (b - 1) + 1 = L * (trial * (c - 1) + t - 1) + j
               /\ BlockAt(name, s, trial * (c - 1) + t, jobs[c], t - 1)
    BY <2>2
  <2> DEFINE e == trial * (c - 1) + t
  <2>4. e \in Nat
    <3>1. trial * (c - 1) \in Nat
      BY <1>1
    <3> QED BY <1>1, <3>1
  <2>5. PICK j \in 1..L : L * (b - 1) + 1 = L * (e - 1) + j
    <3>1. trial * (c - 1) + t - 1 = e - 1
      BY <1>1
    <3> QED BY <2>3, <3>1
  <2>6. b = e
    <3> HIDE DEF e, L
    <3>1. CASE L = 7
      BY <2>4, <2>5, <3>1
    <3>2. CASE L = 8
      BY <2>4, <2>5, <3>2
    <3> QED BY <1>1, <3>1, <3>2
  <2>7. In(Block(name, job, i)[L], b) = In(Block(name, jobs[c], t - 1)[L], b)
    <3>1. L \in 1..L
      BY <1>1
    <3> QED BY <1>3, <2>3, <2>6, <3>1 DEF BlockAt
  <2>8. \A x, y : In(Block(name, x, y)[L], b).arg = <<<<x, y>>>>
    BY DEF In, Block, Cat, Step, Length
  <2>9. <<<<job, i>>>> = <<<<jobs[c], t - 1>>>>
    <3> HIDE DEF L
    <3> QED BY <2>7, <2>8
  <2>10. job = jobs[c] /\ i = t - 1
    BY <2>9
  <2> QED BY <2>6, <2>10
<1>4. ASSUME name = "burst_overhead", NEW b \in Nat \ {0}, NEW d \in Nat \ {0}, NEW job \in Job, NEW i \in Nat,
             BlockAt(name, s, b, job, i), BlockAt(name, s, d, job, i)
      PROVE  b = d
  <2>1. PICK c \in 1..n : \E t \in 1..trial : b = trial * (c - 1) + t /\ job = jobs[c] /\ i = t - 1
    BY <1>3, <1>4
  <2>2. PICK e \in 1..n : \E t \in 1..trial : d = trial * (e - 1) + t /\ job = jobs[e] /\ i = t - 1
    BY <1>3, <1>4
  <2>3. c = e
    BY <1>4, <2>1, <2>2
  <2> QED BY <1>1, <2>1, <2>2, <2>3
<1>5. OverheadScript(name, s)
  BY <1>2, <1>4 DEF OverheadScript
<1> QED
  BY <1>5 DEF s

LEMMA BlockProper ==
  ASSUME NEW name \in Overheads, NEW job \in Job, NEW i \in Nat, NEW b \in Nat \ {0}, NEW j \in 1..Length(name),
         NEW step, step = In(Block(name, job, i)[j], b)
  PROVE  Proper(name, step) /\ step.it = b
<1> DEFINE w == Waiter(name, job)
           m == Mover(name, job, i)
<1>1. ProperProc(name, w) /\ ProperProc(name, m)
  <2>1. job \in Word /\ <<job, i>> \in Address
    BY DEF Job, Word, Address
  <2> DEFINE a == IF name = "burst_overhead" THEN At("remote", 12347) ELSE At("remote", 12346)
  <2>2. a \in Address /\ Nowhere \in Address /\ Image \in Address /\ a # Image /\ Nowhere # Image
    BY Words, Addresses DEF Network
  <2> HIDE DEF a
  <2>3. w = Proc("restore", job, "remote", a, Image, Nowhere) /\ m = Proc("checkpoint", job, "local", Nowhere, a, <<job, i>>)
    BY DEF Waiter, Mover, a
  <2> HIDE DEF w, m
  <2>4. w \in Command /\ m \in Command
    BY <2>1, <2>2, <2>3, Words DEF Proc, Command
  <2>5. w.in = a /\ m.in = Nowhere /\ w.role # "dump" /\ m.role # "dump"
    BY <2>3 DEF Proc
  <2>6. name \in Networks /\ name \notin Singles /\ name \notin Images
    BY DEF Overheads, Networks, Singles, Images
  <2> QED BY <2>2, <2>4, <2>5, <2>6 DEF ProperProc
<1> HIDE DEF w, m
<1>2. \A mode : Proper(name, In(Background(w, mode), b)) /\ Proper(name, In(Background(m, mode), b))
  BY <1>1, SpawnProper
<1>3. /\ \A mode : In(Background(w, mode), b).it = b /\ In(Background(m, mode), b).it = b
      /\ In(Sleep, b).it = b /\ \A names : In(Cat(names), b).it = b
      /\ \A r, h : In(Sigint(r, h), b).it = b /\ In(Pkill(r, h), b).it = b
  BY DEF In, Background, Sleep, Cat, Sigint, Pkill, Step
<1>4. Proper(name, In(Sleep, b)) /\ \A names : Proper(name, In(Cat(names), b))
  BY OtherProper
<1>5. \A r, h : Proper(name, In(Sigint(r, h), b)) /\ Proper(name, In(Pkill(r, h), b))
  BY SignalProper
<1>6. Block(name, job, i)[j] \in {Background(w, "append"), Background(m, "append"), Background(m, "truncate"),
                                  Sleep, Sigint("checkpoint", "local"), Pkill("restore", "remote"), Cat(<<<<job, i>>>>)}
  <2>1. CASE name = "burst_overhead"
    <3>1. j \in 1..8
      BY <2>1 DEF Length
    <3>2. j = 1 \/ j = 2 \/ j = 3 \/ j = 4 \/ j = 5 \/ j = 6 \/ j = 7 \/ j = 8
      BY <3>1
    <3> QED BY <2>1, <3>2 DEF Block, w, m
  <2>2. CASE name # "burst_overhead"
    <3>1. j \in 1..7
      BY <2>2 DEF Length
    <3>2. j = 1 \/ j = 2 \/ j = 3 \/ j = 4 \/ j = 5 \/ j = 6 \/ j = 7
      BY <3>1
    <3> QED BY <2>2, <3>2 DEF Block, w, m
  <2> QED BY <2>1, <2>2
<1> QED
  BY <1>2, <1>3, <1>4, <1>5, <1>6

LEMMA OverheadProper ==
  ASSUME NEW name \in Overheads, NEW s, OverheadScript(name, s), NEW k \in 1..Len(s)
  PROVE  Proper(name, s[k]) /\ s[k].it \in Nat \ {0}
<1>1. PICK b \in Nat \ {0} : \E job \in Job : \E i \in Nat :
        (\E j \in 1..Length(name) : k = Length(name) * (b - 1) + j) /\ BlockAt(name, s, b, job, i)
  BY DEF OverheadScript
<1>2. PICK job \in Job : \E i \in Nat :
        (\E j \in 1..Length(name) : k = Length(name) * (b - 1) + j) /\ BlockAt(name, s, b, job, i)
  BY <1>1
<1>3. PICK i \in Nat :
        (\E j \in 1..Length(name) : k = Length(name) * (b - 1) + j) /\ BlockAt(name, s, b, job, i)
  BY <1>2
<1>4. PICK j \in 1..Length(name) : k = Length(name) * (b - 1) + j
  BY <1>3
<1>5. s[k] = In(Block(name, job, i)[j], b)
  BY <1>3, <1>4 DEF BlockAt
<1> DEFINE step == In(Block(name, job, i)[j], b)
<1>6. Proper(name, step) /\ step.it = b
  BY BlockProper
<1> HIDE DEF step
<1> QED
  BY <1>5, <1>6 DEF step

(* The facts about the scripts, together.                                  *)
Facts(name, s) ==
  /\ ProperScript(name, s)
  /\ name \in Singles => \A k \in 1..Len(s) : s[k].it = 1
  /\ name = "checkpoint_restore" =>
       Three(s, trial, Foreground(Saver), Supervised(Restorer), Cat(<<Pipe>>))
  /\ name = "criu" =>
       Three(s, trial, Background(Victim, "append"), Supervised(Dumper), Supervised(Reviver))
  /\ name \in Overheads => OverheadScript(name, s)

LEMMA OverheadFacts == \A name \in Overheads \cap Scripts : Facts(name, StepsOf[name])
<1>1. ASSUME NEW name \in Overheads \cap Scripts, NEW n \in Nat, n # 0, NEW jobs,
             \A c \in 1..n : jobs[c] \in Job,
             name = "burst_overhead" => \A c, d \in 1..n : jobs[c] = jobs[d] => c = d,
             StepsOf[name] = Calls(name, jobs, n)
      PROVE  Facts(name, StepsOf[name])
  <2> DEFINE s == StepsOf[name]
  <2>1. OverheadScript(name, s) /\ Len(s) \in Nat /\ 1 <= Len(s)
    BY <1>1, CallsOverhead, BlocksOfCalls
  <2>2. \A k \in 1..Len(s) : Proper(name, s[k]) /\ s[k].it \in Nat \ {0}
    BY <2>1, OverheadProper
  <2>3. name \notin Singles /\ name # "checkpoint_restore" /\ name # "criu"
    BY DEF Overheads, Singles
  <2> HIDE DEF s
  <2>4. Facts(name, s)
    BY <2>1, <2>2, <2>3 DEF Facts, ProperScript
  <2> QED BY <2>4 DEF s
<1>2. ASSUME "burst_overhead" \in Scripts
      PROVE  Facts("burst_overhead", StepsOf["burst_overhead"])
  <2>1. StepsOf["burst_overhead"] = Calls("burst_overhead", BurstJobs, Len(BurstJobs))
    BY <1>2, BurstIsCalls DEF StepsOf
  <2>2. Len(BurstJobs) \in Nat /\ Len(BurstJobs) # 0 /\ \A c \in 1..Len(BurstJobs) : BurstJobs[c] \in Job
    BY JobsAssumption, EmptySeq, LenProperties
  <2>3. \A c, d \in 1..Len(BurstJobs) : BurstJobs[c] = BurstJobs[d] => c = d
    BY JobsAssumption
  <2>4. "burst_overhead" \in Overheads \cap Scripts
    BY <1>2 DEF Overheads
  <2> QED BY <1>1, <2>1, <2>2, <2>3, <2>4
<1>3. ASSUME "slowtier_overhead" \in Scripts
      PROVE  Facts("slowtier_overhead", StepsOf["slowtier_overhead"])
  <2>1. StepsOf["slowtier_overhead"] = Calls("slowtier_overhead", SlowtierJob, SlowtierCalls)
    BY <1>3, SlowtierIsCalls DEF StepsOf
  <2> DEFINE n == Len(SlowtierJobs)
  <2>2. n \in Nat /\ n # 0 /\ \A c \in 1..n : SlowtierJobs[c] \in Job
    BY JobsAssumption, EmptySeq, LenProperties
  <2>3. SlowtierCalls \in Nat /\ SlowtierCalls # 0
    BY <2>2, TrialAssumption DEF SlowtierCalls
  <2>4. ASSUME NEW c \in 1..SlowtierCalls PROVE SlowtierJob[c] \in Job
    <3>1. SlowtierJob[c] = SlowtierJobs[((c - 1) % n) + 1]
      BY DEF SlowtierJob
    <3>2. (c - 1) % n \in 0..n - 1
      BY <2>2, <2>3
    <3> QED BY <2>2, <3>1, <3>2
  <2>5. "slowtier_overhead" \in Overheads \cap Scripts /\ "slowtier_overhead" # "burst_overhead"
    BY <1>3 DEF Overheads
  <2> QED BY <1>1, <2>1, <2>3, <2>4, <2>5
<1> QED
  BY <1>2, <1>3 DEF Overheads

LEMMA PlainFacts ==
  ASSUME NEW name \in Scripts, name \notin Networks, name \notin Images,
         NEW role \in Word, role # "dump",
         NEW job \in Word, NEW host \in Word, NEW log \in Address,
         StepsOf[name] = Plain(role, job, host, log)
  PROVE  Facts(name, StepsOf[name])
<1> DEFINE s == StepsOf[name]
<1>1. Len(s) = 2 /\ \A k \in 1..2 : Proper(name, s[k]) /\ s[k].it = 1
  BY PlainProper
<1>2. name \notin Singles /\ name # "checkpoint_restore" /\ name # "criu" /\ name \notin Overheads
  BY DEF Networks, Images, Singles, Overheads
<1> HIDE DEF s
<1>3. Facts(name, s)
  BY <1>1, <1>2 DEF Facts, ProperScript
<1> QED
  BY <1>3 DEF s

LEMMA Scripted == \A name \in Scripts : Facts(name, StepsOf[name])
<1> SUFFICES ASSUME NEW name \in Scripts PROVE Facts(name, StepsOf[name])
  OBVIOUS
<1>1. name \in Names
  BY ScriptsAssumption
<1>2. CASE name = "run"
  <2>1. StepsOf[name] = Plain("checkpoint", "low", "local", Pipe)
    BY <1>2 DEF StepsOf, run
  <2>2. name \notin Networks /\ name \notin Images
    BY <1>2 DEF Networks, Images
  <2> QED BY <2>1, <2>2, PlainFacts, Words, Addresses
<1>3. CASE name = "run_profile"
  <2>1. StepsOf[name] = Plain("checkpoint", "low", "local", Pipe)
    BY <1>3 DEF StepsOf, run_profile
  <2>2. name \notin Networks /\ name \notin Images
    BY <1>3 DEF Networks, Images
  <2> QED BY <2>1, <2>2, PlainFacts, Words, Addresses
<1>4. CASE name = "run_slowtier"
  <2>1. StepsOf[name] = Plain("checkpoint", "low", "remote", Pipe)
    BY <1>4 DEF StepsOf, run_slowtier
  <2>2. name \notin Networks /\ name \notin Images
    BY <1>4 DEF Networks, Images
  <2> QED BY <2>1, <2>2, PlainFacts, Words, Addresses
<1>5. CASE name = "run_burst"
  <2>1. StepsOf[name] = Plain("checkpoint", "low", "remote", <<"burst.out", 0>>)
    BY <1>5 DEF StepsOf, run_burst
  <2>2. name \notin Networks /\ name \notin Images
    BY <1>5 DEF Networks, Images
  <2>3. <<"burst.out", 0>> \in Address
    BY Words DEF Address
  <2> QED BY <2>1, <2>2, <2>3, PlainFacts, Words
<1>6. CASE name \in {"run_hcontainer", "run_native", "run_qemu_x86_64", "run_qemu_aarch64"}
  <2>1. StepsOf[name] = Plain("native", "low", "local", Pipe)
    BY <1>6 DEF StepsOf, run_hcontainer, run_native, run_qemu_x86_64, run_qemu_aarch64
  <2>2. name \notin Networks /\ name \notin Images
    BY <1>6 DEF Networks, Images
  <2> QED BY <2>1, <2>2, PlainFacts, Words, Addresses
<1>7. CASE name = "checkpoint_restore"
  <2>1. StepsOf[name] = run_checkpoint_restore("low")
    BY <1>7 DEF StepsOf
  <2>2. name \notin Singles /\ name # "criu" /\ name \notin Overheads
    BY <1>7 DEF Singles, Overheads
  <2> QED BY <1>7, <2>1, <2>2, CheckpointRestoreSteps DEF Facts
<1>8. CASE name = "criu"
  <2>1. StepsOf[name] = run_criu_checkpoint_restore("low")
    BY <1>8 DEF StepsOf
  <2>2. name \notin Singles /\ name # "checkpoint_restore" /\ name \notin Overheads
    BY <1>8 DEF Singles, Overheads
  <2> QED BY <1>8, <2>1, <2>2, CriuSteps DEF Facts
<1>9. CASE name = "qemu"
  <2>1. StepsOf[name] = run_qemu_checkpoint_restore("low")
    BY <1>9 DEF StepsOf
  <2>2. name \notin Singles /\ name # "checkpoint_restore" /\ name # "criu" /\ name \notin Overheads
    BY <1>9 DEF Singles, Overheads
  <2> QED BY <1>9, <2>1, <2>2, QemuSteps DEF Facts
<1>10. CASE name = "slowtier"
  <2>1. StepsOf[name] = run_checkpoint_restore_slowtier("low", "high")
    BY <1>10 DEF StepsOf
  <2>2. name # "checkpoint_restore" /\ name # "criu" /\ name \notin Overheads
    BY <1>10 DEF Overheads
  <2> DEFINE s == StepsOf[name]
  <2>3. Len(s) = 12 /\ \A k \in 1..12 : Proper(name, s[k]) /\ s[k].it = 1
    BY <1>10, <2>1, SlowtierProper
  <2> HIDE DEF s
  <2>4. Facts(name, s)
    BY <2>2, <2>3 DEF Facts, ProperScript
  <2> QED BY <2>4 DEF s
<1>11. CASE name = "burst"
  <2>1. StepsOf[name] = run_checkpoint_restore_burst("low", "high")
    BY <1>11 DEF StepsOf
  <2>2. name # "checkpoint_restore" /\ name # "criu" /\ name \notin Overheads
    BY <1>11 DEF Overheads
  <2> DEFINE s == StepsOf[name]
  <2>3. Len(s) = 28 /\ \A k \in 1..28 : Proper(name, s[k]) /\ s[k].it = 1
    BY <1>11, <2>1, BurstProper
  <2> HIDE DEF s
  <2>4. Facts(name, s)
    BY <2>2, <2>3 DEF Facts, ProperScript
  <2> QED BY <2>4 DEF s
<1>12. CASE name \in Overheads
  BY <1>12, OverheadFacts
<1> QED
  BY <1>1, <1>2, <1>3, <1>4, <1>5, <1>6, <1>7, <1>8, <1>9, <1>10, <1>11, <1>12 DEF Names, Overheads

-----------------------------------------------------------------------------
(***************************************************************************)
(* The invariant.                                                          *)
(***************************************************************************)
Guest   == [job : Word, it : Nat]
Process ==
  [role : Word, job : Word, host : Word, in : Address, out : Address, log : Address,
   st : {"starting", "listening", "running", "ended"}, it : Nat,
   sent : BOOLEAN, peer : Nat, accepted : Nat, flag : BOOLEAN, guest : Guest]

TypeOK ==
  /\ script \in Scripts
  /\ pc \in Nat \ {0} /\ waiting \in {"no", "polling", "terminated"}
  /\ status \in {"running", "returned", "raised"}
  /\ status = "running" => pc \in 1..Len(StepsOf[script])
  /\ procs \in Seq(Process)
  /\ \A f \in DOMAIN images : images[f] \in Guest

(* Every process is one that the script starts.                            *)
Planned ==
  \A p \in Pids : \E k \in 1..Len(StepsOf[script]) :
    LET s == StepsOf[script][k] IN
    /\ s.do \in Spawning /\ procs[p].it = s.it
    /\ procs[p].role = s.proc.role /\ procs[p].job = s.proc.job /\ procs[p].host = s.proc.host
    /\ procs[p].in = s.proc.in /\ procs[p].out = s.proc.out
    /\ script # "slowtier" => procs[p].log = s.proc.log

(* The guest of a process, wherever it came from, is of its job, and what  *)
(* did not come from the image is of its iteration.                        *)
GuestOK ==
  \A p \in Pids :
    /\ procs[p].role \in {"checkpoint", "native"} =>
         procs[p].guest = [job |-> procs[p].job, it |-> procs[p].it]
    /\ procs[p].guest # Empty =>
         /\ procs[p].guest.job = procs[p].job
         /\ procs[p].in # Image => procs[p].guest.it = procs[p].it

(* A process reads only from one of its job and its iteration.             *)
AcceptOK ==
  \A p \in Pids : procs[p].accepted # 0 =>
    LET q == procs[p].accepted IN
    /\ q \in Pids /\ procs[q].in # Image
    /\ procs[q].job = procs[p].job /\ procs[q].it = procs[p].it

ListenOK == \A p \in Pids : procs[p].st = "listening" => procs[p].role = "restore" /\ procs[p].in # Image

WaitOK == waiting # "no" => Len(procs) # 0

ImagesOK == \A f \in DOMAIN images : images[f] # Empty => images[f].job = f[2]

Common == TypeOK /\ Planned /\ GuestOK /\ AcceptOK /\ ListenOK /\ WaitOK /\ ImagesOK

(* Whoever can connect to whom is of the same job and iteration.           *)
WiredOK ==
  /\ \A p, q \in Pids :
       procs[p].st \in {"starting", "listening"} /\ Bound(q) /\ procs[q].in = procs[p].out =>
         /\ procs[p].in # Image
         /\ procs[q].job = procs[p].job /\ procs[q].it = procs[p].it
  /\ \A p, q \in Pids :
       procs[p].role = "dump" /\ procs[q].role = "native" => procs[q].job = procs[p].job

(* checkpoint_restore: only the newest process is at work, and once a      *)
(* checkpoint has opened its file there is nothing in it of before.        *)

LowFile == <<"local", "low", FALSE>>

Newly == procs[Len(procs)]

Turn ==
  LET b == Newly.it IN
  /\ Newly.role = "checkpoint" =>
       \/ pc = 3 * b - 2 /\ waiting = "polling"
       \/ pc = 3 * b - 1 /\ waiting = "no" /\ Newly.st = "ended"
  /\ Newly.role = "restore" =>
       \/ pc = 3 * b - 1 /\ waiting # "no"
       \/ pc \in {3 * b, 3 * b + 1} /\ waiting = "no" /\ Newly.st = "ended"

Fresh ==
  ~(Newly.role = "checkpoint" /\ Newly.st = "starting") /\ LowFile \in DOMAIN images
    => images[LowFile] \in {Empty, [job |-> "low", it |-> Newly.it]}

OneAtATime ==
  script = "checkpoint_restore" =>
    /\ Len(procs) = 0 => pc = 1 /\ waiting = "no"
    /\ \A p \in Pids : p # Len(procs) => ~Live(p)
    /\ Len(procs) # 0 => Turn /\ Fresh

(* criu: if an iteration has dumped, its image is there.                   *)
CriuFile == <<"local", "low", TRUE>>

AtCriu(p) ==
  /\ 3 * procs[p].it - 2 <= pc
  /\ procs[p].role = "dump" /\ Live(p) => p = Len(procs) /\ pc = 3 * procs[p].it - 1 /\ waiting # "no"
  /\ procs[p].role = "criu" => 3 * procs[p].it <= pc
  /\ procs[p].role = "criu" /\ Live(p) => p = Len(procs) /\ pc = 3 * procs[p].it /\ waiting # "no"

InImage(b) ==
  /\ b \in Nat /\ 3 * b - 1 <= pc
  /\ pc <= 3 * b => CriuFile \in DOMAIN images /\ images[CriuFile] = [job |-> "low", it |-> b]

DumpedOK ==
  script = "criu" =>
    /\ \A p \in Pids : AtCriu(p)
    /\ waiting # "no" => Newly.role # "native" /\ pc \in {3 * Newly.it, 3 * Newly.it - 1}
    /\ \A b \in dumped : InImage(b)

(* The scripts that measure the overhead: when the restore of a block is   *)
(* there, and when a process can be starting.                              *)
LogOf(b) == StepsOf[script][Length(script) * b].arg[1]
Before(b) == Length(script) * (b - 1)

InTheirBlock ==
  script \in Overheads =>
    \A p \in Pids :
      /\ Before(procs[p].it) + 1 < pc
      /\ procs[p].role = "restore" /\ Live(p) =>
           pc - Before(procs[p].it) \in 2..Length(script) - 1
      /\ procs[p].role = "restore" /\ procs[p].st = "starting" => pc = Before(procs[p].it) + 2
      /\ procs[p].role = "checkpoint" => Before(procs[p].it) + 3 < pc
      /\ procs[p].role = "checkpoint" /\ procs[p].st = "starting" => pc = Before(procs[p].it) + 4

(* Who has written what: only checkpoints write, each one line, at its end.*)
Line == [by : Nat, what : {"Execution time", "Snapshot time"}]

Writer(p, l) ==
  p \in Pids /\ procs[p].log = l /\ procs[p].role = "checkpoint" /\ procs[p].st = "ended"

LogOK(l) ==
  /\ logs[l] \in Seq(Line)
  /\ \A m \in 1..Len(logs[l]) : Writer(logs[l][m].by, l)
  /\ \A m, k \in 1..Len(logs[l]) : logs[l][m].by = logs[l][k].by => m = k

LogsOK == Nowhere \notin DOMAIN logs /\ \A l \in DOMAIN logs : LogOK(l)

(* What has been read is still in the log of its block, and was written by *)
(* then: by a checkpoint of this iteration or of an earlier one.           *)
IsBlock(b) == \E job \in Job : \E i \in Nat : BlockAt(script, StepsOf[script], b, job, i)

ResultOK(i) ==
  /\ results[i].it = i /\ IsBlock(i) /\ LogOf(i) \in DOMAIN logs
  /\ Len(results[i].lines) <= Len(logs[LogOf(i)])
  /\ \A m \in 1..Len(results[i].lines) :
       /\ results[i].lines[m] = logs[LogOf(i)][m]
       /\ procs[results[i].lines[m].by].it <= i

ResultsOK ==
  /\ results \in Seq([lines : Seq(Line), it : Nat])
  /\ Before(Len(results) + 1) < pc /\ pc <= Before(Len(results) + 2)
  /\ \A i \in 1..Len(results) : ResultOK(i)
  /\ \A b \in Nat \ {0} : Before(b) + 3 < pc => LogOf(b) \in DOMAIN logs

Written == script \in Overheads => LogsOK /\ ResultsOK

IInv == /\ Common /\ OneAtATime /\ DumpedOK /\ InTheirBlock /\ Written /\ RestoredGuestIsTheRightOne

-----------------------------------------------------------------------------
(***************************************************************************)
(* What a step does to the processes there are.                            *)
(***************************************************************************)
Fixed(a, b) ==
  /\ b.role = a.role /\ b.job = a.job /\ b.host = a.host
  /\ b.in = a.in /\ b.out = a.out /\ b.it = a.it
  /\ b.log = a.log \/ script = "slowtier"
  /\ b.st = "starting" => a.st = "starting"
  /\ b.st # "ended" => a.st # "ended"
  /\ b.st = "listening" => a.st = "listening" \/ (b.role = "restore" /\ b.in # Image)

Frame ==
  /\ procs' \in Seq(Process) /\ Len(procs') = Len(procs) /\ DOMAIN procs' = Pids
  /\ \A p \in Pids : Fixed(procs[p], procs'[p])

GuestKept(r) == procs'[r].guest = procs[r].guest
GuestFine(r) ==
  /\ procs[r].role \notin {"checkpoint", "native"}
  /\ procs'[r].guest # Empty =>
       /\ procs'[r].guest.job = procs[r].job
       /\ procs[r].in # Image => procs'[r].guest.it = procs[r].it

GuestsKept == \A r \in Pids : GuestKept(r)

AcceptedKept(r) == procs'[r].accepted = procs[r].accepted
AcceptedFine(r) ==
  LET q == procs'[r].accepted IN
  q \in Pids /\ procs[q].in # Image /\ procs[q].job = procs[r].job /\ procs[q].it = procs[r].it

Steady ==
  /\ Frame
  /\ \A r \in Pids : (GuestKept(r) \/ GuestFine(r)) /\ (AcceptedKept(r) \/ AcceptedFine(r))

ImagesFine ==
  \A f \in DOMAIN images' :
    \/ f \in DOMAIN images /\ images'[f] = images[f]
    \/ images'[f] \in Guest /\ (images'[f] # Empty => images'[f].job = f[2])

LEMMA SeqPointwise ==
  ASSUME NEW S, NEW s \in Seq(S), NEW f, f = [x \in DOMAIN s |-> f[x]], \A x \in DOMAIN s : f[x] \in S
  PROVE  f \in Seq(S) /\ Len(f) = Len(s) /\ DOMAIN f = DOMAIN s
<1>1. DOMAIN s = 1..Len(s) /\ Len(s) \in Nat
  OBVIOUS
<1>2. f \in [1..Len(s) -> S]
  BY <1>1
<1>3. f \in Seq(S)
  BY <1>1, <1>2
<1> QED BY <1>1, <1>2, <1>3

LEMMA FrameOf ==
  ASSUME procs \in Seq(Process), procs' = [x \in Pids |-> procs'[x]],
         \A x \in Pids : procs'[x] \in Process /\ Fixed(procs[x], procs'[x])
  PROVE  Frame
BY SeqPointwise DEF Frame, Pids

LEMMA Proc1 ==
  ASSUME NEW a \in Process, NEW st \in {"starting", "listening", "running", "ended"}
  PROVE  [a EXCEPT !.st = st] \in Process /\ [a EXCEPT !.st = st].st = st
BY DEF Process

(* One process changes.                                                    *)
LEMMA PutOf ==
  ASSUME procs \in Seq(Process), NEW p \in Pids, NEW now \in Process, Put(p, now), Fixed(procs[p], now)
  PROVE  /\ Frame /\ procs'[p] = now
         /\ \A r \in Pids : r # p => procs'[r] = procs[r]
<1>1. procs'[p] = now /\ (\A r \in Pids : r # p => procs'[r] = procs[r]) /\ procs' = [x \in Pids |-> procs'[x]]
  BY DEF Put, Pids
<1>2. \A r \in Pids : procs[r] \in Process
  BY DEF Pids
<1>3. \A r \in Pids : procs'[r] \in Process /\ Fixed(procs[r], procs'[r])
  BY <1>1, <1>2 DEF Fixed
<1> QED BY <1>1, <1>3, FrameOf

LEMMA PutSteady ==
  ASSUME procs \in Seq(Process), NEW p \in Pids, NEW now \in Process, Put(p, now), Fixed(procs[p], now),
         now.guest = procs[p].guest, now.accepted = procs[p].accepted
  PROVE  Steady /\ GuestsKept
<1>1. Frame /\ procs'[p] = now /\ \A r \in Pids : r # p => procs'[r] = procs[r]
  BY PutOf
<1> QED BY <1>1 DEF Steady, GuestsKept, GuestKept, AcceptedKept

LEMMA EndSteady ==
  ASSUME procs \in Seq(Process), NEW p \in Pids, End(p)
  PROVE  Steady /\ GuestsKept
<1> DEFINE now == [procs[p] EXCEPT !.st = "ended"]
<1>1. procs[p] \in Process
  BY DEF Pids
<1>2. now \in Process /\ Fixed(procs[p], now) /\ now.guest = procs[p].guest /\ now.accepted = procs[p].accepted
  BY <1>1 DEF Process, Fixed
<1>3. Put(p, now)
  BY DEF End
<1> HIDE DEF now
<1> QED BY <1>2, <1>3, PutSteady

LEMMA SameSteady == ASSUME procs \in Seq(Process), procs' = procs PROVE Steady /\ GuestsKept
BY DEF Steady, GuestsKept, Frame, Fixed, GuestKept, AcceptedKept, Pids

(* A guest that p may have from now on.                                    *)
FineFor(p, guest) ==
  \/ guest = procs[p].guest
  \/ /\ procs[p].role \notin {"checkpoint", "native"}
     /\ guest # Empty =>
          guest.job = procs[p].job /\ (procs[p].in # Image => guest.it = procs[p].it)

LEMMA ConnectSteady ==
  ASSUME TypeOK, WiredOK, NEW p \in Pids, NEW now \in Process,
         procs[p].st \in {"starting", "listening"}, ConnectAs(p, now), Fixed(procs[p], now),
         now.accepted = procs[p].accepted, FineFor(p, now.guest)
  PROVE  Steady
<1>1. procs \in Seq(Process) /\ \A r \in Pids : procs[r] \in Process
  BY DEF TypeOK, Pids
<1>2. CASE procs' = [procs EXCEPT ![p] = now]
  <2>1. Frame /\ procs'[p] = now /\ \A r \in Pids : r # p => procs'[r] = procs[r]
    BY <1>1, <1>2, PutOf DEF Put
  <2> QED BY <2>1 DEF Steady, GuestKept, AcceptedKept, GuestFine, FineFor
<1>3. CASE procs' = [procs EXCEPT ![p] = [now EXCEPT !.st = "ended"]]
  <2> DEFINE e == [now EXCEPT !.st = "ended"]
  <2>1. e \in Process /\ Fixed(procs[p], e) /\ e.guest = now.guest /\ e.accepted = now.accepted
    BY DEF Process, Fixed
  <2>2. Put(p, e)
    BY <1>3 DEF Put
  <2> HIDE DEF e
  <2>3. Frame /\ procs'[p] = e /\ \A r \in Pids : r # p => procs'[r] = procs[r]
    BY <1>1, <2>1, <2>2, PutOf
  <2> QED BY <2>1, <2>3 DEF Steady, GuestKept, AcceptedKept, GuestFine, FineFor
<1>4. CASE \E q \in Listener(now.out) :
             procs' = [procs EXCEPT ![p] = [now EXCEPT !.peer = q], ![q].accepted = IF @ = 0 THEN p ELSE @]
  <2>1. PICK q \in Listener(now.out) :
             procs' = [procs EXCEPT ![p] = [now EXCEPT !.peer = q], ![q].accepted = IF @ = 0 THEN p ELSE @]
    BY <1>4
  <2>2. q \in Pids /\ Bound(q) /\ procs[q].in = now.out /\ p \in Nat /\ q \in Nat
    BY <1>1 DEF Listener, Pids
  <2>3. procs[p].in # Image /\ procs[q].job = procs[p].job /\ procs[q].it = procs[p].it
    BY <2>2 DEF WiredOK, Fixed
  <2> DEFINE n == [now EXCEPT !.peer = q]
             mid == [procs EXCEPT ![p] = n]
             m == [mid[q] EXCEPT !.accepted = IF @ = 0 THEN p ELSE @]
  <2>4. n \in Process /\ Fixed(procs[p], n) /\ n.guest = now.guest /\ n.accepted = procs[p].accepted
    BY <2>2 DEF Process, Fixed
  <2>5. procs' = [mid EXCEPT ![q] = m]
    BY <2>1, <2>2
  <2>6. mid = [x \in Pids |-> mid[x]] /\ mid[p] = n /\ \A r \in Pids : r # p => mid[r] = procs[r]
    BY DEF Pids
  <2> HIDE DEF n, mid
  <2>7. mid[q] \in Process /\ Fixed(procs[q], mid[q])
    BY <1>1, <2>2, <2>4, <2>6 DEF Fixed
  <2>8. /\ m \in Process /\ Fixed(procs[q], m) /\ m.guest = mid[q].guest
        /\ m.accepted = mid[q].accepted \/ m.accepted = p
    BY <2>2, <2>7 DEF Process, Fixed
  <2> HIDE DEF m
  <2>9. /\ procs' = [x \in Pids |-> procs'[x]] /\ procs'[q] = m
        /\ \A r \in Pids : r # q => procs'[r] = mid[r]
    BY <2>2, <2>5, <2>6
  <2>10. \A r \in Pids : procs'[r] \in Process /\ Fixed(procs[r], procs'[r])
    BY <1>1, <2>4, <2>6, <2>8, <2>9 DEF Fixed
  <2>11. Frame
    BY <1>1, <2>9, <2>10, FrameOf
  <2>12. \A r \in Pids : GuestKept(r) \/ GuestFine(r)
    BY <2>4, <2>6, <2>8, <2>9 DEF GuestKept, GuestFine, FineFor
  <2>13. \A r \in Pids : AcceptedKept(r) \/ AcceptedFine(r)
    BY <2>2, <2>3, <2>4, <2>6, <2>8, <2>9 DEF AcceptedKept, AcceptedFine
  <2> QED BY <2>11, <2>12, <2>13 DEF Steady
<1> QED
  <2>1. CASE now.out \in {Nowhere, Image}
    BY <1>2, <2>1 DEF ConnectAs, Put
  <2>2. CASE now.out \notin {Nowhere, Image} /\ Listener(now.out) = {}
    BY <1>3, <2>2 DEF ConnectAs, Put
  <2>3. CASE now.out \notin {Nowhere, Image} /\ Listener(now.out) # {}
    <3> DEFINE l == CHOOSE q \in Listener(now.out) : TRUE
    <3>1. l \in Listener(now.out)
      BY <2>3
    <3>2. procs' = [procs EXCEPT ![p] = [now EXCEPT !.peer = l], ![l].accepted = IF @ = 0 THEN p ELSE @]
      BY <2>3 DEF ConnectAs
    <3> HIDE DEF l
    <3> QED BY <1>4, <3>1, <3>2
  <2> QED BY <2>1, <2>2, <2>3

LEMMA WithFine ==
  ASSUME NEW files, NEW x, NEW content
  PROVE  /\ DOMAIN With(files, x, content) = DOMAIN files \cup {x}
         /\ With(files, x, content)[x] = content
         /\ \A f \in DOMAIN files : f # x => With(files, x, content)[f] = files[f]
BY DEF With

LEMMA EmptyGuest == Empty \in Guest
BY Words DEF Empty, Guest, None

LEMMA OneImage ==
  ASSUME NEW x, NEW content \in Guest, content # Empty => content.job = x[2],
         images' = With(images, x, content)
  PROVE  ImagesFine
<1>1. \A f \in DOMAIN images' : (f \in DOMAIN images /\ images'[f] = images[f]) \/ (f = x /\ images'[f] = content)
  <2> DEFINE i == With(images, x, content)
  <2>0. /\ DOMAIN i = DOMAIN images \cup {x} /\ i[x] = content
        /\ \A f \in DOMAIN images : f # x => i[f] = images[f]
    BY DEF With
  <2> HIDE DEF i
  <2>1. \A f \in DOMAIN i : (f \in DOMAIN images /\ i[f] = images[f]) \/ (f = x /\ i[f] = content)
    BY <2>0
  <2> QED BY <2>1 DEF i
<1> QED BY <1>1 DEF ImagesFine

LEMMA SameImages == ASSUME images' = images PROVE ImagesFine
BY DEF ImagesFine

LEMMA OpenedFine == ASSUME NEW p, images' = Opened(p) PROVE ImagesFine
BY EmptyGuest, OneImage, SameImages DEF Opened

LEMMA ResumeSteady ==
  ASSUME Common, WiredOK, NEW p \in Pids, NEW guest \in Guest, procs[p].st \in {"starting", "listening"},
         FineFor(p, guest), Resume(p, guest)
  PROVE  Steady /\ ImagesFine
<1> DEFINE now == [procs[p] EXCEPT !.st = "running", !.guest = guest]
<1>1. procs[p] \in Process
  BY DEF Common, TypeOK, Pids
<1>2. now \in Process /\ Fixed(procs[p], now) /\ now.guest = guest /\ now.accepted = procs[p].accepted
  BY <1>1 DEF Process, Fixed
<1>3. ConnectAs(p, now) /\ images' = Opened(p)
  BY DEF Resume
<1> HIDE DEF now
<1> QED BY <1>2, <1>3, ConnectSteady, OpenedFine DEF Common

LEMMA StartCheckpointSteady ==
  ASSUME Common, WiredOK, NEW p \in Pids, StartCheckpoint(p)
  PROVE  Steady /\ ImagesFine
<1> DEFINE now == [procs[p] EXCEPT !.st = "running"]
<1>1. procs[p] \in Process
  BY DEF Common, TypeOK, Pids
<1>2. now \in Process /\ Fixed(procs[p], now) /\ now.guest = procs[p].guest /\ now.accepted = procs[p].accepted
  BY <1>1 DEF Process, Fixed, StartCheckpoint
<1>3. ConnectAs(p, now) /\ images' = Opened(p) /\ procs[p].st = "starting"
  BY DEF StartCheckpoint
<1>4. FineFor(p, now.guest)
  BY <1>2 DEF FineFor
<1> HIDE DEF now
<1> QED BY <1>2, <1>3, <1>4, ConnectSteady, OpenedFine DEF Common

LEMMA StartNativeSteady ==
  ASSUME Common, NEW p \in Pids, StartNative(p)
  PROVE  Steady /\ ImagesFine
<1> DEFINE now == [procs[p] EXCEPT !.st = "running"]
<1>1. procs[p] \in Process /\ procs \in Seq(Process)
  BY DEF Common, TypeOK, Pids
<1>2. now \in Process /\ Fixed(procs[p], now) /\ now.guest = procs[p].guest /\ now.accepted = procs[p].accepted
  BY <1>1 DEF Process, Fixed, StartNative
<1>3. Put(p, now) /\ images' = images
  BY DEF StartNative
<1> HIDE DEF now
<1> QED BY <1>1, <1>2, <1>3, PutSteady, SameImages

LEMMA BindSteady ==
  ASSUME Common, NEW p \in Pids, Bind(p)
  PROVE  Steady /\ ImagesFine
<1> DEFINE now == [procs[p] EXCEPT !.st = "listening"]
<1>1. procs[p] \in Process /\ procs \in Seq(Process)
  BY DEF Common, TypeOK, Pids
<1>2. /\ now \in Process /\ Fixed(procs[p], now)
      /\ now.guest = procs[p].guest /\ now.accepted = procs[p].accepted
  BY <1>1 DEF Process, Fixed, Bind
<1>3. (Put(p, now) \/ End(p)) /\ images' = images
  BY DEF Bind
<1> HIDE DEF now
<1> QED BY <1>1, <1>2, <1>3, PutSteady, EndSteady, SameImages

LEMMA ReadSteady ==
  ASSUME Common, WiredOK, NEW p \in Pids, Read(p)
  PROVE  Steady /\ ImagesFine
<1>1. procs \in Seq(Process)
  BY DEF Common, TypeOK
<1>2. CASE End(p) /\ images' = images
  BY <1>1, <1>2, EndSteady, SameImages
<1>3. CASE File(p) \in DOMAIN images /\ images[File(p)] # Empty /\ Resume(p, images[File(p)])
  <2> DEFINE guest == images[File(p)]
  <2>1. guest \in Guest /\ guest.job = procs[p].job
    BY <1>3 DEF Common, TypeOK, ImagesOK, File
  <2>2. FineFor(p, guest) /\ procs[p].st = "starting"
    BY <2>1 DEF FineFor, Read
  <2>3. Resume(p, guest)
    BY <1>3
  <2> HIDE DEF guest
  <2> QED BY <2>1, <2>2, <2>3, ResumeSteady
<1> QED BY <1>2, <1>3 DEF Read

LEMMA ReceiveSteady ==
  ASSUME Common, WiredOK, NEW p \in Pids, Receive(p)
  PROVE  Steady /\ ImagesFine
<1>1. procs \in Seq(Process)
  BY DEF Common, TypeOK
<1> DEFINE q == procs[p].accepted
<1>2. CASE End(p) /\ images' = images
  BY <1>1, <1>2, EndSteady, SameImages
<1>3. CASE Resume(p, procs[q].guest)
  <2> DEFINE guest == procs[q].guest
  <2>1. /\ q \in Pids /\ procs[q].in # Image /\ procs[q].job = procs[p].job /\ procs[q].it = procs[p].it
        /\ procs[p].st = "listening" /\ procs[p].role = "restore"
    BY DEF Receive, Common, AcceptOK, ListenOK
  <2> HIDE DEF q
  <2>2. guest \in Guest /\ (guest # Empty => guest.job = procs[p].job /\ guest.it = procs[p].it)
    <3>1. procs[q] \in Process
      BY <1>1, <2>1 DEF Pids
    <3>2. guest \in Guest
      BY <3>1 DEF Process
    <3>3. guest # Empty => guest.job = procs[q].job /\ guest.it = procs[q].it
      BY <2>1 DEF Common, GuestOK
    <3> QED BY <2>1, <3>2, <3>3
  <2>3. FineFor(p, guest)
    BY <2>1, <2>2 DEF FineFor
  <2> HIDE DEF guest
  <2>4. Resume(p, guest)
    BY <1>3 DEF guest
  <2> QED BY <2>1, <2>2, <2>3, <2>4, ResumeSteady
<1> QED BY <1>2, <1>3 DEF Receive

LEMMA FinishSteady ==
  ASSUME Common, NEW p \in Pids, Finish(p)
  PROVE  Steady /\ ImagesFine
BY EndSteady, SameImages DEF Finish, Common, TypeOK

LEMMA SnapshotSteady ==
  ASSUME Common, NEW p \in Pids, Snapshot(p)
  PROVE  Steady /\ ImagesFine
<1> DEFINE q == procs[p].peer
           read == q # 0 /\ Live(q) /\ procs[q].accepted = p
           now == [procs[p] EXCEPT !.st = "ended", !.sent = read]
<1>1. procs[p] \in Process /\ procs \in Seq(Process)
  BY DEF Common, TypeOK, Pids
<1>2. Put(p, now)
  BY DEF Snapshot
<1>3. read \in BOOLEAN
  OBVIOUS
<1> HIDE DEF read
<1>4. now \in Process /\ Fixed(procs[p], now) /\ now.guest = procs[p].guest /\ now.accepted = procs[p].accepted
  BY <1>1, <1>3 DEF Process, Fixed
<1> HIDE DEF now
<1>5. Steady
  BY <1>1, <1>2, <1>4, PutSteady
<1>6. procs[p].guest \in Guest /\ (procs[p].guest # Empty => procs[p].guest.job = File(p)[2])
  BY <1>1 DEF Process, Common, GuestOK, File
<1>7. images' = images \/ images' = With(images, File(p), procs[p].guest)
  BY DEF Snapshot
<1> QED BY <1>5, <1>6, <1>7, OneImage, SameImages

(* What dump does when there is something to dump.                         *)
DumpOf(p, q) ==
  /\ procs[q].role = "native" /\ procs[q].it = procs[p].it /\ procs[q].st = "running"
  /\ procs' = [procs EXCEPT ![p].st = "ended", ![q].st = "ended"]
  /\ images' = With(images, File(p), procs[q].guest)
  /\ dumped' = dumped \cup {procs[p].it}

LEMMA DumpCases ==
  ASSUME NEW p \in Pids, Dump(p)
  PROVE  \/ End(p) /\ images' = images /\ dumped' = dumped
         \/ \E q \in Pids : DumpOf(p, q)
<1> DEFINE alive == {q \in Pids : procs[q].role = "native" /\ procs[q].it = procs[p].it
                                  /\ procs[q].st = "running"}
<1>1. CASE alive = {}
  BY <1>1 DEF Dump
<1>2. CASE alive # {}
  <2> DEFINE v == CHOOSE q \in alive : TRUE
  <2>1. v \in alive
    BY <1>2
  <2>2. /\ procs' = [procs EXCEPT ![p].st = "ended", ![v].st = "ended"]
        /\ images' = With(images, File(p), procs[v].guest)
        /\ dumped' = dumped \cup {procs[p].it}
    BY <1>2 DEF Dump
  <2> HIDE DEF v
  <2> QED BY <2>1, <2>2 DEF DumpOf
<1> QED BY <1>1, <1>2

LEMMA DumpSteady ==
  ASSUME Common, WiredOK, NEW p \in Pids, Dump(p)
  PROVE  Steady /\ ImagesFine
<1>1. procs \in Seq(Process) /\ \A r \in Pids : procs[r] \in Process
  BY DEF Common, TypeOK, Pids
<1>2. CASE End(p) /\ images' = images
  BY <1>1, <1>2, EndSteady, SameImages
<1>3. CASE \E q \in Pids : DumpOf(p, q)
  <2>1. PICK q \in Pids : DumpOf(p, q)
    BY <1>3
  <2>2. procs' = [procs EXCEPT ![p].st = "ended", ![q].st = "ended"]
    BY <2>1 DEF DumpOf
  <2>3. /\ procs' = [x \in Pids |-> procs'[x]]
        /\ \A r \in Pids : procs'[r] = procs[r] \/ procs'[r] = [procs[r] EXCEPT !.st = "ended"]
           \/ procs'[r] = [[procs[r] EXCEPT !.st = "ended"] EXCEPT !.st = "ended"]
    BY <2>2 DEF Pids
  <2>4. ASSUME NEW r \in Pids
        PROVE  /\ procs'[r] \in Process /\ Fixed(procs[r], procs'[r])
               /\ procs'[r].guest = procs[r].guest /\ procs'[r].accepted = procs[r].accepted
    <3> DEFINE e == [procs[r] EXCEPT !.st = "ended"]
    <3>1. e \in Process /\ Fixed(procs[r], e) /\ e.guest = procs[r].guest /\ e.accepted = procs[r].accepted
      BY <1>1 DEF Process, Fixed
    <3>2. [e EXCEPT !.st = "ended"] = e
      BY <1>1 DEF Process
    <3>3. procs'[r] = procs[r] \/ procs'[r] = e
      BY <2>3, <3>2
    <3>4. Fixed(procs[r], procs[r])
      BY DEF Fixed
    <3> HIDE DEF e
    <3> QED BY <1>1, <3>1, <3>3, <3>4
  <2>5. Steady
    BY <1>1, <2>3, <2>4, FrameOf DEF Steady, GuestKept, AcceptedKept
  <2>6. procs[q].guest \in Guest
    BY <1>1 DEF Process
  <2>7. procs[q].role = "native" /\ procs[p].role = "dump" /\ images' = With(images, File(p), procs[q].guest)
    BY <2>1 DEF DumpOf, Dump
  <2>8. procs[q].guest # Empty => procs[q].guest.job = File(p)[2]
    BY <2>7 DEF Common, GuestOK, WiredOK, File
  <2> QED BY <2>5, <2>6, <2>7, <2>8, OneImage
<1> QED BY <1>2, <1>3, DumpCases

(* The steps of the processes leave the script alone.                      *)
LEMMA ProcessSteady ==
  ASSUME Common, WiredOK, ProcessStep
  PROVE  Steady /\ ImagesFine /\ UNCHANGED script_vars
<1>1. PICK p \in Pids : \/ StartCheckpoint(p) \/ StartNative(p) \/ Bind(p) \/ Read(p)
                        \/ Receive(p) \/ Finish(p) \/ Snapshot(p) \/ Dump(p)
  BY DEF ProcessStep
<1>2. UNCHANGED script_vars
  BY <1>1 DEF StartCheckpoint, StartNative, Bind, Read, Receive, Finish, Snapshot, Dump, Resume
<1> QED
  BY <1>1, <1>2, StartCheckpointSteady, StartNativeSteady, BindSteady, ReadSteady, ReceiveSteady,
     FinishSteady, SnapshotSteady, DumpSteady

-----------------------------------------------------------------------------
(***************************************************************************)
(* The steps of the script.                                                *)
(***************************************************************************)
Clock ==
  /\ script' = script /\ pc' \in Nat \ {0}
  /\ waiting' \in {"no", "polling", "terminated"}
  /\ status' \in {"running", "returned", "raised"}
  /\ status' = "running" => pc' \in 1..Len(StepsOf[script])

LEMMA CurrentProper ==
  ASSUME TypeOK, status = "running"
  PROVE  /\ script \in Scripts /\ pc \in 1..Len(StepsOf[script]) /\ Facts(script, StepsOf[script])
         /\ Proper(script, Current) /\ Current.it \in Nat \ {0}
<1>1. script \in Scripts /\ pc \in 1..Len(StepsOf[script])
  BY DEF TypeOK
<1>2. Facts(script, StepsOf[script])
  BY <1>1, Scripted
<1>3. ProperScript(script, StepsOf[script])
  BY <1>2 DEF Facts
<1>4. Current = StepsOf[script][pc]
  BY DEF Current
<1> QED BY <1>1, <1>2, <1>3, <1>4 DEF ProperScript

LEMMA PastClock ==
  ASSUME TypeOK, status = "running", script' = script, Past, waiting' \in {"no", "polling", "terminated"}
  PROVE  Clock
<1>1. Len(StepsOf[script]) \in Nat
  BY CurrentProper DEF Facts, ProperScript
<1> QED BY <1>1 DEF Clock, Past, TypeOK

LEMMA StillClock ==
  ASSUME TypeOK, UNCHANGED <<script, pc, status>>, waiting' \in {"no", "polling", "terminated"}
  PROVE  Clock
BY DEF Clock, TypeOK

(* Only the flags and the states of the processes change.                  *)
LEMMA SignalSteady ==
  ASSUME procs \in Seq(Process), procs' = [x \in Pids |-> procs'[x]],
         \A x \in Pids : \/ procs'[x] = procs[x] \/ procs'[x] = [procs[x] EXCEPT !.st = "ended"]
                         \/ procs'[x] = [procs[x] EXCEPT !.flag = TRUE]
  PROVE  Steady /\ GuestsKept
<1>1. ASSUME NEW x \in Pids
      PROVE  /\ procs'[x] \in Process /\ Fixed(procs[x], procs'[x])
             /\ procs'[x].guest = procs[x].guest /\ procs'[x].accepted = procs[x].accepted
  <2>1. procs[x] \in Process
    BY DEF Pids
  <2>2. CASE procs'[x] = procs[x]
    BY <2>1, <2>2 DEF Fixed
  <2>3. CASE procs'[x] = [procs[x] EXCEPT !.st = "ended"]
    BY <2>1, <2>3 DEF Process, Fixed
  <2>4. CASE procs'[x] = [procs[x] EXCEPT !.flag = TRUE]
    BY <2>1, <2>4 DEF Process, Fixed
  <2> QED BY <2>2, <2>3, <2>4
<1> QED BY <1>1, FrameOf DEF Steady, GuestsKept, GuestKept, AcceptedKept

LEMMA SigintSteady ==
  ASSUME Common, SendSigint
  PROVE  Steady /\ GuestsKept
<1>1. procs \in Seq(Process)
  BY DEF Common, TypeOK
<1>2. PICK dead \in SUBSET {p \in Pids : Named(p) /\ procs[p].st # "running"} :
       procs' = [p \in Pids |->
         IF p \in dead THEN [procs[p] EXCEPT !.st = "ended"]
         ELSE IF Named(p) THEN [procs[p] EXCEPT !.flag = TRUE] ELSE procs[p]]
  BY DEF SendSigint
<1> QED BY <1>1, <1>2, SignalSteady

LEMMA SigtermSteady ==
  ASSUME Common, SendSigterm
  PROVE  Steady /\ GuestsKept
<1>1. procs \in Seq(Process)
  BY DEF Common, TypeOK
<1>2. procs' = [p \in Pids |-> IF Named(p) THEN [procs[p] EXCEPT !.st = "ended"] ELSE procs[p]]
  BY DEF SendSigterm
<1> QED BY <1>1, <1>2, SignalSteady

LEMMA MoveSteady ==
  ASSUME Common, MoveLog
  PROVE  Steady /\ GuestsKept
<1>1. procs \in Seq(Process) /\ TypeOK /\ status = "running" /\ Current.do = "mv"
  BY DEF Common, TypeOK, MoveLog, AtStep
<1>2. script = "slowtier" /\ Current.arg[2] \in Address
  BY <1>1, CurrentProper DEF Proper
<1> DEFINE to == Current.arg[2]
<1>3. procs' = [p \in Pids |-> IF procs[p].log = Current.arg[1] THEN [procs[p] EXCEPT !.log = to] ELSE procs[p]]
  BY DEF MoveLog
<1> HIDE DEF to
<1>4. ASSUME NEW x \in Pids
      PROVE  /\ procs'[x] \in Process /\ Fixed(procs[x], procs'[x])
             /\ procs'[x].guest = procs[x].guest /\ procs'[x].accepted = procs[x].accepted
  <2>1. procs[x] \in Process /\ to \in Address
    BY <1>1, <1>2 DEF Pids, to
  <2>2. CASE procs'[x] = procs[x]
    BY <2>1, <2>2 DEF Fixed
  <2>3. CASE procs'[x] = [procs[x] EXCEPT !.log = to]
    BY <1>2, <2>1, <2>3 DEF Process, Fixed
  <2> QED BY <1>3, <2>2, <2>3
<1>5. procs' = [x \in Pids |-> procs'[x]]
  BY <1>3
<1> QED BY <1>1, <1>4, <1>5, FrameOf DEF Steady, GuestsKept, GuestKept, AcceptedKept

(* A step that starts a process, and one that does not.                    *)
Spawns == Spawn /\ status = "running" /\ Current.do \in Spawning /\ Clock
Goes   == /\ Steady /\ GuestsKept /\ Clock /\ (waiting' # "no" => waiting # "no")
          /\ UNCHANGED <<images, dumped>>

LEMMA ScriptSteady ==
  ASSUME Common, ScriptStep
  PROVE  Spawns \/ Goes
<1>1. TypeOK /\ procs \in Seq(Process) /\ waiting \in {"no", "polling", "terminated"}
  BY DEF Common, TypeOK
<1>2. CASE StartInBackground
  BY <1>1, <1>2, PastClock DEF StartInBackground, AtStep, Spawns, Spawning
<1>3. CASE RunForeground
  BY <1>1, <1>3, StillClock DEF RunForeground, AtStep, Spawns, Spawning
<1>4. CASE RunSupervised
  BY <1>1, <1>4, StillClock DEF RunSupervised, AtStep, Spawns, Spawning
<1>5. CASE ForegroundEnds \/ SupervisedEnds
  BY <1>1, <1>5, PastClock, SameSteady DEF ForegroundEnds, SupervisedEnds, AtStep, Goes
<1>6. CASE TimesOut \/ StillThere
  <2>1. Newest \in Pids
    BY <1>1, <1>6 DEF TimesOut, StillThere, Common, WaitOK, Newest, Pids
  <2>2. Steady /\ GuestsKept
    BY <1>1, <1>6, <2>1, EndSteady, SameSteady DEF TimesOut, StillThere, Kill
  <2> QED BY <1>1, <1>6, <2>2, StillClock DEF TimesOut, StillThere, AtStep, Goes
<1>7. CASE SleepEnds \/ RemoveLogs \/ ReadLogs
  BY <1>1, <1>7, PastClock, SameSteady DEF SleepEnds, RemoveLogs, ReadLogs, AtStep, Goes
<1>8. CASE SendSigint
  BY <1>1, <1>8, PastClock, SigintSteady DEF SendSigint, AtStep, Goes
<1>9. CASE SendSigterm
  BY <1>1, <1>9, PastClock, SigtermSteady DEF SendSigterm, AtStep, Goes
<1>10. CASE MoveLog
  BY <1>1, <1>10, PastClock, MoveSteady DEF MoveLog, AtStep, Goes
<1>11. CASE Raises
  BY <1>1, <1>11, SameSteady DEF Raises, AtStep, Goes, Clock, TypeOK
<1> QED
  BY <1>2, <1>3, <1>4, <1>5, <1>6, <1>7, <1>8, <1>9, <1>10, <1>11 DEF ScriptStep

-----------------------------------------------------------------------------
(***************************************************************************)
(* The part of the invariant that is the same for all scripts.             *)
(***************************************************************************)

(* The step that starts p is the k-th.                                     *)
PlannedAt(proc, k) ==
  LET s == StepsOf[script][k] IN
  /\ s.do \in Spawning /\ proc.it = s.it
  /\ proc.role = s.proc.role /\ proc.job = s.proc.job /\ proc.host = s.proc.host
  /\ proc.in = s.proc.in /\ proc.out = s.proc.out
  /\ script # "slowtier" => proc.log = s.proc.log

LEMMA SteadyPlanned ==
  ASSUME Planned, Frame, script' = script
  PROVE  Planned'
<1> SUFFICES ASSUME NEW p \in Pids' PROVE \E k \in 1..Len(StepsOf[script]) : PlannedAt(procs'[p], k)
  BY DEF Planned, PlannedAt
<1>1. p \in Pids /\ Fixed(procs[p], procs'[p])
  BY DEF Frame, Pids
<1>2. PICK k \in 1..Len(StepsOf[script]) : PlannedAt(procs[p], k)
  BY <1>1 DEF Planned, PlannedAt
<1>3. PlannedAt(procs'[p], k)
  BY <1>1, <1>2 DEF PlannedAt, Fixed
<1> QED BY <1>3

LEMMA SteadyCommon ==
  ASSUME Common, Steady, ImagesFine, Clock, waiting' # "no" => waiting # "no"
  PROVE  Common'
<1>1. /\ procs' \in Seq(Process) /\ Len(procs') = Len(procs) /\ Pids' = Pids
      /\ \A p \in Pids : Fixed(procs[p], procs'[p])
  BY DEF Steady, Frame, Pids
<1>2. TypeOK'
  BY <1>1 DEF Common, TypeOK, Clock, ImagesFine
<1>3. Planned'
  BY SteadyPlanned DEF Common, Steady, Clock
<1>4. GuestOK'
  <2> SUFFICES ASSUME NEW p \in Pids
               PROVE  /\ procs'[p].role \in {"checkpoint", "native"} =>
                           procs'[p].guest = [job |-> procs'[p].job, it |-> procs'[p].it]
                      /\ procs'[p].guest # Empty =>
                           /\ procs'[p].guest.job = procs'[p].job
                           /\ procs'[p].in # Image => procs'[p].guest.it = procs'[p].it
    BY <1>1 DEF GuestOK
  <2>1. Fixed(procs[p], procs'[p]) /\ (GuestKept(p) \/ GuestFine(p))
    BY <1>1 DEF Steady
  <2> QED BY <2>1 DEF Common, GuestOK, GuestKept, GuestFine, Fixed
<1>5. AcceptOK'
  <2> SUFFICES ASSUME NEW p \in Pids, procs'[p].accepted # 0
               PROVE  LET q == procs'[p].accepted IN
                      /\ q \in Pids /\ procs'[q].in # Image
                      /\ procs'[q].job = procs'[p].job /\ procs'[q].it = procs'[p].it
    BY <1>1 DEF AcceptOK
  <2> DEFINE q == procs'[p].accepted
  <2>1. AcceptedKept(p) \/ AcceptedFine(p)
    BY DEF Steady
  <2>2. q \in Pids /\ procs[q].in # Image /\ procs[q].job = procs[p].job /\ procs[q].it = procs[p].it
    BY <2>1 DEF Common, AcceptOK, AcceptedKept, AcceptedFine
  <2> HIDE DEF q
  <2>3. Fixed(procs[p], procs'[p]) /\ Fixed(procs[q], procs'[q])
    BY <1>1, <2>2
  <2> QED BY <2>2, <2>3 DEF Fixed, q
<1>6. ListenOK'
  BY <1>1 DEF Common, ListenOK, Fixed
<1>7. WaitOK'
  BY <1>1 DEF Common, WaitOK
<1>8. ImagesOK'
  BY DEF Common, ImagesOK, ImagesFine
<1> QED BY <1>2, <1>3, <1>4, <1>5, <1>6, <1>7, <1>8 DEF Common

LEMMA StartedProcess ==
  ASSUME NEW proc \in Command, NEW it \in Nat, NEW new, new = Started(proc, it)
  PROVE  /\ new \in Process /\ new.st = "starting" /\ new.it = it /\ new.accepted = 0
         /\ new.role = proc.role /\ new.job = proc.job /\ new.host = proc.host
         /\ new.in = proc.in /\ new.out = proc.out /\ new.log = proc.log
         /\ proc.role \in {"checkpoint", "native"} => new.guest = [job |-> proc.job, it |-> it]
         /\ proc.role \notin {"checkpoint", "native"} => new.guest = Empty
<1>1. /\ proc.role \in Word /\ proc.job \in Word /\ proc.host \in Word
      /\ proc.in \in Address /\ proc.out \in Address /\ proc.log \in Address
  BY DEF Command
<1> DEFINE g == IF proc.role \in {"checkpoint", "native"} THEN [job |-> proc.job, it |-> it] ELSE Empty
           f == (script = "checkpoint_restore" /\ proc.role = "checkpoint")
<1>2. g \in Guest /\ f \in BOOLEAN
  BY <1>1, EmptyGuest DEF Guest
<1>3. new = [role |-> proc.role, job |-> proc.job, host |-> proc.host,
             in |-> proc.in, out |-> proc.out, log |-> proc.log,
             st |-> "starting", it |-> it, sent |-> FALSE, peer |-> 0, accepted |-> 0,
             flag |-> f, guest |-> g]
  BY DEF Started
<1>4. (proc.role \in {"checkpoint", "native"} => g = [job |-> proc.job, it |-> it])
      /\ (proc.role \notin {"checkpoint", "native"} => g = Empty)
  OBVIOUS
<1> HIDE DEF f, g
<1>5. new \in Process
  BY <1>1, <1>2, <1>3 DEF Process
<1> QED BY <1>3, <1>4, <1>5

(* The newest process.                                                     *)
New == procs'[Len(procs')]

LEMMA SpawnsNew ==
  ASSUME TypeOK, Spawns
  PROVE  /\ procs' \in Seq(Process) /\ Len(procs') = Len(procs) + 1 /\ Len(procs) \in Nat
         /\ Pids' = Pids \cup {Len(procs')} /\ Len(procs') \notin Pids
         /\ \A p \in Pids : procs'[p] = procs[p]
         /\ New \in Process /\ PlannedAt(New, pc) /\ New.st = "starting" /\ New.accepted = 0
         /\ New.role \in {"checkpoint", "native"} => New.guest = [job |-> New.job, it |-> New.it]
         /\ New.role \notin {"checkpoint", "native"} => New.guest = Empty
         /\ pc \in 1..Len(StepsOf[script]) /\ images' = images
<1> DEFINE proc == Current.proc
           new == Started(proc, Current.it)
<1>1. proc \in Command /\ Current.it \in Nat /\ Current.do \in Spawning /\ pc \in 1..Len(StepsOf[script])
  BY CurrentProper DEF Spawns, Proper, ProperProc
<1>2. procs' = Append(procs, new) /\ procs \in Seq(Process) /\ images' = images
  BY DEF Spawns, Spawn, TypeOK
<1>3. /\ new \in Process /\ new.st = "starting" /\ new.it = Current.it /\ new.accepted = 0
      /\ new.role = proc.role /\ new.job = proc.job /\ new.host = proc.host
      /\ new.in = proc.in /\ new.out = proc.out /\ new.log = proc.log
      /\ proc.role \in {"checkpoint", "native"} => new.guest = [job |-> proc.job, it |-> Current.it]
      /\ proc.role \notin {"checkpoint", "native"} => new.guest = Empty
  BY <1>1, StartedProcess
<1> HIDE DEF new
<1>4. /\ procs' \in Seq(Process) /\ Len(procs') = Len(procs) + 1 /\ Len(procs) \in Nat
      /\ Pids' = Pids \cup {Len(procs')} /\ Len(procs') \notin Pids
      /\ \A p \in Pids : procs'[p] = procs[p]
      /\ New = new
  BY <1>2, <1>3 DEF New, Pids
<1>5. PlannedAt(New, pc)
  BY <1>1, <1>3, <1>4 DEF PlannedAt, Current
<1> QED BY <1>1, <1>2, <1>3, <1>4, <1>5

LEMMA SpawnsCommon ==
  ASSUME Common, Spawns
  PROVE  Common'
<1> DEFINE n == Len(procs')
<1>1. /\ procs' \in Seq(Process) /\ Len(procs') = Len(procs) + 1 /\ Len(procs) \in Nat
      /\ Pids' = Pids \cup {n} /\ n \notin Pids
      /\ \A p \in Pids : procs'[p] = procs[p]
      /\ New \in Process /\ PlannedAt(New, pc) /\ New.st = "starting" /\ New.accepted = 0
      /\ New.role \in {"checkpoint", "native"} => New.guest = [job |-> New.job, it |-> New.it]
      /\ New.role \notin {"checkpoint", "native"} => New.guest = Empty
      /\ pc \in 1..Len(StepsOf[script]) /\ images' = images
  BY SpawnsNew DEF Common
<1>2. procs'[n] = New /\ script' = script
  BY DEF New, Spawns, Clock
<1> HIDE DEF n
<1>3. TypeOK'
  BY <1>1 DEF Common, TypeOK, Spawns, Clock
<1>4. Planned'
  <2> SUFFICES ASSUME NEW p \in Pids' PROVE \E k \in 1..Len(StepsOf[script]) : PlannedAt(procs'[p], k)
    BY <1>2 DEF Planned, PlannedAt
  <2>1. CASE p = n
    BY <1>1, <1>2, <2>1
  <2>2. CASE p \in Pids
    <3>1. procs'[p] = procs[p]
      BY <1>1, <2>2
    <3>2. \E k \in 1..Len(StepsOf[script]) : PlannedAt(procs[p], k)
      BY <2>2 DEF Common, Planned, PlannedAt
    <3> QED BY <1>2, <3>1, <3>2 DEF PlannedAt
  <2> QED BY <1>1, <2>1, <2>2
<1>5. GuestOK'
  BY <1>1, <1>2 DEF Common, GuestOK
<1>6. AcceptOK'
  <2> SUFFICES ASSUME NEW p \in Pids', procs'[p].accepted # 0
               PROVE  LET q == procs'[p].accepted IN
                      /\ q \in Pids' /\ procs'[q].in # Image
                      /\ procs'[q].job = procs'[p].job /\ procs'[q].it = procs'[p].it
    BY DEF AcceptOK
  <2>1. p \in Pids /\ procs'[p] = procs[p]
    BY <1>1, <1>2
  <2>2. PICK q \in Pids : q = procs[p].accepted /\ procs[q].in # Image
                          /\ procs[q].job = procs[p].job /\ procs[q].it = procs[p].it
    BY <2>1 DEF Common, AcceptOK
  <2>3. procs'[q] = procs[q] /\ q \in Pids'
    BY <1>1
  <2> QED BY <2>1, <2>2, <2>3
<1>7. ListenOK'
  BY <1>1, <1>2 DEF Common, ListenOK
<1>8. WaitOK'
  BY <1>1 DEF WaitOK
<1>9. ImagesOK'
  BY <1>1 DEF Common, ImagesOK
<1> QED BY <1>3, <1>4, <1>5, <1>6, <1>7, <1>8, <1>9 DEF Common

(* The cases of a step.                                                    *)
LEMMA Cases ==
  ASSUME Common, WiredOK, Next
  PROVE  \/ ProcessStep /\ Steady /\ ImagesFine /\ UNCHANGED script_vars
         \/ ScriptStep /\ (Spawns \/ Goes)
BY ProcessSteady, ScriptSteady DEF Next

LEMMA CommonStep ==
  ASSUME Common, WiredOK, Next
  PROVE  Common'
<1>1. CASE Steady /\ ImagesFine /\ UNCHANGED script_vars
  <2>1. Clock /\ waiting' = waiting
    BY <1>1, StillClock DEF script_vars, Common, TypeOK
  <2> QED BY <1>1, <2>1, SteadyCommon
<1>2. CASE Spawns
  BY <1>2, SpawnsCommon
<1>3. CASE Goes
  BY <1>3, SameImages, SteadyCommon DEF Goes
<1> QED BY <1>1, <1>2, <1>3, Cases

-----------------------------------------------------------------------------
(***************************************************************************)
(* Who is there, script by script.                                         *)
(***************************************************************************)

(* The j-th step of a block.                                               *)
IsStep(name, step, b, job, i, j) ==
  /\ step.it = b /\ step.do \in {"background", "sleep", "sigint", "kill", "cat"}
  /\ step.do = "background" <=> j \in {1, 3}
  /\ j = 1 => step.proc = Waiter(name, job)
  /\ j = 3 => step.proc = Mover(name, job, i) /\ (name = "slowtier_overhead" => step.arg = "append")
  /\ j \in {2, 4} => step.do = "sleep"
  /\ step.do = "kill" <=> j = Length(name) - 1
  /\ step.do = "kill" => step.proc.role = "restore" /\ step.proc.host = "remote"
  /\ step.do = "cat" <=> j = Length(name)
  /\ step.do = "cat" => step.arg = <<<<job, i>>>>

LEMMA BlockSteps ==
  ASSUME NEW name \in Overheads, NEW job, NEW i, NEW b, NEW j \in 1..Length(name),
         NEW step, step = In(Block(name, job, i)[j], b)
  PROVE  IsStep(name, step, b, job, i, j)
<1> DEFINE w == Waiter(name, job)
           m == Mover(name, job, i)
<1>1. CASE name = "burst_overhead"
  <2>1. Length(name) = 8
    BY <1>1 DEF Length
  <2>2. j = 1 \/ j = 2 \/ j = 3 \/ j = 4 \/ j = 5 \/ j = 6 \/ j = 7 \/ j = 8
    BY <2>1
  <2>3. Block(name, job, i) = <<Background(w, "append"), Sleep, Background(m, "truncate"), Sleep,
           Sigint("checkpoint", "local"), Sleep, Pkill("restore", "remote"), Cat(<<<<job, i>>>>)>>
    BY <1>1 DEF Block
  <2> HIDE DEF w, m
  <2>4. CASE j \in {1, 2, 3, 4}
    BY <1>1, <2>1, <2>3, <2>4 DEF IsStep, In, Background, Sleep, Sigint, Pkill, Cat, Step, Proc, w, m
  <2>5. CASE j \in {5, 6, 7, 8}
    BY <1>1, <2>1, <2>3, <2>5 DEF IsStep, In, Background, Sleep, Sigint, Pkill, Cat, Step, Proc
  <2> QED BY <2>2, <2>4, <2>5
<1>2. CASE name = "slowtier_overhead"
  <2>1. Length(name) = 7
    BY <1>2 DEF Length
  <2>2. j = 1 \/ j = 2 \/ j = 3 \/ j = 4 \/ j = 5 \/ j = 6 \/ j = 7
    BY <2>1
  <2>3. Block(name, job, i) = <<Background(w, "append"), Sleep, Background(m, "append"), Sleep,
           Sigint("checkpoint", "local"), Pkill("restore", "remote"), Cat(<<<<job, i>>>>)>>
    BY <1>2 DEF Block
  <2> HIDE DEF w, m
  <2>4. CASE j \in {1, 2, 3, 4}
    BY <1>2, <2>1, <2>3, <2>4 DEF IsStep, In, Background, Sleep, Sigint, Pkill, Cat, Step, Proc, w, m
  <2>5. CASE j \in {5, 6, 7}
    BY <1>2, <2>1, <2>3, <2>5 DEF IsStep, In, Background, Sleep, Sigint, Pkill, Cat, Step, Proc
  <2> QED BY <2>2, <2>4, <2>5
<1> QED BY <1>1, <1>2 DEF Overheads

Valid(b, job, i) == BlockAt(script, StepsOf[script], b, job, i)

(* Where the k-th step is.                                                 *)
LEMMA WhichStep ==
  ASSUME TypeOK, script \in Overheads, NEW k \in 1..Len(StepsOf[script])
  PROVE  \E b \in Nat \ {0} : \E job \in Job : \E i \in Nat : \E j \in 1..Length(script) :
           /\ k = Before(b) + j /\ Valid(b, job, i)
           /\ IsStep(script, StepsOf[script][k], b, job, i, j)
<1> DEFINE s == StepsOf[script]
           L == Length(script)
<1>1. OverheadScript(script, s)
  BY Scripted DEF TypeOK, Facts
<1> HIDE DEF s, L
<1>2. k \in 1..Len(s)
  BY DEF s
<1>3. PICK b \in Nat \ {0} : \E job \in Job : \E i \in Nat :
        (\E j \in 1..L : k = L * (b - 1) + j) /\ BlockAt(script, s, b, job, i)
  BY <1>1, <1>2 DEF OverheadScript, L
<1>4. PICK job \in Job : \E i \in Nat :
        (\E j \in 1..L : k = L * (b - 1) + j) /\ BlockAt(script, s, b, job, i)
  BY <1>3
<1>5. PICK i \in Nat : (\E j \in 1..L : k = L * (b - 1) + j) /\ BlockAt(script, s, b, job, i)
  BY <1>4
<1>6. PICK j \in 1..L : k = L * (b - 1) + j
  BY <1>5
<1> DEFINE step == In(Block(script, job, i)[j], b)
<1>7. s[k] = step
  BY <1>5, <1>6 DEF BlockAt, L
<1>8. IsStep(script, step, b, job, i, j)
  BY BlockSteps DEF L
<1> HIDE DEF step
<1>9. k = Before(b) + j /\ Valid(b, job, i) /\ j \in 1..Length(script)
  BY <1>5, <1>6 DEF Before, Valid, s, L
<1> QED BY <1>7, <1>8, <1>9 DEF s

LEMMA Lengths ==
  ASSUME script \in Overheads
  PROVE  /\ Length(script) = 7 \/ Length(script) = 8
         /\ \A b \in Nat \ {0} : Before(b) = Length(script) * (b - 1) /\ Before(b) \in Nat
<1>1. Length(script) = 7 \/ Length(script) = 8
  BY DEF Length
<1>2. ASSUME NEW b \in Nat \ {0} PROVE Length(script) * (b - 1) \in Nat
  BY <1>1
<1> QED BY <1>1, <1>2 DEF Before

(* Two blocks of the same iteration are one.                               *)
LEMMA ValidOnce ==
  ASSUME script \in Overheads, NEW b \in Nat \ {0}, NEW x, NEW m, NEW y, NEW n, Valid(b, x, m), Valid(b, y, n)
  PROVE  x = y /\ m = n
<1> DEFINE L == Length(script)
<1>1. L \in 1..L
  BY Lengths
<1>2. In(Block(script, x, m)[L], b) = In(Block(script, y, n)[L], b)
  BY <1>1 DEF Valid, BlockAt
<1>3. \A g, h : In(Block(script, g, h)[L], b).arg = <<<<g, h>>>>
  BY DEF In, Block, Cat, Step, Length, Overheads
<1>4. <<<<x, m>>>> = <<<<y, n>>>>
  <2> HIDE DEF L
  <2> QED BY <1>2, <1>3
<1> QED BY <1>4

LEMMA LogOfBlock ==
  ASSUME script \in Overheads, NEW b \in Nat \ {0}, NEW job, NEW i, Valid(b, job, i)
  PROVE  LogOf(b) = <<job, i>>
<1> DEFINE L == Length(script)
           step == In(Block(script, job, i)[L], b)
<1>1. L \in 1..L /\ L * (b - 1) + L = L * b
  BY Lengths
<1>2. StepsOf[script][L * (b - 1) + L] = step
  BY <1>1 DEF Valid, BlockAt
<1>3. step.arg = <<<<job, i>>>>
  BY DEF In, Block, Cat, Step, Length, Overheads
<1> HIDE DEF step, L
<1>4. LogOf(b) = step.arg[1]
  BY <1>1, <1>2 DEF LogOf, L
<1> QED BY <1>3, <1>4

InBlock(proc, job, i) ==
  /\ proc.it \in Nat \ {0} /\ Valid(proc.it, job, i) /\ proc.job = job
  /\ \/ /\ proc.role = "restore" /\ proc.host = "remote" /\ proc.out = Image
        /\ Network(proc.in) /\ proc.log = Nowhere
     \/ /\ proc.role = "checkpoint" /\ proc.in = Nowhere /\ Network(proc.out) /\ proc.log = <<job, i>>

(* A process of a block: its waiter or its mover.                          *)
LEMMA FromBlock ==
  ASSUME TypeOK, script \in Overheads, NEW proc, NEW k \in 1..Len(StepsOf[script]), PlannedAt(proc, k)
  PROVE  \E job \in Job : \E i \in Nat : InBlock(proc, job, i)
<1>1. PICK b \in Nat \ {0} : \E job \in Job : \E i \in Nat : \E j \in 1..Length(script) :
           /\ k = Before(b) + j /\ Valid(b, job, i)
           /\ IsStep(script, StepsOf[script][k], b, job, i, j)
  BY WhichStep
<1>2. PICK job \in Job : \E i \in Nat : \E j \in 1..Length(script) :
           /\ k = Before(b) + j /\ Valid(b, job, i)
           /\ IsStep(script, StepsOf[script][k], b, job, i, j)
  BY <1>1
<1>3. PICK i \in Nat : \E j \in 1..Length(script) :
           /\ k = Before(b) + j /\ Valid(b, job, i)
           /\ IsStep(script, StepsOf[script][k], b, job, i, j)
  BY <1>2
<1>4. PICK j \in 1..Length(script) :
           /\ k = Before(b) + j /\ Valid(b, job, i)
           /\ IsStep(script, StepsOf[script][k], b, job, i, j)
  BY <1>3
<1> DEFINE s == StepsOf[script][k]
<1>5. /\ s.do \in Spawning /\ proc.it = s.it
      /\ proc.role = s.proc.role /\ proc.job = s.proc.job /\ proc.host = s.proc.host
      /\ proc.in = s.proc.in /\ proc.out = s.proc.out
      /\ proc.log = s.proc.log
  BY DEF PlannedAt, Overheads
<1>6. s.it = b /\ (j = 1 \/ j = 3) /\ (j = 1 => s.proc = Waiter(script, job))
      /\ (j = 3 => s.proc = Mover(script, job, i))
  BY <1>4, <1>5 DEF IsStep, Spawning
<1> HIDE DEF s
<1> DEFINE a == IF script = "burst_overhead" THEN At("remote", 12347) ELSE At("remote", 12346)
           w == Waiter(script, job)
           m == Mover(script, job, i)
<1>7. Network(a)
  BY Addresses
<1>8. w = Proc("restore", job, "remote", a, Image, Nowhere) /\ m = Proc("checkpoint", job, "local", Nowhere, a, <<job, i>>)
  BY DEF Waiter, Mover
<1> HIDE DEF a, w, m
<1>9. /\ w.role = "restore" /\ w.job = job /\ w.host = "remote" /\ w.in = a /\ w.out = Image /\ w.log = Nowhere
      /\ m.role = "checkpoint" /\ m.job = job /\ m.in = Nowhere /\ m.out = a /\ m.log = <<job, i>>
  BY <1>8 DEF Proc
<1>10. CASE j = 1
  <2>1. s.proc = w
    BY <1>6, <1>10 DEF w
  <2>2. InBlock(proc, job, i)
    BY <1>4, <1>5, <1>6, <1>7, <1>9, <2>1 DEF InBlock
  <2> QED BY <2>2
<1>11. CASE j = 3
  <2>1. s.proc = m
    BY <1>6, <1>11 DEF m
  <2>2. InBlock(proc, job, i)
    BY <1>4, <1>5, <1>6, <1>7, <1>9, <2>1 DEF InBlock
  <2> QED BY <2>2
<1> QED BY <1>6, <1>10, <1>11

LEMMA OfBlock ==
  ASSUME Common, script \in Overheads, NEW p \in Pids
  PROVE  \E job \in Job : \E i \in Nat : InBlock(procs[p], job, i)
<1>1. TypeOK /\ \E k \in 1..Len(StepsOf[script]) : PlannedAt(procs[p], k)
  BY DEF Common, Planned, PlannedAt
<1> QED BY <1>1, FromBlock

(* What every process is, whatever the script.                             *)
ProperOne(proc) ==
  /\ script \notin Images => proc.in # Image
  /\ script \in Images => proc.job = "low"
  /\ proc.role = "dump" => script = "criu"
  /\ script \notin Networks => ~Network(proc.in) /\ ~Network(proc.out)
  /\ script \in Singles =>
       /\ proc.it = 1
       /\ Network(proc.in) => proc.job = JobAt(script, proc.in)
       /\ Network(proc.out) => proc.job = JobAt(script, proc.out)

LEMMA PlannedProper ==
  ASSUME Common, NEW p \in Pids
  PROVE  ProperOne(procs[p])
<1>1. PICK k \in 1..Len(StepsOf[script]) : PlannedAt(procs[p], k)
  BY DEF Common, Planned, PlannedAt
<1>2. Facts(script, StepsOf[script])
  BY Scripted DEF Common, TypeOK
<1> DEFINE s == StepsOf[script][k]
<1>3. ProperProc(script, s.proc) /\ (script \in Singles => s.it = 1)
  BY <1>1, <1>2 DEF Facts, ProperScript, Proper, PlannedAt
<1>4. /\ procs[p].it = s.it
      /\ procs[p].role = s.proc.role /\ procs[p].job = s.proc.job
      /\ procs[p].in = s.proc.in /\ procs[p].out = s.proc.out
  BY <1>1 DEF PlannedAt
<1> HIDE DEF s
<1> QED BY <1>3, <1>4 DEF ProperProc, ProperOne

(* checkpoint_restore: a checkpoint or a restore.                          *)
SaverOrRestorer(proc, k) ==
  /\ proc.it \in 1..trial /\ proc.host = "local" /\ proc.job = "low" /\ proc.out = Image
  /\ \/ proc.role = "checkpoint" /\ proc.in = Nowhere /\ k = 3 * proc.it - 2
     \/ proc.role = "restore" /\ proc.in = Image /\ k = 3 * proc.it - 1

(* The step and its number: the t-th time, one, two or three.              *)
IsThird(step, k, t, a, b, c) ==
  \/ k = 3 * t - 2 /\ step = In(a, t)
  \/ k = 3 * t - 1 /\ step = In(b, t)
  \/ k = 3 * t     /\ step = In(c, t)

LEMMA WhichThird ==
  ASSUME NEW s, NEW n \in Nat, NEW a, NEW b, NEW c, Three(s, n, a, b, c), NEW k \in 1..Len(s)
  PROVE  \E t \in 1..n : IsThird(s[k], k, t, a, b, c)
<1>1. PICK t \in 1..n : k \in {3 * (t - 1) + 1, 3 * (t - 1) + 2, 3 * (t - 1) + 3}
  BY DEF Three
<1>2. /\ s[3 * (t - 1) + 1] = In(a, t) /\ s[3 * (t - 1) + 2] = In(b, t) /\ s[3 * (t - 1) + 3] = In(c, t)
  BY DEF Three
<1>3. 3 * (t - 1) + 1 = 3 * t - 2 /\ 3 * (t - 1) + 2 = 3 * t - 1 /\ 3 * (t - 1) + 3 = 3 * t
  OBVIOUS
<1> QED BY <1>1, <1>2, <1>3 DEF IsThird

LEMMA ThirdOfSaver ==
  ASSUME TypeOK, script = "checkpoint_restore", NEW k \in 1..Len(StepsOf[script])
  PROVE  \E t \in 1..trial : IsThird(StepsOf[script][k], k, t, Foreground(Saver), Supervised(Restorer), Cat(<<Pipe>>))
<1>1. Three(StepsOf[script], trial, Foreground(Saver), Supervised(Restorer), Cat(<<Pipe>>))
  BY Scripted DEF TypeOK, Facts
<1> QED BY <1>1, WhichThird, TrialAssumption

LEMMA SaverSteps ==
  ASSUME TypeOK, script = "checkpoint_restore", status = "running"
  PROVE  \E t \in 1..trial :
           \/ pc = 3 * t - 2 /\ Current.do = "foreground"
           \/ pc = 3 * t - 1 /\ Current.do = "supervised"
           \/ pc = 3 * t     /\ Current.do = "cat"
<1>1. pc \in 1..Len(StepsOf[script])
  BY DEF TypeOK
<1>2. PICK t \in 1..trial : IsThird(Current, pc, t, Foreground(Saver), Supervised(Restorer), Cat(<<Pipe>>))
  BY <1>1, ThirdOfSaver DEF Current
<1>3. /\ In(Foreground(Saver), t).do = "foreground" /\ In(Supervised(Restorer), t).do = "supervised"
      /\ In(Cat(<<Pipe>>), t).do = "cat"
  BY DEF In, Foreground, Supervised, Cat, Step
<1> QED BY <1>2, <1>3 DEF IsThird

LEMMA SaverPlanned ==
  ASSUME TypeOK, script = "checkpoint_restore", NEW proc, NEW k \in 1..Len(StepsOf[script]), PlannedAt(proc, k)
  PROVE  SaverOrRestorer(proc, k)
<1>1. PICK t \in 1..trial : IsThird(StepsOf[script][k], k, t, Foreground(Saver), Supervised(Restorer), Cat(<<Pipe>>))
  BY ThirdOfSaver
<1>2. /\ In(Foreground(Saver), t).it = t /\ In(Foreground(Saver), t).proc = Saver
      /\ In(Supervised(Restorer), t).it = t /\ In(Supervised(Restorer), t).proc = Restorer
      /\ In(Cat(<<Pipe>>), t).do \notin Spawning
  BY DEF In, Foreground, Supervised, Cat, Step, Spawning
<1>3. /\ Saver.role = "checkpoint" /\ Saver.job = "low" /\ Saver.host = "local" /\ Saver.in = Nowhere /\ Saver.out = Image
      /\ Restorer.role = "restore" /\ Restorer.job = "low" /\ Restorer.host = "local" /\ Restorer.in = Image
      /\ Restorer.out = Image
  BY DEF Saver, Restorer, Proc
<1> DEFINE s == StepsOf[script][k]
<1>4. /\ proc.it = s.it /\ proc.role = s.proc.role /\ proc.job = s.proc.job /\ proc.host = s.proc.host
      /\ proc.in = s.proc.in /\ proc.out = s.proc.out /\ s.do \in Spawning
  BY DEF PlannedAt
<1>5. IsThird(s, k, t, Foreground(Saver), Supervised(Restorer), Cat(<<Pipe>>))
  BY <1>1
<1> HIDE DEF s
<1>6. CASE k = 3 * t - 2 /\ s = In(Foreground(Saver), t)
  BY <1>2, <1>3, <1>4, <1>6 DEF SaverOrRestorer
<1>7. CASE k = 3 * t - 1 /\ s = In(Supervised(Restorer), t)
  BY <1>2, <1>3, <1>4, <1>7 DEF SaverOrRestorer
<1> QED BY <1>2, <1>4, <1>5, <1>6, <1>7 DEF IsThird

LEMMA SaverOf ==
  ASSUME Common, script = "checkpoint_restore", NEW p \in Pids
  PROVE  \E k \in Nat : SaverOrRestorer(procs[p], k)
<1>1. TypeOK /\ \E k \in 1..Len(StepsOf[script]) : PlannedAt(procs[p], k)
  BY DEF Common, Planned, PlannedAt
<1> QED BY <1>1, SaverPlanned

(* criu: a native one, its dump or its restore.                            *)
OfCriu(proc, k) ==
  /\ proc.it \in 1..trial /\ proc.host = "local" /\ proc.job = "low"
  /\ \/ proc.role = "native" /\ proc.in = Nowhere /\ proc.out = Nowhere /\ k = 3 * proc.it - 2
     \/ proc.role = "dump" /\ proc.in = Nowhere /\ proc.out = Image /\ k = 3 * proc.it - 1
     \/ proc.role = "criu" /\ proc.in = Image /\ proc.out = Nowhere /\ k = 3 * proc.it

LEMMA ThirdOfCriu ==
  ASSUME TypeOK, script = "criu", NEW k \in 1..Len(StepsOf[script])
  PROVE  \E t \in 1..trial : IsThird(StepsOf[script][k], k, t,
                               Background(Victim, "append"), Supervised(Dumper), Supervised(Reviver))
<1>1. Three(StepsOf[script], trial, Background(Victim, "append"), Supervised(Dumper), Supervised(Reviver))
  BY Scripted DEF TypeOK, Facts
<1> QED BY <1>1, WhichThird, TrialAssumption

LEMMA CriuStepsAre ==
  ASSUME TypeOK, script = "criu", status = "running"
  PROVE  \E t \in 1..trial :
           \/ pc = 3 * t - 2 /\ Current.do = "background"
           \/ pc = 3 * t - 1 /\ Current.do = "supervised"
           \/ pc = 3 * t     /\ Current.do = "supervised"
<1>1. pc \in 1..Len(StepsOf[script])
  BY DEF TypeOK
<1>2. PICK t \in 1..trial : IsThird(Current, pc, t,
                               Background(Victim, "append"), Supervised(Dumper), Supervised(Reviver))
  BY <1>1, ThirdOfCriu DEF Current
<1>3. /\ In(Background(Victim, "append"), t).do = "background"
      /\ In(Supervised(Dumper), t).do = "supervised" /\ In(Supervised(Reviver), t).do = "supervised"
  BY DEF In, Background, Supervised, Step
<1> QED BY <1>2, <1>3 DEF IsThird

LEMMA CriuPlanned ==
  ASSUME TypeOK, script = "criu", NEW proc, NEW k \in 1..Len(StepsOf[script]), PlannedAt(proc, k)
  PROVE  OfCriu(proc, k)
<1>1. PICK t \in 1..trial : IsThird(StepsOf[script][k], k, t,
                               Background(Victim, "append"), Supervised(Dumper), Supervised(Reviver))
  BY ThirdOfCriu
<1>2. /\ In(Background(Victim, "append"), t).it = t /\ In(Background(Victim, "append"), t).proc = Victim
      /\ In(Supervised(Dumper), t).it = t /\ In(Supervised(Dumper), t).proc = Dumper
      /\ In(Supervised(Reviver), t).it = t /\ In(Supervised(Reviver), t).proc = Reviver
  BY DEF In, Background, Supervised, Step
<1>3. /\ Victim.role = "native" /\ Victim.job = "low" /\ Victim.host = "local" /\ Victim.in = Nowhere /\ Victim.out = Nowhere
      /\ Dumper.role = "dump" /\ Dumper.job = "low" /\ Dumper.host = "local" /\ Dumper.in = Nowhere /\ Dumper.out = Image
      /\ Reviver.role = "criu" /\ Reviver.job = "low" /\ Reviver.host = "local" /\ Reviver.in = Image
      /\ Reviver.out = Nowhere
  BY DEF Victim, Dumper, Reviver, Proc
<1> DEFINE s == StepsOf[script][k]
<1>4. /\ proc.it = s.it /\ proc.role = s.proc.role /\ proc.job = s.proc.job /\ proc.host = s.proc.host
      /\ proc.in = s.proc.in /\ proc.out = s.proc.out
  BY DEF PlannedAt
<1>5. IsThird(s, k, t, Background(Victim, "append"), Supervised(Dumper), Supervised(Reviver))
  BY <1>1
<1> HIDE DEF s
<1>6. CASE k = 3 * t - 2 /\ s = In(Background(Victim, "append"), t)
  BY <1>2, <1>3, <1>4, <1>6 DEF OfCriu
<1>7. CASE k = 3 * t - 1 /\ s = In(Supervised(Dumper), t)
  BY <1>2, <1>3, <1>4, <1>7 DEF OfCriu
<1>8. CASE k = 3 * t /\ s = In(Supervised(Reviver), t)
  BY <1>2, <1>3, <1>4, <1>8 DEF OfCriu
<1> QED BY <1>5, <1>6, <1>7, <1>8 DEF IsThird

LEMMA CriuOf ==
  ASSUME Common, script = "criu", NEW p \in Pids
  PROVE  \E k \in Nat : OfCriu(procs[p], k)
<1>1. TypeOK /\ \E k \in 1..Len(StepsOf[script]) : PlannedAt(procs[p], k)
  BY DEF Common, Planned, PlannedAt
<1> QED BY <1>1, CriuPlanned

(***************************************************************************)
(* Nobody connects to anyone but the process that the script means.        *)
(***************************************************************************)
Together(p, q) ==
  procs[p].in # Image /\ procs[q].job = procs[p].job /\ procs[q].it = procs[p].it

LEMMA WiredBlocks ==
  ASSUME Common, InTheirBlock, script \in Overheads, NEW p \in Pids, NEW q \in Pids,
         procs[p].st \in {"starting", "listening"}, Bound(q), procs[q].in = procs[p].out
  PROVE  Together(p, q)
<1>1. PICK job \in Job : \E i \in Nat : InBlock(procs[p], job, i)
  BY OfBlock
<1>2. PICK i \in Nat : InBlock(procs[p], job, i)
  BY <1>1
<1>3. PICK bog \in Job : \E h \in Nat : InBlock(procs[q], bog, h)
  BY OfBlock
<1>4. PICK h \in Nat : InBlock(procs[q], bog, h)
  BY <1>3
<1>5. Network(procs[p].out) /\ Network(procs[q].in) /\ Live(q)
  BY DEF Bound, Network, Live
<1>6. procs[p].role = "checkpoint" /\ procs[p].in = Nowhere /\ procs[q].role = "restore"
  BY <1>2, <1>4, <1>5, Addresses DEF InBlock
<1>7. procs[p].st = "starting"
  BY <1>6 DEF Common, ListenOK
<1> DEFINE a == procs[p].it
           b == procs[q].it
           L == Length(script)
<1>8. a \in Nat \ {0} /\ b \in Nat \ {0} /\ (L = 7 \/ L = 8) /\ Before(a) = L * (a - 1) /\ Before(b) = L * (b - 1)
  BY <1>2, <1>4, Lengths DEF InBlock
<1>9. pc = Before(a) + 4 /\ pc - Before(b) \in 2..L - 1
  BY <1>5, <1>6, <1>7 DEF InTheirBlock
<1>10. a = b
  <2> HIDE DEF a, b, L
  <2>1. CASE L = 7
    BY <1>8, <1>9, <2>1
  <2>2. CASE L = 8
    BY <1>8, <1>9, <2>2
  <2> QED BY <1>8, <2>1, <2>2
<1>11. job = bog
  BY <1>2, <1>4, <1>8, <1>10, ValidOnce DEF InBlock
<1>12. Nowhere # Image
  BY Addresses
<1> QED BY <1>2, <1>4, <1>6, <1>10, <1>11, <1>12 DEF Together, InBlock

LEMMA Wired ==
  ASSUME Common, InTheirBlock
  PROVE  WiredOK
<1>1. ASSUME NEW p \in Pids, NEW q \in Pids,
             procs[p].st \in {"starting", "listening"}, Bound(q), procs[q].in = procs[p].out
      PROVE  Together(p, q)
  <2>1. Network(procs[q].in) /\ Network(procs[p].out) /\ ProperOne(procs[p]) /\ ProperOne(procs[q])
    BY <1>1, PlannedProper DEF Bound, Network
  <2>2. CASE script \in Overheads
    BY <1>1, <2>2, WiredBlocks
  <2>3. CASE script \in Singles
    <3>1. script \notin Images
      BY <2>3 DEF Singles, Images
    <3> QED BY <1>1, <2>1, <2>3, <3>1 DEF ProperOne, Together
  <2>4. CASE script \notin Networks
    BY <2>1, <2>4 DEF ProperOne
  <2> QED BY <2>2, <2>3, <2>4 DEF Overheads, Singles, Networks
<1>2. ASSUME NEW p \in Pids, NEW q \in Pids, procs[p].role = "dump"
      PROVE  procs[q].job = procs[p].job
  <2>1. ProperOne(procs[p]) /\ ProperOne(procs[q])
    BY PlannedProper
  <2> QED BY <1>2, <2>1 DEF ProperOne, Images
<1> QED BY <1>1, <1>2 DEF WiredOK, Together

-----------------------------------------------------------------------------
(***************************************************************************)
(* checkpoint_restore.                                                     *)
(***************************************************************************)
Restored == RestoredGuestIsTheRightOne

(* A step of a process either leaves the file alone, once the checkpoint   *)
(* of this iteration has opened it, or empties it, or leaves a guest of    *)
(* this iteration there.                                                   *)
LowFileKept(n) ==
  images' = images /\ ~(procs[n].role = "checkpoint" /\ procs[n].st = "starting")
LowFileFresh(n) ==
  \E guest \in {Empty, [job |-> "low", it |-> procs[n].it]} : images' = With(images, LowFile, guest)

LEMMA SaverImages ==
  ASSUME Common, OneAtATime, Restored, script = "checkpoint_restore", ProcessStep
  PROVE  LowFileKept(Len(procs)) \/ LowFileFresh(Len(procs))
<1>1. PICK p \in Pids : \/ StartCheckpoint(p) \/ StartNative(p) \/ Bind(p) \/ Read(p)
                        \/ Receive(p) \/ Finish(p) \/ Snapshot(p) \/ Dump(p)
  BY DEF ProcessStep
<1>2. Live(p)
  BY <1>1 DEF StartCheckpoint, StartNative, Bind, Read, Receive, Finish, Snapshot, Dump, Live
<1>3. p = Len(procs)
  BY <1>2 DEF OneAtATime
<1>4. PICK k \in Nat : SaverOrRestorer(procs[p], k)
  BY SaverOf
<1>5. /\ File(p) = LowFile /\ procs[p].out = Image
      /\ procs[p].role \in {"checkpoint", "restore"}
      /\ procs[p].role = "restore" => procs[p].in = Image
  <2>1. (procs[p].role \in {"dump", "criu"}) = FALSE
    BY <1>4 DEF SaverOrRestorer
  <2>2. File(p) = LowFile
    BY <1>4, <2>1 DEF SaverOrRestorer, File, LowFile
  <2> QED BY <1>4, <2>2 DEF SaverOrRestorer
<1>6. Opened(p) = With(images, LowFile, Empty)
  BY <1>5 DEF Opened
<1>7. CASE StartCheckpoint(p)
  BY <1>3, <1>6, <1>7 DEF StartCheckpoint, LowFileFresh
<1>8. ~StartNative(p) /\ ~Bind(p) /\ ~Dump(p)
  BY <1>5 DEF StartNative, Bind, Dump
<1>9. ~Receive(p)
  BY <1>5 DEF Receive, Common, ListenOK
<1>10. CASE Read(p)
  BY <1>3, <1>5, <1>6, <1>10 DEF Read, Resume, LowFileFresh, LowFileKept
<1>11. CASE Finish(p)
  BY <1>3, <1>11 DEF Finish, LowFileKept
<1>12. CASE Snapshot(p)
  <2>1. images' = With(images, LowFile, procs[p].guest)
    BY <1>5, <1>12 DEF Snapshot
  <2> DEFINE guest == procs[p].guest
  <2>2. guest \in Guest /\ Common /\ p \in Pids
    <3>1. procs[p] \in Process
      BY DEF Common, TypeOK, Pids
    <3> QED BY <3>1 DEF Process
  <2>3. guest # Empty => guest.job = procs[p].job /\ guest.it = procs[p].it
    <3>1. CASE procs[p].role = "checkpoint"
      <4>1. guest = [job |-> procs[p].job, it |-> procs[p].it]
        BY <3>1 DEF Common, GuestOK
      <4> HIDE DEF guest
      <4> QED BY <4>1
    <3>2. CASE procs[p].role = "restore"
      BY <3>2 DEF Common, GuestOK, Restored, RestoredGuestIsTheRightOne
    <3> QED BY <1>5, <3>1, <3>2
  <2>4. procs[p].job = "low"
    BY <1>4 DEF SaverOrRestorer
  <2> HIDE DEF guest
  <2>5. guest \in {Empty, [job |-> "low", it |-> procs[p].it]}
    BY <2>2, <2>3, <2>4 DEF Guest
  <2> QED BY <1>3, <2>1, <2>5 DEF LowFileFresh, guest
<1> QED BY <1>1, <1>7, <1>8, <1>9, <1>10, <1>11, <1>12

LEMMA SaverProcess ==
  ASSUME Common, OneAtATime, Restored, script = "checkpoint_restore", ProcessStep, Steady, UNCHANGED script_vars
  PROVE  OneAtATime'
<1> DEFINE n == Len(procs)
<1>1. LowFileKept(n) \/ LowFileFresh(n)
  BY SaverImages
<1>2. /\ Len(procs') = n /\ Pids' = Pids /\ n \in Nat /\ (n # 0 => n \in Pids)
      /\ \A p \in Pids : Fixed(procs[p], procs'[p])
  BY DEF Steady, Frame, Common, TypeOK, Pids
<1>3. script' = script /\ pc' = pc /\ waiting' = waiting
  BY DEF script_vars
<1>4. ASSUME NEW p \in Pids PROVE Live(p)' => Live(p)
  BY <1>2 DEF Fixed, Live
<1>5. /\ n = 0 => pc = 1 /\ waiting = "no"
      /\ \A p \in Pids : p # n => ~Live(p)
      /\ n # 0 => Turn /\ Fresh
  BY DEF OneAtATime
<1>6. ASSUME n # 0
      PROVE  /\ Newly' = procs'[n] /\ Fixed(Newly, Newly')
             /\ Newly'.role = Newly.role /\ Newly'.it = Newly.it
             /\ (Newly.st = "ended" => Newly'.st = "ended") /\ (Newly'.st = "starting" => Newly.st = "starting")
  <2>1. Newly' = procs'[n] /\ Newly = procs[n]
    BY <1>2 DEF Newly
  <2>2. Fixed(Newly, Newly')
    BY <1>2, <1>6, <2>1
  <2> QED BY <2>1, <2>2 DEF Fixed
<1>7. ASSUME n # 0 PROVE Turn'
  BY <1>3, <1>5, <1>6, <1>7 DEF Turn
<1>8. ASSUME n # 0 PROVE Fresh'
  <2>1. CASE LowFileKept(n)
    BY <1>5, <1>6, <1>8, <2>1 DEF LowFileKept, Fresh, Newly
  <2>2. CASE LowFileFresh(n)
    <3>1. PICK guest \in {Empty, [job |-> "low", it |-> Newly.it]} : images' = With(images, LowFile, guest)
      BY <2>2 DEF LowFileFresh, Newly
    <3>2. images'[LowFile] = guest
      BY <3>1 DEF With
    <3> QED BY <1>6, <1>8, <3>2 DEF Fresh
  <2> QED BY <1>1, <2>1, <2>2
<1> HIDE DEF n
<1> QED
  BY <1>2, <1>3, <1>4, <1>5, <1>7, <1>8 DEF OneAtATime

LEMMA SaverRuns ==
  ASSUME Common, OneAtATime, script = "checkpoint_restore", Spawns, waiting = "no",
         pc' = pc, waiting' = "polling",
         NEW t \in 1..trial, pc = 3 * t - 2 \/ pc = 3 * t - 1
  PROVE  OneAtATime'
<1> DEFINE n == Len(procs)
<1>1. /\ Len(procs') = n + 1 /\ n \in Nat /\ Pids' = Pids \cup {n + 1}
      /\ \A p \in Pids : procs'[p] = procs[p]
      /\ PlannedAt(New, pc) /\ New.st = "starting"
      /\ pc \in 1..Len(StepsOf[script]) /\ images' = images
  BY SpawnsNew DEF Common
<1>2. SaverOrRestorer(New, pc) /\ t \in Nat /\ t >= 1
  BY <1>1, SaverPlanned DEF Common
<1>3. New.it \in Nat
  BY <1>2 DEF SaverOrRestorer
<1>4. \/ pc = 3 * t - 2 /\ New.role = "checkpoint" /\ New.it = t
      \/ pc = 3 * t - 1 /\ New.role = "restore" /\ New.it = t
  BY <1>2, <1>3 DEF SaverOrRestorer
<1>5. ASSUME n # 0
      PROVE  /\ Newly.st = "ended"
             /\ pc = 3 * t - 1 => Newly.role = "checkpoint" /\ Newly.it = t
  <2>1. n \in Pids /\ Newly = procs[n]
    BY <1>1, <1>5 DEF Newly, Pids
  <2>2. PICK k \in Nat : SaverOrRestorer(Newly, k)
    BY <2>1, SaverOf
  <2>3. Newly.it \in Nat /\ Newly.role \in {"checkpoint", "restore"}
    BY <2>2 DEF SaverOrRestorer
  <2>4. Turn
    BY <1>5 DEF OneAtATime
  <2> QED BY <1>2, <2>3, <2>4 DEF Turn
<1>6. \A p \in Pids' : p # n + 1 => ~Live(p)'
  <2> SUFFICES ASSUME NEW p \in Pids PROVE procs[p].st = "ended"
    BY <1>1 DEF Live
  <2>1. CASE p = n
    <3>1. n # 0
      BY <2>1 DEF Pids, Common, TypeOK
    <3> QED BY <1>5, <2>1, <3>1 DEF Newly
  <2>2. CASE p # n
    BY <2>2 DEF OneAtATime, Live
  <2> QED BY <2>1, <2>2
<1>7. Newly' = New
  BY DEF Newly, New
<1>8. Turn'
  BY <1>2, <1>4, <1>7 DEF Turn
<1>9. Fresh'
  <2>1. CASE pc = 3 * t - 2
    BY <1>1, <1>2, <1>4, <1>7, <2>1 DEF Fresh
  <2>2. CASE pc = 3 * t - 1
    <3>1. n # 0
      BY <1>2, <2>2 DEF OneAtATime
    <3>2. Fresh /\ Newly.st = "ended" /\ Newly.it = t
      BY <1>5, <2>2, <3>1 DEF OneAtATime
    <3>3. New.it = t
      BY <1>4
    <3> QED BY <1>1, <1>7, <3>2, <3>3 DEF Fresh
  <2> QED BY <2>1, <2>2
<1>10. script' = script
  BY DEF Spawns, Clock
<1> HIDE DEF n
<1> QED BY <1>1, <1>6, <1>8, <1>9, <1>10 DEF OneAtATime, n

LEMMA SaverScript ==
  ASSUME Common, OneAtATime, script = "checkpoint_restore", ScriptStep, Spawns \/ Goes
  PROVE  OneAtATime'
<1> DEFINE n == Len(procs)
<1>1. status = "running" /\ script' = script
  BY DEF ScriptStep, StartInBackground, RunForeground, ForegroundEnds, RunSupervised, SupervisedEnds,
         TimesOut, StillThere, SleepEnds, SendSigint, SendSigterm, RemoveLogs, MoveLog, ReadLogs, Raises, AtStep
<1>2. PICK t \in 1..trial : \/ pc = 3 * t - 2 /\ Current.do = "foreground"
                            \/ pc = 3 * t - 1 /\ Current.do = "supervised"
                            \/ pc = 3 * t     /\ Current.do = "cat"
  BY <1>1, SaverSteps DEF Common
<1>3. t \in Nat /\ t >= 1 /\ n \in Nat /\ procs \in Seq(Process)
  BY TrialAssumption DEF Common, TypeOK
<1>4. \/ RunForeground \/ ForegroundEnds \/ RunSupervised \/ SupervisedEnds \/ TimesOut
      \/ StillThere \/ ReadLogs
  BY <1>2 DEF ScriptStep, StartInBackground, SleepEnds, SendSigint, SendSigterm, RemoveLogs, MoveLog, Raises, AtStep
<1>5. n # 0 => /\ Turn /\ Fresh /\ Newly.it \in Nat /\ Newly.role \in {"checkpoint", "restore"}
               /\ n \in Pids /\ Newly = procs[n] /\ Newly \in Process
  <2> SUFFICES ASSUME n # 0
               PROVE  /\ Turn /\ Fresh /\ Newly.it \in Nat /\ Newly.role \in {"checkpoint", "restore"}
                      /\ n \in Pids /\ Newly = procs[n] /\ Newly \in Process
    OBVIOUS
  <2>1. n \in Pids /\ Newly = procs[n]
    BY <1>3 DEF Pids, Newly
  <2>2. PICK k \in Nat : SaverOrRestorer(Newly, k)
    BY <2>1, SaverOf
  <2>3. Newly \in Process
    BY <1>3, <2>1 DEF Pids
  <2> QED BY <2>1, <2>2, <2>3 DEF SaverOrRestorer, OneAtATime
<1>6. waiting # "no" => n # 0
  BY DEF Common, WaitOK
<1>7. CASE RunForeground \/ RunSupervised
  <2>1. Spawns
    <3>1. Clock
      BY <1>7, StillClock DEF RunForeground, RunSupervised, AtStep, Common, TypeOK
    <3> QED BY <1>1, <1>2, <1>7, <3>1 DEF RunForeground, RunSupervised, AtStep, Spawns, Spawning
  <2> QED BY <1>2, <1>7, <2>1, SaverRuns DEF RunForeground, RunSupervised, AtStep
<1>8. ASSUME procs' = procs, images' = images, n # 0, Turn'
      PROVE  OneAtATime'
  <2>1. Fresh'
    BY <1>5, <1>8 DEF Fresh, Newly
  <2> QED BY <1>1, <1>8, <2>1 DEF OneAtATime, Live, Pids
<1>9. CASE ForegroundEnds
  <2>1. /\ pc = 3 * t - 2 /\ n # 0 /\ Newly.st = "ended" /\ procs' = procs /\ images' = images
        /\ pc' = pc + 1 /\ waiting' = "no" /\ waiting = "polling" /\ Newly' = Newly
    BY <1>2, <1>6, <1>9 DEF ForegroundEnds, AtStep, Past, Newest, Newly, Live
  <2>2. Turn'
    BY <1>3, <1>5, <2>1 DEF Turn
  <2> QED BY <1>8, <2>1, <2>2
<1>10. CASE SupervisedEnds
  <2>1. /\ pc = 3 * t - 1 /\ n # 0 /\ Newly.st = "ended" /\ procs' = procs /\ images' = images
        /\ pc' = pc + 1 /\ waiting' = "no" /\ waiting # "no" /\ Newly' = Newly
    BY <1>2, <1>6, <1>10 DEF SupervisedEnds, AtStep, Past, Newest, Newly, Live
  <2>2. Turn'
    BY <1>3, <1>5, <2>1, SMTT(30) DEF Turn
  <2> QED BY <1>8, <2>1, <2>2
<1>11. CASE ReadLogs
  <2>1. pc = 3 * t /\ n # 0
    <3>1. pc = 3 * t
      BY <1>2, <1>11 DEF ReadLogs, AtStep
    <3> QED BY <1>3, <3>1 DEF OneAtATime
  <2>2. procs' = procs /\ images' = images /\ pc' = pc + 1 /\ waiting' = waiting /\ Newly' = Newly
    BY <1>11 DEF ReadLogs, Past, Newly
  <2>3. Turn'
    BY <1>3, <1>5, <2>1, <2>2 DEF Turn
  <2> QED BY <1>8, <2>1, <2>2, <2>3
<1>12. CASE TimesOut \/ StillThere
  <2>1. /\ pc = 3 * t - 1 /\ n # 0 /\ (procs' = procs \/ End(n)) /\ images' = images
        /\ pc' = pc /\ waiting' # "no" /\ waiting # "no"
    BY <1>2, <1>6, <1>12 DEF TimesOut, StillThere, Kill, AtStep, Newest
  <2>2. Newly.role = "restore" /\ pc = 3 * Newly.it - 1
    BY <1>3, <1>5, <2>1 DEF Turn
  <2>3. /\ Len(procs') = n /\ Pids' = Pids /\ procs'[n].role = Newly.role /\ procs'[n].it = Newly.it
        /\ \A p \in Pids : p # n => procs'[p] = procs[p]
    <3>1. CASE procs' = procs
      BY <1>5, <2>1, <3>1 DEF Pids
    <3>2. CASE End(n)
      <4> DEFINE now == [procs[n] EXCEPT !.st = "ended"]
      <4>1. procs' = [procs EXCEPT ![n] = now]
        BY <3>2 DEF End, Put
      <4>2. now.role = Newly.role /\ now.it = Newly.it
        BY <1>5, <2>1 DEF Process
      <4> HIDE DEF now
      <4>3. Len(procs') = n /\ Pids' = Pids /\ procs'[n] = now /\ \A p \in Pids : p # n => procs'[p] = procs[p]
        BY <1>3, <1>5, <2>1, <4>1 DEF Pids
      <4> QED BY <4>2, <4>3
    <3> QED BY <2>1, <3>1, <3>2
  <2>4. Newly' = procs'[n]
    BY <2>3 DEF Newly
  <2>5. Turn'
    BY <2>1, <2>2, <2>3, <2>4 DEF Turn
  <2>6. Fresh'
    BY <1>5, <2>1, <2>2, <2>3, <2>4 DEF Fresh
  <2> HIDE DEF n
  <2> QED BY <1>1, <2>1, <2>3, <2>5, <2>6 DEF OneAtATime, Live, n
<1> QED BY <1>4, <1>7, <1>9, <1>10, <1>11, <1>12

-----------------------------------------------------------------------------
(***************************************************************************)
(* criu.                                                                   *)
(***************************************************************************)
CriuKept ==
  images' = images /\ dumped' = dumped

CriuDumps(p) ==
  /\ procs[p].role = "dump" /\ Live(p)
  /\ images' = With(images, CriuFile, [job |-> "low", it |-> procs[p].it])
  /\ dumped' = dumped \cup {procs[p].it}

LEMMA CriuImages ==
  ASSUME Common, script = "criu", NEW p \in Pids,
         \/ StartCheckpoint(p) \/ StartNative(p) \/ Bind(p) \/ Read(p)
         \/ Receive(p) \/ Finish(p) \/ Snapshot(p) \/ Dump(p)
  PROVE  CriuKept \/ CriuDumps(p)
<1>1. PICK k \in Nat : OfCriu(procs[p], k)
  BY CriuOf
<1>2. procs[p].role \in {"native", "dump", "criu"}
  BY <1>1 DEF OfCriu
<1>3. ~StartCheckpoint(p) /\ ~Bind(p) /\ ~Receive(p) /\ ~Snapshot(p)
  BY <1>2 DEF StartCheckpoint, Bind, Receive, Snapshot, Common, ListenOK
<1>4. CASE StartNative(p) \/ Finish(p)
  BY <1>4 DEF StartNative, Finish, CriuKept
<1>5. CASE Read(p)
  <2>1. procs[p].out # Image
    BY <1>1, <1>5, Addresses DEF OfCriu, Read
  <2> QED BY <1>5, <2>1 DEF Read, Resume, Opened, CriuKept
<1>6. CASE Dump(p)
  <2>1. CASE End(p) /\ images' = images /\ dumped' = dumped
    BY <2>1 DEF CriuKept
  <2>2. CASE \E q \in Pids : DumpOf(p, q)
    <3>1. PICK q \in Pids : DumpOf(p, q)
      BY <2>2
    <3>2. procs[p].role = "dump" /\ procs[p].st = "starting"
      BY <1>6 DEF Dump
    <3>3. (procs[p].role \in {"dump", "criu"}) = TRUE
      BY <3>2
    <3>4. File(p) = CriuFile
      BY <1>1, <3>3 DEF OfCriu, File, CriuFile
    <3>5. PICK h \in Nat : OfCriu(procs[q], h)
      BY CriuOf
    <3>6. procs[q].guest = [job |-> "low", it |-> procs[p].it]
      BY <3>1, <3>5 DEF OfCriu, DumpOf, Common, GuestOK
    <3> QED BY <3>1, <3>2, <3>4, <3>6 DEF DumpOf, CriuDumps, Live
  <2> QED BY <1>6, <2>1, <2>2, DumpCases
<1> QED BY <1>3, <1>4, <1>5, <1>6

LEMMA CriuFrame ==
  ASSUME Common, DumpedOK, script = "criu", Steady, pc' = pc, waiting' = "no" <=> waiting = "no"
  PROVE  /\ \A p \in Pids' : AtCriu(p)'
         /\ waiting' # "no" => Newly'.role # "native" /\ pc' \in {3 * Newly'.it, 3 * Newly'.it - 1}
<1>1. /\ Len(procs') = Len(procs) /\ Pids' = Pids
      /\ \A p \in Pids : Fixed(procs[p], procs'[p])
  BY DEF Steady, Frame, Pids
<1>2. pc' = pc /\ (waiting' = "no" <=> waiting = "no")
  OBVIOUS
<1>3. ASSUME NEW p \in Pids PROVE AtCriu(p)'
  <2>1. procs'[p].it = procs[p].it /\ procs'[p].role = procs[p].role /\ (Live(p)' => Live(p))
    BY <1>1 DEF Fixed, Live
  <2>2. AtCriu(p)
    BY DEF DumpedOK
  <2> QED BY <1>1, <1>2, <2>1, <2>2 DEF AtCriu, Live
<1>4. ASSUME waiting # "no" PROVE Newly'.role = Newly.role /\ Newly'.it = Newly.it
  <2>1. Len(procs) \in Pids
    BY <1>4 DEF Common, WaitOK, TypeOK, Pids
  <2> QED BY <1>1, <2>1 DEF Fixed, Newly
<1> QED BY <1>1, <1>2, <1>3, <1>4 DEF DumpedOK

LEMMA CriuProcess ==
  ASSUME Common, DumpedOK, script = "criu", ProcessStep, Steady, UNCHANGED script_vars
  PROVE  DumpedOK'
<1>1. PICK p \in Pids : \/ StartCheckpoint(p) \/ StartNative(p) \/ Bind(p) \/ Read(p)
                        \/ Receive(p) \/ Finish(p) \/ Snapshot(p) \/ Dump(p)
  BY DEF ProcessStep
<1>2. CriuKept \/ CriuDumps(p)
  BY <1>1, CriuImages
<1>3. pc' = pc /\ script' = script /\ waiting' = waiting
  BY DEF script_vars
<1>4. pc \in Nat
  BY DEF Common, TypeOK
<1>5. \A b \in dumped : InImage(b)
  BY DEF DumpedOK
<1>6. ASSUME NEW b \in dumped' PROVE InImage(b)'
  <2>1. CASE CriuKept
    BY <1>3, <1>5, <1>6, <2>1 DEF CriuKept, InImage
  <2>2. CASE CriuDumps(p)
    <3> DEFINE guest == [job |-> "low", it |-> procs[p].it]
    <3>1. images' = With(images, CriuFile, guest) /\ dumped' = dumped \cup {procs[p].it}
      BY <2>2 DEF CriuDumps
    <3>2. CriuFile \in DOMAIN images' /\ images'[CriuFile] = guest
      BY <3>1 DEF With
    <3>3. PICK k \in Nat : OfCriu(procs[p], k)
      BY CriuOf
    <3>4. procs[p].it \in Nat /\ pc = 3 * procs[p].it - 1
      BY <2>2, <3>3, TrialAssumption DEF OfCriu, CriuDumps, DumpedOK, AtCriu
    <3>5. CASE b = procs[p].it
      BY <1>3, <3>2, <3>4, <3>5 DEF InImage
    <3>6. CASE b \in dumped
      <4>1. InImage(b)
        BY <1>5, <3>6
      <4>2. b \in Nat /\ 3 * b - 1 <= pc
        BY <4>1 DEF InImage
      <4>3. pc <= 3 * b => b = procs[p].it
        BY <3>4, <4>2
      <4> QED BY <1>3, <3>5, <4>2, <4>3, <3>2 DEF InImage
    <3> QED BY <3>1, <3>5, <3>6
  <2> QED BY <1>2, <2>1, <2>2
<1> QED BY <1>3, <1>6, CriuFrame DEF DumpedOK

LEMMA CriuSpawns ==
  ASSUME Common, DumpedOK, script = "criu", Spawns, waiting = "no", dumped' = dumped,
         \/ pc' = pc + 1 /\ waiting' = "no" /\ New.role = "native"
         \/ pc' = pc /\ waiting' = "polling" /\ New.role # "native"
  PROVE  DumpedOK'
<1>0. PICK m \in Nat : m = Len(procs) + 1
  BY DEF Common, TypeOK
<1>1. /\ Len(procs') = m /\ Pids' = Pids \cup {m} /\ m \notin Pids
      /\ \A p \in Pids : procs'[p] = procs[p]
      /\ PlannedAt(New, pc) /\ pc \in 1..Len(StepsOf[script]) /\ images' = images
  BY <1>0, SpawnsNew DEF Common
<1>2. OfCriu(New, pc) /\ pc \in Nat /\ script' = script
  BY <1>1, CriuPlanned DEF Common, TypeOK, Spawns, Clock
<1>3. New.it \in Nat
  BY <1>2 DEF OfCriu
<1>4. Newly' = New
  BY DEF Newly, New
<1>5. ASSUME NEW p \in Pids PROVE AtCriu(p)'
  <2>1. procs'[p] = procs[p] /\ AtCriu(p)
    BY <1>1 DEF DumpedOK
  <2>2. \E k \in Nat : OfCriu(procs[p], k)
    BY CriuOf
  <2>3. procs[p].it \in Nat
    BY <2>2 DEF OfCriu
  <2> QED BY <1>2, <2>1, <2>3 DEF AtCriu, Live
<1>6. AtCriu(m)'
  <2>1. procs'[m] = New
    BY <1>1 DEF New
  <2>2. CASE New.role = "native"
    BY <1>2, <1>3, <2>1, <2>2 DEF AtCriu, Live, OfCriu
  <2>3. CASE New.role = "dump"
    BY <1>1, <1>2, <1>3, <2>1, <2>3 DEF AtCriu, Live, OfCriu
  <2>4. CASE New.role = "criu"
    BY <1>1, <1>2, <1>3, <2>1, <2>4 DEF AtCriu, Live, OfCriu
  <2> QED BY <1>2, <2>2, <2>3, <2>4 DEF OfCriu
<1>7. waiting' # "no" => Newly'.role # "native" /\ pc' \in {3 * Newly'.it, 3 * Newly'.it - 1}
  BY <1>2, <1>3, <1>4 DEF OfCriu
<1>8. ASSUME NEW b \in dumped' PROVE InImage(b)'
  BY <1>1, <1>2 DEF DumpedOK, InImage
<1> QED BY <1>1, <1>2, <1>5, <1>6, <1>7, <1>8 DEF DumpedOK

LEMMA CriuScript ==
  ASSUME Common, DumpedOK, script = "criu", ScriptStep, Spawns \/ Goes
  PROVE  DumpedOK'
<1> DEFINE n == Len(procs)
<1>1. status = "running" /\ script' = script
  BY DEF ScriptStep, StartInBackground, RunForeground, ForegroundEnds, RunSupervised, SupervisedEnds,
         TimesOut, StillThere, SleepEnds, SendSigint, SendSigterm, RemoveLogs, MoveLog, ReadLogs, Raises, AtStep
<1>2. PICK t \in 1..trial : \/ pc = 3 * t - 2 /\ Current.do = "background"
                            \/ pc = 3 * t - 1 /\ Current.do = "supervised"
                            \/ pc = 3 * t     /\ Current.do = "supervised"
  BY <1>1, CriuStepsAre DEF Common
<1>3. t \in Nat /\ n \in Nat /\ procs \in Seq(Process) /\ pc \in Nat
  BY TrialAssumption DEF Common, TypeOK
<1>4. StartInBackground \/ RunSupervised \/ SupervisedEnds \/ TimesOut \/ StillThere
  BY <1>2 DEF ScriptStep, RunForeground, ForegroundEnds, SleepEnds, SendSigint, SendSigterm, RemoveLogs,
              MoveLog, ReadLogs, Raises, AtStep
<1>5. waiting # "no" => /\ n \in Pids /\ Newly = procs[n] /\ Newly.it \in Nat
                        /\ pc \in {3 * Newly.it, 3 * Newly.it - 1}
  <2> SUFFICES ASSUME waiting # "no"
               PROVE  /\ n \in Pids /\ Newly = procs[n] /\ Newly.it \in Nat
                      /\ pc \in {3 * Newly.it, 3 * Newly.it - 1}
    OBVIOUS
  <2>1. n \in Pids /\ Newly = procs[n]
    BY <1>3 DEF Pids, Newly, Common, WaitOK
  <2>2. PICK k \in Nat : OfCriu(Newly, k)
    BY <2>1, CriuOf
  <2> QED BY <2>1, <2>2 DEF OfCriu, DumpedOK
<1>6. ASSUME Spawns PROVE OfCriu(New, pc) /\ New.it \in Nat
  <2>1. PlannedAt(New, pc) /\ pc \in 1..Len(StepsOf[script])
    BY <1>6, SpawnsNew DEF Common
  <2>2. OfCriu(New, pc)
    BY <2>1, CriuPlanned DEF Common
  <2> QED BY <2>2 DEF OfCriu
<1>7. CASE StartInBackground
  <2>1. Spawns
    <3>1. Clock
      BY <1>1, <1>7, PastClock DEF StartInBackground, AtStep, Common, TypeOK
    <3> QED BY <1>1, <1>7, <3>1 DEF StartInBackground, AtStep, Spawns, Spawning
  <2>2. pc = 3 * t - 2 /\ pc' = pc + 1 /\ waiting' = waiting /\ dumped' = dumped
    BY <1>2, <1>7 DEF StartInBackground, AtStep, Past, Spawn
  <2>3. waiting = "no"
    BY <1>3, <1>5, <2>2
  <2>4. New.role = "native"
    BY <1>3, <1>6, <2>1, <2>2 DEF OfCriu
  <2> QED BY <2>1, <2>2, <2>3, <2>4, CriuSpawns
<1>8. CASE RunSupervised
  <2>1. Spawns
    <3>1. Clock
      BY <1>1, <1>8, StillClock DEF RunSupervised, AtStep, Common, TypeOK
    <3> QED BY <1>1, <1>8, <3>1 DEF RunSupervised, AtStep, Spawns, Spawning
  <2>2. /\ (pc = 3 * t - 1 \/ pc = 3 * t) /\ pc' = pc /\ waiting = "no" /\ waiting' = "polling"
        /\ dumped' = dumped
    BY <1>2, <1>8 DEF RunSupervised, AtStep, Spawn
  <2>3. New.role # "native"
    BY <1>3, <1>6, <2>1, <2>2 DEF OfCriu
  <2> QED BY <2>1, <2>2, <2>3, CriuSpawns
<1>9. CASE SupervisedEnds
  <2>1. /\ procs' = procs /\ images' = images /\ dumped' = dumped /\ pc' = pc + 1 /\ waiting' = "no"
        /\ ~Live(n)
    BY <1>9 DEF SupervisedEnds, AtStep, Past, Newest
  <2>2. ASSUME NEW p \in Pids PROVE AtCriu(p)'
    <3>1. AtCriu(p)
      BY DEF DumpedOK
    <3>2. \E k \in Nat : OfCriu(procs[p], k)
      BY CriuOf
    <3>3. procs[p].it \in Nat
      BY <3>2 DEF OfCriu
    <3> QED BY <1>3, <2>1, <3>1, <3>3, SMTT(60) DEF AtCriu, Live
  <2>3. ASSUME NEW b \in dumped PROVE InImage(b)'
    BY <1>3, <2>1 DEF DumpedOK, InImage
  <2> QED BY <1>1, <2>1, <2>2, <2>3 DEF DumpedOK, Pids
<1>10. CASE TimesOut \/ StillThere
  <2>1. /\ pc' = pc /\ waiting' # "no" /\ waiting # "no" /\ images' = images /\ dumped' = dumped
        /\ (procs' = procs \/ End(n))
    BY <1>10 DEF TimesOut, StillThere, Kill, AtStep, Newest
  <2>2. Steady
    BY <1>3, <1>5, <2>1, SameSteady, EndSteady
  <2>3. /\ \A p \in Pids' : AtCriu(p)'
        /\ waiting' # "no" => Newly'.role # "native" /\ pc' \in {3 * Newly'.it, 3 * Newly'.it - 1}
    BY <2>1, <2>2, CriuFrame
  <2>4. \A b \in dumped' : InImage(b)'
    BY <2>1 DEF DumpedOK, InImage
  <2> QED BY <1>1, <2>3, <2>4 DEF DumpedOK
<1> QED BY <1>4, <1>7, <1>8, <1>9, <1>10

-----------------------------------------------------------------------------
(***************************************************************************)
(* Every guest that is restored is the right one.                          *)
(***************************************************************************)
Right(proc, done) ==
  proc.role \in {"restore", "criu"} /\ proc.guest # Empty =>
    /\ proc.guest.job = proc.job
    /\ proc.guest.it # proc.it => proc.role = "criu" /\ proc.it \notin done

LEMMA RightAll == RestoredGuestIsTheRightOne <=> \A p \in Pids : Right(procs[p], dumped)
BY DEF RestoredGuestIsTheRightOne, Right

(* Where there is no address, a guest comes from the image only.           *)
ReadsImage(p, r) ==
  /\ r = p /\ Live(p) /\ procs[p].role \in {"restore", "criu"} /\ procs[p].in = Image
  /\ File(p) \in DOMAIN images /\ procs'[p].guest = images[File(p)] /\ dumped' = dumped

LEMMA PutGuest ==
  ASSUME procs \in Seq(Process), NEW p \in Pids, NEW now, Put(p, now), NEW r \in Pids
  PROVE  procs'[r] = IF r = p THEN now ELSE procs[r]
BY DEF Put, Pids

LEMMA ImageGuests ==
  ASSUME Common, script \in Images, NEW p \in Pids, NEW r \in Pids,
         \/ StartCheckpoint(p) \/ StartNative(p) \/ Bind(p) \/ Read(p)
         \/ Receive(p) \/ Finish(p) \/ Snapshot(p) \/ Dump(p)
  PROVE  GuestKept(r) \/ ReadsImage(p, r)
<1>1. procs \in Seq(Process) /\ procs[p] \in Process /\ procs[r] \in Process
  BY DEF Common, TypeOK, Pids
<1>2. procs[p].out \in {Nowhere, Image}
  <2>1. script \notin Networks /\ ProperOne(procs[p])
    BY PlannedProper DEF Images, Networks
  <2> QED BY <2>1 DEF ProperOne, Network
<1>3. ~Receive(p)
  <2>1. CASE script = "criu"
    <3>1. \E k \in Nat : OfCriu(procs[p], k)
      BY <2>1, CriuOf
    <3> QED BY <3>1 DEF OfCriu, Receive, Common, ListenOK
  <2>2. CASE script = "checkpoint_restore"
    <3>1. \E k \in Nat : SaverOrRestorer(procs[p], k)
      BY <2>2, SaverOf
    <3> QED BY <3>1 DEF SaverOrRestorer, Receive, Common, ListenOK
  <2> QED BY <2>1, <2>2 DEF Images
<1>4. ASSUME NEW now, Put(p, now), now.guest = procs[p].guest
      PROVE  GuestKept(r)
  BY <1>1, <1>4, PutGuest DEF GuestKept
<1>5. ASSUME End(p) PROVE GuestKept(r)
  <2> DEFINE now == [procs[p] EXCEPT !.st = "ended"]
  <2>1. Put(p, now)
    BY <1>5 DEF End
  <2>2. now.guest = procs[p].guest
    BY <1>1 DEF Process
  <2> HIDE DEF now
  <2> QED BY <1>4, <2>1, <2>2
<1>6. CASE StartCheckpoint(p)
  <2> DEFINE now == [procs[p] EXCEPT !.st = "running"]
  <2>1. ConnectAs(p, now)
    BY <1>6 DEF StartCheckpoint
  <2>2. now.guest = procs[p].guest /\ now.out = procs[p].out
    BY <1>1 DEF Process
  <2> HIDE DEF now
  <2> QED BY <1>2, <1>4, <2>1, <2>2 DEF ConnectAs
<1>7. CASE StartNative(p) \/ Bind(p)
  <2>1. \/ Put(p, [procs[p] EXCEPT !.st = "running"]) \/ Put(p, [procs[p] EXCEPT !.st = "listening"]) \/ End(p)
    BY <1>7 DEF StartNative, Bind
  <2>2. \A st \in {"running", "listening"} : [procs[p] EXCEPT !.st = st].guest = procs[p].guest
    BY <1>1 DEF Process
  <2> QED BY <1>4, <1>5, <2>1, <2>2
<1>8. CASE Read(p)
  <2>1. CASE End(p)
    BY <1>5, <2>1
  <2>2. CASE File(p) \in DOMAIN images /\ Resume(p, images[File(p)])
    <3> DEFINE guest == images[File(p)]
               now == [procs[p] EXCEPT !.st = "running", !.guest = guest]
    <3>1. ConnectAs(p, now) /\ dumped' = dumped
      BY <2>2 DEF Resume
    <3>2. now.guest = guest /\ now.out = procs[p].out
      BY <1>1 DEF Process
    <3> HIDE DEF now
    <3>3. Put(p, now)
      BY <1>2, <3>1, <3>2 DEF ConnectAs
    <3>4. r = p => procs'[p].guest = guest
      BY <1>1, <3>2, <3>3, PutGuest
    <3>5. r # p => procs'[r] = procs[r]
      BY <1>1, <3>3, PutGuest
    <3> QED BY <1>8, <2>2, <3>1, <3>4, <3>5 DEF ReadsImage, GuestKept, Read, Live
  <2> QED BY <1>8, <2>1, <2>2 DEF Read
<1>9. CASE Finish(p)
  BY <1>5, <1>9 DEF Finish
<1>10. CASE Snapshot(p)
  <2> DEFINE q == procs[p].peer
             read == q # 0 /\ Live(q) /\ procs[q].accepted = p
             now == [procs[p] EXCEPT !.st = "ended", !.sent = read]
  <2>1. Put(p, now)
    BY <1>10 DEF Snapshot
  <2> HIDE DEF read
  <2>2. now.guest = procs[p].guest
    BY <1>1 DEF Process
  <2> HIDE DEF now
  <2> QED BY <1>4, <2>1, <2>2
<1>11. CASE Dump(p)
  <2>1. CASE End(p)
    BY <1>5, <2>1
  <2>2. CASE \E q \in Pids : DumpOf(p, q)
    <3>1. PICK q \in Pids : procs' = [procs EXCEPT ![p].st = "ended", ![q].st = "ended"]
      BY <2>2 DEF DumpOf
    <3>2. \/ procs'[r] = procs[r] \/ procs'[r] = [procs[r] EXCEPT !.st = "ended"]
          \/ procs'[r] = [[procs[r] EXCEPT !.st = "ended"] EXCEPT !.st = "ended"]
      BY <3>1 DEF Pids
    <3> QED BY <1>1, <3>2 DEF GuestKept, Process
  <2> QED BY <1>11, <2>1, <2>2, DumpCases
<1> QED BY <1>3, <1>6, <1>7, <1>8, <1>9, <1>10, <1>11

LEMMA RightKept ==
  ASSUME Frame, NEW r \in Pids, Right(procs[r], dumped), GuestKept(r), dumped' = dumped
  PROVE  Right(procs'[r], dumped')
<1>1. Fixed(procs[r], procs'[r])
  BY DEF Frame
<1> QED BY <1>1 DEF Right, Fixed, GuestKept

LEMMA SaverRight ==
  ASSUME Common, OneAtATime, Restored, script = "checkpoint_restore", ProcessStep, Frame, NEW r \in Pids
  PROVE  Right(procs'[r], dumped')
<1>1. PICK p \in Pids : \/ StartCheckpoint(p) \/ StartNative(p) \/ Bind(p) \/ Read(p)
                        \/ Receive(p) \/ Finish(p) \/ Snapshot(p) \/ Dump(p)
  BY DEF ProcessStep
<1>2. Right(procs[r], dumped) /\ Fixed(procs[r], procs'[r])
  BY RightAll DEF Restored, Frame
<1>3. PICK k \in Nat : SaverOrRestorer(procs[r], k)
  BY SaverOf
<1>4. CASE GuestKept(r)
  BY <1>2, <1>3, <1>4 DEF Right, Fixed, GuestKept, SaverOrRestorer
<1>5. CASE ReadsImage(p, r)
  <2>1. r = Len(procs) /\ Len(procs) # 0
    BY <1>5 DEF ReadsImage, OneAtATime, Common, TypeOK, Pids
  <2>2. Fresh /\ Newly = procs[r]
    BY <2>1 DEF OneAtATime, Newly
  <2>3. procs[r].role = "restore" /\ (procs[r].role \in {"dump", "criu"}) = FALSE
    BY <1>3, <1>5 DEF ReadsImage, SaverOrRestorer
  <2>4. File(r) = LowFile
    BY <1>3, <2>3 DEF File, LowFile, SaverOrRestorer
  <2>5. procs'[r].guest \in {Empty, [job |-> "low", it |-> procs[r].it]}
    BY <1>5, <2>2, <2>3, <2>4 DEF ReadsImage, Fresh
  <2>6. procs'[r].role = procs[r].role /\ procs'[r].job = "low" /\ procs'[r].it = procs[r].it
    BY <1>2, <1>3 DEF Fixed, SaverOrRestorer
  <2> DEFINE g == procs'[r].guest
  <2>7. g # Empty => g.job = "low" /\ g.it = procs[r].it
    <3>1. g \in {Empty, [job |-> "low", it |-> procs[r].it]}
      BY <2>5
    <3> HIDE DEF g
    <3> QED BY <3>1
  <2> QED BY <2>6, <2>7 DEF Right
<1> QED BY <1>1, <1>4, <1>5, ImageGuests DEF Images

LEMMA CriuRight ==
  ASSUME Common, DumpedOK, Restored, script = "criu", ProcessStep, Frame, NEW r \in Pids
  PROVE  Right(procs'[r], dumped')
<1>1. PICK p \in Pids : \/ StartCheckpoint(p) \/ StartNative(p) \/ Bind(p) \/ Read(p)
                        \/ Receive(p) \/ Finish(p) \/ Snapshot(p) \/ Dump(p)
  BY DEF ProcessStep
<1>2. Right(procs[r], dumped) /\ Fixed(procs[r], procs'[r])
  BY RightAll DEF Restored, Frame
<1>3. PICK k \in Nat : OfCriu(procs[r], k)
  BY CriuOf
<1>4. procs[r].it \in Nat /\ pc \in Nat
  BY <1>3 DEF OfCriu, Common, TypeOK
<1>5. AtCriu(r)
  BY DEF DumpedOK
<1>6. CASE GuestKept(r)
  <2>1. procs[r].role = "criu" /\ procs[r].it \in dumped' => procs[r].it \in dumped
    <3>1. CASE CriuDumps(p)
      <4>1. PICK h \in Nat : OfCriu(procs[p], h)
        BY CriuOf
      <4>2. procs[p].it \in Nat /\ pc = 3 * procs[p].it - 1
        BY <3>1, <4>1 DEF CriuDumps, OfCriu, DumpedOK, AtCriu
      <4>3. procs[r].role = "criu" => procs[r].it # procs[p].it
        BY <1>4, <1>5, <4>2 DEF AtCriu
      <4> QED BY <3>1, <4>3 DEF CriuDumps
    <3>2. CASE CriuKept
      BY <3>2 DEF CriuKept
    <3> QED BY <1>1, <3>1, <3>2, CriuImages
  <2> QED BY <1>2, <1>6, <2>1 DEF Right, Fixed, GuestKept
<1>7. CASE ReadsImage(p, r)
  <2>1. procs[r].role = "criu" /\ (procs[r].role \in {"dump", "criu"}) = TRUE /\ dumped' = dumped /\ Live(r)
    BY <1>3, <1>7 DEF ReadsImage, OfCriu
  <2>2. File(r) = CriuFile
    BY <1>3, <2>1 DEF File, CriuFile, OfCriu
  <2>3. pc = 3 * procs[r].it
    BY <1>5, <2>1 DEF AtCriu
  <2>4. CriuFile \in DOMAIN images /\ procs'[r].guest = images[CriuFile]
    BY <1>7, <2>2 DEF ReadsImage
  <2>5. procs[r].it \in dumped => images[CriuFile] = [job |-> "low", it |-> procs[r].it]
    BY <1>4, <2>3 DEF DumpedOK, InImage
  <2>6. images[CriuFile] # Empty => images[CriuFile].job = "low"
    BY <2>4 DEF Common, ImagesOK, CriuFile
  <2>7. procs'[r].role = procs[r].role /\ procs'[r].job = "low" /\ procs'[r].it = procs[r].it
    BY <1>2, <1>3 DEF Fixed, OfCriu
  <2> QED BY <2>1, <2>4, <2>5, <2>6, <2>7 DEF Right
<1> QED BY <1>1, <1>6, <1>7, ImageGuests DEF Images

(* Where there is no image, every guest came with a connection.            *)
LEMMA NetworkRight ==
  ASSUME Common, GuestOK', script \notin Images, Frame, NEW r \in Pids
  PROVE  Right(procs'[r], dumped')
<1>1. Fixed(procs[r], procs'[r]) /\ r \in Pids'
  BY DEF Frame, Pids
<1>2. procs'[r].in # Image
  BY <1>1, PlannedProper DEF ProperOne, Fixed
<1> QED BY <1>1, <1>2 DEF GuestOK, Right

LEMMA RestoredStep ==
  ASSUME Common, GuestOK', OneAtATime, DumpedOK, Restored,
         (ProcessStep /\ Steady) \/ (ScriptStep /\ (Spawns \/ Goes))
  PROVE  Restored'
<1>1. \A r \in Pids : Right(procs[r], dumped)
  BY RightAll DEF Restored
<1>2. ASSUME NEW r \in Pids' PROVE Right(procs'[r], dumped')
  <2>1. CASE ProcessStep /\ Steady
    <3>1. Frame /\ r \in Pids
      BY <2>1 DEF Steady, Frame, Pids
    <3>2. CASE script = "checkpoint_restore"
      BY <2>1, <3>1, <3>2, SaverRight
    <3>3. CASE script = "criu"
      BY <2>1, <3>1, <3>3, CriuRight
    <3>4. CASE script \notin Images
      BY <3>1, <3>4, NetworkRight
    <3> QED BY <3>2, <3>3, <3>4 DEF Images
  <2>2. CASE Goes
    <3>1. Frame /\ r \in Pids /\ GuestKept(r) /\ dumped' = dumped
      BY <2>2 DEF Goes, Steady, Frame, GuestsKept, Pids
    <3> QED BY <1>1, <3>1, RightKept
  <2>3. CASE Spawns
    <3>1. /\ Pids' = Pids \cup {Len(procs')} /\ \A p \in Pids : procs'[p] = procs[p]
          /\ New.role \notin {"checkpoint", "native"} => New.guest = Empty
      BY <2>3, SpawnsNew DEF Common
    <3>2. dumped' = dumped
      BY <2>3 DEF Spawns, Spawn
    <3>3. CASE r \in Pids
      BY <1>1, <3>1, <3>2, <3>3
    <3>4. CASE r = Len(procs')
      BY <3>1, <3>4 DEF New, Right
    <3> QED BY <3>1, <3>3, <3>4
  <2> QED BY <2>1, <2>2, <2>3
<1> QED BY <1>2 DEF Restored, RestoredGuestIsTheRightOne, Right

-----------------------------------------------------------------------------
(***************************************************************************)
(* The scripts that measure the overhead.                                  *)
(***************************************************************************)
InWindow(proc, c) ==
  /\ Before(proc.it) + 1 < c
  /\ proc.role = "restore" /\ proc.st # "ended" => c - Before(proc.it) \in 2..Length(script) - 1
  /\ proc.role = "restore" /\ proc.st = "starting" => c = Before(proc.it) + 2
  /\ proc.role = "checkpoint" => Before(proc.it) + 3 < c
  /\ proc.role = "checkpoint" /\ proc.st = "starting" => c = Before(proc.it) + 4

LEMMA InTheirBlockIs == InTheirBlock <=> (script \in Overheads => \A p \in Pids : InWindow(procs[p], pc))
BY DEF InTheirBlock, InWindow, Live

LEMMA BlockFrame ==
  ASSUME InTheirBlock, Frame, script \in Overheads, script' = script, pc' = pc
  PROVE  InTheirBlock'
<1>1. ASSUME NEW p \in Pids PROVE InWindow(procs'[p], pc)
  <2>1. InWindow(procs[p], pc) /\ Fixed(procs[p], procs'[p])
    BY InTheirBlockIs DEF Frame
  <2> QED BY <2>1 DEF InWindow, Fixed
<1> QED BY <1>1 DEF Frame, Pids, InTheirBlock, InWindow, Live, Before

(* The step of the script, in its block.                                   *)
LEMMA ThisStep ==
  ASSUME Common, script \in Overheads, status = "running"
  PROVE  \E b \in Nat \ {0} : \E job \in Job : \E i \in Nat : \E j \in 1..Length(script) :
           pc = Before(b) + j /\ Valid(b, job, i) /\ IsStep(script, Current, b, job, i, j)
<1>1. TypeOK /\ pc \in 1..Len(StepsOf[script])
  BY DEF Common, TypeOK
<1> QED BY <1>1, WhichStep DEF Current

LEMMA SameBlock ==
  ASSUME script \in Overheads, NEW a \in Nat \ {0}, NEW b \in Nat \ {0},
         NEW j \in 1..Length(script), NEW k \in 1..Length(script), Before(b) + j = Before(a) + k
  PROVE  a = b /\ j = k
<1> DEFINE L == Length(script)
<1>1. (L = 7 \/ L = 8) /\ L * (b - 1) + j = L * (a - 1) + k /\ j \in 1..L /\ k \in 1..L
  BY Lengths
<1> HIDE DEF L
<1>2. CASE L = 7
  BY <1>1, <1>2
<1>3. CASE L = 8
  BY <1>1, <1>3
<1> QED BY <1>1, <1>2, <1>3

(* A process that is there when the script goes on to its next step.       *)
LEMMA WindowMoves ==
  ASSUME Common, script \in Overheads, NEW p \in Pids, InWindow(procs[p], pc), NEW after, Fixed(procs[p], after),
         NEW b \in Nat \ {0}, NEW j \in 1..Length(script), pc = Before(b) + j,
         j = Length(script) - 1 /\ procs[p].role = "restore" => after.st = "ended",
         j \in {2, 4} => procs[p].st # "starting"
  PROVE  InWindow(after, pc + 1)
<1> DEFINE a == procs[p].it
<1>1. PICK job \in Job : \E i \in Nat : InBlock(procs[p], job, i)
  BY OfBlock
<1>2. a \in Nat \ {0} /\ procs[p].role \in {"restore", "checkpoint"}
  BY <1>1 DEF InBlock
<1>3. /\ after.it = a /\ after.role = procs[p].role
      /\ (after.st # "ended" => procs[p].st # "ended") /\ (after.st = "starting" => procs[p].st = "starting")
  BY DEF Fixed
<1>4. Before(a) \in Nat /\ Before(b) \in Nat /\ pc \in Nat /\ (Length(script) = 7 \/ Length(script) = 8)
  BY <1>2, Lengths DEF Common, TypeOK
<1> HIDE DEF a
<1>5. \A k \in 1..Length(script) : pc = Before(a) + k => a = b /\ j = k
  BY <1>2, SameBlock
<1>6. Before(a) + 1 < pc + 1 /\ (after.role = "checkpoint" => Before(a) + 3 < pc + 1)
  BY <1>3, <1>4 DEF InWindow, a
<1>7. ASSUME after.role = "restore", after.st # "ended"
      PROVE  pc + 1 - Before(a) \in 2..Length(script) - 1 /\ after.st # "starting"
  <2>1. pc - Before(a) \in 2..Length(script) - 1
    BY <1>3, <1>7 DEF InWindow, a
  <2>2. pc # Before(a) + (Length(script) - 1)
    <3>1. Length(script) - 1 \in 1..Length(script)
      BY <1>4
    <3> QED BY <1>3, <1>5, <1>7, <3>1
  <2>3. after.st # "starting"
    <3>1. 2 \in 1..Length(script)
      BY <1>4
    <3>2. procs[p].st = "starting" => pc = Before(a) + 2
      BY <1>3, <1>7 DEF InWindow, a
    <3> QED BY <1>3, <1>5, <3>1, <3>2
  <2> QED BY <1>4, <2>1, <2>2, <2>3
<1>8. ASSUME after.role = "checkpoint" PROVE after.st # "starting"
  <2>1. 4 \in 1..Length(script)
    BY <1>4
  <2>2. procs[p].st = "starting" => pc = Before(a) + 4
    BY <1>3, <1>8 DEF InWindow, a
  <2> QED BY <1>3, <1>5, <2>1, <2>2
<1>9. Before(after.it) = Before(a)
  BY <1>3
<1>10. after.st = "starting" => after.st # "ended"
  OBVIOUS
<1> DEFINE x == Before(a)
           c == pc + 1
<1>11. x + 1 < c /\ (after.role = "checkpoint" => x + 3 < c)
  BY <1>6
<1>12. after.role = "restore" /\ after.st # "ended" => c - x \in 2..Length(script) - 1
  BY <1>4, <1>7
<1>13. after.role = "restore" /\ after.st = "starting" => c = x + 2
  BY <1>7, <1>10
<1>14. after.role = "checkpoint" /\ after.st = "starting" => c = x + 4
  BY <1>8
<1>15. Before(after.it) = x
  BY <1>9
<1> HIDE DEF c, x
<1>16. InWindow(after, c)
  BY <1>11, <1>12, <1>13, <1>14, <1>15 DEF InWindow
<1> QED BY <1>16 DEF c

LEMMA BlockSpawns ==
  ASSUME Common, script \in Overheads, Spawns,
         NEW b \in Nat \ {0}, NEW job, NEW i, NEW j \in {1, 3},
         pc = Before(b) + j, IsStep(script, Current, b, job, i, j)
  PROVE  /\ New.it = b /\ InWindow(New, pc + 1)
         /\ j = 1 => New.role = "restore" /\ New.log = Nowhere
         /\ j = 3 => New.role = "checkpoint" /\ New.log = <<job, i>>
<1>1. PlannedAt(New, pc) /\ New.st = "starting"
  BY SpawnsNew DEF Common
<1>2. /\ New.it = Current.it /\ New.role = Current.proc.role /\ New.log = Current.proc.log
  BY <1>1 DEF PlannedAt, Current, Overheads
<1>3. Waiter(script, job).role = "restore" /\ Waiter(script, job).log = Nowhere
      /\ Mover(script, job, i).role = "checkpoint" /\ Mover(script, job, i).log = <<job, i>>
  BY DEF Waiter, Mover, Proc
<1>4. /\ New.it = b
      /\ j = 1 => New.role = "restore" /\ New.log = Nowhere
      /\ j = 3 => New.role = "checkpoint" /\ New.log = <<job, i>>
  BY <1>2, <1>3 DEF IsStep
<1>5. Before(b) \in Nat /\ (Length(script) = 7 \/ Length(script) = 8)
  BY Lengths
<1>6. InWindow(New, pc + 1)
  <2>1. CASE j = 1
    BY <1>4, <1>5, <2>1 DEF InWindow
  <2>2. CASE j = 3
    BY <1>1, <1>4, <1>5, <2>2 DEF InWindow
  <2> QED BY <2>1, <2>2
<1> QED BY <1>4, <1>6

LEMMA BlockScript ==
  ASSUME Common, InTheirBlock, script \in Overheads, ScriptStep, Spawns \/ Goes
  PROVE  InTheirBlock'
<1>1. status = "running" /\ script' = script
  BY DEF ScriptStep, StartInBackground, RunForeground, ForegroundEnds, RunSupervised, SupervisedEnds,
         TimesOut, StillThere, SleepEnds, SendSigint, SendSigterm, RemoveLogs, MoveLog, ReadLogs, Raises, AtStep
<1>2. PICK b \in Nat \ {0} : \E job \in Job : \E i \in Nat : \E j \in 1..Length(script) :
           pc = Before(b) + j /\ Valid(b, job, i) /\ IsStep(script, Current, b, job, i, j)
  BY <1>1, ThisStep
<1>3. PICK job \in Job : \E i \in Nat : \E j \in 1..Length(script) :
           pc = Before(b) + j /\ Valid(b, job, i) /\ IsStep(script, Current, b, job, i, j)
  BY <1>2
<1>4. PICK i \in Nat : \E j \in 1..Length(script) :
           pc = Before(b) + j /\ Valid(b, job, i) /\ IsStep(script, Current, b, job, i, j)
  BY <1>3
<1>5. PICK j \in 1..Length(script) :
           pc = Before(b) + j /\ Valid(b, job, i) /\ IsStep(script, Current, b, job, i, j)
  BY <1>4
<1>6. /\ Current.do \in {"background", "sleep", "sigint", "kill", "cat"}
      /\ Current.do = "background" <=> j \in {1, 3}
      /\ j \in {2, 4} => Current.do = "sleep"
      /\ Current.do = "kill" <=> j = Length(script) - 1
  BY <1>5 DEF IsStep
<1>7. StartInBackground \/ SleepEnds \/ SendSigint \/ SendSigterm \/ ReadLogs
  BY <1>6 DEF ScriptStep, RunForeground, ForegroundEnds, RunSupervised, SupervisedEnds, TimesOut, StillThere,
              RemoveLogs, MoveLog, Raises, AtStep
<1>8. pc' = pc + 1
  BY <1>7 DEF StartInBackground, SleepEnds, SendSigint, SendSigterm, ReadLogs, Past
<1>9. \A p \in Pids : InWindow(procs[p], pc)
  BY InTheirBlockIs
<1>10. ASSUME NEW p \in Pids, NEW after, Fixed(procs[p], after),
              SendSigterm /\ procs[p].role = "restore" => after.st = "ended"
       PROVE  InWindow(after, pc + 1)
  <2>1. j = Length(script) - 1 => SendSigterm
    BY <1>6, <1>7 DEF StartInBackground, SleepEnds, SendSigint, ReadLogs, AtStep
  <2>2. j \in {2, 4} => SleepEnds
    BY <1>6, <1>7 DEF StartInBackground, SendSigint, SendSigterm, ReadLogs, AtStep
  <2>3. j \in {2, 4} => procs[p].st # "starting"
    BY <2>2 DEF SleepEnds
  <2> QED BY <1>5, <1>9, <1>10, <2>1, <2>3, WindowMoves
<1>11. CASE Spawns
  <2>1. StartInBackground /\ j \in {1, 3}
    BY <1>6, <1>7, <1>11 DEF Spawns, Spawning, SleepEnds, SendSigint, SendSigterm, ReadLogs, AtStep
  <2>2. InWindow(New, pc + 1)
    BY <1>5, <1>11, <2>1, BlockSpawns
  <2>3. Pids' = Pids \cup {Len(procs')} /\ \A p \in Pids : procs'[p] = procs[p]
    BY <1>11, SpawnsNew DEF Common
  <2>4. ~SendSigterm
    BY <1>6, <2>1 DEF SendSigterm, StartInBackground, AtStep
  <2>5. \A p \in Pids : InWindow(procs'[p], pc + 1)
    <3>1. \A p \in Pids : Fixed(procs[p], procs[p])
      BY DEF Fixed
    <3> QED BY <1>10, <2>3, <2>4, <3>1
  <2>6. \A p \in Pids' : InWindow(procs'[p], pc')
    BY <1>8, <2>2, <2>3, <2>5 DEF New
  <2> QED BY <1>1, <2>6 DEF InTheirBlock, InWindow, Live, Before
<1>12. CASE Goes
  <2>1. Frame /\ Pids' = Pids
    BY <1>12 DEF Goes, Steady, Frame, Pids
  <2>2. ASSUME NEW p \in Pids, SendSigterm, procs[p].role = "restore" PROVE procs'[p].st = "ended"
    <3>1. Current.proc.role = "restore" /\ Current.proc.host = "remote"
      BY <1>5, <2>2 DEF IsStep, SendSigterm, AtStep
    <3>2. PICK bog \in Job : \E h \in Nat : InBlock(procs[p], bog, h)
      BY OfBlock
    <3>3. procs[p].host = "remote" /\ procs[p] \in Process
      BY <2>2, <3>2 DEF InBlock, Common, TypeOK, Pids
    <3>4. procs'[p] = IF Named(p) THEN [procs[p] EXCEPT !.st = "ended"] ELSE procs[p]
      BY <2>2 DEF SendSigterm
    <3> QED BY <2>2, <3>1, <3>3, <3>4 DEF Named, Live, Process
  <2>3. \A p \in Pids : InWindow(procs'[p], pc + 1)
    BY <1>10, <2>1, <2>2 DEF Frame
  <2> QED BY <1>1, <1>8, <2>1, <2>3 DEF InTheirBlock, InWindow, Live, Before
<1> QED BY <1>11, <1>12

(* What a process may print, and that it ends then.                        *)
Prints(p) ==
  /\ \E what \in {"Execution time", "Snapshot time"} : logs' = Printed(p, what)
  /\ procs[p].st = "running" /\ procs'[p].st = "ended"

MayPrint(p) == logs' = logs \/ Prints(p)

LEMMA ProcessPrints ==
  ASSUME procs \in Seq(Process), NEW p \in Pids,
         \/ StartCheckpoint(p) \/ StartNative(p) \/ Bind(p) \/ Read(p)
         \/ Receive(p) \/ Finish(p) \/ Snapshot(p) \/ Dump(p)
  PROVE  MayPrint(p)
<1>1. procs[p] \in Process
  BY DEF Pids
<1>2. CASE StartCheckpoint(p) \/ StartNative(p) \/ Bind(p) \/ Read(p) \/ Receive(p) \/ Dump(p)
  BY <1>2 DEF StartCheckpoint, StartNative, Bind, Read, Receive, Dump, Resume, MayPrint
<1>3. CASE Finish(p)
  <2> DEFINE now == [procs[p] EXCEPT !.st = "ended"]
  <2>1. Put(p, now)
    BY <1>3 DEF Finish, End
  <2>2. now.st = "ended"
    BY <1>1 DEF Process
  <2> HIDE DEF now
  <2>3. procs'[p].st = "ended"
    BY <2>1, <2>2, PutGuest
  <2> QED BY <1>3, <2>3 DEF Finish, Prints, MayPrint
<1>4. CASE Snapshot(p)
  <2> DEFINE q == procs[p].peer
             read == q # 0 /\ Live(q) /\ procs[q].accepted = p
             now == [procs[p] EXCEPT !.st = "ended", !.sent = read]
  <2>1. Put(p, now) /\ (logs' = logs \/ logs' = Printed(p, "Snapshot time")) /\ procs[p].st = "running"
    BY <1>4 DEF Snapshot
  <2> HIDE DEF read
  <2>2. now.st = "ended"
    BY <1>1 DEF Process
  <2> HIDE DEF now
  <2>3. procs'[p].st = "ended"
    BY <2>1, <2>2, PutGuest
  <2> QED BY <2>1, <2>3 DEF Prints, MayPrint
<1> QED BY <1>2, <1>3, <1>4

(* A log that nobody writes to.                                            *)
LEMMA LogKept ==
  ASSUME script \in Overheads, NEW l, LogOK(l), logs'[l] = logs[l],
         \A p \in Pids : p \in Pids' /\ Fixed(procs[p], procs'[p])
  PROVE  LogOK(l)'
<1>1. ASSUME NEW p, Writer(p, l) PROVE Writer(p, l)'
  <2>1. p \in Pids' /\ Fixed(procs[p], procs'[p])
    BY <1>1 DEF Writer
  <2>2. procs'[p].st = "ended"
    BY <1>1, <2>1 DEF Writer, Fixed
  <2> QED BY <1>1, <2>1, <2>2 DEF Writer, Fixed, Overheads
<1> QED BY <1>1 DEF LogOK

IsAppended(t, s, e) ==
  /\ t \in Seq(Line) /\ Len(s) \in Nat /\ Len(t) = Len(s) + 1 /\ Len(s) <= Len(t)
  /\ \A m \in 1..Len(s) : m \in 1..Len(t) /\ t[m] = s[m]
  /\ t[Len(s) + 1] = e
  /\ \A m \in 1..Len(t) : (m \in 1..Len(s) /\ t[m] = s[m]) \/ (m = Len(s) + 1 /\ t[m] = e)

LEMMA Appended == \A s \in Seq(Line), e \in Line : \A t : t = Append(s, e) => IsAppended(t, s, e)
<1> SUFFICES ASSUME NEW s \in Seq(Line), NEW e \in Line, NEW t, t = Append(s, e) PROVE IsAppended(t, s, e)
  OBVIOUS
<1>1. t \in Seq(Line) /\ Len(t) = Len(s) + 1 /\ Len(s) \in Nat
      /\ (\A m \in 1..Len(s) : t[m] = s[m]) /\ t[Len(s) + 1] = e
  BY AppendProperties, LenProperties
<1> QED BY <1>1 DEF IsAppended

(* A log to which p has written its line.                                  *)
LEMMA LogPrinted ==
  ASSUME script \in Overheads, NEW p \in Pids, NEW l, LogOK(l), p \in Nat,
         NEW what \in {"Execution time", "Snapshot time"},
         logs'[l] = Append(logs[l], [by |-> p, what |-> what]),
         procs[p].log = l, procs[p].role = "checkpoint", procs[p].st # "ended", procs'[p].st = "ended",
         \A q \in Pids : q \in Pids' /\ Fixed(procs[q], procs'[q])
  PROVE  LogOK(l)'
<1>1. ASSUME NEW q, Writer(q, l) PROVE Writer(q, l)' /\ q # p
  <2>1. q \in Pids' /\ Fixed(procs[q], procs'[q])
    BY <1>1 DEF Writer
  <2>2. procs'[q].st = "ended" /\ q # p
    BY <1>1, <2>1 DEF Writer, Fixed
  <2> QED BY <1>1, <2>1, <2>2 DEF Writer, Fixed, Overheads
<1>2. Writer(p, l)'
  BY DEF Writer, Fixed, Overheads
<1> DEFINE line == [by |-> p, what |-> what]
<1>3. line \in Line /\ logs[l] \in Seq(Line) /\ line.by = p
  <2>1. line \in Line
    BY DEF Line
  <2>2. logs[l] \in Seq(Line)
    BY DEF LogOK
  <2> QED BY <2>1, <2>2
<1>4. logs'[l] = Append(logs[l], line)
  OBVIOUS
<1> HIDE DEF line
<1>5. /\ logs'[l] \in Seq(Line)
      /\ \A m \in 1..Len(logs'[l]) :
           \/ m \in 1..Len(logs[l]) /\ logs'[l][m] = logs[l][m]
           \/ m = Len(logs[l]) + 1 /\ logs'[l][m].by = p
  <2> DEFINE s == logs[l]
             t == logs'[l]
  <2>1. line \in Line /\ s \in Seq(Line) /\ t = Append(s, line) /\ line.by = p
    BY <1>3, <1>4
  <2> HIDE DEF s, t
  <2>2. IsAppended(t, s, line)
    BY <2>1, Appended
  <2>3. /\ t \in Seq(Line)
        /\ \A m \in 1..Len(t) : (m \in 1..Len(s) /\ t[m] = s[m]) \/ (m = Len(s) + 1 /\ t[m].by = p)
    BY <2>1, <2>2 DEF IsAppended
  <2> QED BY <2>3 DEF s, t
<1>6. \A m \in 1..Len(logs[l]) : Writer(logs[l][m].by, l)
  BY DEF LogOK
<1>7. ASSUME NEW m \in 1..Len(logs'[l]) PROVE Writer(logs[l][m].by, l)'
  <2>1. CASE m \in 1..Len(logs[l]) /\ logs'[l][m] = logs[l][m]
    BY <1>1, <1>6, <2>1
  <2>2. CASE logs'[l][m].by = p
    BY <1>2, <2>2
  <2> QED BY <1>5, <2>1, <2>2
<1>8. ASSUME NEW m \in 1..Len(logs'[l]), NEW k \in 1..Len(logs'[l]), logs'[l][m].by = logs'[l][k].by
      PROVE  m = k
  <2>1. \A h \in 1..Len(logs[l]) : logs[l][h].by # p
    BY <1>1, <1>6
  <2>2. \A h, g \in 1..Len(logs[l]) : logs[l][h].by = logs[l][g].by => h = g
    BY DEF LogOK
  <2> DEFINE n == Len(logs[l])
             M == logs'[l][m].by
             K == logs'[l][k].by
  <2>3. (m \in 1..n /\ M = logs[l][m].by) \/ (m = n + 1 /\ M = p)
    BY <1>5
  <2>4. (k \in 1..n /\ K = logs[l][k].by) \/ (k = n + 1 /\ K = p)
    BY <1>5
  <2>5. M = K
    BY <1>8
  <2> HIDE DEF n, M, K
  <2> QED BY <2>1, <2>2, <2>3, <2>4, <2>5 DEF n
<1>9. logs'[l] \in Seq(Line) /\ (\A m \in 1..Len(logs'[l]) : Writer(logs[l][m].by, l)')
      /\ \A m, k \in 1..Len(logs'[l]) : logs'[l][m].by = logs'[l][k].by => m = k
  BY <1>5, <1>7, <1>8
<1> QED BY <1>9 DEF LogOK

(* What is in a log stays there.                                           *)
Grown(l) ==
  /\ l \in DOMAIN logs' /\ Len(logs[l]) <= Len(logs'[l])
  /\ \A m \in 1..Len(logs[l]) : logs'[l][m] = logs[l][m]

LEMMA PidNat == ASSUME procs \in Seq(Process) PROVE \A p \in Pids : p \in Nat
BY DEF Pids

LEMMA ProcessLogs ==
  ASSUME Common, script \in Overheads, LogsOK, Frame, NEW p \in Pids, MayPrint(p)
  PROVE  LogsOK' /\ \A l \in DOMAIN logs : Grown(l)
<1>1. \A q \in Pids : q \in Pids' /\ Fixed(procs[q], procs'[q])
  BY DEF Frame, Pids
<1>2. \A l \in DOMAIN logs : LogOK(l) /\ Len(logs[l]) \in Nat
  BY LenProperties DEF LogsOK, LogOK
<1>3. ASSUME NEW l \in DOMAIN logs, l \in DOMAIN logs', logs'[l] = logs[l]
      PROVE  LogOK(l)' /\ Grown(l)
  BY <1>1, <1>2, <1>3, LogKept DEF Grown
<1>4. CASE logs' = logs
  <2>1. \A l \in DOMAIN logs : LogOK(l)' /\ Grown(l)
    BY <1>3, <1>4
  <2> QED BY <1>4, <2>1 DEF LogsOK
<1>5. CASE Prints(p)
  <2>1. PICK what \in {"Execution time", "Snapshot time"} : logs' = Printed(p, what)
    BY <1>5 DEF Prints
  <2>2. procs[p].st = "running" /\ procs'[p].st = "ended"
    BY <1>5 DEF Prints
  <2>3. PICK l : l = procs[p].log
    OBVIOUS
  <2>4. CASE l \notin DOMAIN logs
    BY <1>4, <2>1, <2>3, <2>4 DEF Printed
  <2>5. CASE l \in DOMAIN logs
    <3> DEFINE line == [by |-> p, what |-> what]
    <3>1. logs' = [logs EXCEPT ![l] = Append(@, line)]
      BY <2>1, <2>3, <2>5 DEF Printed
    <3>2. l # Nowhere
      BY <2>5 DEF LogsOK
    <3>3. procs[p].role = "checkpoint"
      <4>1. PICK job \in Job : \E i \in Nat : InBlock(procs[p], job, i)
        BY OfBlock
      <4> QED BY <2>3, <3>2, <4>1 DEF InBlock
    <3>4. p \in Nat
      <4>1. procs \in Seq(Process)
        BY DEF Common, TypeOK
      <4> QED BY <4>1, PidNat
    <3>5. /\ DOMAIN logs' = DOMAIN logs /\ logs'[l] = Append(logs[l], line)
          /\ \A x \in DOMAIN logs : x # l => logs'[x] = logs[x]
      BY <2>5, <3>1
    <3>6. logs'[l] = Append(logs[l], [by |-> p, what |-> what]) /\ LogOK(l) /\ procs[p].st # "ended"
      BY <1>2, <2>2, <2>5, <3>5
    <3>7. LogOK(l)'
      BY <1>1, <2>2, <2>3, <3>3, <3>4, <3>6, LogPrinted
    <3>8. Grown(l)
      <4> DEFINE s == logs[l]
                 t == logs'[l]
      <4>1. line \in Line /\ s \in Seq(Line) /\ t = Append(s, line)
        BY <1>2, <2>5, <3>4, <3>5 DEF LogOK, Line
      <4> HIDE DEF s, t, line
      <4>2. IsAppended(t, s, line)
        BY <4>1, Appended
      <4>3. Len(s) <= Len(t) /\ \A m \in 1..Len(s) : t[m] = s[m]
        BY <4>2 DEF IsAppended
      <4> QED BY <2>5, <3>5, <4>3 DEF Grown, s, t
    <3>9. \A x \in DOMAIN logs : LogOK(x)' /\ Grown(x)
      <4> SUFFICES ASSUME NEW x \in DOMAIN logs PROVE LogOK(x)' /\ Grown(x)
        OBVIOUS
      <4>1. CASE x = l
        BY <3>7, <3>8, <4>1
      <4>2. CASE x # l
        BY <1>3, <3>5, <4>2
      <4> QED BY <4>1, <4>2
    <3> QED BY <3>5, <3>9 DEF LogsOK
  <2> QED BY <2>4, <2>5
<1> QED BY <1>4, <1>5 DEF MayPrint

(* The script is at the j-th step of the b-th block.                       *)
Here(b, job, i, j) ==
  pc = Before(b) + j /\ Valid(b, job, i) /\ IsStep(script, Current, b, job, i, j)

LEMMA OverheadCases ==
  ASSUME script \in Overheads, ScriptStep, NEW b, NEW job, NEW i, NEW j \in 1..Length(script), Here(b, job, i, j)
  PROVE  /\ script' = script /\ pc' = pc + 1
         /\ j \in {1, 3} => Spawn
         /\ j = Length(script) => ReadLogs
         /\ j \notin {1, 3, Length(script)} => UNCHANGED <<logs, results>>
<1>1. /\ Current.do \in {"background", "sleep", "sigint", "kill", "cat"}
      /\ Current.do = "background" <=> j \in {1, 3}
      /\ Current.do = "cat" <=> j = Length(script)
  BY DEF Here, IsStep
<1>2. StartInBackground \/ SleepEnds \/ SendSigint \/ SendSigterm \/ ReadLogs
  BY <1>1 DEF ScriptStep, RunForeground, ForegroundEnds, RunSupervised, SupervisedEnds, TimesOut, StillThere,
              RemoveLogs, MoveLog, Raises, AtStep
<1>3. script' = script /\ pc' = pc + 1
  BY <1>2 DEF StartInBackground, SleepEnds, SendSigint, SendSigterm, ReadLogs, Past, AtStep
<1>4. j \in {1, 3} => Spawn
  BY <1>1, <1>2 DEF StartInBackground, SleepEnds, SendSigint, SendSigterm, ReadLogs, AtStep
<1>5. j = Length(script) => ReadLogs
  BY <1>1, <1>2 DEF StartInBackground, SleepEnds, SendSigint, SendSigterm, AtStep
<1>6. j \notin {1, 3, Length(script)} => UNCHANGED <<logs, results>>
  BY <1>1, <1>2 DEF StartInBackground, SleepEnds, SendSigint, SendSigterm, ReadLogs, AtStep
<1> QED BY <1>3, <1>4, <1>5, <1>6

LEMMA StillFixed ==
  ASSUME Common, Spawns \/ Goes
  PROVE  \A p \in Pids : p \in Pids' /\ Fixed(procs[p], procs'[p])
<1>1. CASE Spawns
  BY <1>1, SpawnsNew DEF Common, Fixed
<1>2. CASE Goes
  BY <1>2 DEF Goes, Steady, Frame, Pids
<1> QED BY <1>1, <1>2

(* Which log is opened, and when it is truncated.                          *)
LEMMA OpensLog ==
  ASSUME script \in Overheads, NEW b, NEW job \in Job, NEW i, NEW j \in {1, 3}, Here(b, job, i, j), Spawn
  PROVE  /\ results' = results
         /\ \/ logs' = logs /\ (j = 3 => <<job, i>> \in DOMAIN logs)
            \/ /\ j = 3 /\ logs' = With(logs, <<job, i>>, <<>>)
               /\ script = "slowtier_overhead" => <<job, i>> \notin DOMAIN logs
<1>1. (j = 1 => Current.proc = Waiter(script, job)) /\ (j = 3 => Current.proc = Mover(script, job, i))
      /\ (j = 3 /\ script = "slowtier_overhead" => Current.arg = "append")
  BY DEF Here, IsStep
<1>2. Waiter(script, job).log = Nowhere /\ Mover(script, job, i).log = <<job, i>>
  BY DEF Waiter, Mover, Proc
<1>3. <<job, i>> # Nowhere
  BY DEF Job, Nowhere
<1>4. results' = results /\
      logs' = IF Current.proc.log = Nowhere \/ (Current.proc.log \in DOMAIN logs /\ Current.arg = "append")
              THEN logs ELSE With(logs, Current.proc.log, <<>>)
  BY DEF Spawn
<1>5. CASE j = 1
  BY <1>1, <1>2, <1>4, <1>5
<1>6. CASE j = 3
  BY <1>1, <1>2, <1>3, <1>4, <1>6
<1> QED BY <1>5, <1>6

LEMMA EmptyLog ==
  ASSUME NEW l, logs'[l] = <<>>
  PROVE  LogOK(l)'
<1>1. logs'[l] \in Seq(Line) /\ 1..Len(logs'[l]) = {}
  OBVIOUS
<1> QED BY <1>1 DEF LogOK

LEMMA ScriptLogs ==
  ASSUME Common, script \in Overheads, LogsOK, ScriptStep, Spawns \/ Goes,
         NEW b, NEW job \in Job, NEW i, NEW j \in 1..Length(script), Here(b, job, i, j)
  PROVE  /\ LogsOK'
         /\ \A l \in DOMAIN logs :
              Grown(l) \/ (script = "burst_overhead" /\ j = 3 /\ l = <<job, i>> /\ l \in DOMAIN logs')
         /\ j = 3 => <<job, i>> \in DOMAIN logs'
<1>1. \A p \in Pids : p \in Pids' /\ Fixed(procs[p], procs'[p])
  BY StillFixed
<1>2. \A l \in DOMAIN logs : LogOK(l) /\ Len(logs[l]) \in Nat
  BY LenProperties DEF LogsOK, LogOK
<1>3. ASSUME NEW l \in DOMAIN logs, l \in DOMAIN logs', logs'[l] = logs[l]
      PROVE  LogOK(l)' /\ Grown(l)
  BY <1>1, <1>2, <1>3, LogKept DEF Grown
<1>4. CASE logs' = logs /\ (j = 3 => <<job, i>> \in DOMAIN logs)
  <2>1. \A l \in DOMAIN logs : LogOK(l)' /\ Grown(l)
    BY <1>3, <1>4
  <2> QED BY <1>4, <2>1 DEF LogsOK
<1>5. CASE /\ j = 3 /\ logs' = With(logs, <<job, i>>, <<>>)
           /\ script = "slowtier_overhead" => <<job, i>> \notin DOMAIN logs
  <2>1. PICK x : x = <<job, i>>
    OBVIOUS
  <2>2. /\ DOMAIN logs' = DOMAIN logs \cup {x} /\ logs'[x] = <<>>
        /\ \A l \in DOMAIN logs : l # x => logs'[l] = logs[l]
    <3> DEFINE after == With(logs, x, <<>>)
    <3>1. /\ DOMAIN after = DOMAIN logs \cup {x} /\ after[x] = <<>>
          /\ \A l \in DOMAIN logs : l # x => after[l] = logs[l]
      BY DEF With
    <3>2. logs' = after
      BY <1>5, <2>1
    <3> HIDE DEF after
    <3> QED BY <3>1, <3>2
  <2>3. x # Nowhere
    BY <2>1 DEF Job, Nowhere
  <2>4. LogOK(x)'
    BY <2>2, EmptyLog
  <2>5. \A l \in DOMAIN logs : l # x => LogOK(l)' /\ Grown(l)
    BY <1>3, <2>2
  <2> QED BY <1>5, <2>1, <2>2, <2>3, <2>4, <2>5 DEF LogsOK, Overheads
<1>6. CASE j \in {1, 3}
  BY <1>4, <1>5, <1>6, OpensLog, OverheadCases
<1>7. CASE j \notin {1, 3}
  <2>1. logs' = logs
    BY <1>7, OverheadCases DEF ReadLogs
  <2> QED BY <1>4, <1>7, <2>1
<1> QED BY <1>6, <1>7

(* What has been read stays as it is, while its log is not truncated.      *)
LEMMA ResultKept ==
  ASSUME script' = script, LogsOK, LogsOK', NEW k, ResultOK(k), results'[k] = results[k], results[k].lines \in Seq(Line),
         Grown(LogOf(k)), \A p \in Pids : p \in Pids' /\ Fixed(procs[p], procs'[p])
  PROVE  ResultOK(k)'
<1>1. PICK l : l = LogOf(k)
  OBVIOUS
<1>2. PICK read : read = results[k].lines
  OBVIOUS
<1>3. /\ results[k].it = k /\ IsBlock(k) /\ l \in DOMAIN logs /\ Len(read) <= Len(logs[l])
      /\ \A m \in 1..Len(read) : read[m] = logs[l][m] /\ procs[read[m].by].it <= k
  BY <1>1, <1>2 DEF ResultOK
<1>4. l \in DOMAIN logs' /\ Len(logs[l]) <= Len(logs'[l]) /\ \A m \in 1..Len(logs[l]) : logs'[l][m] = logs[l][m]
  BY <1>1 DEF Grown
<1>5. logs[l] \in Seq(Line) /\ \A m \in 1..Len(logs[l]) : Writer(logs[l][m].by, l)
  BY <1>3 DEF LogsOK, LogOK
<1>6. /\ DOMAIN logs[l] = 1..Len(logs[l]) /\ Len(logs[l]) \in Nat /\ Len(read) \in Nat
  BY <1>2, <1>5, LenProperties
<1>7. l = LogOf(k)' /\ IsBlock(k)' /\ read = results'[k].lines /\ results'[k].it = k
  BY <1>1, <1>2, <1>3 DEF LogOf, IsBlock
<1>8. ASSUME NEW m \in 1..Len(read) PROVE read[m] = logs'[l][m] /\ procs'[read[m].by].it <= k
  <2>1. m \in 1..Len(logs[l])
    BY <1>3, <1>6
  <2>2. read[m] = logs[l][m] /\ Writer(logs[l][m].by, l)
    BY <1>3, <1>5, <2>1
  <2>3. procs'[read[m].by].it = procs[read[m].by].it
    BY <2>2 DEF Writer, Fixed
  <2> QED BY <1>3, <1>4, <2>1, <2>2, <2>3
<1>9. Len(read) <= Len(logs'[l])
  <2>1. logs'[l] \in Seq(Line)
    BY <1>4 DEF LogsOK, LogOK
  <2>2. Len(logs'[l]) \in Nat
    BY <2>1, LenProperties
  <2> QED BY <1>3, <1>4, <1>6, <2>2
<1> QED BY <1>3, <1>4, <1>7, <1>8, <1>9 DEF ResultOK

Result == [lines : Seq(Line), it : Nat]

LEMMA ProcessWritten ==
  ASSUME Common, script \in Overheads, LogsOK, ResultsOK, Frame, NEW p \in Pids, MayPrint(p), UNCHANGED script_vars
  PROVE  LogsOK' /\ ResultsOK'
<1>1. LogsOK' /\ \A l \in DOMAIN logs : Grown(l)
  BY ProcessLogs
<1>2. script' = script /\ pc' = pc /\ results' = results
  BY DEF script_vars
<1>3. \A q \in Pids : q \in Pids' /\ Fixed(procs[q], procs'[q])
  BY DEF Frame, Pids
<1>4. results \in Seq(Result) /\ \A k \in 1..Len(results) : ResultOK(k)
  BY DEF ResultsOK, Result
<1>5. ASSUME NEW k \in 1..Len(results) PROVE ResultOK(k)'
  <2>1. results[k].lines \in Seq(Line) /\ ResultOK(k)
    <3>1. results[k] \in Result
      BY <1>4
    <3> QED BY <1>4, <3>1 DEF Result
  <2>2. Grown(LogOf(k))
    BY <1>1, <2>1 DEF ResultOK
  <2> QED BY <1>1, <1>2, <1>3, <2>1, <2>2, ResultKept
<1>6. \A b \in Nat \ {0} : Before(b) + 3 < pc => LogOf(b) \in DOMAIN logs'
  BY <1>1 DEF ResultsOK, Grown
<1>7. \A b \in Nat \ {0} : LogOf(b)' = LogOf(b)
  BY <1>2 DEF LogOf
<1>8. \A b : Before(b)' = Before(b)
  BY <1>2 DEF Before
<1>9. PICK n : n = Len(results)
  OBVIOUS
<1>10. /\ results' \in Seq(Result) /\ Before(n + 1) < pc /\ pc <= Before(n + 2)
  BY <1>2, <1>4, <1>9 DEF ResultsOK
<1>11. n = Len(results') /\ Before(n + 1)' < pc' /\ pc' <= Before(n + 2)'
  BY <1>2, <1>8, <1>9, <1>10
<1>12. \A b \in Nat \ {0} : Before(b)' + 3 < pc' => LogOf(b)' \in DOMAIN logs'
  BY <1>2, <1>6, <1>7, <1>8
<1>13. \A k \in 1..Len(results') : ResultOK(k)'
  BY <1>2, <1>5
<1> QED BY <1>1, <1>10, <1>11, <1>12, <1>13 DEF ResultsOK, Result

(* The log of a block is that of no other.                                 *)
LEMMA OwnLog ==
  ASSUME TypeOK, script = "burst_overhead", NEW a \in Nat \ {0}, NEW b \in Nat \ {0},
         IsBlock(a), IsBlock(b), LogOf(a) = LogOf(b)
  PROVE  a = b
<1>0. script \in Overheads
  BY DEF Overheads
<1>1. PICK x \in Job : \E m \in Nat : Valid(a, x, m)
  BY DEF IsBlock, Valid
<1>2. PICK m \in Nat : Valid(a, x, m)
  BY <1>1
<1>3. PICK y \in Job : \E n \in Nat : Valid(b, y, n)
  BY DEF IsBlock, Valid
<1>4. PICK n \in Nat : Valid(b, y, n)
  BY <1>3
<1>5. <<x, m>> = <<y, n>>
  BY <1>0, <1>2, <1>4, LogOfBlock
<1>6. x = y /\ m = n
  BY <1>5
<1>7. OverheadScript(script, StepsOf[script])
  BY <1>0, Scripted DEF TypeOK, Facts
<1>8. \A job \in Job : \A i \in Nat : Valid(a, job, i) /\ Valid(b, job, i) => a = b
  BY <1>7 DEF OverheadScript, Valid
<1> QED BY <1>2, <1>4, <1>6, <1>8

LEMMA FlattenSingle ==
  ASSUME NEW S, NEW s \in Seq(S), NEW seqs, seqs = <<s>>
  PROVE  FlattenSeq(seqs) = s
<1>1. seqs \in Seq(Seq(S)) /\ Len(seqs) = 1 /\ seqs[1] = s
  OBVIOUS
<1>2. FlattenSeq(seqs) = seqs[1]
  <2>1. 1 \in 1..Len(seqs) /\ \A l \in 1..Len(seqs) : l # 1 => seqs[l] = <<>>
    BY <1>1
  <2> QED BY <1>1, <2>1, FlattenOne
<1> QED BY <1>1, <1>2

(* The block that the script is at is the next to be read.                 *)
LEMMA NextBlock ==
  ASSUME TypeOK, script \in Overheads, ResultsOK, NEW b \in Nat \ {0}, NEW j \in 1..Length(script),
         pc = Before(b) + j
  PROVE  b = Len(results) + 1 /\ Len(results) \in Nat
<1> DEFINE n == Len(results)
           L == Length(script)
<1>1. n \in Nat
  BY LenProperties DEF ResultsOK
<1>2. /\ L * ((n + 1) - 1) < L * (b - 1) + j /\ L * (b - 1) + j <= L * ((n + 2) - 1)
      /\ (L = 7 \/ L = 8) /\ j \in 1..L
  BY Lengths DEF ResultsOK, Before
<1> HIDE DEF n, L
<1>3. b = n + 1
  <2>1. CASE L = 7
    BY <1>1, <1>2, <2>1
  <2>2. CASE L = 8
    BY <1>1, <1>2, <2>2
  <2> QED BY <1>2, <2>1, <2>2
<1> QED BY <1>1, <1>3 DEF n

(* Once a checkpoint has been started its log is there.                    *)
LEMMA LogsThere ==
  ASSUME Common, script \in Overheads, LogsOK, ResultsOK, ScriptStep, Spawns \/ Goes,
         NEW b \in Nat \ {0}, NEW job \in Job, NEW i \in Nat, NEW j \in 1..Length(script), Here(b, job, i, j)
  PROVE  \A c \in Nat \ {0} : Before(c) + 3 < pc + 1 => LogOf(c) \in DOMAIN logs'
<1> SUFFICES ASSUME NEW c \in Nat \ {0}, Before(c) + 3 < pc + 1 PROVE LogOf(c) \in DOMAIN logs'
  OBVIOUS
<1>1. \A l \in DOMAIN logs : l \in DOMAIN logs'
  BY ScriptLogs DEF Grown
<1>2. pc \in Nat /\ Before(c) \in Nat
  BY Lengths DEF Common, TypeOK
<1>3. CASE Before(c) + 3 < pc
  BY <1>1, <1>3 DEF ResultsOK
<1>4. CASE pc = Before(c) + 3
  <2>1. 3 \in 1..Length(script) /\ pc = Before(b) + j /\ Valid(b, job, i)
    BY Lengths DEF Here
  <2>2. b = c /\ j = 3
    BY <1>4, <2>1, SameBlock
  <2>3. <<job, i>> \in DOMAIN logs'
    BY <2>2, ScriptLogs
  <2>4. LogOf(c) = <<job, i>>
    BY <2>1, <2>2, LogOfBlock
  <2> QED BY <2>3, <2>4
<1> QED BY <1>2, <1>3, <1>4

LEMMA ResultsStay ==
  ASSUME Common, script \in Overheads, LogsOK, ResultsOK, ScriptStep, Spawns \/ Goes, script' = script,
         NEW b \in Nat \ {0}, NEW job \in Job, NEW i \in Nat, NEW j \in 1..Length(script), Here(b, job, i, j),
         NEW k \in 1..Len(results), results'[k] = results[k]
  PROVE  ResultOK(k)'
<1>1. results[k].lines \in Seq(Line) /\ ResultOK(k)
  <2>1. results \in Seq(Result)
    BY DEF ResultsOK, Result
  <2>2. results[k] \in Result
    BY <2>1
  <2> QED BY <2>2 DEF Result, ResultsOK
<1>2. \A p \in Pids : p \in Pids' /\ Fixed(procs[p], procs'[p])
  BY StillFixed
<1>3. LogsOK' /\ \A l \in DOMAIN logs : Grown(l) \/ (script = "burst_overhead" /\ l = <<job, i>>)
  BY ScriptLogs
<1>4. LogOf(k) \in DOMAIN logs /\ IsBlock(k)
  BY <1>1 DEF ResultOK
<1>5. ~(script = "burst_overhead" /\ LogOf(k) = <<job, i>>)
  <2> SUFFICES ASSUME script = "burst_overhead", LogOf(k) = <<job, i>> PROVE FALSE
    OBVIOUS
  <2>1. TypeOK /\ Valid(b, job, i) /\ pc = Before(b) + j
    BY DEF Common, Here
  <2>2. b = Len(results) + 1 /\ Len(results) \in Nat
    BY <2>1, NextBlock
  <2>3. IsBlock(b) /\ LogOf(b) = <<job, i>>
    BY <2>1, LogOfBlock DEF IsBlock, Valid
  <2>4. k \in Nat \ {0} /\ k # b
    BY <2>2
  <2> QED BY <1>4, <2>1, <2>3, <2>4, OwnLog
<1>6. Grown(LogOf(k))
  BY <1>3, <1>4, <1>5
<1> QED BY <1>1, <1>2, <1>3, <1>6, ResultKept

(* The log is read, in a step that changes nothing else.                   *)
LEMMA ReadsLog ==
  ASSUME Common, script \in Overheads, InTheirBlock, LogsOK, ResultsOK, ReadLogs, script' = script,
         NEW b \in Nat \ {0}, NEW job \in Job, NEW i \in Nat, Here(b, job, i, Length(script))
  PROVE  /\ results' \in Seq(Result) /\ Len(results') = Len(results) + 1 /\ b = Len(results) + 1
         /\ \A k \in 1..Len(results) : results'[k] = results[k]
         /\ ResultOK(b)'
<1>1. PICK x : x = <<job, i>>
  OBVIOUS
<1>2. /\ procs' = procs /\ logs' = logs
      /\ results' = Append(results,
           [lines |-> FlattenSeq([k \in 1..Len(Current.arg) |-> logs[Current.arg[k]]]), it |-> Current.it])
  BY DEF ReadLogs
<1>3. Length(script) \in 1..Length(script) /\ Length(script) \notin {1, 3}
      /\ 3 < Length(script) /\ Length(script) \in Nat /\ Before(b) \in Nat
  BY Lengths
<1>4. Current.arg = <<x>> /\ Current.it = b /\ pc = Before(b) + Length(script) /\ Valid(b, job, i)
  BY <1>1 DEF Here, IsStep, ReadLogs, AtStep
<1>5. LogOf(b) = x /\ IsBlock(b)
  BY <1>1, <1>4, LogOfBlock DEF IsBlock, Valid
<1>6. b = Len(results) + 1 /\ Len(results) \in Nat
  BY <1>3, <1>4, NextBlock DEF Common
<1>7. x \in DOMAIN logs
  <2>1. Before(b) + 3 < pc
    BY <1>3, <1>4
  <2> QED BY <1>5, <2>1 DEF ResultsOK
<1>8. PICK log : log = logs[x]
  OBVIOUS
<1>9. LogOK(x) /\ log \in Seq(Line) /\ Len(log) \in Nat
  BY <1>7, <1>8, LenProperties DEF LogsOK, LogOK
<1>10. FlattenSeq([k \in 1..Len(Current.arg) |-> logs[Current.arg[k]]]) = log
  <2> DEFINE seqs == [k \in 1..Len(Current.arg) |-> logs[Current.arg[k]]]
  <2>1. Len(Current.arg) = 1 /\ Current.arg[1] = x
    BY <1>4
  <2>2. seqs = [k \in 1..1 |-> log]
    BY <1>8, <2>1
  <2>3. seqs = <<log>>
    BY <2>2
  <2> HIDE DEF seqs
  <2>4. FlattenSeq(seqs) = log
    BY <1>9, <2>3, FlattenSingle
  <2> QED BY <2>4 DEF seqs
<1>11. PICK r : r = [lines |-> log, it |-> b]
  OBVIOUS
<1>12. r \in Result /\ r.lines = log /\ r.it = b
  BY <1>9, <1>11 DEF Result
<1>13. results' = Append(results, r) /\ results \in Seq(Result)
  BY <1>2, <1>4, <1>10, <1>11 DEF ResultsOK, Result
<1>14. /\ results' \in Seq(Result) /\ Len(results') = Len(results) + 1 /\ results'[b] = r
       /\ \A k \in 1..Len(results) : results'[k] = results[k]
  BY <1>6, <1>12, <1>13
<1>15. ASSUME NEW m \in 1..Len(log) PROVE procs[log[m].by].it <= b
  <2>1. log[m].by \in Pids
    BY <1>8, <1>9 DEF LogOK, Writer
  <2> DEFINE q == procs[log[m].by]
             a == q.it
             L == Length(script)
  <2>2. InWindow(q, pc)
    BY <2>1, InTheirBlockIs
  <2>3. PICK other \in Job : \E h \in Nat : InBlock(q, other, h)
    BY <2>1, OfBlock
  <2>4. a \in Nat \ {0}
    BY <2>3 DEF InBlock
  <2>5. L * (a - 1) + 1 < L * (b - 1) + L /\ (L = 7 \/ L = 8)
    BY <1>4, <2>2, Lengths DEF InWindow, Before
  <2> HIDE DEF a, L, q
  <2>6. a <= b
    <3>1. CASE L = 7
      BY <2>4, <2>5, <3>1
    <3>2. CASE L = 8
      BY <2>4, <2>5, <3>2
    <3> QED BY <2>5, <3>1, <3>2
  <2> QED BY <2>6 DEF a, q
<1>16. ResultOK(b)'
  <2>1. LogOf(b)' = x /\ IsBlock(b)'
    BY <1>5 DEF LogOf, IsBlock
  <2>2. results'[b].it = b /\ results'[b].lines = log /\ logs'[x] = log /\ x \in DOMAIN logs'
    BY <1>2, <1>7, <1>8, <1>12, <1>14
  <2>3. Len(log) <= Len(log) /\ \A m \in 1..Len(log) : procs'[log[m].by].it <= b
    BY <1>2, <1>9, <1>15
  <2> QED BY <2>1, <2>2, <2>3 DEF ResultOK
<1> QED BY <1>6, <1>14, <1>16

LEMMA ScriptWritten ==
  ASSUME Common, script \in Overheads, InTheirBlock, LogsOK, ResultsOK, ScriptStep, Spawns \/ Goes
  PROVE  LogsOK' /\ ResultsOK'
<1>1. status = "running"
  BY DEF ScriptStep, StartInBackground, RunForeground, ForegroundEnds, RunSupervised, SupervisedEnds,
         TimesOut, StillThere, SleepEnds, SendSigint, SendSigterm, RemoveLogs, MoveLog, ReadLogs, Raises, AtStep
<1>2. PICK b \in Nat \ {0} : \E job \in Job : \E i \in Nat : \E j \in 1..Length(script) : Here(b, job, i, j)
  BY <1>1, ThisStep DEF Here
<1>3. PICK job \in Job : \E i \in Nat : \E j \in 1..Length(script) : Here(b, job, i, j)
  BY <1>2
<1>4. PICK i \in Nat : \E j \in 1..Length(script) : Here(b, job, i, j)
  BY <1>3
<1>5. PICK j \in 1..Length(script) : Here(b, job, i, j)
  BY <1>4
<1>6. script' = script /\ pc' = pc + 1
  BY <1>5, OverheadCases
<1>7. LogsOK'
  BY <1>5, ScriptLogs
<1>8. \A c \in Nat \ {0} : Before(c) + 3 < pc + 1 => LogOf(c) \in DOMAIN logs'
  BY <1>5, LogsThere
<1>9. \A c : LogOf(c)' = LogOf(c) /\ Before(c)' = Before(c)
  BY <1>6 DEF LogOf, Before
<1>10. \A c \in Nat \ {0} : Before(c)' + 3 < pc' => LogOf(c)' \in DOMAIN logs'
  BY <1>6, <1>8, <1>9
<1>11. PICK n : n = Len(results)
  OBVIOUS
<1>12. b = n + 1 /\ n \in Nat /\ pc = Before(n + 1) + j /\ results \in Seq(Result)
  BY <1>5, <1>11, NextBlock DEF Here, Common, ResultsOK, Result
<1>13. \A k \in 1..n : results'[k] = results[k] => ResultOK(k)'
  BY <1>5, <1>6, <1>11, ResultsStay
<1>14. /\ Before(n + 2) = Before(n + 1) + Length(script) /\ Before(n + 3) = Before(n + 2) + Length(script)
       /\ Before(n + 1) \in Nat /\ (Length(script) = 7 \/ Length(script) = 8)
  <2> DEFINE L == Length(script)
             x == Before(n + 1)
             y == Before(n + 2)
             z == Before(n + 3)
  <2>1. x = L * ((n + 1) - 1) /\ y = L * ((n + 2) - 1) /\ z = L * ((n + 3) - 1)
    BY DEF Before
  <2>2. L = 7 \/ L = 8
    BY Lengths
  <2> HIDE DEF L, x, y, z
  <2>3. ASSUME L = 7 PROVE y = x + L /\ z = y + L /\ x \in Nat
    <3>1. x = 7 * n /\ y = 7 * n + 7 /\ z = 7 * n + 14
      BY <1>12, <2>1, <2>3
    <3> QED BY <1>12, <2>3, <3>1
  <2>4. ASSUME L = 8 PROVE y = x + L /\ z = y + L /\ x \in Nat
    <3>1. x = 8 * n /\ y = 8 * n + 8 /\ z = 8 * n + 16
      BY <1>12, <2>1, <2>4
    <3> QED BY <1>12, <2>4, <3>1
  <2>5. y = x + L /\ z = y + L /\ x \in Nat /\ (L = 7 \/ L = 8)
    BY <2>2, <2>3, <2>4
  <2> QED BY <2>5 DEF L, x, y, z
<1>15. CASE j = Length(script)
  <2>1. ReadLogs
    BY <1>5, <1>15, OverheadCases
  <2>2. /\ results' \in Seq(Result) /\ Len(results') = n + 1
        /\ \A k \in 1..n : results'[k] = results[k]
        /\ ResultOK(b)'
    BY <1>5, <1>6, <1>11, <1>15, <2>1, ReadsLog
  <2>3. PICK m : m = n + 1
    OBVIOUS
  <2>4. ASSUME NEW k \in 1..m PROVE ResultOK(k)'
    <3>1. CASE k \in 1..n
      BY <1>13, <2>2, <3>1
    <3>2. CASE k = b
      BY <2>2, <3>2
    <3> QED BY <1>12, <2>3, <3>1, <3>2
  <2>5. Before(m + 1) < pc + 1 /\ pc + 1 <= Before(m + 2)
    <3>1. m + 1 = n + 2 /\ m + 2 = n + 3
      BY <1>12, <2>3
    <3> DEFINE L == Length(script)
               x == Before(n + 1)
               y == Before(n + 2)
               z == Before(n + 3)
    <3>2. pc = x + L /\ y = x + L /\ z = y + L /\ x \in Nat /\ (L = 7 \/ L = 8)
      BY <1>12, <1>14, <1>15
    <3>3. Before(m + 1) = y /\ Before(m + 2) = z
      BY <3>1
    <3> HIDE DEF L, x, y, z
    <3>4. y < pc + 1 /\ pc + 1 <= z
      BY <3>2
    <3> QED BY <3>3, <3>4
  <2>6. m = Len(results') /\ Before(m + 1)' < pc' /\ pc' <= Before(m + 2)'
    BY <1>6, <1>9, <2>2, <2>3, <2>5
  <2> QED BY <1>7, <1>10, <2>2, <2>4, <2>6 DEF ResultsOK, Result
<1>16. CASE j # Length(script)
  <2>1. results' = results
    BY <1>5, <1>16, OverheadCases, OpensLog
  <2>2. \A k \in 1..n : ResultOK(k)'
    BY <1>13, <2>1
  <2>3. Before(n + 1) < pc + 1 /\ pc + 1 <= Before(n + 2)
    <3> DEFINE L == Length(script)
               x == Before(n + 1)
               y == Before(n + 2)
    <3>1. pc = x + j /\ y = x + L /\ x \in Nat /\ (L = 7 \/ L = 8) /\ j \in 1..L /\ j # L
      BY <1>12, <1>14, <1>16
    <3> HIDE DEF L, x, y
    <3>2. x < pc + 1 /\ pc + 1 <= y
      BY <3>1
    <3> QED BY <3>2 DEF x, y
  <2>4. n = Len(results') /\ Before(n + 1)' < pc' /\ pc' <= Before(n + 2)'
    BY <1>6, <1>9, <1>11, <2>1, <2>3
  <2> QED BY <1>7, <1>10, <1>12, <2>1, <2>2, <2>4 DEF ResultsOK, Result
<1> QED BY <1>15, <1>16

-----------------------------------------------------------------------------
(***************************************************************************)
(* What is reported for an iteration.                                      *)
(***************************************************************************)

(* A line of the i-th result, and who wrote it.                            *)
IsRead(i, m) ==
  LET line == results[i].lines[m] IN
  /\ results[i].it = i /\ IsBlock(i)
  /\ m \in 1..Len(logs[LogOf(i)]) /\ line = logs[LogOf(i)][m]
  /\ Writer(line.by, LogOf(i)) /\ procs[line.by].it <= i
  /\ procs[line.by].it \in Nat \ {0} /\ IsBlock(procs[line.by].it) /\ LogOf(procs[line.by].it) = LogOf(i)

LEMMA WhoWroteIt ==
  ASSUME Common, script \in Overheads, LogsOK, ResultsOK, NEW i \in 1..Len(results),
         NEW m \in 1..Len(results[i].lines)
  PROVE  IsRead(i, m)
<1>1. PICK read : read = results[i].lines
  OBVIOUS
<1>2. PICK l : l = LogOf(i)
  OBVIOUS
<1>3. ResultOK(i) /\ read \in Seq(Line)
  <2>1. results \in Seq(Result)
    BY DEF ResultsOK, Result
  <2>2. results[i] \in Result
    BY <2>1
  <2> QED BY <1>1, <2>2 DEF Result, ResultsOK
<1>4. /\ results[i].it = i /\ IsBlock(i) /\ l \in DOMAIN logs /\ Len(read) <= Len(logs[l])
      /\ read[m] = logs[l][m] /\ procs[read[m].by].it <= i
  BY <1>1, <1>2, <1>3 DEF ResultOK
<1>5. LogOK(l) /\ Len(logs[l]) \in Nat /\ Len(read) \in Nat
  BY <1>3, <1>4, LenProperties DEF LogsOK, LogOK
<1>6. m \in 1..Len(logs[l])
  BY <1>1, <1>4, <1>5
<1>7. Writer(read[m].by, l)
  BY <1>4, <1>5, <1>6 DEF LogOK
<1>8. PICK p \in Pids : p = read[m].by
  BY <1>7 DEF Writer
<1>9. procs[p].log = l /\ procs[p].role = "checkpoint"
  BY <1>7, <1>8 DEF Writer
<1>10. PICK job \in Job : \E h \in Nat : InBlock(procs[p], job, h)
  BY OfBlock
<1>11. PICK h \in Nat : InBlock(procs[p], job, h)
  BY <1>10
<1>12. procs[p].it \in Nat \ {0} /\ Valid(procs[p].it, job, h) /\ procs[p].log = <<job, h>>
  BY <1>9, <1>11 DEF InBlock
<1>13. LogOf(procs[p].it) = l /\ IsBlock(procs[p].it)
  BY <1>9, <1>12, LogOfBlock DEF IsBlock, Valid
<1> QED BY <1>1, <1>2, <1>4, <1>6, <1>7, <1>8, <1>12, <1>13 DEF IsRead

(* In a log that is truncated there is only what its own block has         *)
(* written; in one that is appended to, a line that was there when an      *)
(* earlier block was read is before those of the block itself.             *)
LEMMA Reported ==
  ASSUME Common, Written
  PROVE  SnapshotIsItsOwn
<1> SUFFICES ASSUME script \in Overheads, NEW i \in 1..Len(results),
                    NEW last \in SnapshotsIn(results[i].lines),
                    \A k \in SnapshotsIn(results[i].lines) : k <= last
             PROVE  LET lines == results[i].lines
                        own   == {k \in SnapshotsIn(lines) : lines[k].by \in Own(results[i].it)}
                    IN \/ last \in own
                       \/ /\ script = "slowtier_overhead"
                          /\ own = {} \/ \A j \in 1..i - 1 : lines[last] \notin ToSet(results[j].lines)
  BY DEF SnapshotIsItsOwn, Overheads
<1>1. PICK lines : lines = results[i].lines
  OBVIOUS
<1>2. last \in 1..Len(lines)
  BY <1>1 DEF SnapshotsIn
<1> DEFINE own == {k \in SnapshotsIn(lines) : lines[k].by \in Own(results[i].it)}
<1>3. LogsOK /\ ResultsOK
  BY DEF Written
<1>4. IsRead(i, last)
  BY <1>1, <1>2, <1>3, WhoWroteIt
<1>5. CASE script = "burst_overhead"
  <2>1. procs[lines[last].by].it = i
    BY <1>1, <1>4, <1>5, OwnLog, SMTT(60) DEF IsRead, Common
  <2>2. last \in own
    BY <1>1, <1>4, <2>1 DEF IsRead, Own, Writer
  <2> QED BY <1>1, <2>2
<1>6. CASE script = "slowtier_overhead"
  <2> SUFFICES ASSUME last \notin own, own # {}, NEW j \in 1..i - 1, lines[last] \in ToSet(results[j].lines)
               PROVE  FALSE
    BY <1>1, <1>6
  <2>1. PICK o \in own : TRUE
    OBVIOUS
  <2>2. o \in 1..Len(lines) /\ o # last /\ o <= last /\ lines[o].by \in Own(results[i].it)
    BY <1>1, <2>1 DEF SnapshotsIn
  <2>3. IsRead(i, o)
    BY <1>1, <1>3, <2>2, WhoWroteIt
  <2>4. j \in 1..Len(results) /\ j < i
    <3>1. Len(results) \in Nat
      BY <1>3, LenProperties DEF ResultsOK
    <3> QED BY <3>1
  <2>5. PICK n \in DOMAIN results[j].lines : lines[last] = results[j].lines[n]
    BY DEF ToSet
  <2>6. n \in 1..Len(results[j].lines) /\ Len(results[j].lines) \in Nat
    <3>1. results \in Seq(Result)
      BY <1>3 DEF ResultsOK, Result
    <3>2. results[j] \in Result
      BY <2>4, <3>1
    <3>3. results[j].lines \in Seq(Line)
      BY <3>2 DEF Result
    <3> QED BY <2>5, <3>3
  <2>7. IsRead(j, n)
    BY <1>3, <2>4, <2>6, WhoWroteIt
  <2>8. PICK l : l = LogOf(i)
    OBVIOUS
  <2>9. LogOf(j) = l
    BY <1>1, <1>4, <2>5, <2>7, <2>8 DEF IsRead, Writer
  <2>10. LogOK(l)
    BY <1>3, <2>4, <2>9 DEF ResultsOK, ResultOK, LogsOK
  <2>11. /\ last \in 1..Len(logs[l]) /\ lines[last] = logs[l][last]
         /\ n \in 1..Len(logs[l]) /\ lines[last] = logs[l][n]
         /\ lines[o] = logs[l][o]
    BY <1>1, <1>4, <2>3, <2>5, <2>7, <2>8, <2>9 DEF IsRead
  <2>12. n = last
    BY <2>10, <2>11 DEF LogOK
  <2>13. o \in 1..Len(results[j].lines)
    BY <2>2, <2>6, <2>12
  <2>14. IsRead(j, o)
    BY <1>3, <2>4, <2>13, WhoWroteIt
  <2>15. procs[lines[o].by].it <= j
    BY <2>9, <2>11, <2>14 DEF IsRead
  <2>16. procs[lines[o].by].it = i
    BY <2>2, <2>3 DEF Own, IsRead
  <2> QED BY <2>4, <2>15, <2>16
<1> QED BY <1>5, <1>6 DEF Overheads

-----------------------------------------------------------------------------
(***************************************************************************)
(* The invariant holds, and with it the two properties.                    *)
(***************************************************************************)
LEMMA InitInv == Init => IInv
<1> SUFFICES ASSUME Init PROVE IInv
  OBVIOUS
<1>1. /\ script \in Scripts /\ pc = 1 /\ status = "running" /\ waiting = "no" /\ procs = <<>>
      /\ images = <<>> /\ logs = <<>> /\ dumped = {} /\ results = <<>>
  BY DEF Init
<1>2. /\ Len(procs) = 0 /\ Pids = {} /\ procs \in Seq(Process) /\ DOMAIN images = {} /\ DOMAIN logs = {}
      /\ Len(results) = 0 /\ results \in Seq(Result)
  BY <1>1 DEF Pids
<1>3. 1 \in 1..Len(StepsOf[script])
  BY <1>1, Scripted DEF Facts, ProperScript
<1>4. Common
  BY <1>1, <1>2, <1>3 DEF Common, TypeOK, Planned, GuestOK, AcceptOK, ListenOK, WaitOK, ImagesOK
<1>5. OneAtATime /\ DumpedOK /\ InTheirBlock /\ RestoredGuestIsTheRightOne
  BY <1>1, <1>2 DEF OneAtATime, DumpedOK, InTheirBlock, RestoredGuestIsTheRightOne
<1>6. ASSUME script \in Overheads PROVE LogsOK /\ ResultsOK
  <2>1. (Length(script) = 7 \/ Length(script) = 8) /\ \A b \in Nat \ {0} : Before(b) \in Nat
    BY <1>6, Lengths
  <2>2. Before(0 + 1) < pc /\ pc <= Before(0 + 2)
    BY <1>1, <2>1 DEF Before
  <2>3. \A b \in Nat \ {0} : Before(b) + 3 < pc => FALSE
    BY <1>1, <2>1
  <2>4. 1..Len(results) = {}
    BY <1>2
  <2> QED BY <1>2, <2>2, <2>3, <2>4 DEF LogsOK, ResultsOK, Result
<1> QED BY <1>4, <1>5, <1>6 DEF IInv, Written

LEMMA NextInv == IInv /\ Next => IInv'
<1> SUFFICES ASSUME IInv, Next PROVE IInv'
  OBVIOUS
<1>1. /\ Common /\ OneAtATime /\ DumpedOK /\ InTheirBlock /\ Restored
      /\ script \in Overheads => LogsOK /\ ResultsOK
  BY DEF IInv, Restored, Written
<1>2. WiredOK
  BY <1>1, Wired
<1>3. Common' /\ GuestOK'
  <2>1. Common'
    BY <1>1, <1>2, CommonStep
  <2> QED BY <2>1 DEF Common
<1>4. CASE ProcessStep /\ Steady /\ UNCHANGED script_vars
  <2>1. script' = script /\ pc' = pc /\ Frame
    BY <1>4 DEF script_vars, Steady
  <2>2. OneAtATime'
    <3>1. CASE script = "checkpoint_restore"
      BY <1>1, <1>4, <3>1, SaverProcess
    <3>2. CASE script # "checkpoint_restore"
      BY <2>1, <3>2 DEF OneAtATime
    <3> QED BY <3>1, <3>2
  <2>3. DumpedOK'
    <3>1. CASE script = "criu"
      BY <1>1, <1>4, <3>1, CriuProcess
    <3>2. CASE script # "criu"
      BY <2>1, <3>2 DEF DumpedOK
    <3> QED BY <3>1, <3>2
  <2>4. InTheirBlock'
    <3>1. CASE script \in Overheads
      BY <1>1, <2>1, <3>1, BlockFrame
    <3>2. CASE script \notin Overheads
      BY <2>1, <3>2 DEF InTheirBlock
    <3> QED BY <3>1, <3>2
  <2>5. Written'
    <3>1. CASE script \in Overheads
      <4>1. PICK p \in Pids : \/ StartCheckpoint(p) \/ StartNative(p) \/ Bind(p) \/ Read(p)
                              \/ Receive(p) \/ Finish(p) \/ Snapshot(p) \/ Dump(p)
        BY <1>4 DEF ProcessStep
      <4>2. MayPrint(p)
        BY <1>1, <4>1, ProcessPrints DEF Common, TypeOK
      <4> QED BY <1>1, <1>4, <2>1, <3>1, <4>2, ProcessWritten DEF Written
    <3>2. CASE script \notin Overheads
      BY <2>1, <3>2 DEF Written
    <3> QED BY <3>1, <3>2
  <2>6. Restored'
    BY <1>1, <1>3, <1>4, RestoredStep
  <2> QED BY <1>3, <2>2, <2>3, <2>4, <2>5, <2>6 DEF IInv, Restored
<1>5. CASE ScriptStep /\ (Spawns \/ Goes)
  <2>1. script' = script
    BY <1>5 DEF ScriptStep, StartInBackground, RunForeground, ForegroundEnds, RunSupervised, SupervisedEnds,
         TimesOut, StillThere, SleepEnds, SendSigint, SendSigterm, RemoveLogs, MoveLog, ReadLogs, Raises, AtStep
  <2>2. OneAtATime'
    <3>1. CASE script = "checkpoint_restore"
      BY <1>1, <1>5, <3>1, SaverScript
    <3>2. CASE script # "checkpoint_restore"
      BY <2>1, <3>2 DEF OneAtATime
    <3> QED BY <3>1, <3>2
  <2>3. DumpedOK'
    <3>1. CASE script = "criu"
      BY <1>1, <1>5, <3>1, CriuScript
    <3>2. CASE script # "criu"
      BY <2>1, <3>2 DEF DumpedOK
    <3> QED BY <3>1, <3>2
  <2>4. InTheirBlock'
    <3>1. CASE script \in Overheads
      BY <1>1, <1>5, <3>1, BlockScript
    <3>2. CASE script \notin Overheads
      BY <2>1, <3>2 DEF InTheirBlock
    <3> QED BY <3>1, <3>2
  <2>5. Written'
    <3>1. CASE script \in Overheads
      BY <1>1, <1>5, <3>1, ScriptWritten DEF Written
    <3>2. CASE script \notin Overheads
      BY <2>1, <3>2 DEF Written
    <3> QED BY <3>1, <3>2
  <2>6. Restored'
    BY <1>1, <1>3, <1>5, RestoredStep
  <2> QED BY <1>3, <2>2, <2>3, <2>4, <2>5, <2>6 DEF IInv, Restored
<1> QED BY <1>1, <1>2, <1>4, <1>5, Cases

LEMMA StutterInv == IInv /\ UNCHANGED vars => IInv'
<1> SUFFICES ASSUME IInv, UNCHANGED vars PROVE IInv'
  OBVIOUS
<1>1. /\ script' = script /\ pc' = pc /\ status' = status /\ waiting' = waiting /\ procs' = procs
      /\ images' = images /\ logs' = logs /\ dumped' = dumped /\ results' = results
  BY DEF vars
<1>2. Common'
  BY <1>1, SMTT(60) DEF IInv, Common, TypeOK, Planned, GuestOK, AcceptOK, ListenOK, WaitOK, ImagesOK, Pids
<1>3. OneAtATime' /\ DumpedOK'
  BY <1>1 DEF IInv, OneAtATime, Turn, Fresh, Newly, DumpedOK, AtCriu, InImage, Live, Pids
<1>4. InTheirBlock' /\ RestoredGuestIsTheRightOne'
  BY <1>1 DEF IInv, InTheirBlock, RestoredGuestIsTheRightOne, Before, Live, Pids
<1>5. ASSUME NEW l, LogOK(l) PROVE LogOK(l)'
  BY <1>1, <1>5 DEF LogOK, Writer, Pids
<1>6. LogsOK => LogsOK'
  BY <1>1, <1>5 DEF LogsOK
<1>7. ASSUME NEW i, ResultOK(i) PROVE ResultOK(i)'
  BY <1>1, <1>7 DEF ResultOK, IsBlock, LogOf
<1>8. ResultsOK => ResultsOK'
  BY <1>1, <1>7 DEF ResultsOK, Before, LogOf
<1>9. Written'
  BY <1>1, <1>6, <1>8 DEF IInv, Written
<1> QED BY <1>2, <1>3, <1>4, <1>9 DEF IInv

LEMMA Inductive == Spec => []IInv
<1>1. IInv /\ [Next]_vars => IInv'
  BY NextInv, StutterInv
<1> QED BY InitInv, <1>1, PTL DEF Spec

(* Whatever scripts are run, however often and on whatever jobs: a guest   *)
(* that MVVM_restore or criu restore starts from is of the job that the    *)
(* script restores, and was checkpointed in the same iteration - but for   *)
(* criu when criu dump had nothing to dump.  The image that checkpoint.cpp *)
(* truncates when it starts, and the addresses that no two waiting         *)
(* restores share, see to that.                                            *)
THEOREM RestoredIsRight == Spec => []RestoredGuestIsTheRightOne
<1>1. IInv => RestoredGuestIsTheRightOne
  BY DEF IInv
<1> QED BY Inductive, <1>1, PTL

(* Whatever the jobs and the number of trials: the last snapshot time that *)
(* run_checkpoint_restore_burst_overhead reads for an iteration is that of *)
(* the iteration's own checkpoint, however long an earlier one goes on;    *)
(* in run_checkpoint_restore_slowtier_overhead, which opens its log to     *)
(* append, it is so unless the own checkpoint has written none, or the     *)
(* line is one that no earlier iteration has read.                         *)
THEOREM SnapshotIsOwn == Spec => []SnapshotIsItsOwn
<1>1. IInv => SnapshotIsItsOwn
  BY Reported DEF IInv
<1> QED BY Inductive, <1>1, PTL
=============================================================================
