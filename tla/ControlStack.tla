---------------------------- MODULE ControlStack -----------------------------
(***************************************************************************)
(* How the label stack of an interpreted frame is found again.             *)
(*                                                                         *)
(* A frame that was dumped by compiled code has no label stack, so         *)
(* WAMRInterpFrame::restore_impl replays the function: it walks over the   *)
(* bytecode from the start of the function to the instruction the frame    *)
(* stands at, executes nothing, pushes an entry where a block opens, pops  *)
(* it where the block ends, and keeps count of the operand stack because   *)
(* an entry holds the height at which its block started.                   *)
(*                                                                         *)
(* An instruction is [op, n] and takes one address.  n is the number of    *)
(* result cells of a block, loop or if, and for all others the number of   *)
(* cells by which the instruction changes the operand stack when it is     *)
(* executed.  The labels of a br_table stand behind it, a byte each, and   *)
(* are written as instructions of their own, "label", where n is the label *)
(* - for the replay reads only how many there are, and then takes them for *)
(* opcodes.  Heights are relative to sp_bottom.                            *)
(***************************************************************************)
EXTENDS Integers, Sequences, FiniteSets, SequencesExt

CONSTANTS
  Codes,     \* the bodies to look at, the final end included
  Unwritten  \* a field of the label stack that nobody has written

Openers == {"block", "loop", "if"}

(* The instructions at the addresses b..e of the body c that are in ops.   *)
CountIn(c, ops, b, e) == Cardinality({a \in b..e : c[a + 1].op \in ops})

(* How many more blocks of c are opened than closed at the addresses b..e. *)
OpenIn(c, b, e) == CountIn(c, Openers, b, e) - CountIn(c, {"end"}, b, e)

WellNested(c) ==
  LET last == Len(c) - 1
  IN /\ Len(c) > 0
     /\ OpenIn(c, 0, last) = -1
     /\ \A a \in 0..last - 1 : OpenIn(c, 0, a) >= 0

(* An else belongs to the if around it, which has no other.                *)
ElsesMatch(c) ==
  \A a \in 0..Len(c) - 1 : c[a + 1].op = "else" =>
    \E b \in 0..a - 1 :
      /\ c[b + 1].op = "if" /\ OpenIn(c, b, a) = 1
      /\ \A x \in b..a - 1 :
           OpenIn(c, b, x) > 0 /\ ~(c[x + 1].op = "else" /\ OpenIn(c, b, x) = 1)

Instruction ==
       [op : Openers \cup {"label"}, n : Nat]
  \cup [op : {"end", "else", "nop", "unreachable", "br"}, n : {0}]
  \cup [op : {"br_if", "br_table"}, n : {-1}]
  \cup [op : {"call", "call_indirect", "variable", "memory", "grow", "numeric",
              "misc", "return", "unsupported"}, n : Int]

(* A br_table has labels, and they name blocks around it.                  *)
LabelsMatch(c) ==
  /\ \A a \in 0..Len(c) - 1 : c[a + 1].op = "label" =>
       /\ a > 0 /\ c[a].op \in {"br_table", "label"}
       /\ c[a + 1].n <= OpenIn(c, 0, a)
  /\ \A a \in 0..Len(c) - 2 : c[a + 1].op = "br_table" => c[a + 2].op = "label"

(* The instructions from which on the replay's sum is not the height: the  *)
(* first four are counted wrongly or skipped; the next may leave more on   *)
(* the stack than their label takes, or have code behind them that is      *)
(* never reached and of which any height is valid; on the last the replay  *)
(* gives up.                                                               *)
Miscounted == {"if", "call", "call_indirect", "grow", "misc",
               "br", "br_table", "label", "unreachable",
               "return", "unsupported"}

(* The block that opens at b closes at e.                                  *)
Spans(c, b, e) ==
  /\ e > b /\ OpenIn(c, b, e) = 0
  /\ \A a \in b..e - 1 : OpenIn(c, b, a) > 0

(* The sum of the effects of all that stands before t.                     *)
Effects(c) == [a \in 0..Len(c) - 1 |->
                CASE c[a + 1].op \in {"block", "loop"} -> 0
                  [] c[a + 1].op = "if"                -> -1
                  [] OTHER                             -> c[a + 1].n]

SumTo(c, t) == SumFunctionOnSet(Effects(c), 0..t - 1)

(* A block leaves its results on the stack and nothing else.               *)
Balanced(c) ==
  \A b, e \in 0..Len(c) - 1 :
    (/\ c[b + 1].op \in {"block", "loop"} /\ Spans(c, b, e)
     /\ \A a \in b + 1..e - 1 : c[a + 1].op \notin Miscounted)
      => SumTo(c, e) - SumTo(c, b + 1) = c[b + 1].n

(* What the loader has validated before a frame of the function exists.    *)
Valid(c) ==
  /\ c \in Seq(Instruction)
  /\ WellNested(c) /\ ElsesMatch(c) /\ LabelsMatch(c) /\ Balanced(c)

ASSUME CodesAssumption == \A c \in Codes : Valid(c)

VARIABLES
  code,    \* the function
  target,  \* target_addr: where the frame stands in it
  ip,      \* frame_ip
  sp,      \* frame_sp
  csp,     \* the entries pushed, the function's first
  status,  \* "running", "restored", "exit", or "astray": the replay has taken
           \* a label for an instruction
  frame    \* from csp_bottom up to csp, once restored

vars == <<code, target, ip, sp, csp, status, frame>>

Addresses == 0..Len(code) - 1
Op(a)     == code[a + 1].op
Cells(a)  == code[a + 1].n

-----------------------------------------------------------------------------
(***************************************************************************)
(* wasm_loader_find_block_addr.                                            *)
(***************************************************************************)
OpenAt(b, a) == OpenIn(code, b, a)

EndOf(b) == CHOOSE e \in Addresses : Spans(code, b, e)

HasElse(b) == \E a \in b..EndOf(b) : Op(a) = "else" /\ OpenAt(b, a) = 1
ElseOf(b)  == CHOOSE a \in b..EndOf(b) : Op(a) = "else" /\ OpenAt(b, a) = 1

-----------------------------------------------------------------------------
(* Wrong: the height is that above the results.                            *)
LabelAboveResults(begin, where, cells) ==
  [begin |-> begin, target |-> where, cells |-> cells, frame_sp |-> sp + cells]

Label(begin, where, cells) ==
  [begin |-> begin, target |-> where, cells |-> cells, frame_sp |-> sp]

Top == csp[Len(csp)]

(* The function returns nothing, so its entry takes no cells.              *)
Init ==
  /\ code \in Codes
  /\ target \in {a \in Addresses : Op(a) # "label"}
  /\ ip = 0
  /\ sp = 0
  /\ csp = <<Label(0, Len(code) - 1, 0)>>
  /\ status = "running"
  /\ frame = <<>>

Replay(ops) ==
  /\ status = "running"
  /\ ip < target
  /\ Op(ip) \in ops
  /\ UNCHANGED <<code, target, frame>>

Block ==
  /\ Replay({"block"})
  /\ csp' = Append(csp, Label(ip + 1, EndOf(ip), Cells(ip)))
  /\ ip' = ip + 1
  /\ UNCHANGED <<sp, status>>

Loop ==
  /\ Replay({"loop"})
  /\ csp' = Append(csp, Label(ip + 1, ip + 1, 0))
  /\ ip' = ip + 1
  /\ UNCHANGED <<sp, status>>

(* Wrong: the first branch goes up to the end.                             *)
BeforeEnd(b) == target <= EndOf(b)

(* The null pointer is below every address.                                *)
InThenPart(b) == HasElse(b) /\ target <= ElseOf(b)

(* Wrong: only block and loop have entries.                                *)
PushNothing == UNCHANGED csp

PushIf == csp' = Append(csp, Label(ip + 1, EndOf(ip), Cells(ip)))

(* The condition of an if is left on the stack.                            *)
IfThen ==
  /\ Replay({"if"})
  /\ InThenPart(ip)
  /\ PushIf
  /\ ip' = ip + 1
  /\ UNCHANGED <<sp, status>>

IfElse ==
  /\ Replay({"if"})
  /\ ~InThenPart(ip) /\ HasElse(ip)
  /\ PushIf
  /\ ip' = ElseOf(ip) + 1
  /\ UNCHANGED <<sp, status>>

(* Wrong: end_addr is taken to be past the end already.                    *)
PastNext(b) == EndOf(b) + 2

PastEnd(b) == EndOf(b) + 1

IfSkip ==
  /\ Replay({"if"})
  /\ ~HasElse(ip)
  /\ ip' = PastEnd(ip)
  /\ UNCHANGED <<sp, csp, status>>

End ==
  /\ Replay({"end"})
  /\ Len(csp) > 1
  /\ csp' = Front(csp)
  /\ ip' = ip + 1
  /\ UNCHANGED <<sp, status>>

(* The opcodes of unreachable and nop are 0 and 1, so a label 0 or 1 does  *)
(* nothing either.                                                         *)
Nothing(a) ==
  \/ Op(a) \in {"nop", "unreachable"}
  \/ Op(a) = "label" /\ Cells(a) < 2

(* An else would go to the end of its if.                                  *)
NopOrElse ==
  /\ Replay({"nop", "unreachable", "label", "else"})
  /\ Nothing(ip) \/ Op(ip) = "else"
  /\ ip' = IF Op(ip) = "else" THEN Top.target ELSE ip + 1
  /\ UNCHANGED <<sp, csp, status>>

(* The other labels are opcodes too: 2 block, 3 loop, 4 if, 5 else, 11     *)
(* end, ...  Most of them take bytes behind them for their operands.  What *)
(* the replay makes of the rest of the function is left open, so this is   *)
(* where the model ends.                                                   *)
Misread ==
  /\ Replay({"label"})
  /\ ~Nothing(ip)
  /\ status' = "astray"
  /\ UNCHANGED <<ip, sp, csp>>

(* The label of a br or br_if is passed by and not followed, and of a      *)
(* br_table only the number of labels is read; the entries stay.           *)
Branch ==
  /\ Replay({"br", "br_if", "br_table"})
  /\ sp' = sp - (IF Op(ip) = "br" THEN 0 ELSE 1)
  /\ ip' = ip + 1
  /\ UNCHANGED <<csp, status>>

(* Neither the arguments nor the results are counted, only the index of    *)
(* an indirect call.                                                       *)
Call ==
  /\ Replay({"call", "call_indirect"})
  /\ sp' = sp - (IF Op(ip) = "call_indirect" THEN 1 ELSE 0)
  /\ ip' = ip + 1
  /\ UNCHANGED <<csp, status>>

(* drop, select, and the accesses to locals and globals.                   *)
Variable ==
  /\ Replay({"variable"})
  /\ sp' = sp + Cells(ip)
  /\ ip' = ip + 1
  /\ UNCHANGED <<csp, status>>

(* Loads, stores and memory.size; memory.grow does not take its argument.  *)
Memory ==
  /\ Replay({"memory", "grow"})
  /\ sp' = sp + (IF Op(ip) = "grow" THEN 1 ELSE Cells(ip))
  /\ ip' = ip + 1
  /\ UNCHANGED <<csp, status>>

(* Constants, arithmetic, comparisons and conversions; those with the      *)
(* prefix byte, and the bulk operations on memory, are not counted.        *)
Numeric ==
  /\ Replay({"numeric", "misc"})
  /\ sp' = sp + (IF Op(ip) = "misc" THEN 0 ELSE Cells(ip))
  /\ ip' = ip + 1
  /\ UNCHANGED <<csp, status>>

(* return, instructions the replay does not know, and one end too many:    *)
(* exit(-1).                                                               *)
Fault ==
  /\ Replay({"return", "unsupported", "end"})
  /\ Op(ip) = "end" => Len(csp) <= 1
  /\ status' = "exit"
  /\ UNCHANGED <<ip, sp, csp>>

(* WAMRBranchBlock::restore_impl leaves a field alone that would be zero.  *)
Write(offset) == IF offset = 0 THEN Unwritten ELSE offset

Written(label) ==
  [label EXCEPT !.begin = Write(@), !.target = Write(@)]

(* Wrong: the entries are returned as they were pushed.                    *)
AsPushed == csp

(* The replay returns the entries innermost first, restore_impl turns      *)
(* them round again.                                                       *)
Replayed == Reverse(csp)

Restore ==
  /\ status = "running"
  /\ ip >= target
  /\ frame' = [i \in 1..Len(csp) |-> Written(Reverse(Replayed)[i])]
  /\ status' = "restored"
  /\ UNCHANGED <<code, target, ip, sp, csp>>

Done == status # "running" /\ UNCHANGED vars

Next ==
  \/ Block \/ Loop \/ IfThen \/ IfElse \/ IfSkip \/ End \/ NopOrElse
  \/ Misread \/ Branch \/ Call \/ Variable \/ Memory \/ Numeric \/ Fault
  \/ Restore \/ Done

Spec == Init /\ [][Next]_vars

-----------------------------------------------------------------------------
(***************************************************************************)
(* What the interpreter's label stack is at an address, from the nesting   *)
(* of the blocks alone.                                                    *)
(***************************************************************************)
Enclosing(t) == {b \in Addresses : Op(b) \in Openers /\ b < t /\ t <= EndOf(b)}

LabelOf(b) ==
  [begin  |-> b + 1,
   target |-> IF Op(b) = "loop" THEN b + 1 ELSE EndOf(b),
   cells  |-> IF Op(b) = "loop" THEN 0 ELSE Cells(b)]

(* The height of the stack at t, from the nesting: a block that is closed  *)
(* counts for its results, whatever is in it.  No if comes before t.       *)
Closed(t) == {b \in Addresses : Op(b) \in Openers /\ EndOf(b) < t}

Outside(t) == {a \in 0..t - 1 : \A b \in Closed(t) : ~(b < a /\ a <= EndOf(b))}

Left(t) == [a \in Addresses |-> IF Op(a) \notin Openers \/ a \in Closed(t)
                                THEN Cells(a) ELSE 0]

Height(t) == SumFunctionOnSet(Left(t), Outside(t))

(* An if that has no else and is open at t is skipped with everything in   *)
(* it, so the entries stop there.                                          *)
Lost(b) == Op(b) = "if" /\ ~HasElse(b)

Kept(t) == {b \in Enclosing(t) : ~\E l \in Enclosing(t) : l <= b /\ Lost(l)}

TypeOK ==
  /\ Valid(code)
  /\ target \in Addresses
  /\ ip \in Addresses
  /\ sp \in Int
  /\ csp \in Seq([begin : Nat, target : Nat, cells : Nat, frame_sp : Int])
  /\ status \in {"running", "restored", "exit", "astray"}
  /\ frame \in Seq([begin : Nat \cup {Unwritten}, target : Nat \cup {Unwritten},
                    cells : Nat, frame_sp : Int])

(* The restored label stack is the interpreter's: below, the function's    *)
(* entry, and on it an entry for each block that is open at the target,    *)
(* outermost first, with the address a branch to it goes to and the cells  *)
(* it takes - but only up to the first open if that has no else, and only  *)
(* if no label of 2 or more of a br_table is on the replay's way, for then *)
(* it is astray and nothing is known of what it restores (restore_impl,    *)
(* wasm_replay_csp_bytecode).                                              *)
BlocksRestored ==
  status = "restored" =>
    LET entries  == 2..Len(frame)
        Opener(i) == frame[i].begin - 1
    IN /\ frame[1].target = Write(Len(code) - 1)
       /\ {Opener(i) : i \in entries} = Kept(target)
       /\ \A i, j \in entries : i < j => Opener(i) < Opener(j)
       /\ \A i \in entries :
            [begin |-> frame[i].begin, target |-> frame[i].target,
             cells |-> frame[i].cells] = LabelOf(Opener(i))

(* A branch to a restored block cuts the operand stack to the height it    *)
(* had when the block was entered, though the replay adds up what is in    *)
(* the closed blocks as if all of it had been executed (PUSH_CSP's         *)
(* frame_sp).  This holds up to the first instruction in Miscounted, and   *)
(* says nothing of the blocks that open behind it.                         *)
HeightsRestored ==
  status = "restored" =>
    \A i \in 2..Len(frame) : LET b == frame[i].begin - 1 IN
      (\A a \in 0..b : Op(a) \notin Miscounted)
        => frame[i].frame_sp = Height(b)

(* Until it goes astray at a label, the replay never meets an else: it     *)
(* goes past it to the second branch, or stops in the first.  So the jump  *)
(* to the end of the if, which would pop the entry of the block the target *)
(* is in, is not taken.  (A label 5 is taken for an else, see Misread.)    *)
NoElseReplayed == status = "running" /\ ip < target => Op(ip) # "else"

(* Until it goes astray at a label, the replay fails only for what stands  *)
(* in the way and is not supported, never because an end has no entry to   *)
(* pop.  (A label 11 is taken for an end, and pops one too many.)          *)
FaultsOnlyWhereUnsupported ==
  status = "exit" => Op(ip) \in {"return", "unsupported"}
=============================================================================
