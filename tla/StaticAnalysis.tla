--------------------------- MODULE StaticAnalysis ----------------------------
(***************************************************************************)
(* wasm_static_analysis.py: which loops need no checkpoint of their own.   *)
(*                                                                         *)
(* The script writes the instructions of a module that matter to it into a *)
(* stream of tokens, builds a tree of each function from the stream, and   *)
(* makes three passes over the trees: the functions that cannot run for    *)
(* long, the locals each loop modifies, and the loops every iteration of   *)
(* which is expected to pass a checkpoint anyway.  The compiler reads the  *)
(* results by function index and loop index.                               *)
(*                                                                         *)
(* A module is [imports, named, funcs]: the kinds of its imports, whether  *)
(* it has a name section, and the bodies of its functions.  An instruction *)
(* is [op, n]: n is the label of a branch (of br_table, the largest), the  *)
(* local of a set or tee, and the function a call names; functions are     *)
(* counted from 0, the imported ones first.                                *)
(***************************************************************************)
EXTENDS Integers, Sequences, FiniteSets, SequencesExt

CONSTANT Modules  \* the modules to look at

VARIABLES
  module,    \* the module
  phase,     \* what the script is at, or "written" or "failed"
  at,        \* the next line, token or function of this phase
  name_idx,  \* func_name_to_idx
  func_idx, loop_idx,  \* the counters of wat_to_inst
  insts,     \* the token stream
  open,      \* the nodes being parsed, outermost first
  funcs,     \* program.funcs
  verdict,   \* data["simple_func"] of the functions visited
  simple,    \* simple_func_set
  previous,  \* previous_cnt, or -1 in the first iteration
  locals,    \* what ModifiedLocalsPass returns
  skip       \* what LoopCkptPass returns

vars == <<module, phase, at, name_idx, func_idx, loop_idx, insts, open, funcs,
          verdict, simple, previous, locals, skip>>

emitting == <<name_idx, func_idx, loop_idx, insts>>
parsing  == <<open, funcs>>
passes   == <<verdict, simple, previous, locals, skip>>

-----------------------------------------------------------------------------
(***************************************************************************)
(* The text of the module.  A function without a name is declared by a     *)
(* comment that holds its index and called by the index.                   *)
(***************************************************************************)
FuncImports(m) == Cardinality({i \in 1..Len(m.imports) : m.imports[i] = "func"})

DeclaredName(m, i) == IF m.named THEN <<"$", i>> ELSE <<"(;", i>>
CalledName(m, i)   == IF m.named THEN <<"$", i>> ELSE <<"", i>>

Lines(m) ==
  [i \in 1..Len(m.imports) |-> [op |-> "import", n |-> i - 1]]
    \o FlattenSeq([f \in 1..Len(m.funcs) |->
         <<[op |-> "func", n |-> FuncImports(m) + f - 1]>> \o m.funcs[f]])

Instructions(m) == SelectSeq(Lines(m), LAMBDA l : l.op \notin {"import", "func"})

(* An if is not among the lines kept, its end is.                          *)
Critical(line) == line.op \in
  {"func", "block", "loop", "end", "br", "br_if", "br_table", "return",
   "return_call", "set", "tee", "call", "call_indirect"}

Kept == SelectSeq(Lines(module), Critical)

(* The names are numbered as they appear, the imports then subtracted.     *)
NameIndex(m) ==
  LET declared == [i \in 1..FuncImports(m) + Len(m.funcs) |-> DeclaredName(m, i - 1)]
  IN [name \in ToSet(declared) |->
        (CHOOSE i \in 1..Len(declared) : declared[i] = name) - 1 - Len(m.imports)]

(***************************************************************************)
(* wat_to_inst.                                                            *)
(***************************************************************************)
T(token, n) == <<[t |-> token, n |-> n]>>

Init ==
  /\ module \in Modules
  /\ phase = "names" /\ at = 1
  /\ name_idx = <<>> /\ func_idx = 0 /\ loop_idx = 0
  /\ insts = <<>> /\ open = <<>> /\ funcs = <<>>
  /\ verdict = <<>> /\ simple = {} /\ previous = -1
  /\ locals = <<>> /\ skip = <<>>

Fail == phase' = "failed" /\ UNCHANGED <<at, emitting, parsing, passes>>

IndexNames ==
  /\ phase = "names"
  /\ UNCHANGED module
  /\ IF \A i \in 1..Len(module.imports) : module.imports[i] = "func"
     THEN /\ name_idx' = NameIndex(module)
          /\ phase' = "emit"
          /\ UNCHANGED <<at, func_idx, loop_idx, insts, parsing, passes>>
     ELSE Fail

Emit(op) == phase = "emit" /\ at <= Len(Kept) /\ Kept[at].op \in op /\ UNCHANGED module

Put(tokens) ==
  /\ insts' = insts \o tokens
  /\ at' = at + 1
  /\ UNCHANGED <<phase, name_idx, parsing, passes>>

(* Wrong: the block of the function before is left open.                   *)
CloseOnlyFunc == IF func_idx = 0 THEN <<>> ELSE T("end_func", 0)

CloseFunc ==
  IF func_idx = 0 THEN <<>> ELSE T("end_block", 0) \o T("end_func", 0)

(* Wrong: loops are numbered through the module.                           *)
GoOnCounting == func_idx' = func_idx + 1 /\ UNCHANGED loop_idx

NextFunc == func_idx' = func_idx + 1 /\ loop_idx' = 0

EmitFunc ==
  /\ Emit({"func"})
  /\ Put(CloseFunc \o T("begin_func", func_idx) \o T("begin_block", 0))
  /\ NextFunc

EmitBlock ==
  /\ Emit({"block", "end"})
  /\ Put(T(IF Kept[at].op = "end" THEN "end_block" ELSE "begin_block", 0))
  /\ UNCHANGED <<func_idx, loop_idx>>

EmitLoop ==
  /\ Emit({"loop"})
  /\ Put(T("begin_loop", loop_idx))
  /\ loop_idx' = loop_idx + 1
  /\ UNCHANGED func_idx

(* A tail call begins with return.                                         *)
EmitBranch ==
  /\ Emit({"br", "br_if", "br_table", "return", "return_call"})
  /\ Put(CASE Kept[at].op \in {"br", "br_if"} -> T("op_" \o Kept[at].op, Kept[at].n)
           [] Kept[at].op = "br_table"        -> T("op_br_table", 0)
           [] OTHER                           -> T("op_return", 0))
  /\ UNCHANGED <<func_idx, loop_idx>>

EmitSet ==
  /\ Emit({"set", "tee"})
  /\ Put(T("op_" \o Kept[at].op, Kept[at].n))
  /\ UNCHANGED <<func_idx, loop_idx>>

Found(line) == CalledName(module, line.n) \in DOMAIN name_idx

EmitCall ==
  /\ Emit({"call", "call_indirect"})
  /\ IF Kept[at].op = "call_indirect" \/ Found(Kept[at])
     THEN /\ Put(IF Kept[at].op = "call_indirect" THEN T("op_call_indirect", -1)
                 ELSE T("op_call", name_idx[CalledName(module, Kept[at].n)]))
          /\ UNCHANGED <<func_idx, loop_idx>>
     ELSE Fail

EmitEnd ==
  /\ phase = "emit" /\ at > Len(Kept)
  /\ insts' = insts \o CloseFunc
  /\ phase' = "parse" /\ at' = 1
  /\ UNCHANGED <<module, name_idx, func_idx, loop_idx, parsing, passes>>

-----------------------------------------------------------------------------
(***************************************************************************)
(* The parser.  A node is [kind, idx, insts]; the calls of the parser that *)
(* have not returned are the nodes in open.                                *)
(***************************************************************************)
Node(kind, idx) == [kind |-> kind, idx |-> idx, insts |-> <<>>]

StreamEnd      == at > Len(insts)
Expect(tokens) == ~StreamEnd /\ insts[at].t \in tokens

BranchTokens == {"op_br", "op_br_if", "op_br_table", "op_return"}
CallTokens   == {"op_call", "op_call_indirect"}
SetTokens    == {"op_set", "op_tee"}

Inner == Last(open)

(* Inside a block or loop, a token it understands.                         *)
InBlock(tokens) ==
  /\ phase = "parse" /\ open # <<>> /\ Inner.kind \in {"block", "loop"}
  /\ Expect(tokens)
  /\ UNCHANGED module

Taken == at' = at + 1 /\ UNCHANGED <<phase, emitting, passes>>

AddedTo(stack, node) ==
  [stack EXCEPT ![Len(stack)].insts = Append(@, node)]

Leaf(kind, tokens) ==
  /\ InBlock(tokens)
  /\ open' = AddedTo(open, Node(kind, insts[at].n))
  /\ UNCHANGED funcs
  /\ Taken

ParseBranch == Leaf("branch", BranchTokens)
ParseCall   == Leaf("call", CallTokens)
ParseSet    == Leaf("set", SetTokens)

ParseBlock ==
  /\ InBlock({"begin_block"})
  /\ open' = Append(open, Node("block", 0))
  /\ UNCHANGED funcs
  /\ Taken

ParseLoop ==
  /\ InBlock({"begin_loop"})
  /\ open' = Append(open, Node("loop", insts[at].n))
  /\ UNCHANGED funcs
  /\ Taken

ParseEnd ==
  /\ InBlock({"end_block"})
  /\ open' = AddedTo(Front(open), Inner)
  /\ UNCHANGED funcs
  /\ Taken

BeginFunction ==
  /\ phase = "parse" /\ open = <<>>
  /\ Expect({"begin_func"})
  /\ at < Len(insts) /\ insts[at + 1].t = "begin_block"
  /\ open' = <<Node("func", insts[at].n), Node("block", 0)>>
  /\ at' = at + 2
  /\ UNCHANGED <<module, phase, emitting, funcs, passes>>

EndFunction ==
  /\ phase = "parse" /\ open # <<>> /\ Inner.kind = "func"
  /\ Expect({"end_func"})
  /\ open' = <<>>
  /\ funcs' = Append(funcs, [idx |-> Inner.idx, block |-> Inner.insts[1]])
  /\ UNCHANGED module
  /\ Taken

Acceptable ==
  IF open = <<>> THEN {"begin_func"}
  ELSE IF Inner.kind = "func" THEN {"end_func"}
  ELSE BranchTokens \cup CallTokens \cup SetTokens
         \cup {"begin_block", "begin_loop", "end_block"}

(* One of the parser's assertions.                                         *)
ParseFails ==
  /\ phase = "parse" /\ ~Expect(Acceptable) /\ ~(StreamEnd /\ open = <<>>)
  /\ UNCHANGED module
  /\ Fail

ParsedAll ==
  /\ phase = "parse" /\ StreamEnd /\ open = <<>>
  /\ phase' = "simple" /\ at' = 1
  /\ UNCHANGED <<module, emitting, parsing, passes>>

-----------------------------------------------------------------------------
(***************************************************************************)
(* SimpleFuncPass: the functions without loops and calls.  A callee that   *)
(* is simple makes no difference: visit_call overwrites its verdict, and   *)
(* no node is visited twice.                                               *)
(***************************************************************************)
NextPhase(p) == phase' = p /\ at' = 1 /\ UNCHANGED <<module, emitting, parsing>>
Advance  == at' = at + 1 /\ UNCHANGED <<module, phase, emitting, parsing>>
AtFunc(p) == phase = p /\ at <= Len(funcs)
PastFuncs(p) == phase = p /\ at > Len(funcs)

(* Wrong: a loop is looked into like a block.                              *)
LoopsEnd(node) == TRUE

VisitLoop(node) == FALSE
VisitCall(node) == FALSE

RECURSIVE VisitBlock(_)
VisitBlock(node) == \A i \in DOMAIN node.insts : LET inst == node.insts[i] IN
  CASE inst.kind = "block" -> VisitBlock(inst)
    [] inst.kind = "loop"  -> VisitLoop(inst) /\ VisitBlock(inst)
    [] inst.kind = "call"  -> VisitCall(inst)
    [] OTHER               -> TRUE

VisitFunc ==
  /\ AtFunc("simple")
  /\ verdict' = IF at \in DOMAIN verdict THEN verdict
                ELSE Append(verdict, VisitBlock(funcs[at].block))
  /\ simple' = IF verdict'[at] THEN simple \cup {funcs[at].idx} ELSE simple
  /\ Advance
  /\ UNCHANGED <<previous, locals, skip>>

NextIteration ==
  /\ PastFuncs("simple")
  /\ Cardinality(simple) # previous
  /\ previous' = Cardinality(simple)
  /\ NextPhase("simple")
  /\ UNCHANGED <<verdict, simple, locals, skip>>

FixedPoint ==
  /\ PastFuncs("simple")
  /\ Cardinality(simple) = previous
  /\ NextPhase("locals")
  /\ UNCHANGED passes

(***************************************************************************)
(* ModifiedLocalsPass: what is set in a loop, and the results of the loops *)
(* in it, the inner ones first.                                            *)
(***************************************************************************)
RECURSIVE SetIn(_)
SetIn(node) == UNION {LET inst == node.insts[i] IN
    CASE inst.kind = "set"              -> {inst.idx}
      [] inst.kind \in {"block", "loop"} -> SetIn(inst)
      [] OTHER                          -> {}
  : i \in DOMAIN node.insts}

RECURSIVE LoopResults(_, _)
LoopResults(f, node) ==
  FlattenSeq([i \in DOMAIN node.insts |->
    IF node.insts[i].kind \in {"block", "loop"}
    THEN LoopResults(f, node.insts[i]) ELSE <<>>])
  \o (IF node.kind = "loop"
      THEN <<[func |-> f, loop |-> node.idx, locals |-> SetIn(node)]>> ELSE <<>>)

ModifiedLocals ==
  /\ AtFunc("locals")
  /\ locals' = locals \o LoopResults(funcs[at].idx, funcs[at].block)
  /\ Advance
  /\ UNCHANGED <<verdict, simple, previous, skip>>

ModifiedLocalsEnd ==
  /\ PastFuncs("locals")
  /\ NextPhase("ckpt")
  /\ UNCHANGED passes

(***************************************************************************)
(* LoopCkptPass.  A call that is not simple, or a loop, holds a checkpoint *)
(* and may be without end: nothing after it in its block is looked at.     *)
(***************************************************************************)
(* Wrong: every call counts.                                               *)
AnyCall(node) == node.kind = "call"

Checkpoints(node) == node.kind = "call" /\ node.idx \notin simple

RECURSIVE Stops(_)
Stops(node) ==
  \/ node.kind = "loop" \/ Checkpoints(node)
  \/ node.kind = "block" /\ \E i \in DOMAIN node.insts : Stops(node.insts[i])

(* The insts of a block that are visited.                                  *)
Visited(node) == {i \in DOMAIN node.insts : \A j \in 1..i - 1 : ~Stops(node.insts[j])}

HoldsCheckpoint(node) == \E i \in DOMAIN node.insts : Stops(node.insts[i])

RECURSIVE Skipped(_, _)
Skipped(f, node) ==
  FlattenSeq([i \in 1..Cardinality(Visited(node)) |->
    IF node.insts[i].kind \in {"block", "loop"}
    THEN Skipped(f, node.insts[i]) ELSE <<>>])
  \o (IF node.kind = "loop" /\ HoldsCheckpoint(node)
      THEN <<[func |-> f, loop |-> node.idx]>> ELSE <<>>)

LoopCkpt ==
  /\ AtFunc("ckpt")
  /\ skip' = skip \o Skipped(funcs[at].idx, funcs[at].block)
  /\ Advance
  /\ UNCHANGED <<verdict, simple, previous, locals>>

(* The three files for the compiler.                                       *)
WriteResults ==
  /\ PastFuncs("ckpt")
  /\ NextPhase("written")
  /\ UNCHANGED passes

Done == phase \in {"written", "failed"} /\ UNCHANGED vars

Next ==
  \/ IndexNames \/ EmitFunc \/ EmitBlock \/ EmitLoop \/ EmitBranch \/ EmitSet
  \/ EmitCall \/ EmitEnd
  \/ ParseBranch \/ ParseCall \/ ParseSet \/ ParseBlock \/ ParseLoop \/ ParseEnd
  \/ BeginFunction \/ EndFunction \/ ParseFails \/ ParsedAll
  \/ VisitFunc \/ NextIteration \/ FixedPoint
  \/ ModifiedLocals \/ ModifiedLocalsEnd \/ LoopCkpt \/ WriteResults \/ Done

Spec == Init /\ [][Next]_vars

-----------------------------------------------------------------------------
(***************************************************************************)
(* What a WebAssembly engine does with the functions of the module, from   *)
(* their instructions alone.  c is a body; its end is at Len(c) + 1.       *)
(***************************************************************************)
Opens(i) == i.op \in {"block", "loop", "if"}

Level(c, b, e) ==
  Cardinality({p \in b..e : Opens(c[p])}) - Cardinality({p \in b..e : c[p].op = "end"})

EndOf(c, b) == CHOOSE e \in b + 1..Len(c) :
  Level(c, b, e) = 0 /\ \A p \in b..e - 1 : Level(c, b, p) > 0

OpenersAt(c, p) == {b \in 1..p - 1 : Opens(c[b]) /\ p <= EndOf(c, b)}

(* Where a branch with label n at p goes: to a loop, or past the end.      *)
Target(c, p, n) ==
  IF n >= Cardinality(OpenersAt(c, p)) THEN Len(c) + 1
  ELSE LET b == CHOOSE b \in OpenersAt(c, p) :
                  Cardinality({d \in OpenersAt(c, p) : d > b}) = n
       IN IF c[b].op = "loop" THEN b ELSE EndOf(c, b)

Successors(c, p) ==
  CASE p > Len(c)                              -> {}
    [] c[p].op \in {"return", "return_call"}   -> {}
    [] c[p].op = "br"                          -> {Target(c, p, c[p].n)}
    [] c[p].op = "br_if"                       -> {p + 1, Target(c, p, c[p].n)}
    [] c[p].op = "br_table"                    -> {Target(c, p, n) : n \in 0..c[p].n}
    [] OTHER                                   -> {p + 1}

RECURSIVE ReachedFrom(_, _, _)
ReachedFrom(c, from, avoided) ==
  LET more == (UNION {Successors(c, p) : p \in from \ avoided}) \ from
  IN IF more = {} THEN from ELSE ReachedFrom(c, from \cup more, avoided)

LoopsOf(c) == {p \in 1..Len(c) : c[p].op = "loop"}
IndexOf(c, p) == Cardinality({q \in LoopsOf(c) : q < p})

(* The functions of the module by their own index.                         *)
Own(n) == n - FuncImports(module)
Body(f) == module.funcs[f + 1]
FuncIndices == 0..Len(module.funcs) - 1

(* The compiler puts a checkpoint into the loops that are not skipped, and *)
(* the callees that are not simple have one.  Of a function of the module  *)
(* the pass has looked into that; that an imported one has a checkpoint is *)
(* taken for granted by the script, and so it is here (visit_call).        *)
PointsOf(f) == {p \in 1..Len(Body(f)) :
  CASE Body(f)[p].op = "call"          -> Own(Body(f)[p].n) \notin simple
    [] Body(f)[p].op = "call_indirect" -> TRUE
    [] Body(f)[p].op = "loop" ->
         [func |-> f, loop |-> IndexOf(Body(f), p)] \notin ToSet(skip)
    [] OTHER -> FALSE}

(* A branch comes between the head of a skipped loop and the first call or *)
(* loop in it that made the pass skip it.                                  *)
BranchesFirst(f, p) ==
  LET c      == Body(f)
      Why(q) == q \in PointsOf(f) \/ c[q].op = "loop"
  IN \E b, q \in p + 1..EndOf(c, p) :
       /\ b < q /\ c[b].op \in {"br", "br_if", "br_table"}
       /\ Why(q) /\ \A r \in p + 1..q - 1 : ~Why(r)

Unsupported ==
  \/ \E i \in 1..Len(module.imports) : module.imports[i] # "func"
  \/ \E i \in 1..Len(Instructions(module)) : LET l == Instructions(module)[i] IN
       l.op = "if" \/ (l.op = "call" /\ ~module.named)

RECURSIVE Unparsed(_)
Unparsed(node) == FlattenSeq([i \in DOMAIN node.insts |->
  LET inst == node.insts[i] IN
  IF inst.kind \in {"block", "loop"}
  THEN <<inst.kind>> \o Unparsed(inst) \o <<"end">> ELSE <<inst.kind>>])

KindOf(op) ==
  CASE op \in {"br", "br_if", "br_table", "return", "return_call"} -> "branch"
    [] op \in {"call", "call_indirect"} -> "call"
    [] op \in {"set", "tee"}            -> "set"
    [] OTHER                            -> op

Outline(c) == LET kept == SelectSeq(c, Critical) IN
  [i \in 1..Len(kept) |-> KindOf(kept[i].op)]

(* The script fails exactly on the modules it cannot represent - with an   *)
(* if, an import that is no function, or a call and no names - and gives   *)
(* every other a tree: one function per function, and as many loops in     *)
(* each as it has, in the same order (wat_to_inst, WasmProgram.parse).     *)
TreeKeepsTheCode ==
  /\ phase = "failed" => Unsupported
  /\ phase = "simple" =>
       /\ ~Unsupported
       /\ Len(funcs) = Len(module.funcs)
       /\ \A f \in FuncIndices :
            funcs[f + 1].idx = f /\ Unparsed(funcs[f + 1].block) = Outline(Body(f))

(* A function the compiler is told is simple ends whatever it is called    *)
(* with: it contains no way round, and calls nothing that is not simple -  *)
(* but for a tail call, which the script takes for a return                *)
(* (SimpleFuncPass).                                                       *)
SimpleTerminates ==
  phase = "written" => \A f \in simple : LET c == Body(f) IN
    /\ \A p \in 1..Len(c) : p \notin ReachedFrom(c, Successors(c, p), {})
    /\ \A p \in 1..Len(c) : c[p].op # "call_indirect"
         /\ (c[p].op = "call" => Own(c[p].n) \in simple)

(* Each loop has one entry with the locals that are set between its head   *)
(* and its end, under the number that counts the loops of its function in  *)
(* the order of their heads, as the compiler does (ModifiedLocalsPass).    *)
ModifiedLocalsExact ==
  phase = "written" =>
    /\ Len(locals) = Cardinality(ToSet(locals))
    /\ ToSet(locals) = UNION {{LET c == Body(f) IN
         [func |-> f, loop |-> IndexOf(c, p),
          locals |-> {c[q].n : q \in {q \in p..EndOf(c, p) : c[q].op \in {"set", "tee"}}}]
         : p \in LoopsOf(Body(f))} : f \in FuncIndices}

(* No function runs for ever between checkpoints: every way round in it    *)
(* passes a loop that keeps its own or a call that has one - if in each    *)
(* loop that was skipped no branch comes before the first of these, which  *)
(* the pass does not look at, and if the host's functions have one         *)
(* (LoopCkptPass, skip_ckpt.opt).                                          *)
EveryCycleHasAPoint ==
  phase = "written" => \A f \in FuncIndices : LET c == Body(f) IN
    (\A p \in LoopsOf(c) \ PointsOf(f) : ~BranchesFirst(f, p))
      => \A p \in LoopsOf(c) \ PointsOf(f) :
           p \notin ReachedFrom(c, Successors(c, p), PointsOf(f))
=============================================================================
