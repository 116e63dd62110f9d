--------------------------- MODULE MCControlStack ----------------------------
(* ControlStack on validated bodies: all those of up to 5 instructions and *)
(* the final end over a few instructions of each kind, and deeper nestings *)
(* of up to 8 instructions with nothing between but one push, and of up to *)
(* 7 with one push and the tables of branches.                             *)
EXTENDS ControlStack

MaxHeight == 2

I(op, n) == [op |-> op, n |-> n]
Close    == I("end", 0)

(* Each with the least height of the stack it can be executed at.          *)
Push     == <<I("variable", 1), 0>>
Straight == {Push, <<I("numeric", -1), 2>>,
             <<I("memory", -2), 2>>, <<I("br_if", -1), 1>>,
             <<I("call", 1), 0>>, <<I("call_indirect", -1), 1>>,
             <<I("grow", 0), 1>>, <<I("misc", -1), 2>>, <<I("nop", 0), 0>>}

(* These leave their block: what is behind them, if anything, is never     *)
(* reached, and its effects are not those of the block.  The second field  *)
(* is again the least height.                                              *)
Table(labels) == <<I("br_table", -1)>> \o [i \in 1..Len(labels) |-> I("label", labels[i])]

Tables  == {<<Table(<<0>>), 1>>, <<Table(<<0, 1>>), 1>>, <<Table(<<2>>), 1>>}
Leaving == Tables \cup {
  <<<<I("br", 0)>>, 0>>,     <<<<I("br", 0), Push[1]>>, 0>>,
  <<<<I("return", 0)>>, 0>>, <<<<I("unsupported", 0)>>, 0>>,
  <<<<I("unreachable", 0)>>, 0>>,
  <<<<I("unreachable", 0), I("numeric", -1)>>, 0>>}

Concat3(A, B, C) == {a \o b \o c : a \in A, b \in B, c \in C}

(* The bodies of n instructions from the shorter ones: body[<<m, h, r>>]   *)
(* takes the stack of its block from height h to height r.                 *)
Longer(n, body, straight, leaving) ==
  LET Blocks(k, c) ==
        Concat3({<<I("block", c)>>, <<I("loop", c)>>}, body[<<k, 0, c>>], {<<Close>>})
      Ifs(k) == Concat3({<<I("if", 0)>>}, body[<<k, 0, 0>>], {<<Close>>})
      IfElses(j, k, c) ==
        Concat3(Concat3({<<I("if", c)>>}, body[<<j, 0, c>>], {<<I("else", 0)>>}),
                body[<<k, 0, c>>], {<<Close>>})
      First(h) ==
             {<<{<<s[1]>>}, 1, h + s[1].n>> : s \in {s \in straight : s[2] <= h}}
        \cup {<<Blocks(k, c), k + 2, h + c>> : k \in 0..n - 2, c \in 0..1}
        \cup {<<Ifs(k), k + 2, h - 1>> : k \in 0..n - 2}
        \cup {<<IfElses(jk[1], jk[2], c), jk[1] + jk[2] + 3, h - 1 + c>> :
                jk \in {jk \in (0..n) \X (0..n) : jk[1] + jk[2] + 3 <= n},
                c \in 0..1}
      Followed(f, r) == Concat3(f[1], body[<<n - f[2], f[3], r>>], {<<>>})
  IN [x \in {n} \X (0..MaxHeight) \X (0..1) |->
        UNION {Followed(f, x[3]) : f \in {f \in First(x[2]) : f[3] \in 0..MaxHeight}}
        \cup {l[1] : l \in {l \in leaving : Len(l[1]) = n /\ l[2] <= x[2]}}]

Bodies(max, straight, leaving) ==
  LET upTo[n \in 0..max] ==
        IF n = 0
        THEN [x \in {0} \X (0..MaxHeight) \X (0..1) |-> IF x[2] = x[3] THEN {<<>>} ELSE {}]
        ELSE LET body == upTo[n - 1] IN Longer(n, body, straight, leaving) @@ body
      body == upTo[max]
  IN {b \o <<Close>> : b \in UNION {body[<<n, 0, 0>>] : n \in 0..max}}

(* The labels above name blocks that may not be there.                     *)
AllBodies ==
  {c \in Bodies(5, Straight, Leaving) \cup Bodies(8, {Push}, {})
                                      \cup Bodies(7, {Push}, Tables) : LabelsMatch(c)}
=============================================================================
