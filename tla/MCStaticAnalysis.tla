-------------------------- MODULE MCStaticAnalysis ---------------------------
(* StaticAnalysis on modules of two functions: the first is every body of  *)
(* up to 3 lines over the instructions of each kind, and every body of up  *)
(* to 5 lines of blocks, loops, branches and one kind of call.             *)
EXTENDS StaticAnalysis

I(op, n) == [op |-> op, n |-> n]

(* With one import, the functions of the module are 1 and 2.               *)
Leaves(depth) ==
  {I("br", 0), I("br_if", depth), I("br_table", depth), I("return", 0),
   I("return_call", 2), I("set", 1), I("tee", 2), I("call", 0), I("call", 1),
   I("call", 2), I("call_indirect", 0), I("other", 0)}

Few(depth) == {I("br_if", 0), I("br", depth), I("call", 2)}

Concat(A, B) == {a \o b : a \in A, b \in B}

(* The bodies of n lines in which the labels go up to depth.               *)
Bodies(max, Plain(_), openers) ==
  LET d == (max \div 2) + 1
      upTo[n \in 0..max] ==
        IF n = 0 THEN [x \in {0} \X (0..d) |-> {<<>>}]
        ELSE
          LET body == upTo[n - 1]
              Start(depth, k) ==
                IF k = 1 THEN {<<l>> : l \in Plain(depth)}
                ELSE IF depth = d THEN {}
                ELSE Concat(Concat({<<o>> : o \in openers}, body[<<k - 2, depth + 1>>]),
                            {<<I("end", 0)>>})
          IN [x \in {n} \X (0..d) |->
                UNION {Concat(Start(x[2], k), body[<<n - k, x[2]>>]) : k \in 1..n}]
             @@ body
  IN UNION {upTo[max][<<n, 0>>] : n \in 0..max}

Small == Bodies(3, Leaves, {I("block", 0), I("loop", 0), I("if", 0)})
Large == Bodies(5, Few, {I("block", 0), I("loop", 0)})

Empty == <<>>
Spin  == <<I("loop", 0), I("br", 0), I("end", 0)>>
Nest  == <<I("loop", 0), I("set", 0), I("loop", 0), I("set", 1), I("br_if", 1),
           I("end", 0), I("end", 0), I("loop", 0), I("end", 0)>>
Again == <<I("loop", 0), I("block", 0), I("br_if", 0), I("call", 1), I("end", 0),
           I("br", 0), I("end", 0)>>

Module(imports, named, f, g) ==
  [imports |-> imports, named |-> named, funcs |-> <<f, g>>]

AllModules ==
       {Module(<<"func">>, TRUE, f, g) : f \in Small, g \in {Nest}}
  \cup {Module(<<"func">>, TRUE, f, g) : f \in Large \cup {Again}, g \in {Empty, Spin}}
  \cup {Module(<<"func">>, FALSE, f, Empty) :
          f \in {f \in Small : Len(f) = 1} \cup {Spin}}
  \cup {Module(<<"func">>, TRUE, Empty, f) : f \in {f \in Small : Len(f) = 1}}
  \cup {Module(<<"func", "memory">>, TRUE, Empty, Spin)}
=============================================================================
