----------------------------- MODULE FlowGraphs -----------------------------
(***************************************************************************)
(* Graphs of four blocks, each branching at most two ways, over two names. *)
(* In Defining every block behind the entry defines something; in Sparse   *)
(* some do not.                                                            *)
(***************************************************************************)
EXTENDS Integers, FiniteSets

Lit(c) == [literal |-> c]
Var(n) == [name |-> n]
Instr(op, d, args) == <<[op |-> op, dest |-> d, args |-> args]>>
Const(d, c) == Instr("LOAD_CONST", d, <<Lit(c)>>)
Load(d)     == Instr("LOAD", d, <<>>)
Add(d, a, b) == Instr("ADD", d, <<a, b>>)
Mul(d, a, b) == Instr("MUL", d, <<a, b>>)

\* Every block behind the entry can be reached, none leads back to it, and only 4 returns.
Shapes == {succ \in [1..4 -> {s \in SUBSET {0, 2, 3, 4} : Cardinality(s) \in 1..2}] :
               \A b \in 1..3 : 0 \notin succ[b]}
Behind1(succ, s) == s \cup UNION {succ[b] : b \in s \ {0}}
Flow == {succ \in Shapes : 2..4 \subseteq Behind1(succ, Behind1(succ, succ[1]))}

Graph(codes) == [succ : Flow, code : codes]
Defining ==
    Graph({<<a, b, c, d>> : a \in {Const("x", 1), <<>>}, b \in {Const("x", 1)},
                            c \in {Add("x", Var("y"), Lit(0)), Load("y")},
                            d \in {Add("x", Var("x"), Lit(1)), Mul("y", Var("x"), Var("y"))}})
Sparse == Graph({<<<<>>, b, c, d>> : b \in {<<>>, Const("x", 1)}, c \in {Const("x", 2)}, d \in {<<>>, Const("y", 1)}})
=============================================================================
