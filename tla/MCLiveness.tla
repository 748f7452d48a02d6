----------------------------- MODULE MCLiveness -----------------------------
(***************************************************************************)
(* Every graph of three blocks in which a block branches at most two ways, *)
(* with blocks that skip, read, write, or write and then read; and the     *)
(* graphs in which one block begins with a phi that defines x and reads y  *)
(* on some of its incoming edges.  Without a phi no block is special, and  *)
(* any may be served next, so of the graphs that differ in the names of    *)
(* their blocks fewer are taken: the codes of b1, b2 and b3 are in order.  *)
(***************************************************************************)
EXTENDS Liveness, TLC

CONSTANTS b1, b2, b3, x, y

Blocks == {b1, b2, b3}
Values == {x, y}

Reading(v) == [uses |-> {v}, defs |-> {}]
Writing(v) == [uses |-> {}, defs |-> {v}]

Successors == [Blocks -> {s \in SUBSET Blocks : Cardinality(s) <= 2}]
NoPhi == [b \in Blocks |-> {}]
NoEdgeUse == [e \in Blocks \X Blocks |-> {}]

Kinds == <<<<>>, <<Reading(x)>>, <<Writing(x)>>, <<Writing(x), Reading(x)>>>>
Codes ==
    {(b1 :> Kinds[i]) @@ (b2 :> Kinds[j]) @@ (b3 :> Kinds[l]) :
        <<i, j, l>> \in {t \in (1..4) \X (1..4) \X (1..4) : t[1] <= t[2] /\ t[2] <= t[3]}}

Plain == [succ : Successors, code : Codes, phi_defs : {NoPhi}, edge_uses : {NoEdgeUse}]

PhiOperand(from) == [NoEdgeUse EXCEPT ![<<b1, b1>>] = IF b1 \in from THEN {y} ELSE {},
                                      ![<<b2, b1>>] = IF b2 \in from THEN {y} ELSE {},
                                      ![<<b3, b1>>] = IF b3 \in from THEN {y} ELSE {}]

PhiGraphs ==
    UNION {[succ : {s \in Successors : \A b \in from : b1 \in s[b]},
            code : [Blocks -> {<<>>, <<Reading(x)>>, <<Writing(y)>>}],
            phi_defs : {[NoPhi EXCEPT ![b1] = {x}]}, edge_uses : {PhiOperand(from)}] :
               from \in {{b1}, {b2}, {b1, b3}}}

MCGraphs == Plain \cup PhiGraphs
=============================================================================
