--------------------------- MODULE LiveEquations ---------------------------
(***************************************************************************)
(* The data-flow equations of analysis/liveness.py over a graph g: the     *)
(* successors of a block, the operands of its instructions, and what its   *)
(* phi nodes define and read per edge, which is all the analysis asks of   *)
(* the control-flow graph and of the use/def provider.  `in` and `out` are *)
(* the sets live_in and live_out as the analysis holds them at the time.   *)
(***************************************************************************)
EXTENDS Naturals, Sequences

CONSTANTS Block, Value

Code == Seq([uses : SUBSET Value, defs : SUBSET Value])

(***************************************************************************)
(* _summarize_block: what a block reads before it writes it, what it       *)
(* writes.                                                                 *)
(***************************************************************************)
Uses(g, b) ==
    LET code == g.code[b]
    IN {v \in Value : \E i \in DOMAIN code :
            v \in code[i].uses /\ \A j \in 1..(i - 1) : v \notin code[j].defs}

Defs(g, b) ==
    {v \in Value : \E i \in DOMAIN g.code[b] : v \in g.code[b][i].defs}

Predecessors(g, b) == {p \in Block : b \in g.succ[p]}

(***************************************************************************)
(* What crosses the edge from b to s when `in` is what the blocks expect.  *)
(***************************************************************************)
\* Mutation of Across: a value a phi defines still crosses the edge.
AcrossKeepsPhis(g, in, b, s) == in[s] \cup g.edge_uses[<<b, s>>]
Across(g, in, b, s) == (in[s] \ g.phi_defs[s]) \cup g.edge_uses[<<b, s>>]

NewOut(g, in, b) == {v \in Value : \E s \in g.succ[b] : v \in Across(g, in, b, s)}

NewIn(g, in, b) == Uses(g, b) \cup (NewOut(g, in, b) \ Defs(g, b))

(***************************************************************************)
(* What is live before each instruction of a block, the last being its     *)
(* end: backwards from the live-out.                                       *)
(***************************************************************************)
LiveFrom(g, out, b) ==
    LET code == g.code[b]
        from[i \in 1..(Len(code) + 1)] ==
            IF i > Len(code) THEN out[b]
            ELSE (from[i + 1] \ code[i].defs) \cup code[i].uses
    IN from
=============================================================================
