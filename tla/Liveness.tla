------------------------------ MODULE Liveness ------------------------------
(***************************************************************************)
(* analyze_liveness of analysis/liveness.py: which values may still be     *)
(* read, at the ends of every block, on every control-flow edge and around *)
(* every instruction.  It is a backward worklist iteration; the register   *)
(* allocators take its answer on trust.                                    *)
(*                                                                         *)
(* The graph is chosen once; its equations are in LiveEquations.  The      *)
(* deque with its shadow set in_worklist is the set of the blocks that     *)
(* wait; any of them may be next, so what is shown does not depend on the  *)
(* order in which the code serves them.                                    *)
(***************************************************************************)
EXTENDS LiveEquations, FiniteSets

CONSTANT Graphs

ASSUME BlockAssumption == IsFiniteSet(Block)
ASSUME GraphsAssumption ==
    Graphs \subseteq [succ : [Block -> SUBSET Block], code : [Block -> Code],
                      phi_defs : [Block -> SUBSET Value],
                      edge_uses : [Block \X Block -> SUBSET Value]]

VARIABLES graph, worklist, live_in, live_out
vars == <<graph, worklist, live_in, live_out>>

-----------------------------------------------------------------------------

TypeOK ==
    /\ graph \in Graphs
    /\ worklist \in SUBSET Block
    /\ live_in \in [Block -> SUBSET Value]
    /\ live_out \in [Block -> SUBSET Value]

\* Mutation of Init: start from everything live and remove.
InitFull ==
    /\ graph \in Graphs
    /\ worklist = Block
    /\ live_in = [b \in Block |-> Value]
    /\ live_out = [b \in Block |-> Value]
Init ==
    /\ graph \in Graphs
    /\ worklist = Block
    /\ live_in = [b \in Block |-> {}]
    /\ live_out = [b \in Block |-> {}]

(***************************************************************************)
(* One turn of the loop.  A change sends the predecessors back to work; a  *)
(* block that precedes itself is among them.                               *)
(***************************************************************************)
Changed(b) ==
    /\ live_in' = [live_in EXCEPT ![b] = NewIn(graph, live_in, b)]
    /\ live_out' = [live_out EXCEPT ![b] = NewOut(graph, live_in, b)]
    /\ worklist' = (worklist \ {b}) \cup Predecessors(graph, b)

Differs(b) ==
    NewIn(graph, live_in, b) # live_in[b] \/ NewOut(graph, live_in, b) # live_out[b]

Visit(b) ==
    /\ b \in worklist
    /\ \/ Differs(b) /\ Changed(b)
       \/ ~Differs(b) /\ worklist' = worklist \ {b} /\ UNCHANGED <<live_in, live_out>>
    /\ UNCHANGED graph

Next == \E b \in Block : Visit(b)

Spec == Init /\ [][Next]_vars
FairSpec == Spec /\ WF_vars(Next)

-----------------------------------------------------------------------------
(***************************************************************************)
(* Properties.                                                             *)
(***************************************************************************)

Solves(in, out) ==
    \A b \in Block : in[b] = NewIn(graph, in, b) /\ out[b] = NewOut(graph, in, b)

(***************************************************************************)
(* A block that does not wait is up to date with all its successors: no    *)
(* change of a successor goes unnoticed.                                   *)
(***************************************************************************)
Settled ==
    \A b \in Block \ worklist :
        live_in[b] = NewIn(graph, live_in, b) /\ live_out[b] = NewOut(graph, live_in, b)

(***************************************************************************)
(* "converges to the least fixed point": nothing is ever believed live     *)
(* that some solution of the equations does without.                       *)
(***************************************************************************)
BelowEverySolution ==
    \A in \in [Block -> SUBSET Value] :
        (\A b \in Block : in[b] = NewIn(graph, in, b)) =>
            \A b \in Block :
                live_in[b] \subseteq in[b] /\ live_out[b] \subseteq NewOut(graph, in, b)

LeastSolution == worklist = {} => Solves(live_in, live_out) /\ BelowEverySolution

(***************************************************************************)
(* What live means, told by the paths of the program and not by equations: *)
(* from the given point some path reads v before anything overwrites it.   *)
(* A path may end in a block that reads v or on an edge whose phi reads    *)
(* it; a phi of a block it enters overwrites.  Simple paths are enough.    *)
(***************************************************************************)
Paths(b) ==
    {p \in UNION {[1..n -> Block] : n \in 1..Cardinality(Block)} :
        p[1] = b /\ \A i \in 1..(Len(p) - 1) : p[i + 1] \in graph.succ[p[i]]}

Reads(p, v) ==
    /\ \A i \in 1..(Len(p) - 1) :
           v \notin Defs(graph, p[i]) /\ v \notin graph.phi_defs[p[i + 1]]
    /\ \/ v \in Uses(graph, p[Len(p)])
       \/ /\ v \notin Defs(graph, p[Len(p)])
          /\ \E s \in graph.succ[p[Len(p)]] : v \in graph.edge_uses[<<p[Len(p)], s>>]

LiveAtEntry(b) == {v \in Value : \E p \in Paths(b) : Reads(p, v)}

(***************************************************************************)
(* When the worklist is empty, the value sets are those of the paths: a    *)
(* value is in a block's live-in, or before an instruction, exactly when   *)
(* the code can still read it, and crosses exactly the edges it has to.    *)
(***************************************************************************)
LiveMeansRead ==
    worklist = {} =>
        \A b \in Block :
            /\ live_in[b] = LiveAtEntry(b)
            /\ LiveFrom(graph, live_out, b)[1] = live_in[b]
            /\ \A s \in graph.succ[b] :
                   Across(graph, live_in, b, s) =
                       (LiveAtEntry(s) \ graph.phi_defs[s]) \cup graph.edge_uses[<<b, s>>]

=============================================================================
