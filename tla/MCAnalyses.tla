----------------------------- MODULE MCAnalyses -----------------------------
(***************************************************************************)
(* The passes over IR, one after another in one run: the liveness          *)
(* analysis, constant propagation and the optimizer.  The part that is not *)
(* looked at rests in one of its initial states.                           *)
(***************************************************************************)
EXTENDS MCLiveness, Dataflow

CONSTANTS Parts,                              \* which of the three to look at
          Compilations, Width, Fuel           \* of IrPasses

VARIABLES part, job, prog, pending, place, facts, aliases, executions, outcome

Flows == INSTANCE FlowGraphs
DefiningGraphs == Flows!Defining
SparseGraphs   == Flows!Sparse
Programs == INSTANCE IrPrograms
MCCompilations == Programs!MCCompilations

Optimizer == INSTANCE IrPasses

irVars   == <<job, prog, pending, place, facts, aliases, executions, outcome>>
all == <<part, vars, flowvars, irVars>>

\* The inputs of the parts at rest.
IdleGraph   == CHOOSE g \in Graphs : TRUE
IdleFlow    == CHOOSE g \in FlowGraphs : \A b \in DOMAIN g.succ : Cardinality(g.succ[b]) = 1
IdleJob     == CHOOSE j \in Compilations : TRUE

PartsInit ==
    /\ part \in Parts
    /\ IF part = "liveness" THEN TRUE ELSE graph = IdleGraph
    /\ IF part = "propagation" THEN TRUE ELSE flow = IdleFlow
    /\ IF part = "optimizer" THEN TRUE ELSE job = IdleJob
    /\ Init /\ FlowInit /\ Optimizer!Init

LivenessTurn ==
    part = "liveness" /\ Next /\ UNCHANGED <<part, flowvars, irVars>>
PropagationTurn ==
    part = "propagation" /\ FlowVisit /\ UNCHANGED <<part, vars, irVars>>
PropagationWalks ==
    part = "propagation" /\ (Start \/ Execute \/ Branch)
    /\ UNCHANGED <<part, vars, irVars>>
OptimizerTurn ==
    part = "optimizer" /\ Optimizer!Next /\ UNCHANGED <<part, vars, flowvars>>

PartsNext == LivenessTurn \/ PropagationTurn \/ PropagationWalks \/ OptimizerTurn

PartsSpec == PartsInit /\ [][PartsNext]_all /\ WF_all(LivenessTurn) /\ WF_all(PropagationTurn)

-----------------------------------------------------------------------------
\* Optimized code ends as its source does.
SameOutcome == Optimizer!SameOutcome

\* What is generated from an accepted program is an accepted program.
StillVerified == Optimizer!StillVerified

(***************************************************************************)
(* Both worklists run empty, on every graph, whichever block the liveness  *)
(* analysis takes next, and although constant propagation is not monotone. *)
(***************************************************************************)
BothConverge ==
    <>((part = "liveness" => worklist = {}) /\ (part = "propagation" => flow_worklist = <<>>))
=============================================================================
