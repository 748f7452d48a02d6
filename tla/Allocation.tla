----------------------------- MODULE Allocation -----------------------------
(***************************************************************************)
(* What the two register allocators have in common: the machine code, the  *)
(* control-flow graph and the liveness analysis they ask, the instructions *)
(* they add to their output, and the output itself.                        *)
(***************************************************************************)
EXTENDS MachineCode, SequencesExt

CONSTANTS
    Vreg,          \* the virtual registers: the values of the liveness analysis
    Bank,          \* the physical registers in the order of the pool
    CallerSaved, Programs, None

Reg == {Bank[k] : k \in DOMAIN Bank}

VARIABLES
    program,        \* the machine code
    graph,          \* its control-flow graph, as the analysis sees it
    live_in,        \* per block, what the liveness analysis has found so far
    live_after,     \* per item, its answer
    next,           \* the item to allocate next, 0 during the analysis
    code,           \* the instructions emitted per item
    arriving        \* who has which register as the first item begins
analysisVars == <<program, graph, live_in, live_after>>
sharedVars == <<analysisVars, next, code, arriving>>

SpillTo(v, r) == [does |-> "spill", vreg |-> v, reg |-> r]
ReloadFrom(v, r) == [does |-> "reload", vreg |-> v, reg |-> r]

NoRegisters == [r \in Reg |-> None]

SharedInit ==       \* the program is chosen with the allocator
    /\ graph = FlowGraph(program)
    /\ live_in = [b \in Block |-> {}]
    /\ live_after = [i \in DOMAIN program |-> {}]
    /\ next = 0
    /\ code = [i \in DOMAIN program |-> <<>>]
    /\ arriving = NoRegisters

(***************************************************************************)
(* analyze_liveness, all blocks at a time: AnalysesProofs shows that the   *)
(* order in which they are visited does not matter, and where it ends.     *)
(***************************************************************************)
Round == [b \in Block |-> NewIn(graph, live_in, b)]

Analyse ==
    /\ next = 0 /\ Round # live_in
    /\ live_in' = Round
    /\ UNCHANGED <<program, graph, live_after, next, code, arriving>>

Analysed ==
    /\ next = 0 /\ Round = live_in
    /\ live_after' = LiveAfterItems(program, graph, live_in)
    /\ next' = 1
    /\ graph' = <<>> /\ live_in' = <<>>     \* not read again
    /\ UNCHANGED <<program, code, arriving>>
=============================================================================
