------------------------------ MODULE Scheduler ------------------------------
(***************************************************************************)
(* scratchv/backend/inst_scheduler.py, one region: build_dag records which *)
(* instructions must stay in order, schedule picks from the ready list,    *)
(* verify_schedule (schedule_verify.py) checks the order without the       *)
(* graph.  Effects are those of schedule_semantics.py.                     *)
(***************************************************************************)
EXTENDS AsmText

CONSTANTS
    Regions,   \* the regions to schedule: sequences of lines
    Starts     \* contents of the registers to run from

\* Instructions whose layout is understood, by how many registers they read; a call
\* is in no region.
Operands == [addi |-> 1, mv |-> 1, lw |-> 1, add |-> 2, fadd |-> 2, div |-> 2, li |-> 0, lui |-> 0,
             sw |-> 2, nop |-> 0, beq |-> 2, j |-> 0, ret |-> 0]
IsInstruction(l) ==
    /\ l.op \in DOMAIN Operands
    /\ Len(l.rs) = Operands[l.op] /\ DOMAIN l.rs = 1 .. Len(l.rs)
    /\ l.op \in {"sw", "nop", "beq", "j", "ret"} => l.rd = none
    /\ Defs(l) \cup Uses(l) \subseteq Registers

\* Regions are sequences of instructions over the registers.
ASSUME RegionsAssumption == \A r \in Regions :
    Len(r) \in Nat /\ DOMAIN r = 1 .. Len(r) /\ \A n \in DOMAIN r : IsInstruction(r[n])

ASSUME StartsAssumption == \A regs \in Starts : regs \in [Registers -> 0 .. Words - 1]

VARIABLES
    region,     \* the instructions, in their original order
    edges,      \* the graph: <<first, second, kind>>
    placed,     \* result, as places in region
    remaining   \* predecessors that are not placed yet
schedulerVars == <<region, edges, placed, remaining>>

(***************************************************************************)
(* describe: what orders an instruction.                                   *)
(***************************************************************************)
Memory(l)     == l.op \in {"lw", "sw"}
FpFlags(l)    == l.op = "fadd"
Divides(l)    == l.op = "div"
Terminator(l) == l.op \in {"beq", "j", "ret"}
\* A call, and an immediate that takes more than one instruction.
Barrier(l)    == l.op = "call" \/ (l.op = "li" /\ ~Signed12(l.imm))

(***************************************************************************)
(* build_dag.                                                              *)
(***************************************************************************)
LastBefore(r, b, P(_)) == {a \in 1 .. b - 1 : P(r[a]) /\ \A c \in a + 1 .. b - 1 : ~P(r[c])}

LastWriter(r, b, reg) == LastBefore(r, b, LAMBDA l : reg \in Defs(l))

TrueAndOutputEdges(r) ==
    UNION {(IF reg \in Uses(r[b]) THEN {<<a, b, "RAW">> : a \in LastWriter(r, b, reg)} ELSE {})
           \cup (IF reg \in Defs(r[b]) THEN {<<a, b, "WAW">> : a \in LastWriter(r, b, reg)} ELSE {}) :
           b \in DOMAIN r, reg \in Registers}

\* Mutation of AntiEdges: a read and the write behind it are not ordered.
NoAntiEdges(r) == {}

\* Readers since the last write.
AntiEdges(r) ==
    {<<e[1], e[2], "WAR">> : e \in {e \in (DOMAIN r) \X (DOMAIN r) :
            /\ e[1] < e[2]
            /\ \E reg \in Uses(r[e[1]]) \cap Defs(r[e[2]]) :
                  \A c \in e[1] .. e[2] - 1 : reg \notin Defs(r[c])}}

EffectEdges(r) ==
    UNION {(IF Memory(r[b]) THEN {<<a, b, "memory">> : a \in LastBefore(r, b, Memory)} ELSE {})
           \cup (IF FpFlags(r[b]) THEN {<<a, b, "fp-effects">> : a \in LastBefore(r, b, FpFlags)} ELSE {}) :
           b \in DOMAIN r}

\* Everything stays before the first terminator, and terminators in line.
ControlEdges(r) ==
    UNION {LET terminal == LastBefore(r, b, Terminator)
           IN {<<a, b, "control">> : a \in IF terminal = {} THEN 1 .. b - 1 ELSE terminal} :
           b \in {b \in DOMAIN r : Terminator(r[b])}}

\* A division stays on its side of everything.
DivisionEdges(r) ==
    {<<e[1], e[2], "division-order">> : e \in {e \in (DOMAIN r) \X (DOMAIN r) :
            /\ e[1] < e[2] /\ (Divides(r[e[1]]) \/ Divides(r[e[2]]))
            /\ \A c \in e[1] + 1 .. e[2] - 1 : ~Divides(r[c])}}

Edges(r) ==
    TrueAndOutputEdges(r) \cup AntiEdges(r) \cup EffectEdges(r)
    \cup ControlEdges(r) \cup DivisionEdges(r)

\* How many instructions n waits for.
\* Mutation of Count: two reasons to wait for one instruction count twice.
CountKinds(dag, n) == Cardinality({e \in dag : e[2] = n})
Before(dag, n)  == {e[1] : e \in {e \in dag : e[2] = n}}
Count(dag, n)   == Cardinality(Before(dag, n))
Predecessors(n) == Before(edges, n)
Successors(n)   == {e[2] : e \in {e \in edges : e[1] = n}}

(***************************************************************************)
(* schedule: the ready list.                                               *)
(***************************************************************************)
Placed == {placed[k] : k \in DOMAIN placed}
Ready  == {n \in (DOMAIN region) \ Placed : remaining[n] = 0}

\* _compute_priorities: the depth from the end.
Priority ==
    LET depth[n \in DOMAIN region] ==
            LET behind == {depth[b] : b \in {b \in Successors(n) : b > n}}
            IN 1 + (IF behind = {} THEN 0 ELSE CHOOSE d \in behind : \A x \in behind : x <= d)
    IN depth

LatestProducer(n) ==
    LET producers == {k \in DOMAIN placed : <<placed[k], n, "RAW">> \in edges}
    IN IF producers = {} THEN 0 ELSE CHOOSE k \in producers : \A j \in producers : j <= k

\* rank: producers far behind, then the deepest, then the first.
Best(n) ==
    LET priority == Priority
        late == LatestProducer(n)
    IN \A m \in Ready :
          LET later == LatestProducer(m)
          IN \/ late < later
             \/ late = later /\ priority[n] > priority[m]
             \/ late = later /\ priority[n] = priority[m] /\ n <= m

BuildDag(r) ==
    /\ region' = r
    /\ edges' = Edges(r)
    /\ placed' = <<>>
    /\ remaining' = [n \in DOMAIN r |-> Count(edges', n)]

Pick(n) ==
    /\ n \in Ready /\ Best(n)
    /\ placed' = Append(placed, n)
    /\ remaining' = [m \in DOMAIN region |->
                        IF m \in Successors(n) THEN remaining[m] - 1 ELSE remaining[m]]
    /\ UNCHANGED <<region, edges>>

Complete == Len(placed) = Len(region)

SchedulerInit ==
    /\ region \in Regions /\ edges = Edges(region) /\ placed = <<>>
    /\ remaining = [n \in DOMAIN region |-> Count(edges, n)]
SchedulerNext == \E n \in DOMAIN region : Pick(n)
SchedulerSpec == SchedulerInit /\ [][SchedulerNext]_schedulerVars

\* A region ends with its terminators: what follows one begins another region.
ASSUME TerminatorsAssumption == \A r \in Regions :
    \A a, b \in DOMAIN r : a < b /\ Terminator(r[a]) => Terminator(r[b])

(***************************************************************************)
(* verify_schedule, on an order of the places: nothing lost, what is       *)
(* pinned stays, every read from the same writer, the same last writers,   *)
(* memory accesses and flag effects in their order.                        *)
(***************************************************************************)
Sources(r, order) ==   \* _reads_and_final_writes
    LET code == [k \in DOMAIN order |-> r[order[k]]]
        writer(k, reg) == {order[a] : a \in LastWriter(code, k, reg)}
    IN <<UNION {{<<order[k], reg, writer(k, reg)>> : reg \in Uses(code[k])} : k \in DOMAIN order},
         [reg \in Registers |-> writer(Len(order) + 1, reg)]>>

\* The sublist of these places is the original one.
InOrder(order, places) ==
    \A j, k \in DOMAIN order :
        j < k /\ order[j] \in places /\ order[k] \in places => order[j] < order[k]

\* Mutation of Verified: memory accesses and flags may be reordered.
VerifiedRegisters(r, order) ==
    LET same == [n \in DOMAIN r |-> n]
    IN /\ \A n \in DOMAIN r : Terminator(r[n]) => order[n] = n
       /\ Sources(r, order) = Sources(r, same)

Verified(r, order) ==
    LET same     == [n \in DOMAIN r |-> n]
        accesses == {n \in DOMAIN r : Memory(r[n])}
        flags    == {n \in DOMAIN r : FpFlags(r[n])}
    IN /\ Len(order) = Len(r) /\ {order[k] : k \in DOMAIN order} = DOMAIN r
       /\ \A n \in DOMAIN r : Terminator(r[n]) => order[n] = n
       /\ Sources(r, order) = Sources(r, same)
       /\ InOrder(order, accesses)
       /\ InOrder(order, flags)

(***************************************************************************)
(* Properties.                                                             *)
(***************************************************************************)
(***************************************************************************)
(* The ready list places no instruction twice and none before one that it  *)
(* depends on, and it never runs dry before everything is placed: the      *)
(* "dependency cycle or inconsistent graph" of the code cannot happen.     *)
(***************************************************************************)
Respected ==
    /\ \A j, k \in DOMAIN placed : j # k => placed[j] # placed[k]
    /\ \A k \in DOMAIN placed : \A a \in Predecessors(placed[k]) :
          \E j \in 1 .. k - 1 : placed[j] = a
    /\ Ready = {} => Complete

(***************************************************************************)
(* The graph orders enough: the independent check never throws a finished  *)
(* candidate away.                                                         *)
(***************************************************************************)
CandidateAccepted == Complete => Verified(region, placed)

\* A run of the region in this order, up to where it is left.
Begun(regs) == [at |-> 1, regs |-> regs, mem |-> [a \in 0 .. Words - 1 |-> a]]
RunOf(r, order, regs) ==
    LET machine[k \in 0 .. Len(order)] ==
            CASE k = 0 -> Begun(regs)
              [] k > 0 /\ Terminator(r[order[k]]) -> machine[k-1]
              [] OTHER -> Stepped(r, [machine[k-1] EXCEPT !.at = order[k]])
    IN machine[Len(order)]

(***************************************************************************)
(* And the independent check is worth its name: every order of a region    *)
(* that it accepts, whoever proposed it, leaves the registers and the      *)
(* memory as the original does.                                            *)
(***************************************************************************)
VerifierSound ==
    placed = <<>> =>
        \A order \in [DOMAIN region -> DOMAIN region] : \A regs \in Starts :
            Verified(region, order) =>
                LET m == RunOf(region, order, regs)
                    orig == RunOf(region, [n \in DOMAIN region |-> n], regs)
                IN m.regs = orig.regs /\ m.mem = orig.mem
=============================================================================
