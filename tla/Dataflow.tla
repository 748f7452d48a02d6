------------------------------ MODULE Dataflow ------------------------------
(***************************************************************************)
(* Constant propagation by the forward worklist of analysis/dataflow.py,   *)
(* and, when it has ended, a run of the analysed program to hold the facts *)
(* against.                                                                *)
(*                                                                         *)
(* An environment is a function from the names it has an entry for.  A     *)
(* fact is <<c>>, the constant c, or Overdefined; a name without a fact is *)
(* undefined, the top of the lattice.  The analysis is not monotone: an    *)
(* operation with an undefined operand is overdefined, and may become a    *)
(* constant when the operand does.  Only finite integer constants occur,   *)
(* and of the four folded operations ADD and MUL.                          *)
(***************************************************************************)
EXTENDS Integers, Sequences, FiniteSets, Functions, SequencesExt

CONSTANTS
    FlowGraphs,   \* [succ, code]: block 1 is the entry, 0 in succ is a return
    Inputs,       \* what an instruction that is not folded may compute
    LargestValue  \* the walk goes no further when a value exceeds this

BlocksOf(g) == DOMAIN g.code
SuccessorsOf(g, b) == g.succ[b] \ {0}
PredecessorsOf(g, b) == {p \in BlocksOf(g) : b \in g.succ[p]}

ASSUME FlowGraphsAssumption ==
    \A g \in FlowGraphs :
        /\ IsFiniteSet(BlocksOf(g)) /\ 1 \in BlocksOf(g) /\ 0 \notin BlocksOf(g)
        /\ g.succ \in [BlocksOf(g) -> SUBSET (BlocksOf(g) \cup {0})]
        /\ \A b \in BlocksOf(g) :
              /\ g.code[b] \in Seq(Range(g.code[b]))
              /\ \A i \in Range(g.code[b]) : i.op \in {"ADD", "MUL"} => {1, 2} \subseteq DOMAIN i.args

VARIABLES flow, flow_worklist, in_values, out_values, walk
flowvars == <<flow, flow_worklist, in_values, out_values, walk>>

Nothing == <<>>         \* {}: no entry
Overdefined == <<>>

-----------------------------------------------------------------------------
(***************************************************************************)
(* The lattice.                                                            *)
(***************************************************************************)
\* Mutation of MeetOf: the first fact is kept.
MeetFirst(facts) == CHOOSE f \in facts : TRUE
MeetOf(facts) == IF Cardinality(facts) = 1 THEN CHOOSE f \in facts : TRUE ELSE Overdefined

\* A name is in the result if one environment has it; those without it are left out.
MeetEnvs(envs) ==
    [n \in UNION {DOMAIN e : e \in envs} |-> MeetOf({e[n] : e \in {f \in envs : n \in DOMAIN f}})]

IsLiteral(o) == "literal" \in DOMAIN o
IsKnown(o, env) == IsLiteral(o) \/ o.name \in DOMAIN env

ResolveOperand(o, env) ==
    IF IsLiteral(o) THEN <<o.literal>> ELSE IF IsKnown(o, env) THEN env[o.name] ELSE Overdefined

Computed(op, a, b) == IF op = "ADD" THEN a + b ELSE a * b

EvalBinary(op, left, right) ==
    IF Overdefined \in {left, right} THEN Overdefined ELSE <<Computed(op, left[1], right[1])>>

With(env, name, value) == [n \in DOMAIN env \cup {name} |-> IF n = name THEN value ELSE env[n]]

Fact(i, env) ==
    CASE i.op = "LOAD_CONST" -> <<i.args[1].literal>>
      [] i.op \in {"ADD", "MUL"} ->
             EvalBinary(i.op, ResolveOperand(i.args[1], env), ResolveOperand(i.args[2], env))
      [] OTHER -> Overdefined

Transfer(g, b, env) ==
    LET code == g.code[b]
        after[k \in 0..Len(code)] ==
            IF k = 0 THEN env ELSE With(after[k-1], code[k].dest, Fact(code[k], after[k-1]))
    IN after[Len(code)]

-----------------------------------------------------------------------------
(***************************************************************************)
(* _run_forward.  The entry's successors come in the order of its edges,   *)
(* which may be any; later ones in the order of their names.               *)
(***************************************************************************)
Ascending(s) == \A i, j \in DOMAIN s : i < j => s[i] < s[j]

FlowInit ==
    /\ flow \in FlowGraphs
    /\ flow_worklist \in SetToSeqs(SuccessorsOf(flow, 1))
    /\ in_values = [b \in BlocksOf(flow) |-> Nothing]
    /\ out_values = [b \in BlocksOf(flow) |-> IF b = 1 THEN Transfer(flow, 1, Nothing) ELSE Nothing]
    /\ walk = [stage |-> "none"]

MeetIn(b) == MeetEnvs({out_values[p] : p \in PredecessorsOf(flow, b)})

\* Mutation of Passed: the successors work again whether there is news or not.
PassedAlways(b, new_out) == SuccessorsOf(flow, b)
Passed(b, new_out) == IF new_out # out_values[b] THEN SuccessorsOf(flow, b) ELSE {}

FlowVisit ==
    /\ flow_worklist # <<>>
    /\ LET b == Head(flow_worklist)
           new_out == Transfer(flow, b, MeetIn(b))
       IN  /\ in_values' = [in_values EXCEPT ![b] = MeetIn(b)]
           /\ out_values' = [out_values EXCEPT ![b] = new_out]
           /\ \E added \in SetToSeqs(Passed(b, new_out) \ ToSet(Tail(flow_worklist))) :
                 Ascending(added) /\ flow_worklist' = Tail(flow_worklist) \o added
    /\ UNCHANGED <<flow, walk>>

-----------------------------------------------------------------------------
(***************************************************************************)
(* A run of the program.  It stops where it reads what was never defined,  *)
(* and, for the sake of the check, above LargestValue.                     *)
(***************************************************************************)
ValueOf(o, env) == IF IsLiteral(o) THEN o.literal ELSE env[o.name]
Defined(i, env) == \A k \in DOMAIN i.args : IsKnown(i.args[k], env)

Outcomes(i, env) ==
    CASE i.op = "LOAD_CONST" -> {i.args[1].literal}
      [] i.op \in {"ADD", "MUL"} /\ Defined(i, env) ->
             {Computed(i.op, ValueOf(i.args[1], env), ValueOf(i.args[2], env))} \cap (0..LargestValue)
      [] i.op = "LOAD" -> Inputs
      [] OTHER -> {}

Behind(g, b, env) ==
    LET code == g.code[b]
        behind[k \in 0..Len(code)] ==
            IF k = 0 THEN {env}
            ELSE UNION {{With(e, code[k].dest, v) : v \in Outcomes(code[k], e)} : e \in behind[k-1]}
    IN behind[Len(code)]

Start ==
    /\ flow_worklist = <<>> /\ walk.stage = "none"
    /\ walk' = [stage |-> "in", block |-> 1, env |-> Nothing]
    /\ UNCHANGED <<flow, flow_worklist, in_values, out_values>>

Execute ==
    /\ walk.stage = "in"
    /\ \E env \in Behind(flow, walk.block, walk.env) :
           walk' = [walk EXCEPT !.stage = "out", !.env = env]
    /\ UNCHANGED <<flow, flow_worklist, in_values, out_values>>

Branch ==
    /\ walk.stage = "out"
    /\ \E b \in SuccessorsOf(flow, walk.block) : walk' = [walk EXCEPT !.stage = "in", !.block = b]
    /\ UNCHANGED <<flow, flow_worklist, in_values, out_values>>

FlowNext == FlowVisit \/ Start \/ Execute \/ Branch

FlowSpec == FlowInit /\ [][FlowNext]_flowvars
FairFlowSpec == FlowSpec /\ WF_flowvars(FlowVisit)

-----------------------------------------------------------------------------
(***************************************************************************)
(* Properties.                                                             *)
(***************************************************************************)

(***************************************************************************)
(* What the analysis says holds on every run: a name it gives a constant   *)
(* has that value whenever it has one, and a name it leaves undefined has  *)
(* none, at both ends of every block.                                      *)
(***************************************************************************)
Holds(env, facts) ==
    \A n \in DOMAIN env : n \in DOMAIN facts /\ (facts[n] # Overdefined => facts[n] = <<env[n]>>)

FactsHold ==
    /\ walk.stage = "in" => Holds(walk.env, in_values[walk.block])
    /\ walk.stage = "out" => Holds(walk.env, out_values[walk.block])

(***************************************************************************)
(* The iteration ends, although the transfer function is not monotone.     *)
(***************************************************************************)
Ends == <>(flow_worklist = <<>>)
=============================================================================
