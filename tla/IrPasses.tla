------------------------------ MODULE IrPasses ------------------------------
(***************************************************************************)
(* The optimizer passes on IR (scratchv/optimizer/) in the pipeline of the *)
(* compiler driver (compiler.py _run_optimizations, pass_manager.py        *)
(* _execute): each pass changes the program in place, block by block or    *)
(* loop by loop, and may raise in between.  Constant folding, dead code    *)
(* elimination, identities, hoisting; muladd-fusion changes nothing.       *)
(***************************************************************************)
EXTENDS IrCode

CONSTANT Compilations   \* [source, passes, machine, verify] to compile

VARIABLES
    job,         \* the compilation: its source, target machine and verify_ir
    prog,        \* the program, changed in place
    pending,     \* the passes still to run, from the one that runs now
    place,       \* 0: between passes; else the block, or the ENDFOR, it goes on with
    facts,       \* what the pass found out when it began: HoistSafety, or the names used
    aliases,     \* ir-peephole: [removed name -> its source]
    executions,  \* names of the completed passes
    outcome      \* "compiling", "invalid", "error" or "emitted"
vars == <<job, prog, pending, place, facts, aliases, executions, outcome>>

-----------------------------------------------------------------------------
(* HoistSafety: what is known of a value.  shaped: its shape is known;     *)
(* constant: its value, in a sequence of one, if that is known.            *)

Unknown   == [tensor |-> TRUE, shaped |-> FALSE, constant |-> <<>>]
NoTensor  == [Unknown EXCEPT !.tensor = FALSE]
Shaped    == [Unknown EXCEPT !.shaped = TRUE]
Exactly(v) == [Shaped EXCEPT !.constant = v]

ScalarOps == {"const", "add", "mul", "div", "neg"}
AllConstant(fs) == \A n \in DOMAIN fs : fs[n].constant # <<>>

DivisorSafe(f) == f.constant # <<>> /\ f.constant[1] \notin {0, -1}

\* _prove_kernel: a set of one fact if the operation cannot fail, else empty.
Proved(ins, fs) ==
    IF ins.op \notin Kernels \/ (\E n \in DOMAIN fs : ~fs[n].tensor) THEN {}
    ELSE IF ins.op = "const" THEN {Exactly(ins.imm)}
    ELSE IF ins.op \in ScalarOps /\ AllConstant(fs)
    THEN LET v == Compute(ins.op, [n \in DOMAIN fs |-> fs[n].constant[1]], "checked")
         IN IF v = <<>> THEN {} ELSE {Exactly(v)}
    ELSE CASE ins.op \in {"add", "mul", "div"} ->
                 IF (\A n \in DOMAIN fs : fs[n].shaped) /\ (ins.op = "div" => DivisorSafe(fs[2]))
                 THEN {Shaped} ELSE {}
           [] ins.op = "neg" -> {[fs[1] EXCEPT !.constant = <<>>]}
           [] OTHER -> {}

\* facts: of a value the instruction that defines it says what is known.
RECURSIVE FactsOf(_, _)
FactsOf(p, name) ==
    IF name \notin Dests(p) THEN Unknown
    ELSE LET ins == p[CHOOSE i \in DOMAIN p : p[i].dest = name]
             proof == Proved(ins, [n \in DOMAIN ins.args |-> FactsOf(p, ins.args[n])])
         IN CASE ins.op = "alloca" -> NoTensor
              [] ins.op \in {"for", "load"} -> Shaped
              [] OTHER -> IF proof = {} THEN Unknown ELSE CHOOSE f \in proof : TRUE
OperandFacts(p, ins) == [n \in DOMAIN ins.args |-> FactsOf(p, ins.args[n])]

IsSafe(p, ins) == Proved(ins, OperandFacts(p, ins)) # {}
CanHoistWhenGuaranteed(p, ins) ==
    LET fs == OperandFacts(p, ins)
    IN /\ ins.op \in Kernels /\ \A n \in DOMAIN fs : fs[n].tensor
       /\ ~(ins.op \in ScalarOps /\ AllConstant(fs))

-----------------------------------------------------------------------------
(* Constant folding.                                                       *)

\* _try_fold: RV32 wraps what the checked operations refuse; neither divides by zero.
Folded(p, ins, machine) ==
    LET fs == OperandFacts(p, ins)
        xs == [n \in DOMAIN fs |-> fs[n].constant[1]]
    IN IF ins.op \notin {"add", "mul", "div", "abs"} \/ ~AllConstant(fs)
          \/ (ins.op = "div" /\ xs[2] = 0)
       THEN <<>> ELSE Compute(ins.op, xs, machine)

\* What was folded is known to what follows.
FoldBlock(p, b, machine) ==
    LET fold(q, i) == LET v == Folded(q, q[i], machine)
                      IN IF q[i].block # b \/ v = <<>> THEN q
                         ELSE [q EXCEPT ![i] = [Const(@.dest, v[1]) EXCEPT !.block = b]]
    IN FoldLeft(fold, p, [i \in DOMAIN p |-> i])

-----------------------------------------------------------------------------
(* Dead code.                                                              *)

UsedNames(p) == UNION {Range(p[i].args) : i \in DOMAIN p}
SideEffect(ins) == ins.op \in {"store", "return", "br", "br_if", "for", "endfor", "alloca"}
Eliminated(p, b, used) ==
    SelectSeq(p, LAMBDA ins : ins.block # b \/ SideEffect(ins) \/ ins.dest \in used)

-----------------------------------------------------------------------------
(* Identities: x + 0 and x * 1 are x.                                      *)

\* Aliases are to names that were resolved themselves, so one look is enough.
Resolve(a, ins) == [ins EXCEPT !.args = [n \in DOMAIN @ |-> IF @[n] \in DOMAIN a THEN a[@[n]] ELSE @[n]]]

\* FOR's counters change behind the program's back.
Counters(p) == {p[i].dest : i \in {i \in DOMAIN p : p[i].op = "for"}}

SafeIdentity(p, ins) ==
    /\ ins.op \in {"add", "mul"} /\ ins.args[1] \notin Counters(p)
    /\ FactsOf(p, ins.args[2]).constant = <<IF ins.op = "add" THEN 0 ELSE 1>>
    /\ FactsOf(p, ins.args[1]).tensor

\* One block: its operands are resolved with the aliases so far.
PeepBlock(p, b, origin, a) ==
    LET look(acc, ins) ==
            LET new == Resolve(acc.aliases, ins)
            IN IF ins.block # b THEN [acc EXCEPT !.code = Append(@, ins)]
               ELSE IF SafeIdentity(origin, new)
                    THEN [acc EXCEPT !.aliases = @ @@ (ins.dest :> new.args[1])]
                    ELSE [acc EXCEPT !.code = Append(@, new)]
    IN FoldLeft(look, [code |-> <<>>, aliases |-> a], p)

-----------------------------------------------------------------------------
(* Loop-invariant code.                                                    *)

\* The loop at f .. e, in one block: what moves in front of it and what stays.
\* Only a prefix that certainly runs may bring along what can fail.
\* Mutation of StillPrefix: whatever has been kept, the rest still runs.
PrefixForEver(prefix, moves, safe) == prefix
StillPrefix(prefix, moves, safe) == prefix /\ (moves \/ safe)

Hoist(p, f, e) ==
    LET look(acc, ins) ==
            LET depth == acc.depth + (IF ins.op = "for" THEN 1 ELSE 0)
                safe  == depth = 0 /\ IsSafe(p, ins)
                moves == /\ depth = 0 /\ Range(ins.args) \subseteq acc.available
                         /\ safe \/ (acc.prefix /\ CanHoistWhenGuaranteed(p, ins))
            IN [hoisted   |-> IF moves THEN Append(acc.hoisted, ins) ELSE acc.hoisted,
                kept      |-> IF moves THEN acc.kept ELSE Append(acc.kept, ins),
                available |-> IF moves THEN acc.available \cup {ins.dest} ELSE acc.available,
                prefix    |-> StillPrefix(acc.prefix, moves, safe),
                depth     |-> depth - (IF ins.op = "endfor" THEN 1 ELSE 0)]
        start == [hoisted |-> <<>>, kept |-> <<>>, available |-> DefinedBefore(p, f),
                  prefix |-> Runs(p[f]), depth |-> 0]
        done == FoldLeft(look, start, SubSeq(p, f + 1, e - 1))
    IN SubSeq(p, 1, f - 1) \o done.hoisted \o <<p[f]>> \o done.kept \o SubSeq(p, e, Len(p))

\* Loops within one block, inner ones first; an ENDFOR never changes its place.
LoopEnds(p) == {e \in DOMAIN p : p[e].op = "endfor" /\ p[ForOf(p, e)].block = p[e].block}

-----------------------------------------------------------------------------
(* The pipeline.                                                           *)

Running(pass)   == outcome = "compiling" /\ place # 0 /\ pending[1] = pass
LastBlock       == Max(BlocksOf(prog))
Checked         == job.verify => VerifyIr(prog)
Advance         == UNCHANGED <<job, pending, executions, outcome>>

\* _check_ir before and after each pass and before code generation.
CheckFails ==
    /\ outcome = "compiling" /\ place = 0 /\ ~Checked
    /\ outcome' = "invalid"
    /\ UNCHANGED <<job, prog, pending, place, facts, aliases, executions>>

BeginPass ==
    /\ outcome = "compiling" /\ place = 0 /\ Checked /\ pending # <<>>
    /\ LET loops == IF VerifyIr(prog) THEN LoopEnds(prog) ELSE {}
       IN place' = CASE pending[1] = "licm" -> Min(loops \cup {Len(prog) + 1})
                     [] pending[1] = "muladd-fusion" -> Len(prog) + 1
                     [] OTHER -> 1
    /\ facts' = IF pending[1] = "dead-code-elim" THEN [used |-> UsedNames(prog), code |-> <<>>]
                ELSE [used |-> {}, code |-> prog]
    /\ aliases' = <<>>
    /\ UNCHANGED <<job, prog, pending, executions, outcome>>

ConstantFolding ==
    /\ Running("constant-folding") /\ place <= LastBlock
    /\ prog' = FoldBlock(prog, place, job.machine) /\ place' = place + 1
    /\ UNCHANGED <<facts, aliases>> /\ Advance

DeadCodeElim ==
    /\ Running("dead-code-elim") /\ place <= LastBlock
    /\ prog' = Eliminated(prog, place, facts.used) /\ place' = place + 1
    /\ UNCHANGED <<facts, aliases>> /\ Advance

IrPeephole ==
    /\ Running("ir-peephole") /\ place <= LastBlock
    /\ LET result == PeepBlock(prog, place, facts.code, aliases)
       IN prog' = result.code /\ aliases' = result.aliases
    /\ place' = place + 1
    /\ UNCHANGED facts /\ Advance

\* Uses in blocks that came before their definition.
Redirected(p, a) == [i \in DOMAIN p |-> Resolve(a, p[i])]
IrPeepholeRedirects ==
    /\ Running("ir-peephole") /\ place = LastBlock + 1
    /\ prog' = Redirected(prog, aliases) /\ place' = place + 1
    /\ UNCHANGED <<facts, aliases>> /\ Advance

Licm ==
    /\ Running("licm") /\ place <= Len(prog)
    /\ prog' = Hoist(prog, ForOf(prog, place), place)
    /\ place' = Min({e \in LoopEnds(prog') : e > place} \cup {Len(prog) + 1})
    /\ UNCHANGED <<facts, aliases>> /\ Advance

PassReturns ==
    /\ outcome = "compiling" /\ place # 0
    /\ CASE pending[1] = "ir-peephole" -> place = LastBlock + 2
         [] pending[1] \in {"licm", "muladd-fusion"} -> place = Len(prog) + 1
         [] OTHER -> place = LastBlock + 1
    /\ executions' = Append(executions, pending[1]) /\ pending' = Tail(pending)
    /\ place' = 0 /\ facts' = [used |-> {}, code |-> <<>>] /\ aliases' = <<>>
    /\ UNCHANGED <<job, prog, outcome>>

\* A pass raises with the program half changed (a RecursionError in facts, say):
\* OptimizationPassError ends the compilation.
\* Mutation of PassRaises: the next pass goes on with what there is.
PassRaisesUnnoticed ==
    /\ outcome = "compiling" /\ place # 0
    /\ pending' = Tail(pending) /\ place' = 0
    /\ UNCHANGED <<job, prog, facts, aliases, executions, outcome>>
PassRaises ==
    /\ outcome = "compiling" /\ place # 0
    /\ outcome' = "error"
    /\ UNCHANGED <<job, prog, pending, place, facts, aliases, executions>>

Generate ==
    /\ outcome = "compiling" /\ place = 0 /\ pending = <<>> /\ Checked
    /\ outcome' = "emitted"
    /\ UNCHANGED <<job, prog, pending, place, facts, aliases, executions>>

Init ==
    /\ job \in Compilations
    /\ prog = job.source /\ pending = job.passes
    /\ place = 0 /\ facts = [used |-> {}, code |-> <<>>] /\ aliases = <<>>
    /\ executions = <<>> /\ outcome = "compiling"

Next ==
    \/ CheckFails \/ BeginPass
    \/ ConstantFolding \/ DeadCodeElim \/ IrPeephole \/ IrPeepholeRedirects \/ Licm
    \/ PassReturns \/ PassRaises \/ Generate
Spec == Init /\ [][Next]_vars
-----------------------------------------------------------------------------
(* Properties.                                                             *)

\* The code that is generated ends as its source does, on every input: with the
\* same value, or with the same error of the same instruction.  Only dead code
\* elimination may take an error away, with the instruction that nobody used
\* ("Hoist only operations proved safe", "Keep failing operations at their
\* original execution position", "Eliminate proven identities").
Ends(p) == [v \in -Half .. Half - 1 |-> Outcome(p, job.machine, v)]
Dropping == \E n \in DOMAIN executions : executions[n] = "dead-code-elim"
SameOutcome ==
    outcome = "emitted" /\ VerifyIr(job.source) =>
        LET was == Ends(job.source) now == Ends(prog)
        IN \A v \in DOMAIN was :
              was[v] # now[v] => Dropping /\ was[v][1] # "returned"

\* What is generated from a program that verify_ir accepts is one that verify_ir
\* accepts, also where nobody looks in between: no pass leaves a use behind whose
\* definition it removed or moved, and a pass that was cut short leaves nothing
\* that is generated.
StillVerified == outcome = "emitted" /\ VerifyIr(job.source) => VerifyIr(prog)
=============================================================================
