------------------------------- MODULE IrCode -------------------------------
(***************************************************************************)
(* ScratchV's IR for one function over scalar integers: instructions       *)
(* (scratchv/ir/types.py), the control flow of blocks and structured loops *)
(* (analysis/adapters.py), what verify_ir accepts (analysis/ir_verifier.py)*)
(* and what a program does (verification/ir_interpreter.py,                *)
(* ir_numpy_ops.py).  A function is the sequence of its instructions in    *)
(* the order of the listing; each says which block it is in, and branches  *)
(* name blocks.  It has one parameter, "p".                                *)
(***************************************************************************)
EXTENDS Integers, Sequences, FiniteSets, SequencesExt, FiniteSetsExt

CONSTANTS
    Width,   \* bits of an integer
    Fuel     \* max_steps

none == "-"
Half == 2 ^ (Width - 1)
Wrap(v) == ((v + Half) % (2 * Half)) - Half

\* Instructions.  imm: the literal, or start, end and step; to: the target blocks.
Instr(op, dest, args) == [op |-> op, dest |-> dest, args |-> args, imm |-> <<>>, to |-> <<>>, block |-> 1]
Const(d, v)      == [Instr("const", d, <<>>) EXCEPT !.imm = <<v>>]
Bin(op, d, a, b) == Instr(op, d, <<a, b>>)
Un(op, d, a)     == Instr(op, d, <<a>>)
Alloca(d)        == Instr("alloca", d, <<>>)
Load(d, m)       == Instr("load", d, <<m>>)
Store(m, a)      == Instr("store", none, <<m, a>>)
For(d, from, to) == [Instr("for", d, <<>>) EXCEPT !.imm = <<from, to, 1>>]
EndFor           == Instr("endfor", none, <<>>)
Goto(b)          == [Instr("br", none, <<>>) EXCEPT !.to = <<b>>]
If(a, b, c)      == [Instr("br_if", none, <<a>>) EXCEPT !.to = <<b, c>>]
Return(a)        == Instr("return", none, <<a>>)

Kernels == {"const", "add", "mul", "div", "neg", "abs"}
Dests(prog) == {prog[i].dest : i \in DOMAIN prog} \ {none}
Names(prog) == Dests(prog) \cup {"p"}
\* A block of the listing, and where it begins.
InBlock(prog, b)   == {i \in DOMAIN prog : prog[i].block = b}
BlockBegin(prog, b) == Min(InBlock(prog, b))
BlocksOf(prog)     == {prog[i].block : i \in DOMAIN prog}

-----------------------------------------------------------------------------
(* Control flow.                                                           *)

\* FOR and ENDFOR are brackets.
Depth(prog, i, j) ==
    Cardinality({n \in i .. j : prog[n].op = "for"}) - Cardinality({n \in i .. j : prog[n].op = "endfor"})
EndOf(prog, i) == Min({j \in i .. Len(prog) : Depth(prog, i, j) = 0})
ForOf(prog, j) == Max({i \in 1 .. j : prog[i].op = "for" /\ Depth(prog, i, j) = 0})

\* A loop whose bounds say that it runs is entered without a test.
Runs(f) == f.imm[1] < f.imm[2]
Follows(prog, i) ==
    LET ins == prog[i]
    IN CASE ins.op \in {"br", "br_if"} -> {BlockBegin(prog, ins.to[n]) : n \in DOMAIN ins.to}
         [] ins.op = "return" -> {}
         [] ins.op = "for" -> {i + 1} \cup (IF Runs(ins) THEN {} ELSE {EndOf(prog, i) + 1})
         [] ins.op = "endfor" -> {ForOf(prog, i) + 1, i + 1}
         [] OTHER -> {i + 1}

\* What the entry reaches without going through one of the points avoided.
ReachedAvoiding(prog, avoided) ==
    LET spread(set, n) == set \cup UNION {Follows(prog, i) \ avoided : i \in set}
    IN FoldLeft(spread, {1} \ avoided, prog)
Dominating(prog, i) ==
    {d \in DOMAIN prog : d # i /\ prog[d].dest # none /\ i \notin ReachedAvoiding(prog, {d})}
DefinedBefore(prog, i) == {prog[d].dest : d \in Dominating(prog, i)} \cup {"p"}

\* verify_ir: one definition for each name, and it dominates the uses.
VerifyIr(prog) ==
    /\ \A i, j \in DOMAIN prog : i # j /\ prog[i].dest # none => prog[i].dest # prog[j].dest
    /\ \A i \in DOMAIN prog : Range(prog[i].args) # {} => Range(prog[i].args) \subseteq DefinedBefore(prog, i)

-----------------------------------------------------------------------------
(* Execution.  Machine "checked" is the interpreter's: operations that have*)
(* no result are errors.  Machine "rv32" is the processor's.               *)

Abs(a) == IF a < 0 THEN -a ELSE a
Quotient(a, b) == IF (a < 0) # (b < 0) THEN -(Abs(a) \div Abs(b)) ELSE Abs(a) \div Abs(b)

\* The result in a sequence of one, or none at all.
Compute(op, xs, machine) ==
    CASE op = "add" -> <<Wrap(xs[1] + xs[2])>>
      [] op = "mul" -> <<Wrap(xs[1] * xs[2])>>
      [] op = "neg" -> <<Wrap(-xs[1])>>
      [] op = "abs" -> IF xs[1] = -Half /\ machine = "checked" THEN <<>> ELSE <<Wrap(Abs(xs[1]))>>
      [] op = "div" ->
            IF xs[2] = 0 THEN (IF machine = "checked" THEN <<>> ELSE <<-1>>)
            ELSE IF xs[1] = -Half /\ xs[2] = -1 /\ machine = "checked" THEN <<>>
                 ELSE <<Wrap(Quotient(xs[1], xs[2]))>>

\* env: the tensors, slot: the memory of each ALLOCA; <<>> is neither.
Start(prog, input) ==
    [at |-> 1, ended |-> "running", value |-> 0,
     env  |-> [n \in Names(prog) |-> IF n = "p" THEN <<input>> ELSE <<>>],
     made |-> {}, cell |-> [n \in Names(prog) |-> <<>>]]

Ended(m, how, v) == [m EXCEPT !.ended = how, !.value = v]
Wrong(m, ins, what) == [m EXCEPT !.ended = what \o " " \o ins.op \o " " \o ins.dest]
Put(m, d, v) == [m EXCEPT !.env[d] = <<v>>, !.at = @ + 1]

Step(prog, machine, m) ==
    LET ins == prog[m.at]
        \* Operands are resolved first.
        unknown == {n \in Range(ins.args) : m.env[n] = <<>> /\ n \notin m.made}
        pointer(n) == n \in m.made
        arg(n) == m.env[ins.args[n]][1]
        enter(from, i) == [m EXCEPT !.env[ins.dest] = <<from>>, !.at = i]
        result == Compute(ins.op, [n \in DOMAIN ins.args |-> arg(n)], machine)
    IN CASE ins.op = "br" -> [m EXCEPT !.at = BlockBegin(prog, ins.to[1])]
         [] ins.op = "for" -> enter(ins.imm[1], IF Runs(ins) THEN m.at + 1 ELSE EndOf(prog, m.at) + 1)
         [] ins.op = "endfor" ->
               LET f == ForOf(prog, m.at)
                   next == m.env[prog[f].dest][1] + prog[f].imm[3]
               IN IF next >= Half THEN Wrong(m, ins, "NumericError")
                  ELSE [m EXCEPT !.env[prog[f].dest] = <<next>>,
                                 !.at = IF next >= prog[f].imm[2] THEN m.at + 1 ELSE f + 1]
         [] OTHER ->
            IF unknown # {} THEN Wrong(m, ins, "UndefinedValue")
            ELSE IF ins.op \notin {"store", "load"} /\ (\E n \in Range(ins.args) : pointer(n))
            THEN Wrong(m, ins, "MemoryError")
            ELSE CASE ins.op = "alloca" -> [m EXCEPT !.made = @ \cup {ins.dest}, !.cell[ins.dest] = <<>>, !.at = @ + 1]
                   [] ins.op = "store" ->
                         IF ~pointer(ins.args[1]) \/ pointer(ins.args[2]) THEN Wrong(m, ins, "MemoryError")
                         ELSE [m EXCEPT !.cell[ins.args[1]] = <<arg(2)>>, !.at = @ + 1]
                   [] ins.op = "load" ->
                         IF ~pointer(ins.args[1]) \/ m.cell[ins.args[1]] = <<>> THEN Wrong(m, ins, "MemoryError")
                         ELSE Put(m, ins.dest, m.cell[ins.args[1]][1])
                   [] ins.op = "br_if" -> [m EXCEPT !.at = BlockBegin(prog, ins.to[IF arg(1) # 0 THEN 1 ELSE 2])]
                   [] ins.op = "return" -> Ended(m, "returned", arg(1))
                   [] ins.op = "const" -> Put(m, ins.dest, ins.imm[1])
                   [] OTHER -> IF result = <<>> THEN Wrong(m, ins, "NumericError") ELSE Put(m, ins.dest, result[1])

\* How a run ends: with which value, or with which error at which instruction.
Outcome(prog, machine, input) ==
    LET go(m, n) == IF m.ended = "running" THEN Step(prog, machine, m) ELSE m
        last == FoldLeft(go, Start(prog, input), [n \in 1 .. Fuel |-> n])
    IN <<last.ended, last.value>>
=============================================================================
