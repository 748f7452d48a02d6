------------------------------ MODULE Peephole -------------------------------
(***************************************************************************)
(* scratchv/backend/asm_peephole.py: windows of one or two lines rewritten *)
(* by the first rule that matches, in passes over the text until nothing   *)
(* changes.                                                                *)
(***************************************************************************)
EXTENDS AsmText

CONSTANT MaxIterations   \* max_iterations

VARIABLES
    lines,     \* the text so far
    fresh,     \* new_lines: what this pass has written
    at,        \* i: the line it looks at
    changed,
    iteration,
    dropped    \* the registers whose copy a rule gave up, though they were read
peepholeVars == <<lines, fresh, at, changed, iteration, dropped>>

Rules == <<"addi+addi", "li+addi", "beq", "mv+mv", "addi 0 self", "addi 0", "nop", "mv self">>
WindowSize(rule) == IF rule \in {"addi+addi", "li+addi", "mv+mv"} THEN 2 ELSE 1
Window(n, size) == SubSeq(lines, n, n + size - 1)

\* _match_rule: opcodes, no label inside, and what each rule asks of the operands.
\* Registers are compared as they are written.
Matches(rule, w) ==
    LET ops == [n \in DOMAIN w |-> w[n].op]
        fused == w[1].rd = w[2].rd /\ w[1].rd = w[2].rs[1]
    IN /\ \A n \in 2 .. Len(w) : w[n].label = none
       /\ CASE rule = "addi+addi" ->
                 ops = <<"addi", "addi">> /\ fused /\ Signed12(w[1].imm + w[2].imm)
            [] rule = "li+addi" -> ops = <<"li", "addi">> /\ fused
            [] rule = "beq" -> ops = <<"beq">> /\ \A n \in 1 .. 2 : w[1].rs[n] \in {"x0", "zero"}
            [] rule = "mv+mv" ->
                 ops = <<"mv", "mv">> /\ w[1].rd = w[2].rs[1] /\ w[2].rd # w[1].rs[1]
            [] rule = "addi 0 self" -> ops = <<"addi">> /\ w[1].imm = 0 /\ w[1].rd = w[1].rs[1]
            [] rule = "addi 0" -> ops = <<"addi">> /\ w[1].imm = 0 /\ w[1].rd # w[1].rs[1]
            [] rule = "nop" -> ops = <<"nop">>
            [] rule = "mv self" -> ops = <<"mv">> /\ w[1].rd = w[1].rs[1]

\* _is_reg_live_after: does a line read the register, or a label stand, before a
\* line that writes it, a return or the end?
LiveAfter(start, reg) ==
    LET asks(l) == (l.op = none /\ l.label # none) \/ \E n \in DOMAIN l.rs : l.rs[n] = reg
        ends(l) == l.op = "ret" \/ l.rd = reg
    IN \E n \in start .. Len(lines) :
          asks(lines[n]) /\ \A m \in start .. n - 1 : ~ends(lines[m])

Applicable(rule, n) ==
    /\ n + WindowSize(rule) - 1 <= Len(lines)
    /\ Matches(rule, Window(n, WindowSize(rule)))
    /\ rule = "mv+mv" => ~LiveAfter(n + 2, lines[n].rd)

\* _apply_replacement; a label in front is kept.
Replacement(rule, w) ==
    LET new == CASE rule = "addi+addi" -> Addi(w[1].rd, w[1].rs[1], w[1].imm + w[2].imm)
                 [] rule = "li+addi" -> Li(w[1].rd, w[1].imm + w[2].imm)
                 [] rule = "beq" -> Jmp(w[1].to)
                 [] rule = "mv+mv" -> Mv(w[2].rd, w[1].rs[1])
                 [] rule = "addi 0" -> Mv(w[1].rd, w[1].rs[1])
                 [] OTHER -> Comment
    IN IF new = Comment /\ w[1].label = none THEN <<>> ELSE <<At(w[1].label, new)>>

-----------------------------------------------------------------------------
(* What really is live: along every path, with the argument of a call and  *)
(* the result of a return.                                                 *)

NextPlaces(text, n) ==
    LET l == text[n]
    IN (IF l.op \in {"beq", "j"} THEN {Place(text, l.to)} ELSE {})
       \cup (IF l.op \in {"j", "ret"} \/ n = Len(text) THEN {} ELSE {n + 1})
ReadsReg(l, r)  == r \in Uses(l) \/ (l.op \in {"call", "ret"} /\ r = "x10")
WritesReg(l, r) == r \in Defs(l) \/ l.op = "call"

ReadFrom(text, r) ==   \* the places from which r may be read before it is written
    LET live[k \in 0 .. Len(text)] ==
            IF k = 0 THEN {}
            ELSE {n \in DOMAIN text :
                    \/ ReadsReg(text[n], r)
                    \/ ~WritesReg(text[n], r) /\ NextPlaces(text, n) \cap live[k - 1] # {}}
    IN live[Len(text)]

-----------------------------------------------------------------------------

Rewrite(rule) ==
    /\ at <= Len(lines)
    /\ Applicable(rule, at)
    /\ \A k \in DOMAIN Rules : Applicable(Rules[k], at) => \E j \in 1 .. k : Rules[j] = rule
    /\ fresh' = fresh \o Replacement(rule, Window(at, WindowSize(rule)))
    /\ at' = at + WindowSize(rule)
    /\ changed' = TRUE
    /\ dropped' = dropped \cup
          IF rule = "mv+mv" /\ (Canon(lines[at].rd) = "x0"
                                \/ at + 2 \in ReadFrom(lines, Canon(lines[at].rd)))
             /\ Canon(lines[at].rd) # Canon(lines[at + 1].rd)
          THEN {Canon(lines[at].rd)} ELSE {}
    /\ UNCHANGED <<lines, iteration>>

Keep ==
    /\ at <= Len(lines)
    /\ \A k \in DOMAIN Rules : ~Applicable(Rules[k], at)
    /\ fresh' = Append(fresh, lines[at]) /\ at' = at + 1
    /\ UNCHANGED <<lines, changed, iteration, dropped>>

Again ==
    /\ at > Len(lines) /\ changed /\ iteration < MaxIterations
    /\ lines' = fresh /\ fresh' = <<>> /\ at' = 1 /\ changed' = FALSE
    /\ iteration' = iteration + 1
    /\ UNCHANGED dropped

PeepholeDone == at > Len(lines) /\ ~(changed /\ iteration < MaxIterations)
=============================================================================
