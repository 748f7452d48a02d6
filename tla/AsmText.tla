------------------------------- MODULE AsmText -------------------------------
(***************************************************************************)
(* Assembly text as the passes behind code generation read it, and what    *)
(* RISC-V does with it.  A line has a label or none and an instruction or  *)
(* none: the register written, the registers read in operand order, an     *)
(* immediate and a target.  Registers are names as written, of which       *)
(* several may mean one register.                                          *)
(*                                                                         *)
(* Words are short: Low is the range of an I-type immediate (4096 in the   *)
(* code), Words that of a register (2^32).                                 *)
(***************************************************************************)
EXTENDS Integers, Sequences, FiniteSets

CONSTANTS Low, Words

ASSUME WidthAssumption == /\ Low \in Nat /\ Words \in Nat
                          /\ Low >= 2 /\ Low % 2 = 0 /\ Words % Low = 0 /\ Words > Low

none == "none"
Line(op, rd, rs, imm, to) ==
    [label |-> none, op |-> op, rd |-> rd, rs |-> rs, imm |-> imm, to |-> to]
Addi(rd, rs, n)  == Line("addi", rd, <<rs>>, n, none)
Add(rd, a, b)    == Line("add", rd, <<a, b>>, 0, none)
Div(rd, a, b)    == Line("div", rd, <<a, b>>, 0, none)
Fadd(rd, a, b)   == Line("fadd", rd, <<a, b>>, 0, none)
Mv(rd, rs)       == Line("mv", rd, <<rs>>, 0, none)
Li(rd, n)        == Line("li", rd, <<>>, n, none)
Lui(rd, n)       == Line("lui", rd, <<>>, n, none)
Nop              == Line("nop", none, <<>>, 0, none)
Lw(rd, n, base)  == Line("lw", rd, <<base>>, n, none)
Sw(src, n, base) == Line("sw", none, <<src, base>>, n, none)
Beq(a, b, l)     == Line("beq", none, <<a, b>>, 0, l)
Jmp(l)           == Line("j", none, <<>>, 0, l)
CallTo(l)        == Line("call", none, <<>>, 0, l)
Return           == Line("ret", none, <<>>, 0, none)
Comment          == Line(none, none, <<>>, 0, none)
At(l, line)      == [line EXCEPT !.label = l]
Label(l)         == At(l, Comment)

\* canonical_reg, on the names that occur.
Canon(r) == CASE r = "zero" -> "x0" [] r = "t0" -> "x5" [] r = "t1" -> "x6"
              [] r = "a0" -> "x10" [] OTHER -> r
Registers == {"x0", "x5", "x6", "x10", "f0"}

Defs(line) == IF line.rd = none THEN {} ELSE {Canon(line.rd)} \ {"x0"}
Uses(line) == {Canon(line.rs[n]) : n \in DOMAIN line.rs} \ {"x0"}
Signed12(n) == n \in -(Low \div 2) .. Low \div 2 - 1

-----------------------------------------------------------------------------
(* The machine.  It steps silently to the next thing that others can see:  *)
(* a store, a jump or taken branch, a call with its argument, a return     *)
(* with its result.                                                        *)

Word(n) == n % Words
Read(regs, r) == IF Canon(r) = "x0" THEN 0 ELSE regs[Canon(r)]
Address(regs, line) == Word(Read(regs, line.rs[Len(line.rs)]) + line.imm)
Place(text, l) == CHOOSE n \in DOMAIN text : text[n].label = l

Result(line, regs, mem) ==
    CASE line.op = "addi" -> Read(regs, line.rs[1]) + line.imm
      [] line.op \in {"add", "fadd"} -> Read(regs, line.rs[1]) + Read(regs, line.rs[2])
      [] line.op = "div" -> Read(regs, line.rs[1]) \div 2 + Read(regs, line.rs[2])
      [] line.op = "mv" -> Read(regs, line.rs[1])
      [] line.op = "li" -> line.imm
      [] line.op = "lui" -> line.imm * Low
      [] line.op = "lw" -> mem[Address(regs, line)]

Written(line, regs, mem) ==
    [r \in Registers |-> IF r \in Defs(line) THEN Word(Result(line, regs, mem)) ELSE regs[r]]

Taken(line, regs) == line.op = "j" \/ (line.op = "beq" /\ Read(regs, line.rs[1]) = Read(regs, line.rs[2]))

\* What a line shows; <<>> if nothing.
Event(line, regs) ==
    CASE line.op = "sw" -> <<"store", Address(regs, line), Read(regs, line.rs[1])>>
      [] line.op = "call" -> <<"call", line.to, regs["x10"]>>
      [] line.op = "ret" -> <<"return", regs["x10"]>>
      [] Taken(line, regs) -> <<"goto", line.to>>
      [] OTHER -> <<>>

\* A callee keeps the caller's memory and returns its argument plus one.
AfterCall(regs) == [r \in Registers |-> IF r = "x10" THEN Word(regs[r] + 1) ELSE 0]

\* A machine is a place, registers and memory.  A step over a line.
Stepped(text, m) ==
    LET line == text[m.at]
    IN CASE line.op = "sw" ->
              [m EXCEPT !.at = @ + 1, !.mem[Address(m.regs, line)] = Read(m.regs, line.rs[1])]
         [] line.op = "call" -> [m EXCEPT !.at = @ + 1, !.regs = AfterCall(@)]
         [] line.op = "ret" -> m
         [] Taken(line, m.regs) -> [m EXCEPT !.at = Place(text, line.to)]
         [] line.op \in {"beq", "nop", none} /\ ~Taken(line, m.regs) -> [m EXCEPT !.at = @ + 1]
         [] OTHER -> [m EXCEPT !.at = @ + 1, !.regs = Written(line, m.regs, m.mem)]

Shows(text, m) == Event(text[m.at], m.regs)
=============================================================================
