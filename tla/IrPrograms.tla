----------------------------- MODULE IrPrograms -----------------------------
(***************************************************************************)
(* Programs to compile: a loop around what can fail, a nest of two loops,  *)
(* identities and blocks listed out of order.  Some are refused by         *)
(* verify_ir: a value of a loop that may not run is used behind it, or a   *)
(* value of one branch behind both.                                        *)
(***************************************************************************)
EXTENDS IrCode

In(b, code) == [i \in DOMAIN code |-> [code[i] EXCEPT !.block = b]]

Bodies(d, a) == {Bin("div", d, "p", "k"), Bin("div", d, "k", a), Bin("add", d, "i", "k"), Bin("mul", d, a, "k")}
First(d)     == Bodies(d, "p") \cup {Load(d, "m"), Store("m", "k"), Un("abs", d, "p"), Un("neg", d, "p")}
Second(d)    == Bodies(d, "x") \cup {Store("m", "i"), Const(d, 2)}
Third(d)     == {Bin("add", d, "y", "k"), Bin("div", d, "x", "y"), Load(d, "m")}
Literals     == {0, 1, -1, 2}
OneLoop ==
    {<<Alloca("m"), Const("k", c), For("i", 0, n), a, b, t, EndFor, Return(r)>> :
        c \in Literals, n \in {0, 2}, a \in First("x"), b \in Second("y"), t \in Third("z"), r \in {"z", "i"}}

Nested ==
    {<<Const("k", c), For("i", 0, n), For("j", 0, m), a, Bin("add", "y", r, "k"), EndFor, b, EndFor, Return(q)>> :
        c \in Literals, n \in {1, 2}, m \in {0, 2}, q \in {"y", "k"},
        a \in (First("x") \cup {Bin("div", "x", "i", "k")}) \ {Load("x", "m"), Store("m", "k")},
        r \in {"x", "i", "j", "k"}, b \in {Bin("div", "z", "p", "y"), Bin("mul", "z", "i", "i")}}

\* Block 2 is listed before block 3, which leads to it.
Blocks ==
    {<<Const("k", c), Const("l", d)>> \o <<If("p", via, 3)>>
        \o In(2, <<Bin("add", "z", b, "l"), Return(r)>>)
        \o In(3, <<Bin(o, "x", "p", "k"), Bin("div", "w", "l", "k"), Bin("add", "y", "x", e), Goto(2)>>) :
        c \in Literals, d \in {-4, 0, -1}, via \in {2, 3}, b \in {"x", "p", "k"}, r \in {"y", "z"}, o \in {"add", "mul"},
        e \in {"k", "l"}}

All == <<"constant-folding", "dead-code-elim", "ir-peephole", "muladd-fusion", "licm">>
Compile(sources, pipelines, machines, checks) ==
    [source : sources, passes : pipelines, machine : machines, verify : checks]
MCCompilations ==
    Compile(OneLoop, {<<"licm">>}, {"checked"}, {FALSE})
    \cup Compile(Nested, {All, <<"ir-peephole", "licm">>}, {"checked"}, {FALSE})
    \cup Compile(Blocks, {<<"constant-folding", "ir-peephole">>}, {"checked", "rv32"}, {FALSE})
    \cup Compile(Blocks, {All}, {"checked"}, {TRUE})
    \cup Compile({s \in OneLoop : s[2].imm = <<1>> /\ s[6].op = "add"}, {All}, {"rv32"}, BOOLEAN)
=============================================================================
