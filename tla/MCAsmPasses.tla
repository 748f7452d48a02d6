----------------------------- MODULE MCAsmPasses -----------------------------
(***************************************************************************)
(* Texts to compile, filled in from small sets of lines: what the window   *)
(* rules and constant merging look for, with labels, calls, comments and   *)
(* aliases in their way, and regions to reorder.                           *)
(***************************************************************************)
EXTENDS AsmPasses

Peep == {Addi("t0", "t0", 1), Addi("t0", "t0", -2), Addi("t0", "t0", 0), Addi("t1", "t0", 0),
         Li("t0", 1), Mv("t0", "t1"), Mv("t1", "t0"), Mv("a0", "t0"), Mv("t0", "t0"), Nop, Comment,
         Sw("t0", 0, "x5"), Beq("zero", "x0", "L"), At("M", Addi("t0", "t0", 1)), At("M", Mv("a0", "t0"))}
PeepTexts == {<<a, b, c, Label("L"), Add("a0", "a0", "x5"), Return>> : a \in Peep, b \in Peep, c \in Peep}

Loop == {Mv("t0", "t1"), Mv("a0", "t0"), Mv("t1", "a0"), Addi("t1", "t1", 1), Add("a0", "t1", "t0"), CallTo("f")}
LoopTexts == {<<Label("L"), a, b, c, Beq("t1", "a0", "L"), d, Return>> :
                  a \in Loop, b \in Loop, c \in Loop, d \in Loop}

Merge == {Lui("t0", 1), Lui("t0", 3), Addi("t0", "t0", 1), Addi("t0", "x5", -2), Comment, CallTo("f"),
          Label("M"), Mv("t1", "t0"), Lw("x5", 0, "t1"), At("M", Lui("x5", 1))}
MergeTexts == {<<a, b, c, d, Sw("t0", 0, "t1"), Return>> :
                   a \in Merge, b \in Merge, c \in Merge, d \in Merge}

Move == {Add("t0", "t1", "a0"), Addi("t1", "t0", 1), Lw("t0", 0, "a0"), Sw("t0", 0, "t1"),
         Sw("a0", 1, "t0"), Div("t1", "t0", "a0"), Fadd("f0", "f0", "f0"), Li("t1", 1), Li("t1", 3),
         Mv("a0", "t1")}
Few == {Addi("t1", "t0", 1), Lw("t0", 0, "a0"), Sw("a0", 1, "t0"), Div("t1", "t0", "a0"), Mv("a0", "t1"), Li("t1", 1)}
End == <<Beq("t0", "t1", "L"), Label("L"), Return>>
MoveTexts ==
    {<<a, b, c>> \o End : a \in Move, b \in Move, c \in Move}
    \cup {<<a, b, c, d>> \o End : a \in Few, b \in Few, c \in Few, d \in Few}
    \cup {<<a, a, b, b, a>> \o End : a \in Few, b \in Few}

\* The regions of these texts.
MCRegions == {SubSeq(t, 1, Len(t) - 2) : t \in MoveTexts}

\* Labels are written once.
Unique(t) == \A m, n \in DOMAIN t : m # n /\ t[m].label # none => t[m].label # t[n].label
Compile(texts, passes) == {[text |-> t, passes |-> passes] : t \in {t \in texts : Unique(t)}}

MCJobs ==
    Compile(PeepTexts, <<"asm-peephole">>) \cup Compile(LoopTexts, <<"asm-peephole", "const-merge">>)
    \cup Compile(MergeTexts, <<"const-merge">>) \cup Compile(MoveTexts, <<"schedule">>)
    \cup Compile({t \in PeepTexts : t[1] = Li("t0", 1)}, <<"asm-peephole", "const-merge", "schedule">>)

MCStarts == {[r \in Registers |-> CASE r = "x5" -> 3 [] r = "x6" -> 5 [] r = "x10" -> 9 [] OTHER -> 0]}
=============================================================================
