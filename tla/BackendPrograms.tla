--------------------------- MODULE BackendPrograms ---------------------------
(***************************************************************************)
(* Programs to allocate: the control flow that instruction selection emits *)
(* for straight code, conditionals, loops and calls, and blocks laid out   *)
(* after the blocks they lead to, with the instructions to be filled in.   *)
(* Three variables compete for two registers, one of them caller-saved.    *)
(***************************************************************************)
EXTENDS MachineCode, SequencesExt

CONSTANTS v1, v2, v3, r1, r2

Variables == {v1, v2, v3}
MCBank == <<r1, r2>>
MCCallerSaved == {r1}
MCNames == <<v1, v2, v3>>
MaxItems == 10
Places == 1..MaxItems

First == {Op(<<>>, {v1}), Op(<<v2>>, {v1}), Op(<<v3>>, {v2})}
Fill == {Op(<<>>, {v1}), Op(<<>>, {v2}), Op(<<v1>>, {v3}), Op(<<v2>>, {v1}), Op(<<v3, v2>>, {v2}),
         Op(<<v1, v2>>, {v3}), Op(<<v1, v2>>, {}), Op(<<v3>>, {})}
Final == {Op(<<v3, v2>>, {}), Op(<<v1>>, {})}

\* if (..) f2 else f3
Diamond == {<<f1, Branch(<<v1>>, "else"), f2, Jump("end"), Label("else"), f3, Label("end"), f4, Ret>> :
                f1 \in First, f2 \in Fill, f3 \in Fill, f4 \in Final}

\* do f2 while (..)
Repeat == {<<f1, Label("loop"), f2, f3, Branch(<<v1>>, "loop"), f4, Ret>> :
               f1 \in First, f2 \in Fill, f3 \in Fill, f4 \in Final}

\* for: header, body and exit labels as _select_for and _select_endfor emit them
For == {<<f1, Op(<<>>, {v1}), Label("header"), Branch(<<v1>>, "exit"), Label("body"), f2, Op(<<v1>>, {v1}),
          Jump("header"), Label("exit"), f3>> :
            f1 \in First, f2 \in Fill, f3 \in Fill}

\* a block that stands before the block that leads to it
Behindhand(first, second, third) ==
    {<<f1, Jump("second"), Label("first"), f2, Ret, Label("second"), f3, Jump("first")>> :
        f1 \in first, f2 \in second, f3 \in third}
Backward == Behindhand({Op(<<v3>>, {}), Op(<<v1, v2>>, {})}, Fill, Fill)

\* a label that only the code before it reaches, and calls
Calls == {<<f1, f2, Call, Label("next"), f3, Call, f4, Ret>> :
              f1 \in First, f2 \in Fill, f3 \in Fill, f4 \in Final}

\* a call inside a loop
LoopCall == {<<f1, Label("loop"), f2, Call, f3, Branch(<<v2>>, "loop"), f4, Ret>> :
                 f1 \in First, f2 \in Fill, f3 \in Fill, f4 \in Final}

\* more variables than registers, round a loop, with and without a call in it
Loaded == {<<Op(<<>>, {v1}), Op(<<>>, {v2}), Op(<<>>, {v3}), Label("loop"), f2, g, Branch(<<v1>>, "loop"), f3, f4>> :
               f2 \in Fill, g \in Fill \cup {Call}, f3 \in Fill, f4 \in Final}

(***************************************************************************)
(* More values that nobody defines than there are registers would lose     *)
(* some of them at the entry; the front ends emit none.                    *)
(***************************************************************************)
Families == Loaded \cup LoopCall \cup Diamond \cup Repeat \cup For \cup Backward \cup Calls
MCPrograms == {p \in Families : Cardinality(UsedBefore(p) \ Defined(p)) <= Len(MCBank)}

(***************************************************************************)
(* Linear scan is given programs that define what they read, and that do   *)
(* not write a variable again where it is dead: see WrittenAgain.          *)
(***************************************************************************)
Follows(p, i) ==
    {j \in {i + 1} \cap DOMAIN p : p[i].does \notin {"jump", "ret"}}
    \cup {j \in DOMAIN p : p[i].does \in {"branch", "jump"} /\ IsLabel(p, j) /\ p[j].to = p[i].to}

\* the items before which v is live
Wanted(p, v) ==
    FoldLeft(LAMBDA known, n :
                 {i \in DOMAIN p : \/ v \in UsesOf(p, i)
                                   \/ v \notin p[i].def /\ \E j \in Follows(p, i) : j \in known},
             {}, [n \in 1..(2 * MaxItems) |-> n])

DeadAgain(p) ==
    \E v \in Variables : LET wanted == Wanted(p, v) IN
        \E i \in DOMAIN p : /\ v \in p[i].def /\ Follows(p, i) \cap wanted = {}
                           /\ \E j \in 1..(i - 1) : v \in p[j].def

MCScanned == {p \in Families : UsedBefore(p) \subseteq Defined(p) /\ ~DeadAgain(p)}

(***************************************************************************)
(* Programs that write a variable again where it is dead.  The interval of *)
(* linear scan ends at the last use and does not cover the second write,   *)
(* which takes the register of whoever has it by then, round a loop.       *)
(* Greedy has no slot for a variable that is written again in a block laid *)
(* out after the block that it is handed to.                               *)
(***************************************************************************)
WrittenAgain ==
    {<<Op(<<>>, {v1}), Op(<<>>, {v2}), Op(<<>>, {v3}), Label("loop"), Op(<<v3>>, {}), Op(<<>>, {v2}),
       Branch(<<v1>>, "loop"), Op(<<v1>>, {}), Ret>>}
Redefined == Behindhand({Op(<<>>, {v1}), Op(<<v2>>, {v1})}, {Op(<<v1>>, {v3})}, {Op(<<>>, {v1}), Op(<<v3>>, {v1})})

=============================================================================
