----------------------------- MODULE MachineCode -----------------------------
(***************************************************************************)
(* The flat machine code that instruction selection hands to a register    *)
(* allocator, and the control-flow graph that build_cfg makes of it        *)
(* through MachineCFGAdapter.                                              *)
(*                                                                         *)
(* An item is a label or an instruction: what it does, the virtual         *)
(* registers it reads in operand order, the one it writes if any, and the  *)
(* label it goes to.  Literals and the fixed registers that the selector   *)
(* names (zero, ra, sp and the arguments, none of which is allocated) are  *)
(* left out, and so is the floating-point bank, which repeats the integer  *)
(* bank with other names.  A block is the place of its first item.         *)
(***************************************************************************)
EXTENDS LiveEquations, FiniteSetsExt

Label(l) == [does |-> "label", uses |-> <<>>, def |-> {}, to |-> l]
Op(uses, def) == [does |-> "op", uses |-> uses, def |-> def, to |-> "none"]
Branch(uses, l) == [does |-> "branch", uses |-> uses, def |-> {}, to |-> l]
Jump(l) == [does |-> "jump", uses |-> <<>>, def |-> {}, to |-> l]
Call == [does |-> "call", uses |-> <<>>, def |-> {}, to |-> "none"]
Ret == [does |-> "ret", uses |-> <<>>, def |-> {}, to |-> "none"]

IsLabel(p, i) == p[i].does = "label"
IsTerminator(p, i) == p[i].does \in {"branch", "jump", "ret"}
UsesOf(p, i) == {p[i].uses[n] : n \in DOMAIN p[i].uses}
Defined(p) == UNION {p[i].def : i \in DOMAIN p}
UsedBefore(p) ==
    {v \in Value : \E i \in DOMAIN p : v \in UsesOf(p, i) /\ \A j \in 1..(i - 1) : v \notin p[j].def}

(***************************************************************************)
(* Where blocks start: at every label, and behind every terminator.  Empty *)
(* blocks are kept.                                                        *)
(***************************************************************************)
Leads(p, i) == i = 1 \/ IsLabel(p, i) \/ IsTerminator(p, i - 1)
Leaders(p) == {i \in DOMAIN p : Leads(p, i)}
BlockOf(p, i) == Max({b \in 1..i : Leads(p, b)})
LastOf(p, b) == Min({i \in b..Len(p) : i = Len(p) \/ Leads(p, i + 1)})
FirstExecutable(p, b) == IF IsLabel(p, b) THEN b + 1 ELSE b
LabelPlace(p, l) == CHOOSE i \in DOMAIN p : IsLabel(p, i) /\ p[i].to = l

(***************************************************************************)
(* The edges: a block falls through unless it ends in a jump or a return,  *)
(* and goes to the label of its branch or jump.  A branch to the label     *)
(* that follows makes two edges.                                           *)
(***************************************************************************)
Edges(p) ==
    LET last(b) == LastOf(p, b)
        falls == {b \in Leaders(p) : /\ last(b) < Len(p)
                                     /\ p[last(b)].does \notin {"jump", "ret"}}
        goes == {b \in Leaders(p) : p[last(b)].does \in {"branch", "jump"}}
    IN {[from |-> b, to |-> last(b) + 1, falls |-> TRUE] : b \in falls}
       \cup {[from |-> b, to |-> LabelPlace(p, p[last(b)].to), falls |-> FALSE] : b \in goes}

(***************************************************************************)
(* What the liveness analysis is asked: MachineUseDefProvider, no phis.    *)
(***************************************************************************)
FlowGraph(p) ==
    LET edges == Edges(p)
        leaders == Leaders(p)
        operands(b) ==
            LET first == FirstExecutable(p, b)
            IN [k \in 1..(LastOf(p, b) + 1 - first) |->
                   [uses |-> UsesOf(p, first + k - 1), defs |-> p[first + k - 1].def]]
    IN [succ |-> [b \in Block |-> {e.to : e \in {e \in edges : e.from = b}}],
        code |-> [b \in Block |-> IF b \in leaders THEN operands(b) ELSE <<>>],
        phi_defs |-> [b \in Block |-> {}],
        edge_uses |-> [e \in Block \X Block |-> {}]]

(***************************************************************************)
(* What the analysis answers when its live_in is `in`: live_after of every *)
(* item (for a label, what its block begins with), and edge_live, all      *)
(* edges together.                                                         *)
(***************************************************************************)
LiveAfterItems(p, g, in) ==
    LET out == [b \in Block |-> NewOut(g, in, b)]
        after(i) == LET b == BlockOf(p, i)
                    IN LiveFrom(g, out, b)[2 + i - FirstExecutable(p, b)]
    IN [i \in DOMAIN p |-> after(i)]

LiveOnEdges(p, g, in) == UNION {Across(g, in, e.from, e.to) : e \in Edges(p)}
=============================================================================
