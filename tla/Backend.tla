------------------------------- MODULE Backend -------------------------------
(***************************************************************************)
(* The register allocators, greedy and linear scan, and a machine that     *)
(* runs their output beside the program they were given.  The machine is   *)
(* no part of the repository: it is what RISC-V does with moves between    *)
(* registers and stack slots, calls that destroy the caller-saved          *)
(* registers, and branches that may go either way.  An instruction         *)
(* computes any value: whatever its operands, the program's variable and   *)
(* the register written get the same one.                                  *)
(***************************************************************************)
EXTENDS GreedyAlloc, LinearScan

CONSTANT Scanned     \* the programs that linear scan is given

Data == {0, 1}
Junk == 2            \* what was never written, or destroyed

VARIABLES
    allocator,       \* reg_alloc: which of the two is used
    pc,              \* <<item, position in its emitted code>>
    env,             \* the variables of the program, as its text says
    regs, mem        \* the machine's registers and stack slots
machineVars == <<pc, env, regs, mem>>
allocVars == <<allocator, sharedVars, greedyVars, linearVars>>
vars == <<allocVars, machineVars>>

(***************************************************************************)
(* What holds of every bank and of all code that is selected: registers    *)
(* without repetition, values that are not None, items that write one      *)
(* value at most and only if they compute, and goals that are there.       *)
(***************************************************************************)
WellFormed(p) ==
    /\ Len(p) \in Nat /\ DOMAIN p = 1..Len(p)
    /\ \A i \in DOMAIN p :
          /\ Len(p[i].uses) \in Nat /\ DOMAIN p[i].uses = 1..Len(p[i].uses)
          /\ None \notin UsesOf(p, i) \cup p[i].def
          /\ \A v, w \in p[i].def : v = w
Selected(p) ==
    /\ DOMAIN p \subseteq Block
    /\ \A i \in DOMAIN p :
          /\ p[i].does \in {"label", "op", "branch", "jump", "call", "ret"}
          /\ UsesOf(p, i) \cup p[i].def \subseteq Vreg
          /\ p[i].def # {} => p[i].does = "op"
          /\ IsLabel(p, i) => UsesOf(p, i) = {}
          /\ p[i].does \in {"branch", "jump"} => \E j \in DOMAIN p : IsLabel(p, j) /\ p[j].to = p[i].to
Sound ==
    /\ Bank \in Seq(Reg) /\ Len(Bank) \in Nat \ {0} /\ DOMAIN Bank = 1..Len(Bank)
    /\ \A j, k \in DOMAIN Bank : Bank[j] = Bank[k] => j = k
    /\ IsFiniteSet(Value) /\ Vreg = Value /\ None \notin Vreg /\ None \notin Reg
    /\ Len(Names) \in Nat /\ DOMAIN Names = 1..Len(Names) /\ {Names[k] : k \in DOMAIN Names} = Vreg
    /\ \A p \in Programs \cup Scanned : WellFormed(p) /\ Selected(p)

NotStarted == <<0, 1>>
Stopped == <<0, 0>>

(***************************************************************************)
(* The next emitted instruction behind a place, and at an item or behind.  *)
(***************************************************************************)
From(i) ==
    LET later == {j \in i..Len(program) : code[j] # <<>>}
    IN IF later = {} THEN Stopped ELSE <<Min(later), 1>>

Onward(place) ==
    IF place[2] < Len(code[place[1]]) THEN <<place[1], place[2] + 1>> ELSE From(place[1] + 1)

InitOf(a, p) ==
    /\ allocator = a /\ program = p
    /\ SharedInit /\ GreedyInit /\ LinearInit
    /\ pc = NotStarted
    /\ env = [v \in Vreg |-> Junk]
    /\ regs = [r \in Reg |-> Junk]
    /\ mem = [v \in Vreg |-> Junk]

Init == (\E p \in Programs : InitOf("greedy", p)) \/ (\E p \in Scanned : InitOf("linear", p))

Greedy ==
    /\ allocator = "greedy"
    /\ \/ Analyse /\ UNCHANGED greedyVars
       \/ GreedyStart
       \/ Allocate
    /\ UNCHANGED <<allocator, linearVars, machineVars>>

Linear ==
    /\ allocator = "linear"
    /\ \/ Analyse /\ UNCHANGED linearVars
       \/ LinearStart
       \/ Scan
       \/ Rewrite
    /\ UNCHANGED <<allocator, greedyVars, machineVars>>

Refused == st.refused \/ rw.refused
Allocated == next > Len(program) /\ ~Refused

(***************************************************************************)
(* The values that nobody defines come in the registers kept for them.     *)
(***************************************************************************)
Enter ==
    /\ Allocated /\ pc = NotStarted
    /\ pc' = From(1)
    /\ \E given \in [UsedBefore(program) \ Defined(program) -> Data] :
           /\ env' = [v \in Vreg |-> IF v \in DOMAIN given THEN given[v] ELSE Junk]
           /\ regs' = [r \in Reg |-> LET v == arriving[r]
                                      IN IF v \in DOMAIN given THEN given[v] ELSE Junk]
    /\ UNCHANGED <<allocVars, mem>>

Running == pc[1] # 0
Current == code[pc[1]][pc[2]]
Doing(what) == Running /\ Current.does = what

Spill ==
    /\ Doing("spill")
    /\ mem' = [mem EXCEPT ![Current.vreg] = regs[Current.reg]]
    /\ pc' = Onward(pc)
    /\ UNCHANGED <<allocVars, env, regs>>

Reload ==
    /\ Doing("reload")
    /\ regs' = [regs EXCEPT ![Current.reg] = mem[Current.vreg]]
    /\ pc' = Onward(pc)
    /\ UNCHANGED <<allocVars, env, mem>>

Compute ==
    /\ Doing("op")
    /\ \E x \in Data :
           /\ env' = [v \in Vreg |-> IF v \in program[pc[1]].def THEN x ELSE env[v]]
           /\ regs' = [r \in Reg |-> IF r \in Current.def THEN x ELSE regs[r]]
    /\ pc' = Onward(pc)
    /\ UNCHANGED <<allocVars, mem>>

Jumped ==
    /\ Doing("jump") \/ Doing("branch")
    /\ pc' = From(LabelPlace(program, program[pc[1]].to))
    /\ UNCHANGED <<allocVars, env, regs, mem>>

NotTaken ==
    /\ Doing("branch")
    /\ pc' = Onward(pc)
    /\ UNCHANGED <<allocVars, env, regs, mem>>

Called ==
    /\ Doing("call")
    /\ regs' = [r \in Reg |-> IF r \in CallerSaved THEN Junk ELSE regs[r]]
    /\ pc' = Onward(pc)
    /\ UNCHANGED <<allocVars, env, mem>>

Next ==
    Greedy \/ Linear \/ Enter \/ Spill \/ Reload \/ Compute \/ Jumped \/ NotTaken \/ Called

Spec == Init /\ [][Next]_vars

-----------------------------------------------------------------------------
(***************************************************************************)
(* Properties.                                                             *)
(***************************************************************************)
(***************************************************************************)
(* The allocated code computes what the program says: every instruction    *)
(* that is about to run finds in its operand registers the values that its *)
(* variables have, on every path, round every loop and across every call.  *)
(* (A variable that the path has not written has no value to find.)        *)
(***************************************************************************)
SameValues ==
    Running /\ Current.does \notin {"spill", "reload"} =>
        \A n \in DOMAIN program[pc[1]].uses :
            LET v == program[pc[1]].uses[n]
            IN env[v] # Junk => regs[Current.uses[n]] = env[v]

(***************************************************************************)
(* The allocators raise only where the instruction really has more         *)
(* operands that must be apart than there are registers: its sources, or,  *)
(* greedy, those of them that live on and its destination.  The rewriting  *)
(* of linear scan never loses the only copy of a value that it needs later *)
(* ("no resident register or initialized spill slot"), unless there was    *)
(* none because some path reads what it has not written.                   *)
(***************************************************************************)
Crowded(operands) == Cardinality(operands) > Len(Bank)
GreedyRefusesForCause ==
    st.refused =>
        LET i == next - 1 uses == UsesOf(program, i)
        IN Crowded(uses) \/ Crowded((uses \cap live_after[i]) \cup program[i].def)
LinearRefusesForCause ==
    rw.refused => Crowded(UsesOf(program, next - 1)) \/ BlockIn(program, live_after, 1) # {}
RefusedForCause == GreedyRefusesForCause /\ LinearRefusesForCause
-----------------------------------------------------------------------------
(***************************************************************************)
(* Code whose text is laid out the way the greedy allocator counts on: no  *)
(* two labels in a row, nobody goes back to the first item, the values     *)
(* from outside fit the bank, and what a block expects is a value that has *)
(* a slot from the start, one from outside if the block is the first, or   *)
(* one that a block further up the text has saved at its end.              *)
(***************************************************************************)
Reserved(p, after) == UsedBefore(p) \cap Defined(p) \cap UNION {BlockIn(p, after, e.to) : e \in Edges(p)}
Saving(p) == {a \in Leaders(p) : IsTerminator(p, LastOf(p, a)) \/ LastOf(p, a) \notin CarryAfter(p)}
SavedBefore(p, after, b) == UNION {after[LastOf(p, a)] : a \in {a \in Saving(p) : a < b}}

InOrder(p, after) ==
    /\ \A i \in DOMAIN p : IsLabel(p, i) /\ i + 1 \in DOMAIN p => ~IsLabel(p, i + 1)
    /\ \A e \in Edges(p) : e.to # 1
    /\ Cardinality(EntryValues(p)) <= Len(Bank)
    /\ 1 \in DOMAIN p => BlockIn(p, after, 1) \subseteq Reserved(p, after) \cup EntryValues(p)
    /\ \A b \in Leaders(p) \ {1} :
           b - 1 \notin CarryAfter(p) => BlockIn(p, after, b) \subseteq Reserved(p, after) \cup SavedBefore(p, after, b)

LaidOut == next > 0 /\ InOrder(program, live_after)

(***************************************************************************)
(* Code that linear scan can do: what a block expects is what some block   *)
(* leaves behind, and unless everything crosses the edges in the slots     *)
(* every write of a variable lies within its interval.                     *)
(***************************************************************************)
Covered(p, after) == \A i \in DOMAIN p : \A v \in p[i].def : i < Hull(p, after, v).end
LeftBehind(p, after) == UNION {after[LastOf(p, b)] : b \in Leaders(p)}
Supplied(p, after, b) == BlockIn(p, after, b) \subseteq LeftBehind(p, after)

Handles(blocks) ==
    /\ next > 0 /\ \A b \in blocks : Supplied(program, live_after, b)
    /\ InSlots \/ Covered(program, live_after)
Handled == Handles(Leaders(program))
=============================================================================
