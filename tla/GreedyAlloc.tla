----------------------------- MODULE GreedyAlloc -----------------------------
(***************************************************************************)
(* RegisterAllocator in its default mode, greedy, of                       *)
(* backend/register_alloc.py: one pass over the flat code that keeps       *)
(* values in registers inside a block, or across a fallthrough that nobody *)
(* else joins, and passes them on through their stack slots otherwise.     *)
(*                                                                         *)
(* What the pass carries from item to item is the record st: pool says     *)
(* whose value a register holds (vreg_map is its inverse and is read off   *)
(* it), clean whose slot mirrors its register, slots who has a slot, out   *)
(* the instructions emitted for the present item, and refused that the     *)
(* pass has raised.  _remaining_uses counts down with the items, so it is  *)
(* read off the program.                                                   *)
(***************************************************************************)
EXTENDS Allocation

VARIABLES
    carry_after,    \* the items whose registers the next label keeps
    st              \* the allocator's state
greedyVars == <<carry_after, st>>

-----------------------------------------------------------------------------
Mapped(s, v) == \E r \in Reg : s.pool[r] = v
RegOf(s, v) == CHOOSE r \in Reg : s.pool[r] = v

EmitSpill(s, v, r) ==
    [s EXCEPT !.out = Append(@, SpillTo(v, r)), !.clean = @ \cup {v}, !.slots = @ \cup {v}]

EmitReload(s, v, r) ==
    [s EXCEPT !.out = Append(@, ReloadFrom(v, r)), !.clean = @ \cup {v}, !.slots = @ \cup {v}]

SpillIfStale(s, v, r, live) ==
    IF v \in live /\ v \notin s.clean THEN EmitSpill(s, v, r) ELSE s

(***************************************************************************)
(* _assign_reg at item i: the first free register that need not be         *)
(* avoided, else the one whose owner is read least often from here on,     *)
(* which is spilled if it is still needed.                                 *)
(***************************************************************************)
RemainingUses(i, v) == Cardinality({j \in i..Len(program) : v \in UsesOf(program, j)})

Victim(s, i, candidates) ==
    CHOOSE k \in candidates : \A other \in candidates :
        LET mine == RemainingUses(i, s.pool[Bank[k]])
            its == RemainingUses(i, s.pool[Bank[other]])
        IN mine < its \/ (mine = its /\ k <= other)

Assign(s, i, v, reload, avoid, live) ==
    LET candidates == {k \in DOMAIN Bank : Bank[k] \notin avoid}
        free == {k \in candidates : s.pool[Bank[k]] = None}
        k == IF free # {} THEN Min(free) ELSE Victim(s, i, candidates)
        r == Bank[k]
        evicted == IF free # {} THEN s ELSE SpillIfStale(s, s.pool[r], r, live)
        placed == [evicted EXCEPT !.pool[r] = v]
    IN IF Mapped(s, v) THEN s
       ELSE IF candidates = {} THEN [s EXCEPT !.refused = TRUE]
       ELSE IF reload THEN EmitReload(placed, v, r)
       ELSE placed

(***************************************************************************)
(* The operands of item i.  All sources that are in a register are         *)
(* protected before the first of the others is reloaded.                   *)
(***************************************************************************)
Resident(s, i) == {r \in Reg : s.pool[r] \in UsesOf(program, i)}

ResolveUse(sofar, i, v) ==
    LET t == IF sofar.s.refused THEN sofar.s
             ELSE Assign(sofar.s, i, v, v \in sofar.s.slots, sofar.reserved, live_after[i])
        r == IF t.refused THEN None ELSE RegOf(t, v)
    IN [s |-> t, reserved |-> sofar.reserved \cup {r}, regs |-> Append(sofar.regs, r)]

ResolveUses(s, i) ==
    LET uses == program[i].uses
        after[n \in 0..Len(uses)] ==
            IF n = 0 THEN [s |-> s, reserved |-> Resident(s, i), regs |-> <<>>]
            ELSE ResolveUse(after[n - 1], i, uses[n])
    IN after[Len(uses)]

(***************************************************************************)
(* A destination may take the register of a source that dies here.         *)
(***************************************************************************)
Reusable(s, i) == {r \in Resident(s, i) : s.pool[r] \notin live_after[i]}

ResolveDef(s, i, reserved) ==
    LET v == CHOOSE v \in program[i].def : TRUE
    IN IF program[i].def = {} \/ s.refused THEN s
       ELSE Assign(s, i, v, FALSE, reserved \ Reusable(s, i), live_after[i])

(***************************************************************************)
(* _flush_regs and _flush_clobbered: registers in bank order.              *)
(***************************************************************************)
FlushRegister(s, r, regs, live, keep) ==
    LET spilled == SpillIfStale(s, s.pool[r], r, live)
    IN IF r \notin regs \/ s.pool[r] = None THEN s
       ELSE IF keep THEN spilled ELSE [spilled EXCEPT !.pool[r] = None]

Flush(s, regs, live, keep) ==
    LET after[k \in 0..Len(Bank)] ==
            IF k = 0 THEN s ELSE FlushRegister(after[k - 1], Bank[k], regs, live, keep)
    IN after[Len(Bank)]

Release(s, live) ==
    [s EXCEPT !.pool = [r \in Reg |-> IF s.pool[r] \in live THEN s.pool[r] ELSE None]]

Forget(s) == [s EXCEPT !.pool = [r \in Reg |-> None]]

(***************************************************************************)
(* fallthrough_boundaries and carry_after.                                 *)
(***************************************************************************)
BeforeLabel(i) == i < Len(program) /\ IsLabel(program, i + 1)

CarryAfter(p) ==
    LET edges == Edges(p)
        into(b) == {e \in edges : e.to = b}
    IN {i \in 1..(Len(p) - 1) :
           /\ IsLabel(p, i + 1) /\ ~IsLabel(p, i)
           /\ into(i + 1) = {[from |-> BlockOf(p, i), to |-> i + 1, falls |-> TRUE]}}

-----------------------------------------------------------------------------
(***************************************************************************)
(* The start: values that no instruction defines get their entry registers *)
(* in the order of their first use, and the values that are defined, but   *)
(* textually later than they are used, their slots if they cross an edge.  *)
(***************************************************************************)
FirstUse(p, v) ==
    LET i == Min({i \in DOMAIN p : v \in UsesOf(p, i)})
    IN <<i, Min({n \in DOMAIN p[i].uses : p[i].uses[n] = v})>>

\* Who comes before this one, and the one with this many before it.
EntryValues(p)  == UsedBefore(p) \ Defined(p)
UsedSooner(p, v) ==
    {w \in EntryValues(p) : LET a == FirstUse(p, w) b == FirstUse(p, v)
                            IN a[1] < b[1] \/ (a[1] = b[1] /\ a[2] < b[2])}
EntryValue(p, n) == CHOOSE v \in EntryValues(p) : Cardinality(UsedSooner(p, v)) = n - 1

Blank == [pool |-> NoRegisters, clean |-> {}, slots |-> {}, out |-> <<>>, refused |-> FALSE]

Start(p) ==
    LET after[n \in 0..Cardinality(EntryValues(p))] ==
            IF n = 0 THEN Blank ELSE Assign(after[n - 1], 1, EntryValue(p, n), FALSE, {}, {})
    IN [after[Cardinality(EntryValues(p))] EXCEPT
           !.slots = UsedBefore(p) \cap Defined(p) \cap LiveOnEdges(p, graph, live_in)]

GreedyInit == carry_after = {} /\ st = Blank

GreedyStart ==
    /\ Analysed
    /\ carry_after' = CarryAfter(program)
    /\ st' = Start(program)

(***************************************************************************)
(* A label: unless the registers are carried over it, they are forgotten.  *)
(* Leading labels forget nothing.                                          *)
(***************************************************************************)
AtLabel(i) ==
    LET started == \E j \in 1..(i - 1) : ~IsLabel(program, j)
        s == IF started /\ (i - 1) \notin carry_after THEN Forget(st) ELSE st
    IN /\ IsLabel(program, i)
       /\ st' = s
       /\ code' = code

(***************************************************************************)
(* An instruction: its operands, what has to be saved before it, itself,   *)
(* and what has to be saved behind it where a label follows.               *)
(***************************************************************************)
Before(s, i) ==
    LET live == live_after[i]
    IN CASE program[i].does = "call" -> Flush(s, CallerSaved, live, FALSE)
         [] IsTerminator(program, i) -> Flush(s, Reg, live, i \in carry_after)
         [] OTHER -> s

Behind(s, i) ==
    IF BeforeLabel(i) /\ ~IsTerminator(program, i) /\ i \notin carry_after
    THEN Flush(s, Reg, live_after[i], FALSE) ELSE s

AtInstruction(i) ==
    LET used == ResolveUses(st, i)
        resolved == ResolveDef(used.s, i, used.reserved)
        emitted == [does |-> program[i].does, uses |-> used.regs,
                    def |-> IF resolved.refused THEN {}
                            ELSE {RegOf(resolved, v) : v \in program[i].def}]
        saved == Before(resolved, i)
        ran == [saved EXCEPT !.out = Append(@, emitted), !.clean = @ \ program[i].def]
        done == Behind(Release(ran, live_after[i]), i)
    IN /\ ~IsLabel(program, i)
       /\ st' = [IF resolved.refused THEN resolved ELSE done EXCEPT !.out = <<>>]
       /\ code' = IF resolved.refused THEN code ELSE [code EXCEPT ![i] = done.out]

Allocate ==
    /\ next \in 1..Len(program) /\ ~st.refused
    /\ AtLabel(next) \/ AtInstruction(next)
    /\ arriving' = IF next = 1 THEN st.pool ELSE arriving
    /\ next' = next + 1
    /\ UNCHANGED <<analysisVars, carry_after>>
=============================================================================
