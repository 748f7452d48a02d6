------------------------------ MODULE LinearScan -----------------------------
(***************************************************************************)
(* LinearScanAllocator of backend/regalloc_linear.py with the rewriting    *)
(* that it shares with its benchmark variant, backend/regalloc_rewrite.py. *)
(* The scan gives every variable one interval, the hull of its life in the *)
(* order of the text, and to each interval a register it would prefer, or  *)
(* none, or one it may only pass through.  The rewriting then owns what is *)
(* really in the registers: it follows the text, emits the stores and the  *)
(* reloads, and agrees with every other way into a block on where values   *)
(* are handed over.                                                        *)
(*                                                                         *)
(* The record scan is the planning: the intervals to do, the active list   *)
(* and the free registers, alloc_map as `at`, and the spilled variables.   *)
(* The record rw is the rewriting: pool is reg_owner (locations is its     *)
(* inverse), stacked is stack_current, spilled what the rewriting itself   *)
(* adds to _spilled, out the instructions emitted for the present item,    *)
(* refused that it has raised.                                             *)
(***************************************************************************)
EXTENDS Allocation

CONSTANT Names      \* the variables in the order of their names

VARIABLES scan, rw
linearVars == <<scan, rw>>

-----------------------------------------------------------------------------
(***************************************************************************)
(* compute_live_intervals and apply_cfg_liveness.  An interval ends before *)
(* `end`.                                                                  *)
(***************************************************************************)
Rank(v) == CHOOSE k \in DOMAIN Names : Names[k] = v

BlockIn(p, after, b) ==
    IF IsLabel(p, b) THEN after[b] ELSE (after[b] \ p[b].def) \cup UsesOf(p, b)

\* Mutation of Hull: lives that go on round a loop are not covered.
HullOfText(p, after, v) ==
    LET defs == {i \in DOMAIN p : v \in p[i].def}
        uses == {i \in DOMAIN p : v \in UsesOf(p, i)}
        start == IF defs = {} THEN 1 ELSE Min(defs)
    IN [vreg |-> v, start |-> start, end |-> IF uses = {} THEN start + 1 ELSE Max(uses) + 1]
Hull(p, after, v) ==
    LET defs == {i \in DOMAIN p : v \in p[i].def}
        uses == {i \in DOMAIN p : v \in UsesOf(p, i)}
        start == IF defs = {} THEN 1 ELSE Min(defs)
        end == IF uses = {} THEN start + 1 ELSE Max(uses) + 1
        into == {b \in Leaders(p) : v \in BlockIn(p, after, b)}
        outof == {b \in Leaders(p) : v \in after[LastOf(p, b)]}
    IN [vreg |-> v, start |-> Min({start} \cup into),
        end |-> Max({end} \cup {LastOf(p, b) + 1 : b \in outof})]

Earlier(a, b) ==
    \/ a.start < b.start
    \/ a.start = b.start /\ a.end < b.end
    \/ a.start = b.start /\ a.end = b.end /\ Rank(a.vreg) < Rank(b.vreg)

Named(p) == Defined(p) \cup UNION {UsesOf(p, i) : i \in DOMAIN p}
Intervals(p, after) == {Hull(p, after, v) : v \in Named(p)}

-----------------------------------------------------------------------------
(***************************************************************************)
(* allocate: the intervals in order of their start.  Those that have ended *)
(* leave the active list and give back their registers.                    *)
(***************************************************************************)
NoScan == [todo |-> {}, active |-> <<>>, free |-> <<>>,
           at |-> [v \in Vreg |-> None], spilled |-> {}]
NoRewriting == [pool |-> NoRegisters, stacked |-> {}, spilled |-> {}, out |-> <<>>, refused |-> FALSE]

LinearInit == scan = NoScan /\ rw = NoRewriting

LinearStart ==
    /\ Analysed
    /\ scan' = [NoScan EXCEPT !.todo = Intervals(program, LiveAfterItems(program, graph, live_in)),
                              !.free = Bank]
    /\ UNCHANGED rw

Scanning == next = 1 /\ scan.todo # {}

ExpireOne(s, a, position) ==
    IF a.interval.end <= position THEN [s EXCEPT !.free = Append(@, a.reg)]
    ELSE [s EXCEPT !.active = Append(@, a)]
Expire(position) ==
    LET after[n \in 0..Len(scan.active)] ==
            IF n = 0 THEN [active |-> <<>>, free |-> scan.free]
            ELSE ExpireOne(after[n - 1], scan.active[n], position)
    IN after[Len(scan.active)]

(***************************************************************************)
(* A free register, or the register of the active interval that ends last, *)
(* or, if that ends before this one, no register but one to be written in. *)
(***************************************************************************)
Earliest(todo) == CHOOSE a \in todo : \A b \in todo : b = a \/ Earlier(a, b)
LastToEnd(active) ==
    CHOOSE k \in DOMAIN active : \A j \in DOMAIN active :
        \/ active[j].interval.end < active[k].interval.end
        \/ active[j].interval.end = active[k].interval.end /\ k <= j

Place ==
    LET current == Earliest(scan.todo)
        kept == Expire(current.start)
        active == kept.active
        free == kept.free
        last == LastToEnd(active)
        victim == active[last].interval
    IN \/ /\ free # <<>>
          /\ scan' = [scan EXCEPT !.todo = @ \ {current}, !.free = Tail(free),
                                  !.active = Append(active, [interval |-> current, reg |-> Head(free)]),
                                  !.at[current.vreg] = Head(free)]
       \/ /\ free = <<>> /\ current.end <= victim.end
          /\ scan' = [scan EXCEPT !.todo = @ \ {current},
                                  !.active = Append(RemoveAt(active, last),
                                                    [interval |-> current, reg |-> active[last].reg]),
                                  !.at = [@ EXCEPT ![victim.vreg] = None,
                                                   ![current.vreg] = active[last].reg],
                                  !.spilled = @ \cup {victim.vreg}]
       \/ /\ free = <<>> /\ current.end > victim.end
          /\ scan' = [scan EXCEPT !.todo = @ \ {current}, !.active = active,
                                  !.at[current.vreg] = Bank[1],
                                  !.spilled = @ \cup {current.vreg}]

Scan ==
    /\ Scanning
    /\ Place
    /\ UNCHANGED <<sharedVars, rw>>

-----------------------------------------------------------------------------
(***************************************************************************)
(* rewrite_with_spills.  What crosses an edge goes through its stack slot  *)
(* as soon as anything may have to leave its register.                     *)
(***************************************************************************)
InSlots == scan.spilled # {} \/ \E i \in DOMAIN program : program[i].does = "call"

\* Mutation of Canonical: only what was spilled is handed over in its slot.
CanonicalSpilled == scan.spilled
Canonical ==
    IF InSlots THEN UNION {live_after[LastOf(program, b)] : b \in Leaders(program)} ELSE {}

LiveOut(i) == live_after[LastOf(program, BlockOf(program, i))]

LaterUses(v, i) == {j \in (i + 1)..Len(program) : v \in UsesOf(program, j)}
HasLaterUse(v, i) == LaterUses(v, i) # {} \/ v \in LiveOut(i)

Holder(s, v) == {r \in Reg : s.pool[r] = v}
Vacate(s, r) == [s EXCEPT !.pool[r] = None]
Store(s, v, r) ==
    [s EXCEPT !.out = Append(@, SpillTo(v, r)), !.stacked = @ \cup {v}, !.spilled = @ \cup {v}]

StoreOwner(s, r, i) ==
    LET v == s.pool[r]
    IN IF v = None \/ v \in s.stacked \/ ~HasLaterUse(v, i) THEN s ELSE Store(s, v, r)

ClaimRegister(s, v, r) ==
    [s EXCEPT !.pool = [q \in Reg |-> IF q = r THEN v ELSE IF s.pool[q] = v THEN None ELSE s.pool[q]]]

(***************************************************************************)
(* choose_register: the preferred one, else the first whose owner is not   *)
(* needed, else the one whose owner is read last from here on.             *)
(***************************************************************************)
NextUse(s, r, i) ==
    LET later == LaterUses(s.pool[r], i) IN IF later = {} THEN Len(program) + 1 ELSE Min(later)

ChooseRegister(s, v, i, protected) ==
    LET open == {k \in DOMAIN Bank : Bank[k] \notin protected}
        idle == {k \in open : s.pool[Bank[k]] = None \/ ~HasLaterUse(s.pool[Bank[k]], i)}
        farthest == CHOOSE k \in open : \A j \in open :
                        LET mine == NextUse(s, Bank[k], i)
                            its == NextUse(s, Bank[j], i)
                        IN its < mine \/ (its = mine /\ k <= j)
        r == IF scan.at[v] \notin protected \cup {None} THEN scan.at[v]
             ELSE IF idle # {} THEN Bank[Min(idle)] ELSE Bank[farthest]
    IN IF open = {} THEN [s |-> [s EXCEPT !.refused = TRUE], reg |-> None]
       ELSE [s |-> Vacate(StoreOwner(s, r, i), r), reg |-> r]

(***************************************************************************)
(* Sources that are in registers are protected before the first of the     *)
(* others is reloaded.                                                     *)
(***************************************************************************)
PlaceUse(sofar, v, i) ==
    LET s == sofar.s
        chosen == ChooseRegister(s, v, i, sofar.protected)
        r == IF Holder(s, v) # {} THEN CHOOSE r \in Holder(s, v) : TRUE ELSE chosen.reg
        t == IF Holder(s, v) # {} THEN s
             ELSE IF v \in s.stacked THEN [chosen.s EXCEPT !.out = Append(@, ReloadFrom(v, r))]
             ELSE IF v \notin Defined(program) THEN chosen.s
             ELSE [s EXCEPT !.refused = TRUE]
    IN IF s.refused THEN sofar
       ELSE IF t.refused THEN [sofar EXCEPT !.s = t]
       ELSE [s |-> ClaimRegister(t, v, r), protected |-> sofar.protected \cup {r},
             regs |-> Append(sofar.regs, r)]

PlaceUses(s, i) ==
    LET uses == program[i].uses
        after[n \in 0..Len(uses)] ==
            IF n = 0 THEN [s |-> s, protected |-> UNION {Holder(s, v) : v \in UsesOf(program, i)}, regs |-> <<>>]
            ELSE PlaceUse(after[n - 1], uses[n], i)
    IN after[Len(uses)]

PlaceDef(s, i) ==
    LET v == CHOOSE v \in program[i].def : TRUE
        chosen == ChooseRegister(s, v, i, {})
    IN IF s.refused \/ program[i].def = {} \/ Holder(s, v) # {} THEN s
       ELSE ClaimRegister(chosen.s, v, chosen.reg)

(***************************************************************************)
(* The two ends of a block.                                                *)
(***************************************************************************)
HandedInRegister(s, v) == v \notin Canonical /\ scan.at[v] # None /\ v \notin scan.spilled \cup s.spilled

EnterOne(s, v, in) ==
    IF v \in in /\ HandedInRegister(s, v) /\ s.pool[scan.at[v]] = None THEN ClaimRegister(s, v, scan.at[v]) ELSE s
EnterBlock(s, b) ==
    LET in == BlockIn(program, live_after, b)
        after[n \in 0..Len(Names)] ==
            IF n = 0 THEN [s EXCEPT !.pool = NoRegisters, !.stacked = Canonical \cap in]
            ELSE EnterOne(after[n - 1], Names[n], in)
    IN after[Len(Names)]

StoreOut(s, v, i) ==
    IF v \notin LiveOut(i) \/ HandedInRegister(s, v) \/ Holder(s, v) = {} \/ v \in s.stacked THEN s
    ELSE Store(s, v, CHOOSE r \in Holder(s, v) : TRUE)
StoreLiveOut(s, i) ==
    LET after[n \in 0..Len(Names)] == IF n = 0 THEN s ELSE StoreOut(after[n - 1], Names[n], i)
    IN after[Len(Names)]

IsLast(i) == i = LastOf(program, BlockOf(program, i))

(***************************************************************************)
(* Before a call the owners of the registers it destroys are stored, and   *)
(* behind it they are forgotten.                                           *)
(***************************************************************************)
StoreLost(s, r, i) == IF r \in CallerSaved THEN StoreOwner(s, r, i) ELSE s
BeforeCall(s, i) ==
    LET after[n \in 0..Len(Bank)] == IF n = 0 THEN s ELSE StoreLost(after[n - 1], Bank[n], i)
    IN after[Len(Bank)]

BehindCall(s) == [s EXCEPT !.pool = [r \in Reg |-> IF r \in CallerSaved THEN None ELSE s.pool[r]]]

(***************************************************************************)
(* A variable that was spilled is stored wherever it is written.           *)
(***************************************************************************)
WriteThrough(s, i) ==
    LET v == CHOOSE v \in program[i].def : TRUE
        r == CHOOSE r \in Holder(s, v) : TRUE
        t == [s EXCEPT !.stacked = @ \ {v}]
    IN IF program[i].def = {} THEN s
       ELSE IF v \in scan.spilled \cup s.spilled /\ HasLaterUse(v, i) THEN Vacate(Store(t, v, r), r)
       ELSE t

(***************************************************************************)
(* One item; a label is an instruction without operands.                   *)
(***************************************************************************)
IsCall(i) == program[i].does = "call"
Entered(s, i)  == IF Leads(program, i) THEN EnterBlock(s, i) ELSE s
Saved(s, i)    == IF IsCall(i) THEN BeforeCall(s, i)
                  ELSE IF IsLast(i) /\ IsTerminator(program, i) THEN StoreLiveOut(s, i) ELSE s
Returned(s, i) == IF IsCall(i) THEN BehindCall(s) ELSE s
Left(s, i)     == IF IsLast(i) /\ ~IsTerminator(program, i) THEN StoreLiveOut(s, i) ELSE s

Emitted(i, from, to) == [does |-> program[i].does, uses |-> from, def |-> to]
Ran(s, i, ins) == IF IsLabel(program, i) THEN s ELSE [s EXCEPT !.out = Append(@, ins)]

Rewritten(i, used, placed) ==
    Left(Returned(WriteThrough(Ran(Saved(placed, i), i,
        Emitted(i, used.regs, UNION {Holder(placed, v) : v \in program[i].def})), i), i), i)

Rewrite ==
    /\ next \in 1..Len(program) /\ scan.todo = {} /\ ~rw.refused
    /\ \E entered \in {Entered(rw, next)} :
       \E used \in {PlaceUses(entered, next)} :
       \E placed \in {PlaceDef(used.s, next)} :
          IF Cardinality(UsesOf(program, next)) > Len(Bank) \/ placed.refused
          THEN /\ rw' = [rw EXCEPT !.refused = TRUE]
               /\ UNCHANGED <<code, arriving>>
          ELSE /\ \E done \in {Rewritten(next, used, placed)} :
                      rw' = [done EXCEPT !.out = <<>>] /\ code' = [code EXCEPT ![next] = done.out]
               /\ arriving' = IF next = 1 THEN entered.pool ELSE arriving
    /\ next' = next + 1
    /\ UNCHANGED <<analysisVars, scan>>
=============================================================================
