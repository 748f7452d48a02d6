--------------------------- MODULE BackendProofs ---------------------------
(***************************************************************************)
(* The greedy allocator on any code and any bank: no two registers ever    *)
(* hold one value, it raises only where the operands need more registers   *)
(* than there are, and the code it emits computes what the program says.   *)
(***************************************************************************)
EXTENDS Backend, NumberLemmas, SequenceTheorems

(***************************************************************************)
(* Of a set of places in the bank a first one is the least.                *)
(***************************************************************************)
LEMMA FirstPlace ==
    ASSUME Sound, NEW S \in SUBSET DOMAIN Bank, S # {}
    PROVE  Min(S) \in S
<1>1. S \in SUBSET Nat
  BY DEF Sound
<1>2. \E n \in S : \A m \in S : n <= m
  BY <1>1, LeastNatural
<1> QED BY <1>2 DEF Min

Distinct(pool) == \A q, r \in Reg : pool[q] = pool[r] /\ pool[q] # None => q = r

(***************************************************************************)
(* Where every register holds one of these values and one of them is in    *)
(* none, there are more of them than registers.                            *)
(***************************************************************************)
LEMMA Crowding ==
    ASSUME Sound, NEW pool, Distinct(pool), NEW S, IsFiniteSet(S), None \notin S,
           \A r \in Reg : pool[r] \in S,
           NEW v \in S, \A r \in Reg : pool[r] # v
    PROVE  Crowded(S)
<1> DEFINE N == Len(Bank)
           f == [k \in 1 .. N |-> pool[Bank[k]]]
<1>1. N \in Nat /\ N # 0 /\ DOMAIN Bank = 1 .. N /\ \A k \in 1 .. N : Bank[k] \in Reg
  BY DEF Sound, Reg
<1>2. IsFiniteSet(S \ {v}) /\ Cardinality(S \ {v}) = Cardinality(S) - 1 /\ Cardinality(S) \in Nat
  BY FS_RemoveElement, FS_CardinalityType
<1>3. IsFiniteSet(1 .. N) /\ Cardinality(1 .. N) = N
  BY <1>1, FS_Interval
<1>4. f \in [1 .. N -> S \ {v}]
  BY <1>1
<1>5. CASE Cardinality(S \ {v}) < N
  <2>1. PICK j, k \in 1 .. N : j # k /\ f[j] = f[k]
    <3> HIDE DEF f, N
    <3> QED BY <1>2, <1>3, <1>4, <1>5, FS_PigeonHole
  <2>2. pool[Bank[j]] = pool[Bank[k]] /\ pool[Bank[j]] # None
    BY <1>1, <2>1
  <2>3. Bank[j] = Bank[k]
    BY <1>1, <2>2 DEF Distinct
  <2> QED BY <1>1, <2>1, <2>3 DEF Sound
<1>6. CASE ~(Cardinality(S \ {v}) < N)
  BY <1>1, <1>2, <1>6 DEF Crowded
<1> QED BY <1>5, <1>6

(***************************************************************************)
(* The victim is one of those that may go.                                 *)
(***************************************************************************)
LEMMA VictimMayGo ==
    ASSUME Sound, Len(program) \in Nat, NEW s, NEW i \in Nat,
           NEW candidates \in SUBSET DOMAIN Bank, candidates # {}
    PROVE  Victim(s, i, candidates) \in candidates
<1> DEFINE Score(k) == RemainingUses(i, s.pool[Bank[k]])
           Counts == {Score(k) : k \in candidates}
<1>1. \A k \in candidates : Score(k) \in Nat
  <2> SUFFICES ASSUME NEW v PROVE RemainingUses(i, v) \in Nat
    OBVIOUS
  <2>1. IsFiniteSet(i .. Len(program))
    BY FS_Interval
  <2>2. {j \in i .. Len(program) : v \in UsesOf(program, j)} \in SUBSET (i .. Len(program))
    OBVIOUS
  <2>3. IsFiniteSet({j \in i .. Len(program) : v \in UsesOf(program, j)})
    BY <2>1, <2>2, FS_Subset
  <2> QED BY <2>3, FS_CardinalityType DEF RemainingUses
<1>2. candidates \in SUBSET Nat
  BY DEF Sound
<1>3. PICK m \in Counts : \A n \in Counts : m <= n
  <2>1. Counts \in SUBSET Nat /\ Counts # {}
    BY <1>1
  <2> HIDE DEF Counts
  <2> QED BY <2>1, LeastNatural
<1> DEFINE Rarest == {k \in candidates : Score(k) = m}
<1>4. PICK k \in Rarest : \A j \in Rarest : k <= j
  <2>1. Rarest \in SUBSET Nat /\ Rarest # {}
    BY <1>2, <1>3
  <2> HIDE DEF Rarest
  <2> QED BY <2>1, LeastNatural
<1>5. k \in candidates /\ \A other \in candidates : Score(k) < Score(other) \/ (Score(k) = Score(other) /\ k <= other)
  <2> SUFFICES ASSUME NEW other \in candidates
               PROVE  Score(k) < Score(other) \/ (Score(k) = Score(other) /\ k <= other)
    BY <1>4
  <2>1. Score(k) = m /\ m <= Score(other) /\ Score(other) \in Nat /\ m \in Nat
    BY <1>1, <1>3, <1>4
  <2>2. Score(other) = m => k <= other
    BY <1>4
  <2> HIDE DEF Score
  <2> QED BY <2>1, <2>2
<1> HIDE DEF Score
<1> QED BY <1>5 DEF Victim, Score

-----------------------------------------------------------------------------
(***************************************************************************)
(* A state of the allocator, in which no two registers hold one value.     *)
(***************************************************************************)
State(s) ==
    /\ s = [pool |-> s.pool, clean |-> s.clean, slots |-> s.slots, out |-> s.out, refused |-> s.refused]
    /\ s.pool = [r \in Reg |-> s.pool[r]]
    /\ s.refused \in BOOLEAN
    /\ Distinct(s.pool)

\* It saves and reloads without moving anything.
Still(s, t) == State(t) /\ t.pool = s.pool /\ t.refused = s.refused

\* The state with this emitted and these in their slots.
With(s, out, clean, slots) == [s EXCEPT !.out = out, !.clean = clean, !.slots = slots]

LEMMA WithIsStill ==
    ASSUME NEW s, State(s), NEW out, NEW clean, NEW slots
    PROVE  Still(s, With(s, out, clean, slots))
<1>0. PICK t : t = With(s, out, clean, slots)
  OBVIOUS
<1>1. t = [pool |-> s.pool, clean |-> clean, slots |-> slots, out |-> out, refused |-> s.refused]
  BY <1>0 DEF State, With
<1>2. /\ t = [pool |-> t.pool, clean |-> t.clean, slots |-> t.slots, out |-> t.out, refused |-> t.refused]
      /\ t.pool = s.pool /\ t.refused = s.refused
  BY <1>1
<1>3. Still(s, t)
  BY <1>2 DEF State, Still
<1> QED BY <1>0, <1>3

LEMMA SpillIsStill ==
    ASSUME NEW s, State(s), NEW v, NEW r, NEW live
    PROVE  Still(s, SpillIfStale(s, v, r, live)) /\ Still(s, EmitReload(s, v, r))
<1>1. Still(s, EmitSpill(s, v, r)) /\ Still(s, EmitReload(s, v, r)) /\ Still(s, s)
  <2>1. EmitSpill(s, v, r) = With(s, Append(s.out, SpillTo(v, r)), s.clean \cup {v}, s.slots \cup {v})
    BY DEF EmitSpill, With
  <2>2. EmitReload(s, v, r) = With(s, Append(s.out, ReloadFrom(v, r)), s.clean \cup {v}, s.slots \cup {v})
    BY DEF EmitReload, With
  <2> QED BY <2>1, <2>2, WithIsStill DEF Still
<1> QED BY <1>1 DEF SpillIfStale

(***************************************************************************)
(* What is assigned has a register then, and those to be avoided are left  *)
(* alone; it is refused where all of them are.                             *)
(***************************************************************************)
Grants(s, t, v, avoid) ==
    /\ State(t)
    /\ Mapped(s, v) => t = s
    /\ ~Mapped(s, v) /\ Reg \subseteq avoid => t.refused /\ t.pool = s.pool
    /\ ~Mapped(s, v) /\ ~(Reg \subseteq avoid) =>
          /\ Mapped(t, v) /\ t.refused = s.refused
          /\ \A r \in Reg \cap avoid : t.pool[r] = s.pool[r]

LEMMA Assigned ==
    ASSUME Sound, Len(program) \in Nat, NEW s, State(s), NEW i \in Nat, NEW v,
           NEW reload \in BOOLEAN, NEW avoid, NEW live
    PROVE  Grants(s, Assign(s, i, v, reload, avoid, live), v, avoid)
<1> DEFINE t == Assign(s, i, v, reload, avoid, live)
           candidates == {k \in DOMAIN Bank : Bank[k] \notin avoid}
           free == {k \in candidates : s.pool[Bank[k]] = None}
           k == IF free # {} THEN Min(free) ELSE Victim(s, i, candidates)
           r == Bank[k]
           evicted == IF free # {} THEN s ELSE SpillIfStale(s, s.pool[r], r, live)
           placed == [evicted EXCEPT !.pool[r] = v]
<1>1. t = IF Mapped(s, v) THEN s
          ELSE IF candidates = {} THEN [s EXCEPT !.refused = TRUE]
          ELSE IF reload THEN EmitReload(placed, v, r) ELSE placed
  BY DEF Assign
<1> HIDE DEF t
<1>2. candidates = {} <=> Reg \subseteq avoid
  BY DEF Reg
<1>3. ASSUME candidates # {} PROVE k \in candidates /\ r \in Reg /\ r \notin avoid
  <2>1. k \in candidates
    <3>1. CASE free # {}
      <4>1. Min(free) \in free
        BY <3>1, FirstPlace
      <4> QED BY <3>1, <4>1
    <3>2. CASE free = {}
      <4>1. Victim(s, i, candidates) \in candidates
        BY <1>3, VictimMayGo
      <4> QED BY <3>2, <4>1
    <3> QED BY <3>1, <3>2
  <2> QED BY <2>1 DEF Reg
<1> HIDE DEF k
<1>4. Still(s, evicted)
  <2>1. Still(s, s)
    BY DEF Still
  <2> QED BY <2>1, SpillIsStill
<1>5. ASSUME candidates # {}, ~Mapped(s, v)
      PROVE  /\ State(placed) /\ placed.pool[r] = v /\ placed.refused = s.refused
             /\ \A q \in Reg : q # r => placed.pool[q] = s.pool[q]
  <2> HIDE DEF evicted
  <2>1. placed.pool = [q \in Reg |-> IF q = r THEN v ELSE s.pool[q]]
    BY <1>3, <1>4, <1>5 DEF Still, State
  <2>2. \A q \in Reg : s.pool[q] # v
    BY <1>5 DEF Mapped
  <2>3. Distinct(placed.pool)
    BY <2>1, <2>2 DEF Distinct, State
  <2>4. /\ placed = [pool |-> placed.pool, clean |-> placed.clean, slots |-> placed.slots,
                     out |-> placed.out, refused |-> placed.refused]
        /\ placed.refused = s.refused
    BY <1>4 DEF Still, State
  <2>5. State(placed)
    BY <1>4, <2>1, <2>3, <2>4 DEF State
  <2> QED BY <1>3, <1>5, <2>1, <2>4, <2>5
<1> HIDE DEF placed, r, candidates
<1>6. CASE Mapped(s, v)
  BY <1>1, <1>6 DEF t, Grants
<1>7. CASE ~Mapped(s, v) /\ candidates = {}
  <2>1. t = [s EXCEPT !.refused = TRUE]
    BY <1>1, <1>7
  <2>2. State(t) /\ t.refused /\ t.pool = s.pool
    BY <2>1 DEF State
  <2> QED BY <1>2, <1>7, <2>2 DEF t, Grants
<1>8. CASE ~Mapped(s, v) /\ candidates # {}
  <2>1. Still(placed, t)
    <3>1. t = IF reload THEN EmitReload(placed, v, r) ELSE placed
      BY <1>1, <1>8
    <3>2. Still(placed, EmitReload(placed, v, r)) /\ Still(placed, placed)
      BY <1>5, <1>8, SpillIsStill DEF Still
    <3> QED BY <3>1, <3>2
  <2>2. State(t) /\ t.refused = s.refused /\ Mapped(t, v)
    BY <1>3, <1>5, <1>8, <2>1 DEF Still, Mapped
  <2>3. \A q \in Reg \cap avoid : t.pool[q] = s.pool[q]
    BY <1>3, <1>5, <1>8, <2>1 DEF Still
  <2> QED BY <1>2, <1>8, <2>2, <2>3 DEF t, Grants
<1> QED BY <1>6, <1>7, <1>8
-----------------------------------------------------------------------------
(***************************************************************************)
(* The allocator's loops: each round of one, and the recursion unfolded.   *)
(***************************************************************************)
LinearPass(loop, x, n) ==
    CASE loop.over = "expire" -> ExpireOne(x, scan.active[n], loop.at)
      [] loop.over = "place"  -> PlaceUse(x, program[loop.item].uses[n], loop.item)
      [] loop.over = "enter"  -> EnterOne(x, Names[n], loop.live)
      [] loop.over = "out"    -> StoreOut(x, Names[n], loop.item)
      [] loop.over = "lost"   -> StoreLost(x, Bank[n], loop.item)

LoopPass(loop, x, n) ==
    CASE loop.over = "uses"  -> ResolveUse(x, loop.item, program[loop.item].uses[n])
      [] loop.over = "bank"  -> FlushRegister(x, Bank[n], loop.regs, loop.live, loop.keep)
      [] loop.over = "entry" -> Assign(x, 1, EntryValue(loop.code, n), FALSE, {}, {})
      [] OTHER -> LinearPass(loop, x, n)

Unfolded(loop, start, N, f) == f = [n \in 0 .. N |-> IF n = 0 THEN start ELSE LoopPass(loop, f[n - 1], n)]

LEMMA LoopsUnfold ==
    ASSUME NEW loop, NEW start, NEW N \in Nat
    PROVE  \E f : Unfolded(loop, start, N, f)
<1> DEFINE At0(f, n) == IF n = 0 THEN start ELSE LoopPass(loop, f[n - 1], n)
           Described(m, f) == f = [n \in 0 .. m |-> At0(f, n)]
           Undescribed == {m \in Nat : ~ \E f : Described(m, f)}
<1>1. Undescribed = {}
  <2> SUFFICES ASSUME Undescribed # {} PROVE FALSE
    OBVIOUS
  <2>1. PICK m \in Undescribed : \A n \in Undescribed : m <= n
    <3> HIDE DEF Described
    <3> QED BY LeastNatural
  <2>2. CASE m = 0
    <3> DEFINE f == [n \in 0 .. 0 |-> start]
    <3>1. Described(0, f)
      <4>1. \A n \in 0 .. 0 : n = 0
        OBVIOUS
      <4>2. \A n \in 0 .. 0 : At0(f, n) = start
        BY <4>1
      <4> HIDE DEF At0
      <4> QED BY <4>2
    <3> HIDE DEF Described, f
    <3> QED BY <2>1, <2>2, <3>1
  <2>3. CASE m # 0
    <3>1. m - 1 \in Nat /\ m \in Nat /\ ~(m <= m - 1)
      BY <2>1, <2>3
    <3>2. PICK f : Described(m - 1, f)
      BY <2>1, <3>1
    <3> DEFINE h == [n \in 0 .. m |-> IF n = m THEN At0(f, m) ELSE f[n]]
    <3>3. \A n \in 0 .. m : h[n] = At0(h, n)
      <4>1. \A n \in 0 .. m : n # 0 => n - 1 \in 0 .. m /\ n - 1 # m
        BY <3>1
      <4>2. \A n \in 0 .. m : n # 0 => h[n - 1] = f[n - 1]
        BY <4>1
      <4>3. \A n \in 0 .. m : At0(h, n) = At0(f, n)
        <5> HIDE DEF h
        <5> QED BY <4>2
      <4>4. \A n \in 0 .. m : n # m => n \in 0 .. (m - 1)
        BY <3>1
      <4>5. \A n \in 0 .. m : n # m => f[n] = At0(f, n)
        <5> HIDE DEF At0
        <5> QED BY <3>2, <4>4
      <4> HIDE DEF At0
      <4> QED BY <4>3, <4>5
    <3>4. Described(m, h)
      <4>1. h = [n \in 0 .. m |-> h[n]]
        OBVIOUS
      <4> HIDE DEF h, At0
      <4> QED BY <3>3, <4>1
    <3> HIDE DEF Described, h
    <3> QED BY <2>1, <3>4
  <2> QED BY <2>2, <2>3
<1>2. \E f : Described(N, f)
  <2> HIDE DEF Described
  <2> QED BY <1>1
<1> QED BY <1>2 DEF Unfolded

(***************************************************************************)
(* The rounds of an unfolded loop.                                         *)
(***************************************************************************)
Rounds(loop, start, N, f) == f[0] = start /\ \A n \in 1 .. N : f[n] = LoopPass(loop, f[n - 1], n)

LEMMA UnfoldedRounds ==
    ASSUME NEW loop, NEW start, NEW N \in Nat, NEW f, Unfolded(loop, start, N, f)
    PROVE  Rounds(loop, start, N, f)
<1>1. f[0] = start
  <2>1. 0 \in 0 .. N OBVIOUS
  <2> QED BY <2>1 DEF Unfolded
<1>2. ASSUME NEW n \in 1 .. N PROVE f[n] = LoopPass(loop, f[n - 1], n)
  <2>1. n \in 0 .. N /\ n # 0 OBVIOUS
  <2> QED BY <2>1 DEF Unfolded
<1> QED BY <1>1, <1>2 DEF Rounds

LEMMA FlushUnfolded ==
    ASSUME Sound, NEW s, NEW regions, NEW live, NEW keep
    PROVE  \E f : /\ Rounds([over |-> "bank", regs |-> regions, live |-> live, keep |-> keep], s, Len(Bank), f)
                  /\ Flush(s, regions, live, keep) = f[Len(Bank)]
<1> DEFINE N == Len(Bank)
           loop == [over |-> "bank", regs |-> regions, live |-> live, keep |-> keep]
           Described(f) == f = [k \in 0 .. N |-> IF k = 0 THEN s ELSE FlushRegister(f[k - 1], Bank[k], regions, live, keep)]
           after == CHOOSE f : Described(f)
<1>1. N \in Nat
  BY DEF Sound
<1>2. \A x, n : LoopPass(loop, x, n) = FlushRegister(x, Bank[n], regions, live, keep)
  BY DEF LoopPass
<1>3. \A f : Unfolded(loop, s, N, f) <=> Described(f)
  <2> HIDE DEF loop
  <2> QED BY <1>2 DEF Unfolded
<1>4. Described(after)
  <2> HIDE DEF Described, loop, N
  <2>1. \E f : Described(f)
    BY <1>1, <1>3, LoopsUnfold
  <2> QED BY <2>1
<1>5. Flush(s, regions, live, keep) = after[N]
  BY DEF Flush
<1>6. Rounds(loop, s, N, after)
  <2> HIDE DEF Described, loop, N, after
  <2> QED BY <1>1, <1>3, <1>4, UnfoldedRounds
<1> HIDE DEF after
<1> QED BY <1>5, <1>6
\* Registers are given up, and nothing else happens to them.
Fewer(s, t) == State(t) /\ t.refused = s.refused /\ \A r \in Reg : t.pool[r] \in {s.pool[r], None}

LEMMA GivenUp ==
    ASSUME NEW s, State(s), NEW pool, pool = [r \in Reg |-> pool[r]],
           \A r \in Reg : pool[r] \in {s.pool[r], None}, NEW t, t = [s EXCEPT !.pool = pool]
    PROVE  Fewer(s, t)
<1>1. t = [pool |-> pool, clean |-> s.clean, slots |-> s.slots, out |-> s.out, refused |-> s.refused]
  BY DEF State
<1>2. /\ t = [pool |-> t.pool, clean |-> t.clean, slots |-> t.slots, out |-> t.out, refused |-> t.refused]
      /\ t.pool = pool /\ t.refused = s.refused
  BY <1>1
<1>3. Distinct(pool)
  BY DEF State, Distinct
<1> QED BY <1>2, <1>3 DEF State, Fewer

LEMMA FlushedOne ==
    ASSUME NEW s, State(s), NEW r \in Reg, NEW regions, NEW live, NEW keep
    PROVE  Fewer(s, FlushRegister(s, r, regions, live, keep))
<1> DEFINE spilled == SpillIfStale(s, s.pool[r], r, live)
<1>1. PICK t : t = FlushRegister(s, r, regions, live, keep)
  OBVIOUS
<1>2. Still(s, spilled)
  BY SpillIsStill
<1> HIDE DEF spilled
<1>3. \/ t = s \/ t = spilled \/ t = [spilled EXCEPT !.pool[r] = None]
  BY <1>1 DEF FlushRegister, spilled
<1>4. CASE t = s \/ t = spilled
  <2>1. Fewer(s, t)
    BY <1>2, <1>4 DEF Still, Fewer
  <2> QED BY <1>1, <2>1
<1>5. CASE t = [spilled EXCEPT !.pool[r] = None]
  <2>1. PICK pool : pool = [spilled.pool EXCEPT ![r] = None]
    OBVIOUS
  <2>2. spilled.pool = [q \in Reg |-> spilled.pool[q]]
    BY <1>2 DEF Still, State
  <2>3. pool = [q \in Reg |-> pool[q]] /\ \A q \in Reg : pool[q] \in {spilled.pool[q], None}
    BY <2>1, <2>2
  <2>4. t = [spilled EXCEPT !.pool = pool]
    BY <1>5, <2>1
  <2>5. Fewer(spilled, t)
    BY <1>2, <2>3, <2>4, GivenUp DEF Still
  <2> QED BY <1>1, <1>2, <2>5 DEF Fewer, Still
<1> QED BY <1>3, <1>4, <1>5

LEMMA Flushed ==
    ASSUME Sound, NEW s, State(s), NEW regions, NEW live, NEW keep
    PROVE  Fewer(s, Flush(s, regions, live, keep))
<1> DEFINE N == Len(Bank)
           loop == [over |-> "bank", regs |-> regions, live |-> live, keep |-> keep]
<1>1. N \in Nat /\ \A n \in 1 .. N : Bank[n] \in Reg
  BY DEF Sound, Reg
<1>2. PICK f : Rounds(loop, s, N, f) /\ Flush(s, regions, live, keep) = f[N]
  BY FlushUnfolded
<1>3. \A x, n : LoopPass(loop, x, n) = FlushRegister(x, Bank[n], regions, live, keep)
  BY DEF LoopPass
<1> HIDE DEF loop, N
<1> DEFINE Bad == {n \in 0 .. N : ~Fewer(s, f[n])}
<1>4. Bad = {}
  <2> SUFFICES ASSUME Bad # {} PROVE FALSE
    OBVIOUS
  <2>1. PICK n \in Bad : \A m \in Bad : n <= m
    <3>1. Bad \in SUBSET Nat
      BY <1>1
    <3> HIDE DEF Bad
    <3> QED BY <3>1, LeastNatural
  <2>2. CASE n = 0
    <3>1. Fewer(s, f[0])
      BY <1>2 DEF Rounds, Fewer
    <3> QED BY <2>1, <2>2, <3>1
  <2>3. CASE n # 0
    <3>1. n \in 1 .. N /\ n - 1 \in 0 .. N /\ ~(n <= n - 1)
      BY <1>1, <2>1, <2>3
    <3>2. Fewer(s, f[n - 1])
      BY <2>1, <3>1
    <3>3. f[n] = FlushRegister(f[n - 1], Bank[n], regions, live, keep)
      BY <1>2, <1>3, <3>1 DEF Rounds
    <3>4. Fewer(f[n - 1], f[n])
      BY <1>1, <3>1, <3>2, <3>3, FlushedOne DEF Fewer
    <3>5. Fewer(s, f[n])
      BY <3>2, <3>4 DEF Fewer
    <3> QED BY <2>1, <3>5
  <2> QED BY <2>2, <2>3
<1>5. N \in 0 .. N
  BY <1>1
<1> QED BY <1>2, <1>4, <1>5
-----------------------------------------------------------------------------
(***************************************************************************)
(* The sources of an item: what is reserved holds one of them, and who is  *)
(* refused found every register holding another.                           *)
(***************************************************************************)
Sources(i) == UsesOf(program, i)
Resolving(sofar, i) ==
    /\ sofar = [s |-> sofar.s, reserved |-> sofar.reserved, regs |-> sofar.regs]
    /\ State(sofar.s)
    /\ sofar.s.refused => Crowded(Sources(i))
    /\ ~sofar.s.refused => \A r \in sofar.reserved : r \in Reg /\ sofar.s.pool[r] \in Sources(i)

LEMMA SourcesFinite ==
    ASSUME WellFormed(program), NEW i \in DOMAIN program
    PROVE  IsFiniteSet(Sources(i)) /\ None \notin Sources(i)
<1> DEFINE uses == program[i].uses
           f == [n \in 1 .. Len(uses) |-> uses[n]]
<1>1. Len(uses) \in Nat /\ DOMAIN uses = 1 .. Len(uses) /\ None \notin Sources(i)
  BY DEF WellFormed, Sources
<1>2. Sources(i) = {uses[n] : n \in 1 .. Len(uses)}
  BY <1>1 DEF Sources, UsesOf
<1>3. f \in Surjection(1 .. Len(uses), Sources(i))
  BY <1>2 DEF Surjection
<1>4. IsFiniteSet(1 .. Len(uses))
  BY <1>1, FS_Interval
<1> HIDE DEF f, uses
<1> QED BY <1>1, <1>3, <1>4, FS_Surjection

LEMMA OneSource ==
    ASSUME Sound, WellFormed(program), NEW i \in DOMAIN program, NEW v \in Sources(i),
           NEW sofar, Resolving(sofar, i)
    PROVE  Resolving(ResolveUse(sofar, i, v), i)
<1> DEFINE t == IF sofar.s.refused THEN sofar.s
                ELSE Assign(sofar.s, i, v, v \in sofar.s.slots, sofar.reserved, live_after[i])
           r == IF t.refused THEN None ELSE RegOf(t, v)
<1>1. PICK done : done = ResolveUse(sofar, i, v)
  OBVIOUS
<1>2. done = [s |-> t, reserved |-> sofar.reserved \cup {r}, regs |-> Append(sofar.regs, r)]
  BY <1>1 DEF ResolveUse
<1>3. i \in Nat /\ Len(program) \in Nat /\ IsFiniteSet(Sources(i)) /\ None \notin Sources(i)
  BY SourcesFinite DEF WellFormed
<1>4. CASE sofar.s.refused
  <2>1. t = sofar.s
    BY <1>4
  <2> HIDE DEF t, r
  <2> QED BY <1>1, <1>2, <1>4, <2>1 DEF Resolving
<1>5. CASE ~sofar.s.refused
  <2> DEFINE s == sofar.s
             reload == v \in s.slots
  <2>1. t = Assign(s, i, v, reload, sofar.reserved, live_after[i]) /\ reload \in BOOLEAN
    BY <1>5
  <2>2. State(s) /\ v # None
    BY <1>3 DEF Resolving
  <2> HIDE DEF t, r, reload
  <2>3. Grants(s, t, v, sofar.reserved)
    <3> HIDE DEF s
    <3> QED BY <1>3, <2>1, <2>2, Assigned
  <2>4. \A q \in sofar.reserved : q \in Reg /\ s.pool[q] \in Sources(i)
    BY <1>5 DEF Resolving
  <2>5. ASSUME t.refused PROVE Crowded(Sources(i))
    <3>1. ~Mapped(s, v) /\ Reg \subseteq sofar.reserved
      BY <1>5, <2>3, <2>5 DEF Grants
    <3>2. /\ \A q \in Reg : s.pool[q] \in Sources(i)
          /\ \A q \in Reg : s.pool[q] # v
          /\ Distinct(s.pool)
      BY <2>2, <2>4, <3>1 DEF Mapped, State
    <3> HIDE DEF s
    <3> QED BY <1>3, <3>2, Crowding
  <2>6. ASSUME ~t.refused
        PROVE  \A q \in sofar.reserved \cup {r} : q \in Reg /\ t.pool[q] \in Sources(i)
    <3>1. Mapped(t, v) /\ \A q \in sofar.reserved : t.pool[q] = s.pool[q]
      BY <2>3, <2>4, <2>6 DEF Grants
    <3>2. r \in Reg /\ t.pool[r] = v
      BY <2>6, <3>1 DEF Mapped, RegOf, r
    <3> QED BY <2>4, <3>1, <3>2
  <2>7. /\ done.s = t /\ done.reserved = sofar.reserved \cup {r}
        /\ done = [s |-> done.s, reserved |-> done.reserved, regs |-> done.regs]
    BY <1>2
  <2> HIDE DEF s
  <2>8. Resolving(done, i)
    BY <2>3, <2>5, <2>6, <2>7 DEF Resolving, Grants
  <2> QED BY <1>1, <2>8
<1> QED BY <1>4, <1>5

LEMMA UsesUnfolded ==
    ASSUME NEW s, NEW i, Len(program[i].uses) \in Nat
    PROVE  \E f : /\ Rounds([over |-> "uses", item |-> i], [s |-> s, reserved |-> Resident(s, i), regs |-> <<>>],
                             Len(program[i].uses), f)
                  /\ ResolveUses(s, i) = f[Len(program[i].uses)]
<1> DEFINE N == Len(program[i].uses)
           loop == [over |-> "uses", item |-> i]
           start == [s |-> s, reserved |-> Resident(s, i), regs |-> <<>>]
           Described(f) == f = [n \in 0 .. N |-> IF n = 0 THEN start ELSE ResolveUse(f[n - 1], i, program[i].uses[n])]
           after == CHOOSE f : Described(f)
<1>1. \A x, n : LoopPass(loop, x, n) = ResolveUse(x, i, program[i].uses[n])
  BY DEF LoopPass
<1>2. \A f : Unfolded(loop, start, N, f) <=> Described(f)
  <2> HIDE DEF loop, start
  <2> QED BY <1>1 DEF Unfolded
<1>3. Described(after)
  <2> HIDE DEF Described, loop, N, start
  <2>1. \E f : Described(f)
    <3>1. N \in Nat
      BY DEF N
    <3> QED BY <3>1, <1>2, LoopsUnfold
  <2> QED BY <2>1
<1>4. ResolveUses(s, i) = after[N]
  BY DEF ResolveUses
<1>5. Rounds(loop, start, N, after)
  <2>1. N \in Nat
    OBVIOUS
  <2> HIDE DEF Described, loop, N, after, start
  <2> QED BY <2>1, <1>2, <1>3, UnfoldedRounds
<1> HIDE DEF after
<1> QED BY <1>4, <1>5

LEMMA SourcesResolved ==
    ASSUME Sound, WellFormed(program), NEW i \in DOMAIN program, NEW s, State(s), ~s.refused
    PROVE  Resolving(ResolveUses(s, i), i)
<1> DEFINE N == Len(program[i].uses)
           loop == [over |-> "uses", item |-> i]
           start == [s |-> s, reserved |-> Resident(s, i), regs |-> <<>>]
<1>1. N \in Nat /\ \A n \in 1 .. N : program[i].uses[n] \in Sources(i)
  BY DEF WellFormed, Sources, UsesOf
<1>2. PICK f : Rounds(loop, start, N, f) /\ ResolveUses(s, i) = f[N]
  BY <1>1, UsesUnfolded
<1>3. \A x, n : LoopPass(loop, x, n) = ResolveUse(x, i, program[i].uses[n])
  BY DEF LoopPass
<1>4. Resolving(start, i)
  BY DEF Resolving, Resident, Sources
<1> HIDE DEF loop, N, start
<1> DEFINE Bad == {n \in 0 .. N : ~Resolving(f[n], i)}
<1>5. Bad = {}
  <2> SUFFICES ASSUME Bad # {} PROVE FALSE
    OBVIOUS
  <2>1. PICK n \in Bad : \A m \in Bad : n <= m
    <3>1. Bad \in SUBSET Nat
      BY <1>1
    <3> HIDE DEF Bad
    <3> QED BY <3>1, LeastNatural
  <2>2. CASE n = 0
    BY <1>2, <1>4, <2>1, <2>2 DEF Rounds
  <2>3. CASE n # 0
    <3>1. n \in 1 .. N /\ n - 1 \in 0 .. N /\ ~(n <= n - 1)
      BY <1>1, <2>1, <2>3
    <3>2. Resolving(f[n - 1], i)
      BY <2>1, <3>1
    <3>3. f[n] = ResolveUse(f[n - 1], i, program[i].uses[n])
      BY <1>2, <1>3, <3>1 DEF Rounds
    <3>4. Resolving(f[n], i)
      BY <1>1, <3>1, <3>2, <3>3, OneSource
    <3> QED BY <2>1, <3>4
  <2> QED BY <2>2, <2>3
<1>6. N \in 0 .. N
  BY <1>1
<1> QED BY <1>2, <1>5, <1>6
(***************************************************************************)
(* The destination, which may take the register of a source that dies.     *)
(***************************************************************************)
NeededApart(i) == (Sources(i) \cap live_after[i]) \cup program[i].def
ForCause(s, i) == State(s) /\ (s.refused => Crowded(Sources(i)) \/ Crowded(NeededApart(i)))

LEMMA OperandsResolved ==
    ASSUME Sound, WellFormed(program), NEW i \in DOMAIN program, NEW sofar, Resolving(sofar, i)
    PROVE  ForCause(ResolveDef(sofar.s, i, sofar.reserved), i)
<1> DEFINE s == sofar.s
           v == CHOOSE v \in program[i].def : TRUE
           avoid == sofar.reserved \ Reusable(s, i)
<1>1. PICK t : t = ResolveDef(s, i, sofar.reserved)
  OBVIOUS
<1>2. i \in Nat /\ Len(program) \in Nat /\ IsFiniteSet(Sources(i)) /\ None \notin Sources(i)
  BY SourcesFinite DEF WellFormed
<1>3. State(s) /\ ForCause(s, i)
  BY DEF Resolving, ForCause
<1>4. CASE program[i].def = {} \/ s.refused
  BY <1>1, <1>3, <1>4 DEF ResolveDef
<1>5. CASE program[i].def # {} /\ ~s.refused
  <2>1. v \in program[i].def /\ program[i].def = {v} /\ v # None
    BY <1>5 DEF WellFormed
  <2>2. t = Assign(s, i, v, FALSE, avoid, live_after[i])
    BY <1>1, <1>5 DEF ResolveDef
  <2>3. Grants(s, t, v, avoid)
    <3> HIDE DEF s, v, avoid
    <3> QED BY <1>2, <1>3, <2>2, Assigned
  <2>4. ASSUME t.refused PROVE Crowded(NeededApart(i))
    <3>1. ~Mapped(s, v) /\ Reg \subseteq avoid
      BY <1>5, <2>3, <2>4 DEF Grants
    <3>2. \A r \in Reg : s.pool[r] \in Sources(i) /\ s.pool[r] \in live_after[i]
      <4> SUFFICES ASSUME NEW r \in Reg PROVE s.pool[r] \in Sources(i) /\ s.pool[r] \in live_after[i]
        OBVIOUS
      <4>1. r \in sofar.reserved /\ r \notin Reusable(s, i)
        BY <3>1
      <4>2. s.pool[r] \in Sources(i)
        BY <1>5, <4>1 DEF Resolving
      <4> QED BY <4>1, <4>2 DEF Reusable, Resident, Sources
    <3>3. /\ \A r \in Reg : s.pool[r] \in NeededApart(i) /\ s.pool[r] # v
          /\ v \in NeededApart(i) /\ None \notin NeededApart(i)
      BY <1>2, <2>1, <3>1, <3>2 DEF Mapped, NeededApart
    <3>4. IsFiniteSet(NeededApart(i))
      <4>1. IsFiniteSet(Sources(i) \cap live_after[i])
        BY <1>2, FS_Intersection
      <4>2. NeededApart(i) = (Sources(i) \cap live_after[i]) \cup {v}
        BY <2>1 DEF NeededApart
      <4> HIDE DEF v
      <4> QED BY <4>1, <4>2, FS_AddElement
    <3>5. Distinct(s.pool)
      BY <1>3 DEF State
    <3> HIDE DEF s, v
    <3> QED BY <3>3, <3>4, <3>5, Crowding
  <2>5. ForCause(t, i)
    BY <2>3, <2>4 DEF ForCause, Grants
  <2> QED BY <1>1, <2>5
<1> QED BY <1>4, <1>5

-----------------------------------------------------------------------------
(***************************************************************************)
(* What the allocator does with an item.                                   *)
(***************************************************************************)
LEMMA FewerTwice ==
    ASSUME NEW s, NEW t, NEW u, Fewer(s, t), Fewer(t, u)
    PROVE  Fewer(s, u)
  BY DEF Fewer

LEMMA Kept ==
    ASSUME Sound, NEW s, State(s), NEW i \in Nat, NEW live
    PROVE  /\ Fewer(s, Before(s, i)) /\ Fewer(s, Behind(s, i))
           /\ Fewer(s, Release(s, live)) /\ Fewer(s, Forget(s))
<1>1. Fewer(s, s)
  BY DEF Fewer
<1>2. Fewer(s, Before(s, i))
  BY <1>1, Flushed DEF Before
<1>3. Fewer(s, Behind(s, i))
  BY <1>1, Flushed DEF Behind
<1>4. Fewer(s, Release(s, live))
  <2>1. PICK pool : pool = [r \in Reg |-> IF s.pool[r] \in live THEN s.pool[r] ELSE None]
    OBVIOUS
  <2>2. PICK t : t = [s EXCEPT !.pool = pool]
    OBVIOUS
  <2>3. pool = [r \in Reg |-> pool[r]] /\ \A r \in Reg : pool[r] \in {s.pool[r], None}
    BY <2>1
  <2>4. Fewer(s, t)
    BY <2>2, <2>3, GivenUp
  <2> QED BY <2>1, <2>2, <2>4 DEF Release
<1>5. Fewer(s, Forget(s))
  <2>1. PICK pool : pool = [r \in Reg |-> None]
    OBVIOUS
  <2>2. PICK t : t = [s EXCEPT !.pool = pool]
    OBVIOUS
  <2>3. pool = [r \in Reg |-> pool[r]] /\ \A r \in Reg : pool[r] \in {s.pool[r], None}
    BY <2>1
  <2>4. Fewer(s, t)
    BY <2>2, <2>3, GivenUp
  <2> QED BY <2>1, <2>2, <2>4 DEF Forget
<1> QED BY <1>2, <1>3, <1>4, <1>5
LEMMA ItemForCause ==
    ASSUME Sound, WellFormed(program), State(st), ~st.refused, next \in DOMAIN program, AtInstruction(next)
    PROVE  ForCause(st', next)
<1> DEFINE i == next
           used == ResolveUses(st, i)
           resolved == ResolveDef(used.s, i, used.reserved)
           emitted == [does |-> program[i].does, uses |-> used.regs,
                       def |-> IF resolved.refused THEN {}
                               ELSE {RegOf(resolved, v) : v \in program[i].def}]
           saved == Before(resolved, i)
           ran == [saved EXCEPT !.out = Append(@, emitted), !.clean = @ \ program[i].def]
           done == Behind(Release(ran, live_after[i]), i)
           left == IF resolved.refused THEN resolved ELSE done
<1>1. st' = [left EXCEPT !.out = <<>>]
  BY DEF AtInstruction
<1>2. i \in Nat /\ ForCause(resolved, i)
  <2>1. Resolving(used, i)
    BY SourcesResolved
  <2> HIDE DEF used
  <2> QED BY <2>1, OperandsResolved DEF WellFormed
<1> HIDE DEF used, resolved
<1>3. ForCause(left, i)
  <2>1. CASE resolved.refused
    BY <1>2, <2>1
  <2>2. CASE ~resolved.refused
    <3>1. Fewer(resolved, saved)
      BY <1>2, Kept DEF ForCause
    <3> HIDE DEF saved, emitted
    <3>2. ran = With(saved, Append(saved.out, emitted), saved.clean \ program[i].def, saved.slots)
      <4>1. PICK s : s = saved
        OBVIOUS
      <4>2. s.slots = saved.slots /\ DOMAIN s = {"pool", "clean", "slots", "out", "refused"}
        BY <3>1, <4>1 DEF Fewer, State
      <4>3. PICK out, clean : out = Append(s.out, emitted) /\ clean = s.clean \ program[i].def
        OBVIOUS
      <4>4. PICK t : t = [s EXCEPT !.out = out, !.clean = clean]
        OBVIOUS
      <4>5. PICK u : u = [s EXCEPT !.out = out, !.clean = clean, !.slots = s.slots]
        OBVIOUS
      <4>6. PICK a, b, c, d, e : s = [pool |-> a, clean |-> b, slots |-> c, out |-> d, refused |-> e]
        BY <3>1, <4>1 DEF Fewer, State
      <4>7. t = [pool |-> a, clean |-> clean, slots |-> c, out |-> out, refused |-> e]
        BY <4>4, <4>6
      <4>8. u = [pool |-> a, clean |-> clean, slots |-> c, out |-> out, refused |-> e]
        BY <4>5, <4>6
      <4> QED BY <4>1, <4>3, <4>4, <4>5, <4>7, <4>8 DEF With
    <3>3. Still(saved, ran)
      BY <3>1, <3>2, WithIsStill DEF Fewer
    <3> HIDE DEF ran
    <3>4. Fewer(ran, Release(ran, live_after[i]))
      BY <1>2, <3>3, Kept DEF Still
    <3>5. Fewer(Release(ran, live_after[i]), done)
      BY <1>2, <3>4, Kept DEF Fewer
    <3> HIDE DEF done
    <3>6. State(done) /\ ~done.refused
      BY <2>2, <3>1, <3>3, <3>4, <3>5 DEF Fewer, Still
    <3> QED BY <2>2, <3>6 DEF ForCause
  <2> QED BY <2>1, <2>2
<1> HIDE DEF left
<1>4. Still(left, st')
  <2>1. PICK a, b, c, d, e : left = [pool |-> a, clean |-> b, slots |-> c, out |-> d, refused |-> e]
    BY <1>3 DEF ForCause, State
  <2>2. PICK u : u = With(left, <<>>, left.clean, left.slots)
    OBVIOUS
  <2>3. u = [pool |-> a, clean |-> b, slots |-> c, out |-> <<>>, refused |-> e]
    BY <2>1, <2>2 DEF With
  <2>4. PICK t : t = [left EXCEPT !.out = <<>>]
    OBVIOUS
  <2>5. t = [pool |-> a, clean |-> b, slots |-> c, out |-> <<>>, refused |-> e]
    BY <2>1, <2>4
  <2>6. Still(left, u)
    BY <1>3, <2>2, WithIsStill DEF ForCause
  <2> QED BY <1>1, <2>3, <2>4, <2>5, <2>6
<1> QED BY <1>3, <1>4 DEF ForCause, Still

(***************************************************************************)
(* The values that come from outside take registers; nothing is refused.   *)
(***************************************************************************)
LEMMA StartUnfolded ==
    ASSUME NEW p, Cardinality(EntryValues(p)) \in Nat
    PROVE  \E f : /\ Rounds([over |-> "entry", code |-> p], Blank, Cardinality(EntryValues(p)), f)
                  /\ Start(p) = [f[Cardinality(EntryValues(p))] EXCEPT
                                    !.slots = UsedBefore(p) \cap Defined(p) \cap LiveOnEdges(p, graph, live_in)]
<1> DEFINE N == Cardinality(EntryValues(p))
           loop == [over |-> "entry", code |-> p]
           Described(f) == f = [n \in 0 .. N |-> IF n = 0 THEN Blank
                                                 ELSE Assign(f[n - 1], 1, EntryValue(p, n), FALSE, {}, {})]
           after == CHOOSE f : Described(f)
<1>1. \A x, n : LoopPass(loop, x, n) = Assign(x, 1, EntryValue(p, n), FALSE, {}, {})
  BY DEF LoopPass
<1>2. \A f : Unfolded(loop, Blank, N, f) <=> Described(f)
  <2> HIDE DEF loop
  <2> QED BY <1>1 DEF Unfolded
<1>3. Described(after)
  <2> HIDE DEF Described, loop, N
  <2>1. \E f : Described(f)
    <3>1. N \in Nat
      BY DEF N
    <3> QED BY <3>1, <1>2, LoopsUnfold
  <2> QED BY <2>1
<1>4. Start(p) = [after[N] EXCEPT !.slots = UsedBefore(p) \cap Defined(p) \cap LiveOnEdges(p, graph, live_in)]
  BY DEF Start
<1>5. Rounds(loop, Blank, N, after)
  <2>1. N \in Nat
    OBVIOUS
  <2> HIDE DEF Described, loop, N, after
  <2> QED BY <2>1, <1>2, <1>3, UnfoldedRounds
<1> HIDE DEF after
<1> QED BY <1>4, <1>5

LEMMA BlankState == State(Blank) /\ ~Blank.refused
  BY DEF State, Blank, NoRegisters, Distinct

LEMMA Started ==
    ASSUME Sound, WellFormed(program)
    PROVE  State(Start(program)) /\ ~Start(program).refused
<1> DEFINE N == Cardinality(EntryValues(program))
           loop == [over |-> "entry", code |-> program]
           Good(s) == State(s) /\ ~s.refused
<1>1. N \in Nat
  <2>1. EntryValues(program) \in SUBSET Value
    BY DEF EntryValues, UsedBefore
  <2>2. IsFiniteSet(EntryValues(program))
    BY <2>1, FS_Subset DEF Sound
  <2> QED BY <2>2, FS_CardinalityType
<1>2. PICK f : /\ Rounds(loop, Blank, N, f)
               /\ Start(program) = [f[N] EXCEPT !.slots = UsedBefore(program) \cap Defined(program)
                                                          \cap LiveOnEdges(program, graph, live_in)]
  BY <1>1, StartUnfolded
<1>3. \A x, n : LoopPass(loop, x, n) = Assign(x, 1, EntryValue(program, n), FALSE, {}, {})
  BY DEF LoopPass
<1>4. Good(Blank)
  BY BlankState
<1> HIDE DEF loop, N
<1> DEFINE Bad == {n \in 0 .. N : ~Good(f[n])}
<1>5. Bad = {}
  <2> SUFFICES ASSUME Bad # {} PROVE FALSE
    OBVIOUS
  <2>1. PICK n \in Bad : \A m \in Bad : n <= m
    <3>1. Bad \in SUBSET Nat
      BY <1>1
    <3> HIDE DEF Bad
    <3> QED BY <3>1, LeastNatural
  <2>2. CASE n = 0
    BY <1>2, <1>4, <2>1, <2>2 DEF Rounds
  <2>3. CASE n # 0
    <3>1. n \in 1 .. N /\ n - 1 \in 0 .. N /\ ~(n <= n - 1)
      BY <1>1, <2>1, <2>3
    <3>2. Good(f[n - 1])
      BY <2>1, <3>1
    <3>3. f[n] = Assign(f[n - 1], 1, EntryValue(program, n), FALSE, {}, {})
      BY <1>2, <1>3, <3>1 DEF Rounds
    <3>4. Grants(f[n - 1], f[n], EntryValue(program, n), {})
      <4>1. Len(program) \in Nat /\ 1 \in Nat /\ FALSE \in BOOLEAN
        BY DEF WellFormed
      <4>2. State(f[n - 1])
        BY <3>2
      <4>3. Grants(f[n - 1], Assign(f[n - 1], 1, EntryValue(program, n), FALSE, {}, {}), EntryValue(program, n), {})
        BY <4>1, <4>2, Assigned
      <4> QED BY <3>3, <4>3
    <3>5. ~(Reg \subseteq {})
      <4>1. 1 \in DOMAIN Bank
        BY DEF Sound
      <4> QED BY <4>1 DEF Reg
    <3>6. Good(f[n])
      BY <3>2, <3>4, <3>5 DEF Grants
    <3> QED BY <2>1, <3>6
  <2> QED BY <2>2, <2>3
<1>6. Good(f[N])
  <2>1. N \in 0 .. N
    BY <1>1
  <2> QED BY <1>5, <2>1
<1> DEFINE slots == UsedBefore(program) \cap Defined(program) \cap LiveOnEdges(program, graph, live_in)
<1>7. PICK a, b, c, d, e : f[N] = [pool |-> a, clean |-> b, slots |-> c, out |-> d, refused |-> e]
  BY <1>6 DEF State
<1> HIDE DEF slots
<1>8. PICK t : t = [f[N] EXCEPT !.slots = slots]
  OBVIOUS
<1>9. t = [pool |-> a, clean |-> b, slots |-> slots, out |-> d, refused |-> e]
  BY <1>7, <1>8
<1>10. t.pool = f[N].pool /\ t.refused = f[N].refused
       /\ t = [pool |-> t.pool, clean |-> t.clean, slots |-> t.slots, out |-> t.out, refused |-> t.refused]
  BY <1>7, <1>9
<1>11. Good(t)
  BY <1>6, <1>10 DEF State
<1> QED BY <1>2, <1>8, <1>11 DEF slots
-----------------------------------------------------------------------------
(***************************************************************************)
(* The allocator between two items.                                        *)
(***************************************************************************)
GreedyInv ==
    /\ program \in Programs \cup Scanned
    /\ next \in Nat
    /\ State(st)
    /\ st.refused => allocator = "greedy" /\ next > 1
    /\ GreedyRefusesForCause

LEMMA AllocateForCause == ASSUME Sound, GreedyInv, Allocate, UNCHANGED allocator, allocator = "greedy" PROVE GreedyInv'
<1>1. /\ WellFormed(program) /\ State(st) /\ ~st.refused /\ next \in DOMAIN program /\ next \in Nat /\ next > 0
      /\ next' = next + 1 /\ program' = program /\ live_after' = live_after
  BY DEF Sound, GreedyInv, Allocate, WellFormed, analysisVars
<1>2. CASE AtLabel(next)
  <2>1. Fewer(st, st')
    <3>1. Fewer(st, Forget(st)) /\ Fewer(st, st)
      BY <1>1, Kept DEF Fewer
    <3> QED BY <1>2, <3>1 DEF AtLabel
  <2>2. State(st') /\ ~st'.refused
    BY <1>1, <2>1 DEF Fewer
  <2> QED BY <1>1, <2>2 DEF GreedyInv, GreedyRefusesForCause
<1>3. CASE AtInstruction(next)
  <2>1. ForCause(st', next)
    BY <1>1, <1>3, ItemForCause
  <2>2. next' - 1 = next /\ next' \in Nat /\ next' > 1
    BY <1>1
  <2>3. GreedyRefusesForCause'
    BY <1>1, <2>1, <2>2 DEF GreedyRefusesForCause, ForCause, Sources, NeededApart, UsesOf, Crowded
  <2> QED BY <1>1, <2>1, <2>2, <2>3 DEF GreedyInv, ForCause
<1> QED BY <1>2, <1>3 DEF Allocate

LEMMA StartForCause == ASSUME Sound, GreedyInv, GreedyStart PROVE GreedyInv'
<1>1. program' = program /\ next' = 1 /\ WellFormed(program)
  BY DEF GreedyInv, GreedyStart, Analysed, Sound
<1>2. State(st') /\ ~st'.refused
  BY <1>1, Started DEF GreedyStart
<1> QED BY <1>1, <1>2 DEF GreedyInv, GreedyRefusesForCause

LEMMA StillForCause ==
    ASSUME GreedyInv, program' = program, st' = st, allocator' = allocator, next' \in Nat,
           st.refused => next' = next /\ live_after' = live_after
    PROVE  GreedyInv'
<1>1. GreedyRefusesForCause'
  BY DEF GreedyInv, GreedyRefusesForCause, UsesOf, Crowded
<1> QED BY <1>1 DEF GreedyInv

LEMMA GreedyInductive == ASSUME Sound PROVE Spec => []GreedyInv
<1>1. Init => GreedyInv
  <2> SUFFICES ASSUME NEW a \in {"greedy", "linear"}, NEW p \in Programs \cup Scanned, InitOf(a, p)
               PROVE  GreedyInv
    BY DEF Init
  <2> QED BY BlankState DEF InitOf, SharedInit, GreedyInit, GreedyInv, GreedyRefusesForCause
<1>2. GreedyInv /\ [Next]_vars => GreedyInv'
  <2> SUFFICES ASSUME GreedyInv, [Next]_vars PROVE GreedyInv'
    OBVIOUS
  <2>1. CASE Greedy
    <3>1. CASE Analyse /\ UNCHANGED greedyVars
      BY <2>1, <3>1, StillForCause DEF Greedy, Analyse, greedyVars, GreedyInv
    <3>2. CASE GreedyStart
      BY <2>1, <3>2, StartForCause
    <3>3. CASE Allocate
      BY <2>1, <3>3, AllocateForCause DEF Greedy
    <3> QED BY <2>1, <3>1, <3>2, <3>3 DEF Greedy
  <2>2. CASE Linear
    <3>1. ~st.refused /\ st' = st /\ allocator' = allocator /\ next \in Nat
      BY <2>2 DEF Linear, GreedyInv, greedyVars
    <3>2. program' = program /\ next' \in Nat
      BY <2>2, <3>1 DEF Linear, Analyse, LinearStart, Analysed, Scan, Rewrite, sharedVars, analysisVars
    <3> QED BY <3>1, <3>2, StillForCause
  <2>3. ASSUME UNCHANGED allocVars PROVE GreedyInv'
    BY <2>3, StillForCause DEF allocVars, sharedVars, analysisVars, greedyVars, GreedyInv
  <2>4. CASE Enter \/ Spill \/ Reload \/ Compute \/ Jumped \/ NotTaken \/ Called
    BY <2>3, <2>4 DEF Enter, Spill, Reload, Compute, Jumped, NotTaken, Called
  <2>5. CASE UNCHANGED vars
    BY <2>3, <2>5 DEF vars
  <2> QED BY <2>1, <2>2, <2>4, <2>5 DEF Next
<1> QED BY <1>1, <1>2, PTL DEF Spec

(***************************************************************************)
(* The greedy allocator raises only where an instruction's sources, or its *)
(* destination with those of them that live on, are more than there are    *)
(* registers: for any code, bank, liveness and caller-saved registers.     *)
(***************************************************************************)
THEOREM GreedyRefusals == ASSUME Sound PROVE Spec => []GreedyRefusesForCause
<1>1. GreedyInv => GreedyRefusesForCause
  BY DEF GreedyInv
<1> QED BY <1>1, GreedyInductive, PTL

\* Between any two items no value is in two registers (_reg_pool and _vreg_map are
\* inverse to each other).
OneRegisterEach == Distinct(st.pool)
THEOREM OwnersAreDistinct == ASSUME Sound PROVE Spec => []OneRegisterEach
<1>1. GreedyInv => OneRegisterEach
  BY DEF GreedyInv, State, OneRegisterEach
<1> QED BY <1>1, GreedyInductive, PTL

-----------------------------------------------------------------------------
(***************************************************************************)
(* Blocks of the machine code: where one begins, where it ends.            *)
(***************************************************************************)
LEMMA BlockIs ==
    ASSUME NEW p, WellFormed(p), NEW i \in DOMAIN p
    PROVE  /\ BlockOf(p, i) \in Leaders(p) /\ BlockOf(p, i) \in 1 .. i
           /\ \A k \in BlockOf(p, i) + 1 .. i : ~Leads(p, k)
<1> DEFINE S == {b \in 1 .. i : Leads(p, b)}
           b == BlockOf(p, i)
<1>1. i \in Nat /\ DOMAIN p = 1 .. Len(p) /\ Len(p) \in Nat /\ i \in 1 .. Len(p) /\ 1 \in 1 .. i
  BY DEF WellFormed
<1>2. S \in SUBSET (1 .. i) /\ S # {}
  BY <1>1 DEF Leads
<1>3. b = CHOOSE x \in S : \A y \in S : x >= y
  BY DEF BlockOf, Max
<1>4. PICK x \in S : \A y \in S : y <= x
  <2> HIDE DEF S
  <2> QED BY <1>1, <1>2, GreatestBelow
<1>5. \A y \in S : x >= y
  BY <1>1, <1>4
<1> HIDE DEF b
<1>6. b \in S /\ \A y \in S : b >= y
  <2> HIDE DEF S
  <2> QED BY <1>3, <1>4, <1>5
<1>7. \A k \in b + 1 .. i : k \in 1 .. i /\ ~(b >= k)
  BY <1>1, <1>6
<1> QED BY <1>1, <1>6, <1>7 DEF b, Leaders

LEMMA LastIs ==
    ASSUME NEW p, WellFormed(p), NEW b \in DOMAIN p
    PROVE  /\ LastOf(p, b) \in DOMAIN p /\ LastOf(p, b) \in b .. Len(p)
           /\ LastOf(p, b) = Len(p) \/ Leads(p, LastOf(p, b) + 1)
           /\ \A k \in b + 1 .. LastOf(p, b) : ~Leads(p, k)
<1> DEFINE S == {i \in b .. Len(p) : i = Len(p) \/ Leads(p, i + 1)}
<1>0. PICK l, N : l = LastOf(p, b) /\ N = Len(p)
  OBVIOUS
<1>1. b \in Nat /\ DOMAIN p = 1 .. N /\ N \in Nat /\ 1 <= b /\ b <= N
  BY <1>0 DEF WellFormed
<1>2. S \in SUBSET Nat /\ S # {}
  BY <1>0, <1>1
<1>3. l = CHOOSE x \in S : \A y \in S : x =< y
  BY <1>0 DEF LastOf, Min
<1>4. PICK x \in S : \A y \in S : x <= y
  <2> HIDE DEF S
  <2> QED BY <1>2, LeastNatural
<1>5. l \in S /\ \A y \in S : l <= y
  <2> HIDE DEF S
  <2> QED BY <1>3, <1>4
<1>6. l \in b .. N /\ (l = N \/ Leads(p, l + 1))
  BY <1>0, <1>5
<1>7. l \in Nat /\ b <= l /\ l <= N
  BY <1>1, <1>6
<1>8. ASSUME NEW k \in b + 1 .. l PROVE ~Leads(p, k)
  <2>1. k - 1 \in b .. N /\ ~(l <= k - 1) /\ (k - 1) + 1 = k
    BY <1>1, <1>7
  <2>2. k - 1 \notin S
    <3> HIDE DEF S
    <3> QED BY <1>5, <2>1
  <2> QED BY <1>0, <2>1, <2>2
<1>9. l \in DOMAIN p
  BY <1>1, <1>7
<1> QED BY <1>0, <1>6, <1>8, <1>9

\* One item follows another in a block, or ends it.
LEMMA InBlock ==
    ASSUME NEW p, WellFormed(p), NEW i \in DOMAIN p
    PROVE  /\ i \in BlockOf(p, i) .. LastOf(p, BlockOf(p, i))
           /\ i + 1 \in DOMAIN p /\ ~Leads(p, i + 1) =>
                 BlockOf(p, i + 1) = BlockOf(p, i) /\ i + 1 \in BlockOf(p, i) .. LastOf(p, BlockOf(p, i))
           /\ i + 1 \notin DOMAIN p \/ Leads(p, i + 1) => LastOf(p, BlockOf(p, i)) = i
           /\ i \in Leaders(p) => BlockOf(p, i) = i
<1>0. PICK b, l, N : b = BlockOf(p, i) /\ l = LastOf(p, b) /\ N = Len(p)
  OBVIOUS
<1>1. i \in Nat /\ DOMAIN p = 1 .. N /\ N \in Nat /\ 1 <= i /\ i <= N
  BY <1>0 DEF WellFormed
<1>2. b \in Leaders(p) /\ b \in Nat /\ 1 <= b /\ b <= i /\ b \in DOMAIN p /\ \A k \in b + 1 .. i : ~Leads(p, k)
  BY <1>0, <1>1, BlockIs DEF Leaders
<1>3. /\ l \in Nat /\ b <= l /\ l <= N /\ (l = N \/ Leads(p, l + 1))
      /\ \A k \in b + 1 .. l : ~Leads(p, k)
  BY <1>0, <1>1, <1>2, LastIs
<1>4. i <= l
  <2>1. ASSUME l < i PROVE FALSE
    <3>1. l + 1 \in b + 1 .. i /\ l # N
      BY <1>1, <1>2, <1>3, <2>1
    <3> QED BY <1>2, <1>3, <3>1
  <2> QED BY <1>1, <1>3, <2>1
<1>5. ASSUME i + 1 \in DOMAIN p, ~Leads(p, i + 1) PROVE BlockOf(p, i + 1) = b /\ i + 1 <= l
  <2>0. PICK c : c = BlockOf(p, i + 1)
    OBVIOUS
  <2>1. c \in Leaders(p) /\ c \in Nat /\ c <= i + 1 /\ \A k \in c + 1 .. i + 1 : ~Leads(p, k)
    <3>1. c \in Leaders(p) /\ c \in 1 .. i + 1 /\ \A k \in c + 1 .. i + 1 : ~Leads(p, k)
      BY <1>5, <2>0, BlockIs
    <3> QED BY <1>1, <3>1
  <2>2. c # i + 1 /\ Leads(p, c) /\ Leads(p, b)
    BY <1>2, <1>5, <2>1 DEF Leaders
  <2>3. ~(c < b) /\ ~(b < c)
    <3>1. c < b => b \in c + 1 .. i + 1
      BY <1>1, <1>2, <2>1
    <3>2. b < c => c \in b + 1 .. i
      BY <1>1, <1>2, <2>1, <2>2
    <3> QED BY <1>2, <2>1, <2>2, <3>1, <3>2
  <2>4. i # l
    BY <1>1, <1>3, <1>5
  <2>5. c = b /\ i + 1 <= l
    BY <1>1, <1>2, <1>3, <1>4, <2>1, <2>3, <2>4
  <2> QED BY <2>0, <2>5
<1>6. ASSUME i + 1 \notin DOMAIN p \/ Leads(p, i + 1) PROVE l = i
  <2>1. i < l => i + 1 \in b + 1 .. l /\ i + 1 \in DOMAIN p
    BY <1>1, <1>2, <1>3
  <2>2. ~(i < l)
    BY <1>3, <1>6, <2>1
  <2> QED BY <1>1, <1>3, <1>4, <2>2
<1>7. ASSUME i \in Leaders(p) PROVE b = i
  <2>1. b # i => i \in b + 1 .. i
    BY <1>1, <1>2
  <2> QED BY <1>2, <1>7, <2>1 DEF Leaders
<1>8. i \in b .. l /\ (i + 1 <= l => i + 1 \in b .. l)
  BY <1>1, <1>2, <1>3, <1>4
<1> QED BY <1>0, <1>5, <1>6, <1>7, <1>8

\* The block of a block's last item.
LEMMA LastOfBlock ==
    ASSUME NEW p, WellFormed(p), NEW b \in Leaders(p)
    PROVE  /\ LastOf(p, b) \in DOMAIN p /\ BlockOf(p, LastOf(p, b)) = b
           /\ LastOf(p, b) = Len(p) \/ Leads(p, LastOf(p, b) + 1)
<1>0. PICK l, c, N : l = LastOf(p, b) /\ c = BlockOf(p, l) /\ N = Len(p)
  OBVIOUS
<1>1. b \in Nat /\ b \in DOMAIN p /\ Leads(p, b) /\ DOMAIN p = 1 .. N /\ N \in Nat
  BY <1>0 DEF WellFormed, Leaders
<1>2. /\ l \in DOMAIN p /\ l \in Nat /\ b <= l /\ (l = N \/ Leads(p, l + 1))
      /\ \A k \in b + 1 .. l : ~Leads(p, k)
  <2>1. /\ l \in DOMAIN p /\ l \in b .. N /\ (l = N \/ Leads(p, l + 1)) /\ \A k \in b + 1 .. l : ~Leads(p, k)
    BY <1>0, <1>1, LastIs
  <2> QED BY <1>1, <2>1
<1>3. c \in Nat /\ Leads(p, c) /\ c <= l /\ \A k \in c + 1 .. l : ~Leads(p, k)
  <2>1. c \in Leaders(p) /\ c \in 1 .. l /\ \A k \in c + 1 .. l : ~Leads(p, k)
    BY <1>0, <1>2, BlockIs
  <2> QED BY <1>2, <2>1 DEF Leaders
<1>4. ~(c < b) /\ ~(b < c)
  <2>1. c < b => b \in c + 1 .. l
    BY <1>1, <1>2, <1>3
  <2>2. b < c => c \in b + 1 .. l
    BY <1>1, <1>2, <1>3
  <2> QED BY <1>1, <1>2, <1>3, <2>1, <2>2
<1>5. c = b
  BY <1>1, <1>3, <1>4
<1> QED BY <1>0, <1>2, <1>5

(***************************************************************************)
(* Edges begin where a block ends: behind it, or where its last item goes. *)
(***************************************************************************)
FallsTo(p, i) == i + 1 \in DOMAIN p /\ p[i].does \notin {"jump", "ret"}
GoesTo(p, i) == p[i].does \in {"branch", "jump"}

LEMMA EdgeIs ==
    ASSUME NEW p, WellFormed(p), Selected(p), NEW e \in Edges(p)
    PROVE  /\ e.from \in Leaders(p) /\ LastOf(p, e.from) \in DOMAIN p /\ BlockOf(p, LastOf(p, e.from)) = e.from
           /\ \/ e.falls = TRUE /\ e.to = LastOf(p, e.from) + 1 /\ FallsTo(p, LastOf(p, e.from))
              \/ /\ e.falls = FALSE /\ GoesTo(p, LastOf(p, e.from))
                 /\ e.to = LabelPlace(p, p[LastOf(p, e.from)].to) /\ IsLabel(p, e.to)
           /\ e.to \in Leaders(p)
<1> DEFINE last(b) == LastOf(p, b)
           falls == {b \in Leaders(p) : last(b) < Len(p) /\ p[last(b)].does \notin {"jump", "ret"}}
           goes == {b \in Leaders(p) : p[last(b)].does \in {"branch", "jump"}}
<1>1. \/ \E b \in falls : e = [from |-> b, to |-> last(b) + 1, falls |-> TRUE]
      \/ \E b \in goes : e = [from |-> b, to |-> LabelPlace(p, p[last(b)].to), falls |-> FALSE]
  BY DEF Edges
<1>2. DOMAIN p = 1 .. Len(p) /\ Len(p) \in Nat
  BY DEF WellFormed
<1>3. ASSUME NEW b \in Leaders(p)
      PROVE  /\ last(b) \in DOMAIN p /\ BlockOf(p, last(b)) = b
             /\ last(b) = Len(p) \/ Leads(p, last(b) + 1)
  BY LastOfBlock
<1>4. CASE \E b \in falls : e = [from |-> b, to |-> last(b) + 1, falls |-> TRUE]
  <2>1. PICK b \in falls : e = [from |-> b, to |-> last(b) + 1, falls |-> TRUE]
    BY <1>4
  <2>2. b \in Leaders(p) /\ last(b) < Len(p) /\ p[last(b)].does \notin {"jump", "ret"}
    BY <2>1
  <2>3. last(b) \in DOMAIN p /\ BlockOf(p, last(b)) = b /\ (last(b) = Len(p) \/ Leads(p, last(b) + 1))
    BY <1>3, <2>2
  <2>4. e.from = b /\ e.to = last(b) + 1 /\ e.falls = TRUE
    BY <2>1
  <2> HIDE DEF last
  <2>5. last(b) + 1 \in DOMAIN p /\ last(b) + 1 \in Leaders(p)
    BY <1>2, <2>2, <2>3 DEF Leaders
  <2> QED BY <2>2, <2>3, <2>4, <2>5 DEF FallsTo, last
<1>5. CASE \E b \in goes : e = [from |-> b, to |-> LabelPlace(p, p[last(b)].to), falls |-> FALSE]
  <2>1. PICK b \in goes : e = [from |-> b, to |-> LabelPlace(p, p[last(b)].to), falls |-> FALSE]
    BY <1>5
  <2>2. b \in Leaders(p) /\ p[last(b)].does \in {"branch", "jump"}
    BY <2>1
  <2>3. last(b) \in DOMAIN p /\ BlockOf(p, last(b)) = b
    BY <1>3, <2>2
  <2>4. e.from = b /\ e.to = LabelPlace(p, p[last(b)].to) /\ e.falls = FALSE
    BY <2>1
  <2> HIDE DEF last
  <2>5. \E j \in DOMAIN p : IsLabel(p, j) /\ p[j].to = p[last(b)].to
    BY <2>2, <2>3 DEF Selected
  <2>6. e.to \in DOMAIN p /\ IsLabel(p, e.to)
    BY <2>4, <2>5 DEF LabelPlace
  <2> QED BY <2>2, <2>3, <2>4, <2>6 DEF GoesTo, last, Leaders, Leads
<1> QED BY <1>1, <1>4, <1>5

\* A block's last item makes the edges it should.
LEMMA EdgesFrom ==
    ASSUME NEW p, WellFormed(p), Selected(p), NEW i \in DOMAIN p, i + 1 \notin DOMAIN p \/ Leads(p, i + 1)
    PROVE  /\ FallsTo(p, i) => [from |-> BlockOf(p, i), to |-> i + 1, falls |-> TRUE] \in Edges(p)
           /\ GoesTo(p, i) => [from |-> BlockOf(p, i), to |-> LabelPlace(p, p[i].to), falls |-> FALSE] \in Edges(p)
<1>1. LastOf(p, BlockOf(p, i)) = i /\ BlockOf(p, i) \in Leaders(p)
  BY InBlock, BlockIs
<1>2. FallsTo(p, i) => i < Len(p)
  BY DEF FallsTo, WellFormed
<1> DEFINE b == BlockOf(p, i)
<1> HIDE DEF b
<1>3. FallsTo(p, i) => [from |-> b, to |-> LastOf(p, b) + 1, falls |-> TRUE] \in Edges(p)
  BY <1>1, <1>2 DEF FallsTo, Edges, b
<1>4. GoesTo(p, i) => [from |-> b, to |-> LabelPlace(p, p[LastOf(p, b)].to), falls |-> FALSE] \in Edges(p)
  BY <1>1 DEF GoesTo, Edges, b
<1> QED BY <1>1, <1>3, <1>4 DEF b

-----------------------------------------------------------------------------
(***************************************************************************)
(* What the liveness analysis says of two items that follow each other.    *)
(***************************************************************************)
\* Live before instruction i: read from there on before it is written, or live
\* behind the block and not written.
ReadFrom(text, out, i) ==
    {v \in Value :
        \/ \E k \in i..Len(text) : v \in text[k].uses /\ \A j \in i..(k - 1) : v \notin text[j].defs
        \/ v \in out /\ \A j \in i..Len(text) : v \notin text[j].defs}

\* One instruction back.
LEMMA ReadFromSteps ==
    ASSUME NEW text \in Code, NEW out \in SUBSET Value
    PROVE  \A i \in 1..(Len(text) + 1) :
              ReadFrom(text, out, i) =
                IF i > Len(text) THEN out
                ELSE (ReadFrom(text, out, i + 1) \ text[i].defs) \cup text[i].uses
<1> SUFFICES ASSUME NEW i \in 1..(Len(text) + 1)
             PROVE  ReadFrom(text, out, i) =
                      IF i > Len(text) THEN out
                      ELSE (ReadFrom(text, out, i + 1) \ text[i].defs) \cup text[i].uses
  OBVIOUS
<1>1. Len(text) \in Nat /\ \A k \in 1..Len(text) : text[k] \in [uses : SUBSET Value, defs : SUBSET Value]
  BY LenProperties, ElementOfSeq DEF Code
<1>2. CASE i > Len(text)
  <2>1. i..Len(text) = {}
    BY <1>1, <1>2
  <2> QED BY <1>2, <2>1 DEF ReadFrom
<1>3. CASE ~(i > Len(text))
  <2>1. i \in 1..Len(text) /\ i..(i - 1) = {}
    BY <1>1, <1>3
  <2>2. i..Len(text) = {i} \cup ((i + 1)..Len(text)) /\ i \notin (i + 1)..Len(text)
    BY <1>1, <2>1
  <2>3. \A k \in (i + 1)..Len(text) : i..(k - 1) = {i} \cup ((i + 1)..(k - 1))
    BY <1>1, <2>1
  <2>4. text[i].uses \in SUBSET Value
    BY <1>1, <2>1
  <2>5. ASSUME NEW v \in Value
        PROVE  v \in ReadFrom(text, out, i) <=>
                  v \in text[i].uses \/ (v \in ReadFrom(text, out, i + 1) /\ v \notin text[i].defs)
    BY <2>1, <2>2, <2>3 DEF ReadFrom
  <2>6. ReadFrom(text, out, i) \in SUBSET Value /\ ReadFrom(text, out, i + 1) \in SUBSET Value
    BY DEF ReadFrom
  <2> HIDE DEF ReadFrom
  <2> QED BY <1>3, <2>4, <2>5, <2>6
<1> QED BY <1>2, <1>3

\* LiveFrom is the function its definition describes, and so is ReadFrom.
LEMMA LiveFromIs ==
    ASSUME NEW g, NEW out, NEW b \in Block, g.code[b] \in Code, out[b] \in SUBSET Value
    PROVE  \A i \in 1..(Len(g.code[b]) + 1) : LiveFrom(g, out, b)[i] = ReadFrom(g.code[b], out[b], i)
<1> DEFINE text == g.code[b]
           n == Len(text)
           Step(f, i) == IF i > n THEN out[b] ELSE (f[i + 1] \ text[i].defs) \cup text[i].uses
           Described(f) == f = [i \in 1..(n + 1) |-> Step(f, i)]
           L == LiveFrom(g, out, b)
           B == [i \in 1..(n + 1) |-> ReadFrom(text, out[b], i)]
<1>1. n \in Nat
  BY DEF Code
<1>2. Described(B)
  <2>1. \A i \in 1..(n + 1) : ReadFrom(text, out[b], i) = Step(B, i)
    <3>1. \A i \in 1..(n + 1) : ~(i > n) => i + 1 \in 1..(n + 1)
      BY <1>1
    <3>2. \A i \in 1..(n + 1) :
             ReadFrom(text, out[b], i) = IF i > n THEN out[b]
                ELSE (ReadFrom(text, out[b], i + 1) \ text[i].defs) \cup text[i].uses
      BY ReadFromSteps
    <3> QED BY <3>1, <3>2
  <2> HIDE DEF Step
  <2> QED BY <2>1
<1>3. L = CHOOSE f : Described(f)
  BY DEF LiveFrom
<1>4. Described(L)
  <2> HIDE DEF Described, L
  <2> QED BY <1>2, <1>3
<1> DEFINE Wrong == {i \in 1..(n + 1) : L[i] # B[i]}
<1>5. SUFFICES Wrong = {}
  BY DEF Wrong
<1>6. ASSUME Wrong # {} PROVE FALSE
  <2>1. Wrong \in SUBSET (1..(n + 1)) /\ n + 1 \in Nat
    BY <1>1
  <2>2. PICK i \in Wrong : \A j \in Wrong : j <= i
    <3> HIDE DEF Wrong
    <3> QED BY <1>6, <2>1, GreatestBelow
  <2>3. i \in 1..(n + 1)
    BY <2>2
  <2>4. L[i] = Step(L, i) /\ B[i] = Step(B, i)
    <3> HIDE DEF Step, L, B
    <3> QED BY <1>2, <1>4, <2>3
  <2>5. CASE i > n
    <3> HIDE DEF L, B
    <3> QED BY <2>2, <2>4, <2>5
  <2>6. CASE ~(i > n)
    <3>1. i + 1 \in 1..(n + 1) /\ ~(i + 1 <= i)
      BY <1>1, <2>3, <2>6
    <3>2. i + 1 \notin Wrong
      <4> HIDE DEF Wrong
      <4> QED BY <2>2, <3>1
    <3>3. L[i + 1] = B[i + 1]
      <4> HIDE DEF L, B
      <4> QED BY <3>1, <3>2
    <3> HIDE DEF L, B
    <3> QED BY <2>2, <2>4, <3>3
  <2> QED BY <2>5, <2>6
<1> QED BY <1>6


\* The answer for a block, one item back at a time.
Unwinds(L, text, out) ==
    \A i \in 1..(Len(text) + 1) :
        L[i] = IF i > Len(text) THEN out ELSE (L[i + 1] \ text[i].defs) \cup text[i].uses

LEMMA LiveFromSteps ==
    ASSUME NEW g, NEW out, NEW b \in Block, g.code[b] \in Code, out[b] \in SUBSET Value
    PROVE  Unwinds(LiveFrom(g, out, b), g.code[b], out[b])
<1> DEFINE text == g.code[b]
           n == Len(text)
           L(i) == LiveFrom(g, out, b)[i]
<1>1. n \in Nat
  BY DEF Code
<1>2. \A i \in 1..(n + 1) : L(i) = ReadFrom(text, out[b], i)
  BY LiveFromIs
<1>3. \A i \in 1..(n + 1) : ReadFrom(text, out[b], i) =
         IF i > n THEN out[b] ELSE (ReadFrom(text, out[b], i + 1) \ text[i].defs) \cup text[i].uses
  BY ReadFromSteps
<1>4. \A i \in 1..(n + 1) : ~(i > n) => i + 1 \in 1..(n + 1)
  BY <1>1
<1> HIDE DEF text, n, L
<1>5. \A i \in 1..(n + 1) : L(i) = IF i > n THEN out[b] ELSE (L(i + 1) \ text[i].defs) \cup text[i].uses
  BY <1>2, <1>3, <1>4
<1> QED BY <1>5 DEF text, n, L, Unwinds

Solved(p, g, in) ==
    /\ g = FlowGraph(p)
    /\ in \in [Block -> SUBSET Value]
    /\ \A b \in Block : in[b] = NewIn(g, in, b)

\* The operands of item i, and the place of its block's first one that runs.
Operands(p, i) == [uses |-> UsesOf(p, i), defs |-> p[i].def]

LEMMA BlockCode ==
    ASSUME Sound, NEW p, WellFormed(p), Selected(p), NEW b \in Leaders(p)
    PROVE  /\ b \in Block
           /\ FlowGraph(p).code[b] \in Code
           /\ Len(FlowGraph(p).code[b]) = LastOf(p, b) + 1 - FirstExecutable(p, b)
           /\ \A k \in 1 .. Len(FlowGraph(p).code[b]) :
                 FlowGraph(p).code[b][k] = Operands(p, FirstExecutable(p, b) + k - 1)
<1>0. PICK f, l : f = FirstExecutable(p, b) /\ l = LastOf(p, b)
  OBVIOUS
<1>1. b \in DOMAIN p /\ b \in Nat /\ l \in DOMAIN p /\ l \in Nat /\ DOMAIN p = 1 .. Len(p) /\ Len(p) \in Nat /\ b <= l
  <2>1. b \in DOMAIN p /\ DOMAIN p = 1 .. Len(p) /\ Len(p) \in Nat
    BY DEF Leaders, WellFormed
  <2>2. l \in DOMAIN p /\ l \in b .. Len(p)
    BY <1>0, <2>1, LastIs
  <2> QED BY <2>1, <2>2
<1>2. f \in Nat /\ b <= f /\ f <= l + 1 /\ l + 1 - f \in Nat
  <2>1. f = b \/ f = b + 1
    BY <1>0 DEF FirstExecutable
  <2> QED BY <1>1, <2>1
<1>3. PICK n \in Nat : n = l + 1 - f
  BY <1>2
<1>4. \A k \in 1 .. n : f + k - 1 \in DOMAIN p
  BY <1>1, <1>2, <1>3
<1>5. \A k \in 1 .. n : Operands(p, f + k - 1) \in [uses : SUBSET Value, defs : SUBSET Value]
  BY <1>4 DEF Operands, Selected, Sound
<1>6. PICK c : c = [k \in 1 .. n |-> Operands(p, f + k - 1)]
  OBVIOUS
<1>7. c \in Code /\ Len(c) = n
  <2>0. PICK S : S = [uses : SUBSET Value, defs : SUBSET Value]
    OBVIOUS
  <2>1. c \in [1 .. n -> S]
    BY <1>5, <1>6, <2>0
  <2>2. Seq(S) = UNION {[1 .. m -> S] : m \in Nat}
    BY SeqDef
  <2>3. c \in Seq(S)
    BY <2>1, <2>2
  <2>4. Len(c) = n
    BY <2>1, <2>3
  <2> QED BY <2>0, <2>3, <2>4 DEF Code
<1>8. b \in Block
  BY <1>1 DEF Selected
<1>9. FlowGraph(p).code[b] = c
  <2>1. FlowGraph(p).code[b] = [k \in 1 .. (LastOf(p, b) + 1 - FirstExecutable(p, b)) |->
            [uses |-> UsesOf(p, FirstExecutable(p, b) + k - 1), defs |-> p[FirstExecutable(p, b) + k - 1].def]]
    BY <1>8 DEF FlowGraph
  <2>2. FlowGraph(p).code[b] = [k \in 1 .. n |-> [uses |-> UsesOf(p, f + k - 1), defs |-> p[f + k - 1].def]]
    BY <1>0, <1>3, <2>1
  <2> QED BY <1>6, <2>2 DEF Operands
<1>10. \A k \in 1 .. n : c[k] = Operands(p, f + k - 1)
  BY <1>6
<1> QED BY <1>0, <1>3, <1>7, <1>8, <1>9, <1>10

\* What is live in block b: before its k-th item that runs, and behind the last.
LiveIn(p, g, in, b) == LiveFrom(g, [x \in Block |-> NewOut(g, in, x)], b)

LEMMA BlockAnswer ==
    ASSUME Sound, NEW p, WellFormed(p), Selected(p), NEW g, NEW in, Solved(p, g, in), NEW b \in Leaders(p),
           NEW n, n = LastOf(p, b) + 1 - FirstExecutable(p, b)
    PROVE  /\ n \in Nat
           /\ LiveIn(p, g, in, b)[n + 1] = NewOut(g, in, b)
           /\ \A k \in 1 .. n : LiveIn(p, g, in, b)[k] =
                  (LiveIn(p, g, in, b)[k + 1] \ p[FirstExecutable(p, b) + k - 1].def)
                      \cup UsesOf(p, FirstExecutable(p, b) + k - 1)
           /\ LiveIn(p, g, in, b)[1] = in[b]
<1>0. PICK out, f, c, L : /\ out = [x \in Block |-> NewOut(g, in, x)] /\ f = FirstExecutable(p, b)
                          /\ c = g.code[b] /\ L = LiveIn(p, g, in, b)
  OBVIOUS
<1>1. /\ b \in Block /\ c \in Code /\ Len(c) = n
      /\ \A k \in 1 .. n : c[k] = Operands(p, f + k - 1)
  BY <1>0, BlockCode DEF Solved
<1>2. n \in Nat /\ DOMAIN c = 1 .. n
  BY <1>1 DEF Code
<1>3. out[b] = NewOut(g, in, b) /\ out[b] \in SUBSET Value
  BY <1>0, <1>1 DEF NewOut
<1>4. L = LiveFrom(g, out, b)
  BY <1>0 DEF LiveIn
<1>5. \A i \in 1 .. n + 1 : L[i] = IF i > n THEN out[b] ELSE (L[i + 1] \ c[i].defs) \cup c[i].uses
  <2>1. g.code[b] \in Code /\ out[b] \in SUBSET Value
    BY <1>0, <1>1, <1>3
  <2>2. Unwinds(LiveFrom(g, out, b), g.code[b], out[b])
    BY <1>1, <2>1, LiveFromSteps
  <2>3. Unwinds(L, c, out[b])
    BY <1>0, <1>4, <2>2
  <2> QED BY <1>1, <2>3 DEF Unwinds
<1>6. L[n + 1] = out[b]
  <2>1. n + 1 \in 1 .. n + 1 /\ n + 1 > n
    BY <1>2
  <2> QED BY <1>5, <2>1
<1>7. ASSUME NEW k \in 1 .. n PROVE L[k] = (L[k + 1] \ p[f + k - 1].def) \cup UsesOf(p, f + k - 1)
  <2>1. k \in 1 .. n + 1 /\ ~(k > n)
    BY <1>2
  <2>2. c[k].defs = p[f + k - 1].def /\ c[k].uses = UsesOf(p, f + k - 1)
    BY <1>1 DEF Operands
  <2> QED BY <1>5, <2>1, <2>2
<1>8. L[1] = in[b]
  <2>1. L[1] = ReadFrom(c, out[b], 1)
    BY <1>0, <1>1, <1>2, <1>3, <1>4, LiveFromIs
  <2>2. Uses(g, b) = {v \in Value : \E k \in 1..n : v \in c[k].uses /\ \A j \in 1..(k - 1) : v \notin c[j].defs}
    BY <1>0, <1>2 DEF Uses
  <2>3. Defs(g, b) = {v \in Value : \E k \in 1..n : v \in c[k].defs}
    BY <1>0, <1>2 DEF Defs
  <2>4. ReadFrom(c, out[b], 1) = Uses(g, b) \cup (out[b] \ Defs(g, b))
    BY <1>1, <1>3, <2>2, <2>3 DEF ReadFrom
  <2> QED BY <1>1, <1>3, <2>1, <2>4 DEF Solved, NewIn
<1> QED BY <1>0, <1>2, <1>3, <1>6, <1>7, <1>8

(***************************************************************************)
(* What the analysis answers of items that follow each other: in a block,  *)
(* behind it, and where its last item goes.                                *)
(***************************************************************************)
Flows(p, after, across) ==
    /\ \A i \in DOMAIN p : after[i] \subseteq Value
    /\ \A i \in DOMAIN p : i + 1 \in DOMAIN p /\ ~Leads(p, i + 1) => after[i] = BlockIn(p, after, i + 1)
    /\ \A e \in Edges(p) : /\ BlockIn(p, after, e.to) \subseteq after[LastOf(p, e.from)]
                           /\ BlockIn(p, after, e.to) \subseteq across

LEMMA ItemAnswer ==
    ASSUME Sound, NEW p, WellFormed(p), Selected(p), NEW g, NEW in, Solved(p, g, in), NEW i \in DOMAIN p,
           NEW b, b = BlockOf(p, i), NEW f, f = FirstExecutable(p, b)
    PROVE  /\ i + 1 - f \in Nat /\ i <= LastOf(p, b) /\ b \in Leaders(p)
           /\ LiveAfterItems(p, g, in)[i] = LiveIn(p, g, in, b)[i + 1 - f + 1]
           /\ IsLabel(p, i) => i + 1 - f = 0
           /\ ~IsLabel(p, i) =>
                 /\ i + 1 - f \in 1 .. (LastOf(p, b) + 1 - f)
                 /\ BlockIn(p, LiveAfterItems(p, g, in), i) = LiveIn(p, g, in, b)[i + 1 - f]
<1>0. PICK l, L, after : l = LastOf(p, b) /\ L = LiveIn(p, g, in, b) /\ after = LiveAfterItems(p, g, in)
  OBVIOUS
<1>1. /\ i \in Nat /\ b \in Nat /\ l \in Nat /\ b <= i /\ i <= l /\ b \in Leaders(p)
      /\ i \in Leaders(p) => b = i
  <2>1. DOMAIN p = 1 .. Len(p) /\ Len(p) \in Nat
    BY DEF WellFormed
  <2>2. b \in Leaders(p) /\ i \in b .. l /\ (i \in Leaders(p) => b = i)
    BY <1>0, BlockIs, InBlock
  <2>3. b \in 1 .. Len(p)
    BY <2>1, <2>2 DEF Leaders
  <2>4. l \in DOMAIN p
    BY <1>0, <2>2, LastIs DEF Leaders
  <2> QED BY <2>1, <2>2, <2>3, <2>4
<1>2. IsLabel(p, i) => i = b /\ f = b + 1
  BY <1>1 DEF Leaders, Leads, FirstExecutable
<1>3. ~IsLabel(p, i) => f <= i /\ f \in Nat
  <2>1. f = IF IsLabel(p, b) THEN b + 1 ELSE b
    BY DEF FirstExecutable
  <2> QED BY <1>1, <2>1
<1>4. i + 1 - f \in Nat /\ (IsLabel(p, i) => i + 1 - f = 0) /\ (~IsLabel(p, i) => i + 1 - f \in 1 .. (l + 1 - f))
  BY <1>1, <1>2, <1>3
<1>5. after[i] = L[i + 1 - f + 1]
  <2>1. after[i] = L[2 + i - f]
    BY <1>0 DEF LiveAfterItems, LiveIn
  <2>2. 2 + i - f = i + 1 - f + 1
    BY <1>1, <1>2, <1>3
  <2> QED BY <2>1, <2>2
<1>6. ASSUME ~IsLabel(p, i) PROVE BlockIn(p, after, i) = L[i + 1 - f]
  <2>1. f + (i + 1 - f) - 1 = i
    BY <1>1, <1>3, <1>6
  <2>2. L[i + 1 - f] = (L[i + 1 - f + 1] \ p[f + (i + 1 - f) - 1].def) \cup UsesOf(p, f + (i + 1 - f) - 1)
    BY <1>0, <1>1, <1>4, <1>6, BlockAnswer
  <2> QED BY <1>5, <1>6, <2>1, <2>2 DEF BlockIn
<1> QED BY <1>0, <1>1, <1>4, <1>5, <1>6

\* What it answers of a block's two ends.
LEMMA LeaderAnswer ==
    ASSUME Sound, NEW p, WellFormed(p), Selected(p), NEW g, NEW in, Solved(p, g, in), NEW b \in Leaders(p)
    PROVE  /\ b \in Block /\ b \in DOMAIN p /\ in[b] \subseteq Value
           /\ BlockIn(p, LiveAfterItems(p, g, in), b) = in[b]
           /\ LiveAfterItems(p, g, in)[LastOf(p, b)] = NewOut(g, in, b)
<1>1. DOMAIN p = 1 .. Len(p) /\ Len(p) \in Nat
  BY DEF WellFormed
<1>2. PICK after : after = LiveAfterItems(p, g, in)
  OBVIOUS
<1>3. PICK f, l, n : f = FirstExecutable(p, b) /\ l = LastOf(p, b) /\ n = l + 1 - f
  OBVIOUS
<1>4. b \in Block /\ b \in DOMAIN p /\ in[b] \subseteq Value
  BY BlockCode DEF Leaders, Solved
<1>5. b \in Nat /\ l \in DOMAIN p /\ BlockOf(p, b) = b /\ BlockOf(p, l) = b
  <2>1. BlockOf(p, b) = b
    BY <1>4, InBlock
  <2>2. l \in DOMAIN p /\ BlockOf(p, l) = b
    BY <1>3, LastOfBlock
  <2> QED BY <1>1, <1>4, <2>1, <2>2
<1>6. LiveIn(p, g, in, b)[n + 1] = NewOut(g, in, b) /\ LiveIn(p, g, in, b)[1] = in[b] /\ n \in Nat
  BY <1>3, BlockAnswer
<1>7. after[l] = LiveIn(p, g, in, b)[n + 1]
  BY <1>2, <1>3, <1>5, ItemAnswer
<1>8. BlockIn(p, after, b) = LiveIn(p, g, in, b)[1]
  <2>1. CASE IsLabel(p, b)
    <3>1. after[b] = LiveIn(p, g, in, b)[b + 1 - f + 1] /\ b + 1 - f = 0
      BY <1>2, <1>3, <1>4, <1>5, <2>1, ItemAnswer
    <3> QED BY <2>1, <3>1 DEF BlockIn
  <2>2. CASE ~IsLabel(p, b)
    <3>1. BlockIn(p, after, b) = LiveIn(p, g, in, b)[b + 1 - f]
      BY <1>2, <1>3, <1>4, <1>5, <2>2, ItemAnswer
    <3>2. b + 1 - f = 1
      BY <1>3, <1>5, <2>2 DEF FirstExecutable
    <3> QED BY <3>1, <3>2
  <2> QED BY <2>1, <2>2
<1> QED BY <1>2, <1>3, <1>4, <1>6, <1>7, <1>8

LEMMA AnswerFlows ==
    ASSUME Sound, NEW p, WellFormed(p), Selected(p), NEW g, NEW in, Solved(p, g, in)
    PROVE  Flows(p, LiveAfterItems(p, g, in), LiveOnEdges(p, g, in))
<1>0. PICK after, across : after = LiveAfterItems(p, g, in) /\ across = LiveOnEdges(p, g, in)
  OBVIOUS
<1>1. DOMAIN p = 1 .. Len(p) /\ Len(p) \in Nat
  BY DEF WellFormed
<1>2. \A b \in Leaders(p) :
          /\ b \in Block /\ b \in DOMAIN p /\ in[b] \subseteq Value
          /\ BlockIn(p, after, b) = in[b] /\ after[LastOf(p, b)] = NewOut(g, in, b)
  BY <1>0, LeaderAnswer
<1>3. ASSUME NEW i \in DOMAIN p PROVE after[i] \subseteq Value
  <2>0. PICK b, f, m, n : b = BlockOf(p, i) /\ f = FirstExecutable(p, b) /\ m = i + 1 - f /\ n = LastOf(p, b) + 1 - f
    OBVIOUS
  <2>1. m \in Nat /\ b \in Leaders(p) /\ after[i] = LiveIn(p, g, in, b)[m + 1] /\ i <= LastOf(p, b)
    BY <1>0, <2>0, ItemAnswer
  <2>2. /\ n \in Nat /\ LiveIn(p, g, in, b)[n + 1] = NewOut(g, in, b)
        /\ \A k \in 1 .. n : LiveIn(p, g, in, b)[k] =
              (LiveIn(p, g, in, b)[k + 1] \ p[f + k - 1].def) \cup UsesOf(p, f + k - 1)
    BY <2>0, <2>1, BlockAnswer
  <2>3. LiveIn(p, g, in, b)[m + 1] \subseteq Value
    <3>1. b \in Block /\ FlowGraph(p).code[b] \in Code /\ Len(FlowGraph(p).code[b]) = n
      BY <2>0, <2>1, BlockCode
    <3>2. PICK out : out = [x \in Block |-> NewOut(g, in, x)]
      OBVIOUS
    <3>3. out[b] \in SUBSET Value /\ g.code[b] \in Code /\ Len(g.code[b]) = n
      BY <3>1, <3>2 DEF NewOut, Solved
    <3>4. m + 1 \in 1 .. n + 1
      <4>1. m <= n
        <5>1. i \in Nat /\ LastOf(p, b) \in Nat /\ f \in Nat
          <6>1. LastOf(p, b) \in DOMAIN p /\ b \in DOMAIN p
            BY <2>1, LastIs DEF Leaders
          <6> QED BY <1>1, <2>0, <6>1 DEF FirstExecutable
        <5> QED BY <2>0, <2>1, <5>1
      <4> QED BY <2>1, <2>2, <4>1
    <3>5. LiveFrom(g, out, b)[m + 1] = ReadFrom(g.code[b], out[b], m + 1)
      BY <3>1, <3>3, <3>4, LiveFromIs
    <3>6. LiveIn(p, g, in, b)[m + 1] = ReadFrom(g.code[b], out[b], m + 1)
      BY <3>2, <3>5 DEF LiveIn
    <3> QED BY <3>6 DEF ReadFrom
  <2> QED BY <2>1, <2>3
<1>4. ASSUME NEW i \in DOMAIN p, i + 1 \in DOMAIN p, ~Leads(p, i + 1)
      PROVE  after[i] = BlockIn(p, after, i + 1)
  <2>0. PICK b, f : b = BlockOf(p, i) /\ f = FirstExecutable(p, b)
    OBVIOUS
  <2>1. BlockOf(p, i + 1) = b /\ ~IsLabel(p, i + 1)
    BY <1>4, <2>0, InBlock DEF Leads
  <2>2. after[i] = LiveIn(p, g, in, b)[i + 1 - f + 1] /\ i + 1 - f \in Nat
    BY <1>0, <2>0, ItemAnswer
  <2>3. BlockIn(p, after, i + 1) = LiveIn(p, g, in, b)[i + 1 + 1 - f]
    BY <1>0, <1>4, <2>0, <2>1, ItemAnswer
  <2>4. i + 1 + 1 - f = i + 1 - f + 1
    <3>1. b \in Leaders(p) /\ DOMAIN p \subseteq Nat
      BY <1>1, <2>0, BlockIs
    <3>2. b \in Nat /\ i \in Nat
      BY <3>1 DEF Leaders
    <3> QED BY <2>0, <3>2 DEF FirstExecutable
  <2> QED BY <2>2, <2>3, <2>4
<1>5. ASSUME NEW e \in Edges(p)
      PROVE  BlockIn(p, after, e.to) \subseteq after[LastOf(p, e.from)] /\ BlockIn(p, after, e.to) \subseteq across
  <2>1. e.from \in Leaders(p) /\ e.to \in Leaders(p)
    BY EdgeIs
  <2>2. e.from \in Block /\ e.to \in Block /\ BlockIn(p, after, e.to) = in[e.to]
        /\ after[LastOf(p, e.from)] = NewOut(g, in, e.from) /\ in[e.to] \subseteq Value
    BY <1>2, <2>1
  <2>3. e.to \in g.succ[e.from]
    BY <2>2 DEF Solved, FlowGraph
  <2>4. Across(g, in, e.from, e.to) = in[e.to]
    <3>1. g.phi_defs[e.to] = {} /\ g.edge_uses[<<e.from, e.to>>] = {}
      BY <2>2 DEF Solved, FlowGraph
    <3> QED BY <3>1 DEF Across
  <2>5. in[e.to] \subseteq NewOut(g, in, e.from)
    BY <2>2, <2>3, <2>4 DEF NewOut
  <2>6. in[e.to] \subseteq across
    BY <1>0, <2>4 DEF LiveOnEdges
  <2> QED BY <2>2, <2>5, <2>6
<1> QED BY <1>0, <1>3, <1>4, <1>5 DEF Flows

-----------------------------------------------------------------------------
(***************************************************************************)
(* What is known of the machine between two instructions: the values that  *)
(* a register holds, and those that their slots do.  A program's variable  *)
(* that was never written has no value to be held.                         *)
(*                                                                         *)
(* What is known behind an instruction has to follow from what was known   *)
(* before it, and an item has to find its operands where it looks for them.*)
(***************************************************************************)
Saves == {"spill", "reload"}

Stores(B, ins, C) ==
    /\ ins.does = "spill" /\ ins.reg \in Reg /\ ins.vreg \in Vreg
    /\ \A r \in Reg : C.held[r] \subseteq B.held[r]
    /\ \A v \in C.stored : IF v = ins.vreg THEN v \in B.held[ins.reg] ELSE v \in B.stored

Loads(B, ins, C) ==
    /\ ins.does = "reload" /\ ins.reg \in Reg /\ ins.vreg \in Vreg
    /\ \A r \in Reg : \A v \in C.held[r] :
           IF r = ins.reg THEN v = ins.vreg /\ v \in B.stored ELSE v \in B.held[r]
    /\ C.stored \subseteq B.stored

Runs(i, B, ins, C) ==
    /\ ins.does = program[i].does /\ ins.def \subseteq Reg
    /\ \A n \in DOMAIN program[i].uses : ins.uses[n] \in Reg /\ program[i].uses[n] \in B.held[ins.uses[n]]
    /\ \A r \in Reg : \A v \in C.held[r] :
           /\ IF v \in program[i].def THEN r \in ins.def ELSE r \notin ins.def /\ v \in B.held[r]
           /\ program[i].does = "call" => r \notin CallerSaved
    /\ C.stored \subseteq B.stored \ program[i].def

Emits(i, B, ins, C) == Stores(B, ins, C) \/ Loads(B, ins, C) \/ Runs(i, B, ins, C)

Trace(i, out, tr) == \A k \in 1 .. Len(out) : Emits(i, tr[k - 1], out[k], tr[k])
Reaches(i, A, out, B) == \E tr : tr[0] = A /\ tr[Len(out)] = B /\ Trace(i, out, tr)

LEMMA ReachesNothing == ASSUME NEW i, NEW A PROVE Reaches(i, A, <<>>, A)
<1>1. Len(<<>>) = 0 /\ 1 .. 0 = {}
  OBVIOUS
<1>2. PICK tr : tr = [k \in {0} |-> A]
  OBVIOUS
<1>3. tr[0] = A /\ tr[Len(<<>>)] = A /\ Trace(i, <<>>, tr)
  BY <1>1, <1>2 DEF Trace
<1> QED BY <1>3 DEF Reaches

LEMMA ReachesMore ==
    ASSUME NEW i, NEW A, NEW out, Len(out) \in Nat, NEW B, Reaches(i, A, out, B),
           NEW ins, NEW C, Emits(i, B, ins, C)
    PROVE  Reaches(i, A, Append(out, ins), C)
<1>0. PICK N, more : N = Len(out) /\ more = Append(out, ins)
  OBVIOUS
<1>1. N \in Nat /\ Len(more) = N + 1 /\ more[N + 1] = ins /\ \A k \in 1 .. N : more[k] = out[k]
  BY <1>0
<1>2. PICK tr : tr[0] = A /\ tr[N] = B /\ Trace(i, out, tr)
  BY <1>0 DEF Reaches
<1>3. PICK to : to = [k \in 0 .. N + 1 |-> IF k = N + 1 THEN C ELSE tr[k]]
  OBVIOUS
<1>4. to[0] = A /\ to[N] = B /\ to[N + 1] = C /\ \A k \in 0 .. N : to[k] = tr[k]
  <2>1. 0 \in 0 .. N + 1 /\ 0 # N + 1 /\ N \in 0 .. N + 1 /\ N # N + 1 /\ N + 1 \in 0 .. N + 1
        /\ \A k \in 0 .. N : k \in 0 .. N + 1 /\ k # N + 1
    BY <1>1
  <2> QED BY <1>2, <1>3, <2>1
<1>5. ASSUME NEW k \in 1 .. N + 1 PROVE Emits(i, to[k - 1], more[k], to[k])
  <2>1. CASE k = N + 1
    <3>1. k - 1 = N
      BY <1>1, <2>1
    <3> QED BY <1>1, <1>4, <2>1, <3>1
  <2>2. CASE k # N + 1
    <3>1. k \in 1 .. N /\ k - 1 \in 0 .. N /\ k \in 0 .. N
      BY <1>1, <2>2
    <3>2. Emits(i, tr[k - 1], out[k], tr[k])
      BY <1>0, <1>2, <3>1 DEF Trace
    <3> QED BY <1>1, <1>4, <3>1, <3>2
  <2> QED BY <2>1, <2>2
<1>6. Trace(i, more, to)
  BY <1>1, <1>5 DEF Trace
<1> QED BY <1>0, <1>1, <1>4, <1>6 DEF Reaches

(***************************************************************************)
(* The fields of the allocator's state behind each of its steps.           *)
(***************************************************************************)
SavedTo(s, v, ins, t) ==
    /\ State(t) /\ t.pool = s.pool /\ t.refused = s.refused
    /\ t.clean = s.clean \cup {v} /\ t.slots = s.slots \cup {v} /\ t.out = Append(s.out, ins)

Placed(s, r, w, t) ==
    /\ State(t) /\ t.refused = s.refused /\ t.clean = s.clean /\ t.slots = s.slots /\ t.out = s.out
    /\ t.pool[r] = w /\ \A q \in Reg : q # r => t.pool[q] = s.pool[q]

LEMMA SaveFields ==
    ASSUME NEW s, State(s), NEW v, NEW r, NEW ins, NEW t,
           \/ ins = SpillTo(v, r) /\ t = EmitSpill(s, v, r)
           \/ ins = ReloadFrom(v, r) /\ t = EmitReload(s, v, r)
    PROVE  SavedTo(s, v, ins, t)
<1>1. PICK out, clean, slots : out = Append(s.out, ins) /\ clean = s.clean \cup {v} /\ slots = s.slots \cup {v}
  OBVIOUS
<1>2. t = [s EXCEPT !.out = out, !.clean = clean, !.slots = slots]
  BY <1>1 DEF EmitSpill, EmitReload
<1>3. t = With(s, out, clean, slots)
  BY <1>2 DEF With
<1>4. Still(s, t)
  BY <1>3, WithIsStill
<1>5. t = [pool |-> s.pool, clean |-> clean, slots |-> slots, out |-> out, refused |-> s.refused]
  BY <1>2 DEF State
<1>6. t.clean = clean /\ t.slots = slots /\ t.out = out
  BY <1>5
<1> QED BY <1>1, <1>4, <1>6 DEF Still, SavedTo

LEMMA SpillFields ==
    ASSUME NEW s, State(s), NEW v, NEW r
    PROVE  SavedTo(s, v, SpillTo(v, r), EmitSpill(s, v, r))
<1>1. PICK ins, t : ins = SpillTo(v, r) /\ t = EmitSpill(s, v, r)
  OBVIOUS
<1>2. SavedTo(s, v, ins, t)
  BY <1>1, SaveFields
<1> QED BY <1>1, <1>2

LEMMA ReloadFields ==
    ASSUME NEW s, State(s), NEW v, NEW r
    PROVE  SavedTo(s, v, ReloadFrom(v, r), EmitReload(s, v, r))
<1>1. PICK ins, t : ins = ReloadFrom(v, r) /\ t = EmitReload(s, v, r)
  OBVIOUS
<1>2. SavedTo(s, v, ins, t)
  BY <1>1, SaveFields
<1> QED BY <1>1, <1>2

LEMMA PlaceFields ==
    ASSUME NEW s, State(s), NEW r \in Reg, NEW w, NEW t, t = [s EXCEPT !.pool[r] = w],
           \A q \in Reg : s.pool[q] = w => w = None
    PROVE  Placed(s, r, w, t)
<1>1. PICK pool : pool = [s.pool EXCEPT ![r] = w]
  OBVIOUS
<1>2. t = [s EXCEPT !.pool = pool]
  BY <1>1
<1>3. PICK a, b, c, d : a = s.clean /\ b = s.slots /\ c = s.out /\ d = s.refused
  OBVIOUS
<1>4. /\ t.pool = pool /\ t.clean = s.clean /\ t.slots = s.slots /\ t.out = s.out /\ t.refused = s.refused
      /\ t = [pool |-> t.pool, clean |-> t.clean, slots |-> t.slots, out |-> t.out, refused |-> t.refused]
  <2>1. s = [pool |-> s.pool, clean |-> a, slots |-> b, out |-> c, refused |-> d]
    BY <1>3 DEF State
  <2>2. t = [pool |-> pool, clean |-> a, slots |-> b, out |-> c, refused |-> d]
    BY <1>2, <2>1
  <2>3. t.pool = pool /\ t.clean = a /\ t.slots = b /\ t.out = c /\ t.refused = d
    BY <2>2
  <2> QED BY <1>3, <2>2, <2>3
<1>5. pool = [q \in Reg |-> IF q = r THEN w ELSE s.pool[q]]
  BY <1>1 DEF State
<1>6. Distinct(pool)
  BY <1>5 DEF State, Distinct
<1>7. pool = [q \in Reg |-> pool[q]] /\ pool[r] = w /\ \A q \in Reg : q # r => pool[q] = s.pool[q]
  BY <1>5
<1>8. State(t)
  BY <1>4, <1>6, <1>7 DEF State
<1> QED BY <1>4, <1>7, <1>8 DEF Placed

-----------------------------------------------------------------------------
(***************************************************************************)
(* The allocator's state is true of the machine as far as the values that  *)
(* are still needed go: who has a register is in it, who has none, or is   *)
(* clean, is in its slot, and nobody has neither.                          *)
(***************************************************************************)
Ready(s, need, B) ==
    /\ \A r \in Reg : s.pool[r] \in need => s.pool[r] \in B.held[r]
    /\ \A v \in need : ~Mapped(s, v) \/ v \in s.clean => v \in B.stored
    /\ \A v \in need : Mapped(s, v) \/ v \in s.slots
    /\ s.clean \subseteq s.slots

(***************************************************************************)
(* In the middle of an item, c: what has been emitted for it leads from    *)
(* what was known before it to what the state needs, keeps these values'   *)
(* slots, and leaves the operands resolved so far where they are.          *)
(***************************************************************************)
OnlySaves(c, out) ==
    /\ Len(out) \in Nat /\ (Len(out) = 0 => out = <<>> /\ c.besides = {})
    /\ \A k \in 1 .. Len(out) : out[k].does \in Saves \cup c.besides
Pinned(i, regs_, B) ==
    \A n \in 1 .. Len(regs_) : regs_[n] \in Reg /\ program[i].uses[n] \in B.held[regs_[n]]

Secured(c, s, need, pins) ==
    /\ State(s) /\ OnlySaves(c, s.out) /\ c.kept \subseteq s.slots
    /\ \E B : Reaches(c.item, c.from, s.out, B) /\ Ready(s, need, B) /\ Pinned(c.item, pins, B)

LEMMA OneMoreSave ==
    ASSUME NEW c, NEW out, OnlySaves(c, out), NEW ins, ins.does \in Saves
    PROVE  OnlySaves(c, Append(out, ins))
<1>1. PICK more : more = Append(out, ins)
  OBVIOUS
<1>2. Len(out) \in Nat /\ Len(more) = Len(out) + 1 /\ more[Len(out) + 1] = ins
      /\ \A k \in 1 .. Len(out) : more[k] = out[k]
  BY <1>1 DEF OnlySaves
<1>3. \A k \in 1 .. Len(more) : k = Len(out) + 1 \/ k \in 1 .. Len(out)
  BY <1>2
<1>4. \A k \in 1 .. Len(more) : more[k].does \in Saves \cup c.besides
  BY <1>2, <1>3 DEF OnlySaves
<1> QED BY <1>1, <1>2, <1>4 DEF OnlySaves

\* A value is saved from its register.
LEMMA SpillSecured ==
    ASSUME NEW c, NEW s, NEW need, NEW pins, Secured(c, s, need, pins),
           NEW r \in Reg, NEW v \in Vreg, s.pool[r] = v, NEW t, t = EmitSpill(s, v, r)
    PROVE  Secured(c, t, need, pins)
<1>1. PICK B : Reaches(c.item, c.from, s.out, B) /\ Ready(s, need, B) /\ Pinned(c.item, pins, B)
  BY DEF Secured
<1>2. PICK ins : ins = SpillTo(v, r)
  OBVIOUS
<1>3. /\ State(t) /\ t.pool = s.pool /\ t.clean = s.clean \cup {v} /\ t.slots = s.slots \cup {v}
      /\ t.out = Append(s.out, ins)
  <2>1. State(s)
    BY DEF Secured
  <2>2. SavedTo(s, v, ins, t)
    BY <1>2, <2>1, SpillFields
  <2> QED BY <2>2 DEF SavedTo
<1>4. PICK stored : stored = (B.stored \ {v}) \cup (IF v \in B.held[r] THEN {v} ELSE {})
  OBVIOUS
<1>5. PICK C : C = [held |-> B.held, stored |-> stored]
  OBVIOUS
<1>6. C.held = B.held /\ C.stored = stored /\ ins.does = "spill" /\ ins.reg = r /\ ins.vreg = v
  BY <1>2, <1>5 DEF SpillTo
<1>7. Emits(c.item, B, ins, C)
  BY <1>4, <1>6 DEF Emits, Stores
<1>8. Reaches(c.item, c.from, t.out, C)
  BY <1>1, <1>3, <1>7, ReachesMore DEF Secured, OnlySaves
<1>9. Ready(t, need, C)
  <2>1. \A w : Mapped(t, w) <=> Mapped(s, w)
    BY <1>3 DEF Mapped
  <2>2. v \in need => v \in B.held[r]
    BY <1>1 DEF Ready
  <2>3. \A w \in need : ~Mapped(t, w) \/ w \in t.clean => w \in C.stored
    BY <1>1, <1>3, <1>4, <1>6, <2>1, <2>2 DEF Ready
  <2> QED BY <1>1, <1>3, <1>6, <2>1, <2>3 DEF Ready
<1>10. Pinned(c.item, pins, C) /\ OnlySaves(c, t.out) /\ c.kept \subseteq t.slots
  <2>1. OnlySaves(c, t.out)
    BY <1>3, <1>6, OneMoreSave DEF Secured, Saves
  <2> QED BY <1>1, <1>3, <1>6, <2>1 DEF Pinned, Secured
<1> QED BY <1>3, <1>8, <1>9, <1>10 DEF Secured

LEMMA SavedIfStale ==
    ASSUME NEW c, NEW s, NEW need, NEW pins, Secured(c, s, need, pins),
           NEW r \in Reg, NEW live \in SUBSET Vreg, NEW t, t = SpillIfStale(s, s.pool[r], r, live)
    PROVE  /\ Secured(c, t, need, pins) /\ Still(s, t)
           /\ s.pool[r] \in live => s.pool[r] \in t.clean
           /\ s.clean \subseteq t.clean
<1>1. State(s)
  BY DEF Secured
<1>2. PICK v : v = s.pool[r]
  OBVIOUS
<1>3. CASE v \in live /\ v \notin s.clean
  <2>1. t = EmitSpill(s, v, r) /\ v \in Vreg
    BY <1>2, <1>3 DEF SpillIfStale
  <2>2. Secured(c, t, need, pins)
    BY <1>2, <2>1, SpillSecured
  <2>3. PICK ins : ins = SpillTo(v, r)
    OBVIOUS
  <2>4. State(t) /\ t.pool = s.pool /\ t.refused = s.refused /\ t.clean = s.clean \cup {v}
    <3>1. SavedTo(s, v, ins, t)
      BY <1>1, <2>1, <2>3, SpillFields
    <3> QED BY <3>1 DEF SavedTo
  <2> QED BY <1>2, <2>2, <2>4 DEF Still
<1>4. CASE ~(v \in live /\ v \notin s.clean)
  <2>1. t = s
    BY <1>2, <1>4 DEF SpillIfStale
  <2> QED BY <1>1, <1>2, <1>4, <2>1 DEF Still
<1> QED BY <1>3, <1>4

(***************************************************************************)
(* A register is given to somebody who is not needed yet, or to nobody.    *)
(***************************************************************************)
LEMMA GivenAway ==
    ASSUME NEW c, NEW s, NEW need, NEW pins, Secured(c, s, need, pins),
           NEW r \in Reg, s.pool[r] \in need => s.pool[r] \in s.clean,
           NEW w, w \notin need, \A q \in Reg : s.pool[q] = w => w = None,
           NEW t, t = [s EXCEPT !.pool[r] = w]
    PROVE  Secured(c, t, need, pins)
<1>1. PICK B : Reaches(c.item, c.from, s.out, B) /\ Ready(s, need, B) /\ Pinned(c.item, pins, B)
  BY DEF Secured
<1>2. /\ State(t) /\ t.clean = s.clean /\ t.slots = s.slots /\ t.out = s.out
      /\ t.pool[r] = w /\ \A q \in Reg : q # r => t.pool[q] = s.pool[q]
  <2>1. State(s)
    BY DEF Secured
  <2>2. Placed(s, r, w, t)
    BY <2>1, PlaceFields
  <2> QED BY <2>2 DEF Placed
<1>3. Ready(t, need, B)
  <2>1. \A q \in Reg : t.pool[q] \in need => t.pool[q] \in B.held[q]
    BY <1>1, <1>2 DEF Ready
  <2>2. ASSUME NEW v \in need, ~Mapped(t, v) PROVE v \in B.stored /\ v \in s.slots
    <3>1. \A q \in Reg : s.pool[q] = v => q = r
      BY <1>2, <2>2 DEF Mapped
    <3>2. Mapped(s, v) => v \in s.clean
      BY <3>1 DEF Mapped
    <3> QED BY <1>1, <3>2 DEF Ready
  <2>3. \A v \in need : v \in s.clean => v \in B.stored
    BY <1>1 DEF Ready
  <2>4. s.clean \subseteq s.slots
    BY <1>1 DEF Ready
  <2> QED BY <1>2, <2>1, <2>2, <2>3, <2>4 DEF Ready
<1> QED BY <1>1, <1>2, <1>3 DEF Secured

(***************************************************************************)
(* A register is given to a value that is loaded from its slot.            *)
(***************************************************************************)
LEMMA LoadSecured ==
    ASSUME NEW c, NEW s, NEW need, NEW pins, Secured(c, s, need, pins),
           NEW r \in Reg, s.pool[r] \in need => s.pool[r] \in s.clean,
           NEW v \in Vreg, v # None, v \in need, ~Mapped(s, v),
           \A n \in 1 .. Len(pins) : pins[n] # r,
           NEW placed, Placed(s, r, v, placed), NEW t, SavedTo(placed, v, ReloadFrom(v, r), t)
    PROVE  Secured(c, t, need, pins) /\ t.pool = placed.pool /\ t.refused = s.refused
<1>1. PICK B : Reaches(c.item, c.from, s.out, B) /\ Ready(s, need, B) /\ Pinned(c.item, pins, B)
  BY DEF Secured
<1>2. PICK ins : ins = ReloadFrom(v, r)
  OBVIOUS
<1>3. /\ State(placed) /\ placed.clean = s.clean /\ placed.slots = s.slots /\ placed.out = s.out
      /\ placed.pool[r] = v /\ \A q \in Reg : q # r => placed.pool[q] = s.pool[q]
      /\ placed.refused = s.refused
  BY DEF Placed
<1>4. /\ State(t) /\ t.pool = placed.pool /\ t.clean = s.clean \cup {v} /\ t.slots = s.slots \cup {v}
      /\ t.out = Append(s.out, ins) /\ t.refused = placed.refused
  BY <1>2, <1>3 DEF SavedTo
<1>5. PICK held : held = [q \in Reg |-> IF q = r THEN {v} ELSE B.held[q]]
  OBVIOUS
<1>6. PICK C : C = [held |-> held, stored |-> B.stored]
  OBVIOUS
<1>7. /\ C.stored = B.stored /\ C.held[r] = {v} /\ \A q \in Reg : q # r => C.held[q] = B.held[q]
      /\ ins.does = "reload" /\ ins.reg = r /\ ins.vreg = v
  BY <1>2, <1>5, <1>6 DEF ReloadFrom
<1>8. v \in B.stored
  BY <1>1 DEF Ready
<1>9. Emits(c.item, B, ins, C)
  BY <1>7, <1>8 DEF Emits, Loads
<1>10. Reaches(c.item, c.from, t.out, C)
  <2>1. Len(s.out) \in Nat
    BY DEF Secured, OnlySaves
  <2>2. Reaches(c.item, c.from, Append(s.out, ins), C)
    BY <1>1, <1>9, <2>1, ReachesMore
  <2> QED BY <1>4, <2>2
<1>11. Ready(t, need, C)
  <2>1. \A q \in Reg : t.pool[q] \in need => t.pool[q] \in C.held[q]
    BY <1>1, <1>3, <1>4, <1>7 DEF Ready
  <2>2. ASSUME NEW w \in need, ~Mapped(t, w) \/ w \in t.clean PROVE w \in C.stored
    <3>1. CASE w = v
      BY <1>7, <1>8, <3>1
    <3>2. CASE w # v /\ w \in t.clean
      BY <1>1, <1>4, <1>7, <3>2 DEF Ready
    <3>3. CASE w # v /\ ~Mapped(t, w)
      <4>1. \A q \in Reg : s.pool[q] = w => q = r
        BY <1>3, <1>4, <3>3 DEF Mapped
      <4>2. Mapped(s, w) => w \in s.clean
        BY <4>1 DEF Mapped
      <4> QED BY <1>1, <1>7, <4>2 DEF Ready
    <3> QED BY <2>2, <3>1, <3>2, <3>3
  <2>3. ASSUME NEW w \in need, ~Mapped(t, w) PROVE w \in t.slots
    <3>1. w # v
      BY <1>3, <1>4, <2>3 DEF Mapped
    <3>2. \A q \in Reg : s.pool[q] = w => q = r
      BY <1>3, <1>4, <2>3 DEF Mapped
    <3>3. Mapped(s, w) => w \in s.clean
      BY <3>2 DEF Mapped
    <3> QED BY <1>1, <1>4, <3>3 DEF Ready
  <2>4. t.clean \subseteq t.slots
    BY <1>1, <1>4 DEF Ready
  <2> QED BY <2>1, <2>2, <2>3, <2>4 DEF Ready
<1>12. Pinned(c.item, pins, C) /\ OnlySaves(c, t.out) /\ c.kept \subseteq t.slots
  <2>1. OnlySaves(c, t.out)
    <3>1. OnlySaves(c, s.out) /\ ins.does \in Saves
      BY <1>7 DEF Secured, Saves
    <3>2. OnlySaves(c, Append(s.out, ins))
      BY <3>1, OneMoreSave
    <3> QED BY <1>4, <3>2
  <2>2. Pinned(c.item, pins, C)
    BY <1>1, <1>7 DEF Pinned
  <2> QED BY <1>4, <2>1, <2>2 DEF Secured
<1> QED BY <1>3, <1>4, <1>10, <1>11, <1>12 DEF Secured

(***************************************************************************)
(* What _assign_reg does where it has to and can find a register.          *)
(***************************************************************************)
Evicted(s, r, live, e) == (e = s /\ s.pool[r] = None) \/ e = SpillIfStale(s, s.pool[r], r, live)
Given(e, v, r, reload, t) ==
    LET placed == [e EXCEPT !.pool[r] = v]
    IN t = IF reload THEN EmitReload(placed, v, r) ELSE placed

LEMMA Chosen ==
    ASSUME Sound, Len(program) \in Nat, NEW s, NEW i \in Nat, NEW v, ~Mapped(s, v),
           NEW reload, NEW avoid, ~(Reg \subseteq avoid), NEW live
    PROVE  \E r \in Reg \ avoid : \E e :
               Evicted(s, r, live, e) /\ Given(e, v, r, reload, Assign(s, i, v, reload, avoid, live))
<1> DEFINE candidates == {k \in DOMAIN Bank : Bank[k] \notin avoid}
           free == {k \in candidates : s.pool[Bank[k]] = None}
           k == IF free # {} THEN Min(free) ELSE Victim(s, i, candidates)
           r == Bank[k]
           e == IF free # {} THEN s ELSE SpillIfStale(s, s.pool[r], r, live)
           placed == [e EXCEPT !.pool[r] = v]
<1>1. candidates # {} /\ candidates \in SUBSET DOMAIN Bank
  BY DEF Reg
<1>2. k \in candidates /\ (free # {} => s.pool[r] = None)
  <2>1. CASE free # {}
    <3>1. Min(free) \in free
      BY <2>1, FirstPlace
    <3> QED BY <2>1, <3>1
  <2>2. CASE free = {}
    <3>1. Victim(s, i, candidates) \in candidates
      BY <1>1, VictimMayGo
    <3> QED BY <2>2, <3>1
  <2> QED BY <2>1, <2>2
<1>3. Assign(s, i, v, reload, avoid, live) = IF reload THEN EmitReload(placed, v, r) ELSE placed
  <2>1. Assign(s, i, v, reload, avoid, live) =
            IF Mapped(s, v) THEN s
            ELSE IF candidates = {} THEN [s EXCEPT !.refused = TRUE]
            ELSE IF reload THEN EmitReload(placed, v, r) ELSE placed
    BY DEF Assign
  <2> HIDE DEF candidates, placed, r
  <2> QED BY <1>1, <2>1
<1>4. r \in Reg \ avoid
  <2> HIDE DEF k
  <2> QED BY <1>2 DEF Reg
<1>5. Evicted(s, r, live, e)
  <2> HIDE DEF free, r
  <2> QED BY <1>2 DEF Evicted
<1>6. Given(e, v, r, reload, Assign(s, i, v, reload, avoid, live))
  <2> HIDE DEF e, r
  <2> QED BY <1>3 DEF Given
<1> HIDE DEF r, e
<1> QED BY <1>4, <1>5, <1>6

\* Whose register is taken is in his slot if he is needed.
LEMMA EvictedSecured ==
    ASSUME NEW c, NEW s, NEW need, NEW pins, Secured(c, s, need, pins), None \notin need,
           NEW r \in Reg, NEW live \in SUBSET Vreg, s.pool[r] \in need => s.pool[r] \in live,
           NEW e, Evicted(s, r, live, e)
    PROVE  Secured(c, e, need, pins) /\ Still(s, e) /\ (e.pool[r] \in need => e.pool[r] \in e.clean)
<1>1. CASE e = s /\ s.pool[r] = None
  BY <1>1 DEF Still, Secured
<1>2. CASE e = SpillIfStale(s, s.pool[r], r, live)
  <2>1. Secured(c, e, need, pins) /\ Still(s, e) /\ (s.pool[r] \in live => s.pool[r] \in e.clean)
    BY <1>2, SavedIfStale
  <2> QED BY <2>1 DEF Still
<1> QED BY <1>1, <1>2 DEF Evicted

\* Nobody but the one it is for has got a register by it.
NobodyElse(s, t, v) == \A q \in Reg : t.pool[q] = s.pool[q] \/ t.pool[q] = v

LEMMA SourceAssigned ==
    ASSUME Sound, Len(program) \in Nat, NEW i \in Nat,
           NEW c, NEW s, NEW need \in SUBSET Vreg, NEW pins, Secured(c, s, need, pins), ~s.refused,
           NEW v \in need, NEW reload \in BOOLEAN, reload <=> v \in s.slots,
           NEW avoid, NEW live \in SUBSET Vreg,
           \A r \in Reg \ avoid : s.pool[r] \in need => s.pool[r] \in live,
           \A n \in 1 .. Len(pins) : pins[n] \in avoid,
           NEW t, t = Assign(s, i, v, reload, avoid, live), ~t.refused
    PROVE  Secured(c, t, need, pins) /\ Mapped(t, v) /\ NobodyElse(s, t, v)
<1>0. State(s) /\ None \notin need /\ v # None /\ v \in Vreg
  BY DEF Secured, Sound
<1>1. CASE Mapped(s, v)
  <2>1. t = s
    BY <1>1 DEF Assign
  <2> QED BY <1>1, <2>1 DEF NobodyElse
<1>2. CASE ~Mapped(s, v)
  <2>1. Grants(s, t, v, avoid)
    BY <1>0, Assigned
  <2>2. ~(Reg \subseteq avoid) /\ Mapped(t, v)
    BY <1>2, <2>1 DEF Grants
  <2>3. PICK r \in Reg \ avoid : \E e : Evicted(s, r, live, e) /\ Given(e, v, r, reload, t)
    BY <1>2, <2>2, Chosen
  <2>4. PICK e : Evicted(s, r, live, e) /\ Given(e, v, r, reload, t)
    BY <2>3
  <2>5. Secured(c, e, need, pins) /\ Still(s, e) /\ (e.pool[r] \in need => e.pool[r] \in e.clean)
    BY <1>0, <2>4, EvictedSecured
  <2>6. reload
    <3>1. v \in s.slots
      BY <1>2 DEF Secured, Ready
    <3> QED BY <3>1
  <2>7. PICK placed : placed = [e EXCEPT !.pool[r] = v]
    OBVIOUS
  <2>8. t = EmitReload(placed, v, r)
    BY <2>4, <2>6, <2>7 DEF Given
  <2>9. ~Mapped(e, v) /\ \A n \in 1 .. Len(pins) : pins[n] # r
    BY <1>2, <2>5 DEF Still, Mapped
  <2>10. Placed(e, r, v, placed) /\ SavedTo(placed, v, ReloadFrom(v, r), t)
    <3>1. Placed(e, r, v, placed)
      BY <2>5, <2>7, <2>9, PlaceFields DEF Still, Mapped
    <3>2. State(placed)
      BY <3>1 DEF Placed
    <3> QED BY <2>8, <3>1, <3>2, ReloadFields
  <2>11. Secured(c, t, need, pins) /\ t.pool = placed.pool /\ t.refused = e.refused
    BY <1>0, <2>5, <2>9, <2>10, LoadSecured
  <2>12. NobodyElse(s, t, v)
    BY <2>5, <2>10, <2>11 DEF Placed, NobodyElse, Still
  <2> QED BY <2>2, <2>11, <2>12
<1> QED BY <1>1, <1>2

LEMMA DestinationAssigned ==
    ASSUME Sound, Len(program) \in Nat, NEW i \in Nat,
           NEW c, NEW s, NEW need \in SUBSET Vreg, NEW pins, Secured(c, s, need, pins), ~s.refused,
           NEW v \in Vreg, v \notin need, NEW avoid, NEW live \in SUBSET Vreg, need \subseteq live,
           NEW t, t = Assign(s, i, v, FALSE, avoid, live), ~t.refused
    PROVE  Secured(c, t, need, pins) /\ Mapped(t, v)
<1>0. State(s) /\ None \notin need /\ v # None /\ FALSE \in BOOLEAN
  BY DEF Secured, Sound
<1>1. CASE Mapped(s, v)
  <2>1. t = s
    BY <1>1 DEF Assign
  <2> QED BY <1>1, <2>1
<1>2. CASE ~Mapped(s, v)
  <2>1. Grants(s, t, v, avoid)
    BY <1>0, Assigned
  <2>2. ~(Reg \subseteq avoid) /\ Mapped(t, v)
    BY <1>2, <2>1 DEF Grants
  <2>3. PICK r \in Reg \ avoid : \E e : Evicted(s, r, live, e) /\ Given(e, v, r, FALSE, t)
    BY <1>2, <2>2, Chosen
  <2>4. PICK e : Evicted(s, r, live, e) /\ Given(e, v, r, FALSE, t)
    BY <2>3
  <2>5. Secured(c, e, need, pins) /\ Still(s, e) /\ (e.pool[r] \in need => e.pool[r] \in e.clean)
    BY <1>0, <2>4, EvictedSecured
  <2>6. t = [e EXCEPT !.pool[r] = v]
    BY <2>4 DEF Given
  <2>7. \A q \in Reg : e.pool[q] = v => v = None
    BY <1>2, <2>5 DEF Still, Mapped
  <2>8. Secured(c, t, need, pins)
    BY <2>5, <2>6, <2>7, GivenAway
  <2> QED BY <2>2, <2>8
<1> QED BY <1>1, <1>2

(***************************************************************************)
(* The operands that are resolved are found where the item is told to      *)
(* look, and nobody's register is taken for the next one.                  *)
(***************************************************************************)
Located(c, need, n, sofar) ==
    ~sofar.s.refused =>
        /\ Secured(c, sofar.s, need, sofar.regs) /\ Len(sofar.regs) = n
        /\ \A r \in Reg : sofar.s.pool[r] \in Sources(c.item) => r \in sofar.reserved
        /\ \A k \in 1 .. n : sofar.regs[k] \in sofar.reserved

\* What an item may need: the operands, and what lives on.
Needs(i, need) ==
    /\ need \subseteq Vreg /\ live_after[i] \subseteq Vreg
    /\ Sources(i) \subseteq need /\ need \subseteq live_after[i] \cup Sources(i)

LEMMA OneMorePinned ==
    ASSUME NEW c, NEW s, NEW need, NEW pins, Secured(c, s, need, pins), Len(pins) \in Nat,
           NEW v \in need, v = program[c.item].uses[Len(pins) + 1], NEW r \in Reg, s.pool[r] = v
    PROVE  Secured(c, s, need, Append(pins, r))
<1>1. PICK B : Reaches(c.item, c.from, s.out, B) /\ Ready(s, need, B) /\ Pinned(c.item, pins, B)
  BY DEF Secured
<1>2. PICK more : more = Append(pins, r)
  OBVIOUS
<1>3. Len(more) = Len(pins) + 1 /\ more[Len(pins) + 1] = r /\ \A k \in 1 .. Len(pins) : more[k] = pins[k]
  BY <1>2
<1>4. v \in B.held[r]
  BY <1>1 DEF Ready
<1>5. ASSUME NEW n \in 1 .. Len(more) PROVE more[n] \in Reg /\ program[c.item].uses[n] \in B.held[more[n]]
  <2>1. n = Len(pins) + 1 \/ n \in 1 .. Len(pins)
    BY <1>3
  <2>2. CASE n = Len(pins) + 1
    BY <1>3, <1>4, <2>2
  <2>3. CASE n \in 1 .. Len(pins)
    BY <1>1, <1>3, <2>3 DEF Pinned
  <2> QED BY <2>1, <2>2, <2>3
<1>6. Pinned(c.item, more, B)
  BY <1>5 DEF Pinned
<1>7. Secured(c, s, need, more)
  BY <1>1, <1>6 DEF Secured
<1> QED BY <1>2, <1>7

LEMMA OneLocated ==
    ASSUME Sound, WellFormed(program), NEW i \in DOMAIN program, NEW c, c.item = i,
           NEW need, Needs(i, need), NEW n \in Nat, n + 1 \in DOMAIN program[i].uses,
           NEW sofar, Located(c, need, n, sofar)
    PROVE  Located(c, need, n + 1, ResolveUse(sofar, i, program[i].uses[n + 1]))
<1>0. PICK v, s, avoid, done : /\ v = program[i].uses[n + 1] /\ s = sofar.s /\ avoid = sofar.reserved
                               /\ done = ResolveUse(sofar, i, v)
  OBVIOUS
<1>1. PICK t : t = IF s.refused THEN s ELSE Assign(s, i, v, v \in s.slots, avoid, live_after[i])
  OBVIOUS
<1>2. PICK r : r = IF t.refused THEN None ELSE RegOf(t, v)
  OBVIOUS
<1>3. done = [s |-> t, reserved |-> avoid \cup {r}, regs |-> Append(sofar.regs, r)]
  BY <1>0, <1>1, <1>2 DEF ResolveUse
<1>4. done.s = t /\ done.reserved = avoid \cup {r} /\ done.regs = Append(sofar.regs, r)
  BY <1>3
<1>5. ASSUME ~t.refused PROVE Located(c, need, n + 1, done)
  <2>1. ~s.refused
    BY <1>1, <1>5
  <2>2. /\ Secured(c, s, need, sofar.regs) /\ Len(sofar.regs) = n
        /\ \A q \in Reg : s.pool[q] \in Sources(i) => q \in avoid
        /\ \A k \in 1 .. n : sofar.regs[k] \in avoid
    BY <1>0, <2>1 DEF Located
  <2>3. v \in Sources(i) /\ v \in need /\ need \in SUBSET Vreg /\ live_after[i] \in SUBSET Vreg
    BY <1>0 DEF Sources, UsesOf, Needs
  <2>4. i \in Nat /\ Len(program) \in Nat
    BY DEF WellFormed
  <2>5. \A q \in Reg \ avoid : s.pool[q] \in need => s.pool[q] \in live_after[i]
    BY <2>2 DEF Needs
  <2>6. PICK reload \in BOOLEAN : reload <=> v \in s.slots
    OBVIOUS
  <2>7. t = Assign(s, i, v, reload, avoid, live_after[i])
    <3>1. (v \in s.slots) = reload
      BY <2>6
    <3> QED BY <1>1, <2>1, <3>1
  <2>8. Secured(c, t, need, sofar.regs) /\ Mapped(t, v) /\ NobodyElse(s, t, v)
    <3>1. \A k \in 1 .. Len(sofar.regs) : sofar.regs[k] \in avoid
      BY <2>2
    <3>2. Secured(c, s, need, sofar.regs)
      BY <2>2
    <3> HIDE <2>2
    <3>3. PICK pins, live : pins = sofar.regs /\ live = live_after[i]
      OBVIOUS
    <3>4. need \in SUBSET Vreg /\ v \in need /\ live \in SUBSET Vreg /\ ~s.refused /\ ~t.refused
      BY <1>5, <2>1, <2>3, <3>3
    <3>5. \A q \in Reg \ avoid : s.pool[q] \in need => s.pool[q] \in live
      BY <2>5, <3>3
    <3>6. t = Assign(s, i, v, reload, avoid, live)
      BY <2>7, <3>3
    <3>7. Secured(c, s, need, pins) /\ \A k \in 1 .. Len(pins) : pins[k] \in avoid
      BY <3>1, <3>2, <3>3
    <3>8. Secured(c, t, need, pins) /\ Mapped(t, v) /\ NobodyElse(s, t, v)
      <4> HIDE <3>3
      <4> QED BY <2>4, <2>6, <3>4, <3>5, <3>6, <3>7, SourceAssigned, ZenonT(30)
    <3> QED BY <3>3, <3>8
  <2>9. r \in Reg /\ t.pool[r] = v /\ \A q \in Reg : t.pool[q] = v => q = r
    <3>1. r = RegOf(t, v) /\ Distinct(t.pool) /\ v # None
      BY <1>2, <1>5, <2>3, <2>8 DEF Secured, State, Sound
    <3>2. r \in Reg /\ t.pool[r] = v
      BY <2>8, <3>1 DEF Mapped, RegOf
    <3> QED BY <3>1, <3>2 DEF Distinct
  <2>10. Secured(c, t, need, Append(sofar.regs, r))
    BY <1>0, <2>2, <2>3, <2>8, <2>9, OneMorePinned
  <2>11. PICK more : more = Append(sofar.regs, r)
    OBVIOUS
  <2>12. Len(more) = n + 1 /\ more[n + 1] = r /\ \A k \in 1 .. n : more[k] = sofar.regs[k]
    BY <2>2, <2>11
  <2>13. \A k \in 1 .. n + 1 : k = n + 1 \/ k \in 1 .. n
    OBVIOUS
  <2>14. \A k \in 1 .. n + 1 : more[k] \in avoid \cup {r}
    BY <2>2, <2>12, <2>13
  <2>15. \A q \in Reg : t.pool[q] \in Sources(i) => q \in avoid \cup {r}
    BY <2>2, <2>8, <2>9 DEF NobodyElse
  <2> QED BY <1>4, <2>10, <2>11, <2>12, <2>14, <2>15 DEF Located
<1>6. ASSUME t.refused PROVE Located(c, need, n + 1, done)
  BY <1>4, <1>6 DEF Located
<1> QED BY <1>0, <1>5, <1>6

LEMMA SourcesLocated ==
    ASSUME Sound, WellFormed(program), NEW i \in DOMAIN program, NEW c, c.item = i,
           NEW need, Needs(i, need), NEW s, ~s.refused, Secured(c, s, need, <<>>)
    PROVE  Located(c, need, Len(program[i].uses), ResolveUses(s, i))
<1>0. PICK N, uses : N = Len(program[i].uses) /\ uses = program[i].uses
  OBVIOUS
<1> DEFINE loop == [over |-> "uses", item |-> i]
           start == [s |-> s, reserved |-> Resident(s, i), regs |-> <<>>]
<1>1. N \in Nat /\ DOMAIN uses = 1 .. N
  BY <1>0 DEF WellFormed
<1>2. PICK f : Rounds(loop, start, N, f) /\ ResolveUses(s, i) = f[N]
  BY <1>0, <1>1, UsesUnfolded
<1>3. \A x, n : LoopPass(loop, x, n) = ResolveUse(x, i, uses[n])
  BY <1>0 DEF LoopPass
<1>4. Located(c, need, 0, start)
  <2>1. Len(<<>>) = 0 /\ 1 .. 0 = {}
    OBVIOUS
  <2>2. start.s = s /\ start.reserved = Resident(s, i) /\ start.regs = <<>>
    OBVIOUS
  <2> HIDE DEF start
  <2> QED BY <2>1, <2>2 DEF Located, Resident, Sources
<1> HIDE DEF loop, start
<1> DEFINE Bad == {n \in 0 .. N : ~Located(c, need, n, f[n])}
<1>5. Bad = {}
  <2> SUFFICES ASSUME Bad # {} PROVE FALSE
    OBVIOUS
  <2>1. PICK n \in Bad : \A m \in Bad : n <= m
    <3>1. Bad \in SUBSET Nat
      BY <1>1
    <3> HIDE DEF Bad
    <3> QED BY <3>1, LeastNatural
  <2>2. CASE n = 0
    BY <1>2, <1>4, <2>1, <2>2 DEF Rounds
  <2>3. CASE n # 0
    <3>1. n \in 1 .. N /\ n - 1 \in 0 .. N /\ ~(n <= n - 1) /\ (n - 1) + 1 = n /\ n - 1 \in Nat
      BY <1>1, <2>1, <2>3
    <3>2. Located(c, need, n - 1, f[n - 1])
      BY <2>1, <3>1
    <3>3. f[n] = ResolveUse(f[n - 1], i, uses[n])
      BY <1>2, <1>3, <3>1 DEF Rounds
    <3>4. PICK m : m = n - 1
      OBVIOUS
    <3>5. Located(c, need, m + 1, ResolveUse(f[m], i, program[i].uses[m + 1]))
      BY <1>0, <1>1, <3>1, <3>2, <3>4, OneLocated
    <3>6. Located(c, need, n, f[n])
      BY <1>0, <3>1, <3>3, <3>4, <3>5
    <3> QED BY <2>1, <3>6
  <2> QED BY <2>2, <2>3
<1>6. N \in 0 .. N
  BY <1>1
<1> QED BY <1>0, <1>2, <1>5, <1>6

LEMMA NeedLess ==
    ASSUME NEW c, NEW s, NEW need, NEW pins, Secured(c, s, need, pins), NEW less, less \subseteq need
    PROVE  Secured(c, s, less, pins)
<1>1. PICK B : Reaches(c.item, c.from, s.out, B) /\ Ready(s, need, B) /\ Pinned(c.item, pins, B)
  BY DEF Secured
<1>2. Ready(s, less, B)
  BY <1>1 DEF Ready
<1> QED BY <1>1, <1>2 DEF Secured

LEMMA DestinationLocated ==
    ASSUME Sound, WellFormed(program), NEW i \in DOMAIN program, program[i].def \subseteq Vreg,
           live_after[i] \subseteq Vreg, NEW c, NEW s, NEW pins, ~s.refused,
           Secured(c, s, live_after[i] \ program[i].def, pins),
           NEW reserved, NEW t, t = ResolveDef(s, i, reserved), ~t.refused
    PROVE  Secured(c, t, live_after[i] \ program[i].def, pins) /\ \A v \in program[i].def : Mapped(t, v)
<1>0. PICK v, avoid, need, live : /\ v = (CHOOSE x \in program[i].def : TRUE) /\ avoid = reserved \ Reusable(s, i)
                                  /\ need = live_after[i] \ program[i].def /\ live = live_after[i]
  OBVIOUS
<1>1. CASE program[i].def = {}
  BY <1>1 DEF ResolveDef
<1>2. CASE program[i].def # {}
  <2>1. v \in program[i].def /\ v \in Vreg /\ v \notin need /\ \A w \in program[i].def : w = v
    BY <1>0, <1>2 DEF WellFormed
  <2>2. t = Assign(s, i, v, FALSE, avoid, live)
    BY <1>0, <1>2 DEF ResolveDef
  <2>3. need \in SUBSET Vreg /\ live \in SUBSET Vreg /\ need \subseteq live /\ Secured(c, s, need, pins)
        /\ i \in Nat /\ Len(program) \in Nat
    BY <1>0 DEF WellFormed
  <2>4. Secured(c, t, need, pins) /\ Mapped(t, v)
    BY <2>1, <2>2, <2>3, DestinationAssigned
  <2> QED BY <1>0, <2>1, <2>4
<1> QED BY <1>1, <1>2

(***************************************************************************)
(* Registers that are flushed are empty behind it, or clean if they are    *)
(* kept.                                                                   *)
(***************************************************************************)
Emptied(t, r, live, keep) == IF keep THEN t.pool[r] \in live => t.pool[r] \in t.clean ELSE t.pool[r] = None

LEMMA OneEmptied ==
    ASSUME Sound, NEW c, NEW s, NEW need, NEW pins, Secured(c, s, need, pins),
           NEW live \in SUBSET Vreg, need \subseteq live, NEW regions, NEW keep \in BOOLEAN, NEW r \in Reg,
           NEW t, t = FlushRegister(s, r, regions, live, keep)
    PROVE  /\ Secured(c, t, need, pins) /\ Fewer(s, t) /\ s.clean \subseteq t.clean
           /\ r \in regions => Emptied(t, r, live, keep)
<1>0. State(s) /\ None \notin need /\ None \notin live
  BY DEF Secured, Sound
<1>1. PICK e : e = SpillIfStale(s, s.pool[r], r, live)
  OBVIOUS
<1>2. Secured(c, e, need, pins) /\ Still(s, e) /\ (s.pool[r] \in live => s.pool[r] \in e.clean) /\ s.clean \subseteq e.clean
  BY <1>1, SavedIfStale
<1>3. Fewer(s, t)
  BY <1>0, FlushedOne
<1>4. CASE r \notin regions \/ s.pool[r] = None
  <2>1. t = s
    BY <1>4 DEF FlushRegister
  <2> QED BY <1>0, <1>3, <1>4, <2>1 DEF Emptied
<1>5. CASE r \in regions /\ s.pool[r] # None /\ keep
  <2>1. t = e
    BY <1>1, <1>5 DEF FlushRegister
  <2> QED BY <1>2, <1>3, <1>5, <2>1 DEF Emptied, Still
<1>6. CASE r \in regions /\ s.pool[r] # None /\ ~keep
  <2>1. t = [e EXCEPT !.pool[r] = None]
    BY <1>1, <1>6 DEF FlushRegister
  <2>2. Secured(c, t, need, pins)
    <3>1. e.pool[r] \in need => e.pool[r] \in e.clean
      BY <1>2 DEF Still
    <3> QED BY <1>0, <1>2, <2>1, <3>1, GivenAway
  <2>3. Placed(e, r, None, t)
    BY <1>2, <2>1, PlaceFields DEF Still
  <2> QED BY <1>2, <1>3, <1>6, <2>2, <2>3 DEF Placed, Emptied
<1> QED BY <1>4, <1>5, <1>6

LEMMA AllEmptied ==
    ASSUME Sound, NEW c, NEW s, NEW need, NEW pins, Secured(c, s, need, pins),
           NEW live \in SUBSET Vreg, need \subseteq live, NEW regions, NEW keep \in BOOLEAN,
           NEW t, t = Flush(s, regions, live, keep)
    PROVE  Secured(c, t, need, pins) /\ \A r \in Reg \cap regions : Emptied(t, r, live, keep)
<1>0. PICK N, loop : N = Len(Bank) /\ loop = [over |-> "bank", regs |-> regions, live |-> live, keep |-> keep]
  OBVIOUS
<1>1. N \in Nat /\ DOMAIN Bank = 1 .. N /\ (\A n \in 1 .. N : Bank[n] \in Reg) /\ None \notin live
  BY <1>0 DEF Sound, Reg
<1>2. PICK f : Rounds(loop, s, N, f) /\ t = f[N]
  BY <1>0, FlushUnfolded
<1>3. \A x, n : LoopPass(loop, x, n) = FlushRegister(x, Bank[n], regions, live, keep)
  BY <1>0 DEF LoopPass
<1> DEFINE Fine(n) == /\ Secured(c, f[n], need, pins)
                      /\ \A k \in 1 .. n : Bank[k] \in regions => Emptied(f[n], Bank[k], live, keep)
           Bad == {n \in 0 .. N : ~Fine(n)}
<1>4. Bad = {}
  <2> SUFFICES ASSUME Bad # {} PROVE FALSE
    OBVIOUS
  <2>1. PICK n \in Bad : \A m \in Bad : n <= m
    <3>1. Bad \in SUBSET Nat
      BY <1>1
    <3> HIDE DEF Bad
    <3> QED BY <3>1, LeastNatural
  <2>2. CASE n = 0
    <3>1. f[0] = s /\ 1 .. 0 = {}
      BY <1>2 DEF Rounds
    <3> QED BY <2>1, <2>2, <3>1
  <2>3. CASE n # 0
    <3>1. n \in 1 .. N /\ n - 1 \in 0 .. N /\ ~(n <= n - 1) /\ \A k \in 1 .. n : k = n \/ k \in 1 .. (n - 1)
      BY <1>1, <2>1, <2>3
    <3>2. PICK x, y, r : x = f[n - 1] /\ y = f[n] /\ r = Bank[n]
      OBVIOUS
    <3>3. Secured(c, x, need, pins) /\ \A k \in 1 .. n - 1 : Bank[k] \in regions => Emptied(x, Bank[k], live, keep)
      BY <2>1, <3>1, <3>2
    <3>4. y = FlushRegister(x, r, regions, live, keep) /\ r \in Reg
      BY <1>1, <1>2, <1>3, <3>1, <3>2 DEF Rounds
    <3>5. Secured(c, y, need, pins) /\ Fewer(x, y) /\ x.clean \subseteq y.clean /\ (r \in regions => Emptied(y, r, live, keep))
      <4>1. Secured(c, x, need, pins)
        BY <3>3
      <4> HIDE <3>3
      <4>2. r \in Reg /\ y = FlushRegister(x, r, regions, live, keep)
        BY <3>4
      <4> HIDE <3>4
      <4> HIDE DEF Fine, Bad
      <4> QED BY <4>1, <4>2, OneEmptied, SMTT(30)
    <3>6. \A q \in Reg : Emptied(x, q, live, keep) => Emptied(y, q, live, keep)
      BY <1>1, <3>5 DEF Fewer, Emptied
    <3>7. ASSUME NEW k \in 1 .. n, Bank[k] \in regions PROVE Emptied(y, Bank[k], live, keep)
      <4>1. CASE k = n
        BY <3>2, <3>5, <3>7, <4>1
      <4>2. CASE k \in 1 .. (n - 1)
        <5>1. Bank[k] \in Reg /\ Emptied(x, Bank[k], live, keep)
          BY <1>1, <3>1, <3>3, <3>7, <4>2
        <5> QED BY <3>6, <5>1
      <4> QED BY <3>1, <4>1, <4>2
    <3> QED BY <2>1, <3>2, <3>5, <3>7
  <2> QED BY <2>2, <2>3
<1>5. Fine(N)
  <2>1. N \in 0 .. N
    BY <1>1
  <2> QED BY <1>4, <2>1
<1>6. ASSUME NEW r \in Reg \cap regions PROVE Emptied(t, r, live, keep)
  <2>1. PICK k \in 1 .. N : r = Bank[k]
    BY <1>1 DEF Reg
  <2> QED BY <1>2, <1>5, <2>1
<1> QED BY <1>2, <1>5, <1>6

\* Every needed value that is in a register is in its slot, too.
AllSaved(t, live) == \A r \in Reg : t.pool[r] \in live => t.pool[r] \in t.clean

LEMMA BeforeSecured ==
    ASSUME Sound, NEW i, NEW live \in SUBSET Vreg, live = live_after[i],
           NEW c, NEW s, NEW pins, Secured(c, s, live, pins), NEW t, t = Before(s, i)
    PROVE  /\ Secured(c, t, live, pins)
           /\ program[i].does = "call" => \A r \in Reg \cap CallerSaved : t.pool[r] = None
           /\ IsTerminator(program, i) => AllSaved(t, live)
<1>1. CASE program[i].does = "call"
  <2>1. t = Flush(s, CallerSaved, live, FALSE)
    BY <1>1 DEF Before, IsTerminator
  <2>2. PICK keep \in BOOLEAN : keep = FALSE
    OBVIOUS
  <2>3. Secured(c, t, live, pins) /\ \A r \in Reg \cap CallerSaved : Emptied(t, r, live, keep)
    BY <2>1, <2>2, AllEmptied
  <2> QED BY <1>1, <2>2, <2>3 DEF Emptied, IsTerminator
<1>2. CASE IsTerminator(program, i)
  <2>1. PICK keep \in BOOLEAN : keep <=> i \in carry_after
    OBVIOUS
  <2>2. program[i].does # "call"
    BY <1>2 DEF IsTerminator
  <2>3. t = Flush(s, Reg, live, keep)
    <3>1. (i \in carry_after) = keep
      BY <2>1
    <3> QED BY <1>2, <2>2, <3>1 DEF Before
  <2>4. Secured(c, t, live, pins) /\ \A r \in Reg \cap Reg : Emptied(t, r, live, keep)
    BY <2>3, AllEmptied
  <2>5. None \notin live
    BY DEF Sound
  <2>6. AllSaved(t, live)
    BY <2>4, <2>5 DEF AllSaved, Emptied
  <2> QED BY <2>2, <2>4, <2>6
<1>3. CASE program[i].does # "call" /\ ~IsTerminator(program, i)
  BY <1>3 DEF Before
<1> QED BY <1>1, <1>2, <1>3

(***************************************************************************)
(* The item itself: it finds its operands, and its destination holds what  *)
(* it computes.                                                            *)
(***************************************************************************)
Written(i, s, pins, ins) ==
    /\ ins.does = program[i].does /\ ins.uses = pins
    /\ ins.def = {RegOf(s, v) : v \in program[i].def}
RanAt(i, s, ins, t) ==
    /\ State(t) /\ t.pool = s.pool /\ t.clean = s.clean \ program[i].def /\ t.slots = s.slots
    /\ t.out = Append(s.out, ins)

LEMMA ItemSecured ==
    ASSUME Sound, WellFormed(program), Selected(program), NEW i \in DOMAIN program,
           NEW live \in SUBSET Vreg, NEW def, def = program[i].def,
           NEW c, c.item = i, NEW s, NEW pins, Secured(c, s, live \ def, pins),
           Len(pins) = Len(program[i].uses), \A v \in def : Mapped(s, v),
           program[i].does = "call" => \A r \in Reg \cap CallerSaved : s.pool[r] = None,
           NEW ins, Written(i, s, pins, ins), NEW t, RanAt(i, s, ins, t),
           NEW d, d.item = i, d.from = c.from, d.kept = c.kept, d.besides = c.besides \cup {program[i].does}
    PROVE  Secured(d, t, live, <<>>)
<1>0. PICK need : need = live \ def
  OBVIOUS
<1>00. /\ ins.does = program[i].does /\ ins.uses = pins /\ ins.def = {RegOf(s, v) : v \in def}
      /\ State(t) /\ t.pool = s.pool /\ t.clean = s.clean \ def /\ t.slots = s.slots /\ t.out = Append(s.out, ins)
  BY DEF Written, RanAt
<1>1. PICK B : Reaches(i, c.from, s.out, B) /\ Ready(s, need, B) /\ Pinned(i, pins, B)
  BY <1>0 DEF Secured
<1>2. State(s) /\ None \notin live /\ def \subseteq Vreg /\ (def # {} => program[i].does = "op")
  BY DEF Secured, Sound, Selected
<1>2a. None \notin def
  BY <1>2 DEF Sound
<1>2b. Distinct(s.pool)
  BY <1>2 DEF State
<1>3. \A v \in def : RegOf(s, v) \in Reg /\ s.pool[RegOf(s, v)] = v
  BY DEF Mapped, RegOf
<1>4. ins.def \subseteq Reg
  BY <1>3, <1>00
<1>5. \A r \in ins.def : s.pool[r] \in def
  BY <1>3, <1>00
<1>6. \A r \in Reg : s.pool[r] \in def => r \in ins.def
  <2> SUFFICES ASSUME NEW r \in Reg, s.pool[r] \in def PROVE r \in ins.def
    OBVIOUS
  <2>1. PICK v \in def : v = s.pool[r]
    OBVIOUS
  <2>2. RegOf(s, v) = r
    <3>1. RegOf(s, v) \in Reg /\ s.pool[RegOf(s, v)] = s.pool[r] /\ s.pool[r] # None
      BY <1>3, <1>2a, <2>1
    <3> QED BY <1>2b, <3>1 DEF Distinct
  <2> QED BY <1>00, <2>1, <2>2
<1>7. PICK held : held = [r \in Reg |-> IF program[i].does = "call" /\ r \in CallerSaved THEN {}
                                       ELSE IF r \in ins.def THEN def ELSE B.held[r] \ def]
  OBVIOUS
<1>8. PICK C : C = [held |-> held, stored |-> B.stored \ def]
  OBVIOUS
<1>9. C.stored = B.stored \ def /\ \A r \in Reg : C.held[r] = IF program[i].does = "call" /\ r \in CallerSaved THEN {}
                                       ELSE IF r \in ins.def THEN def ELSE B.held[r] \ def
  BY <1>7, <1>8
<1>10. Runs(i, B, ins, C)
  <2>1. ASSUME NEW n \in DOMAIN program[i].uses
        PROVE  ins.uses[n] \in Reg /\ program[i].uses[n] \in B.held[ins.uses[n]]
    <3>1. n \in 1 .. Len(pins)
      BY <1>00 DEF WellFormed
    <3> QED BY <1>1, <1>00, <3>1 DEF Pinned
  <2>2. ASSUME NEW r \in Reg, NEW v \in C.held[r]
        PROVE  /\ IF v \in program[i].def THEN r \in ins.def ELSE r \notin ins.def /\ v \in B.held[r]
               /\ program[i].does = "call" => r \notin CallerSaved
    BY <1>9, <2>2
  <2> QED BY <1>4, <1>9, <1>00, <2>1, <2>2 DEF Runs
<1>11. Reaches(i, c.from, t.out, C)
  <2>1. Emits(i, B, ins, C) /\ Len(s.out) \in Nat
    BY <1>10 DEF Emits, Secured, OnlySaves
  <2>2. Reaches(i, c.from, Append(s.out, ins), C)
    BY <1>1, <2>1, ReachesMore
  <2> QED BY <1>00, <2>2
<1>12. Ready(t, live, C)
  <2>1. ASSUME NEW r \in Reg, t.pool[r] \in live PROVE t.pool[r] \in C.held[r]
    <3>1. CASE t.pool[r] \in def
      <4>1. r \in ins.def /\ program[i].does # "call"
        BY <1>2, <1>6, <1>00, <3>1
      <4> QED BY <1>9, <3>1, <4>1
    <3>2. CASE t.pool[r] \notin def
      <4>1. t.pool[r] \in B.held[r]
        BY <1>0, <1>1, <1>00, <2>1, <3>2 DEF Ready
      <4>2. r \notin ins.def
        BY <1>5, <1>00, <3>2
      <4>3. ~(program[i].does = "call" /\ r \in CallerSaved)
        BY <1>2, <1>00, <2>1
      <4> QED BY <1>9, <3>2, <4>1, <4>2, <4>3
    <3> QED BY <3>1, <3>2
  <2>2. \A v : Mapped(t, v) <=> Mapped(s, v)
    BY <1>00 DEF Mapped
  <2>3. ASSUME NEW v \in live, ~Mapped(t, v) \/ v \in t.clean PROVE v \in C.stored
    <3>1. v \notin def
      BY <1>00, <2>2, <2>3
    <3> QED BY <1>0, <1>1, <1>9, <1>00, <2>2, <2>3, <3>1 DEF Ready
  <2>4. ASSUME NEW v \in live PROVE Mapped(t, v) \/ v \in t.slots
    BY <1>0, <1>1, <1>00, <2>2 DEF Ready
  <2>5. t.clean \subseteq t.slots
    BY <1>1, <1>00 DEF Ready
  <2> QED BY <2>1, <2>3, <2>4, <2>5 DEF Ready
<1>13. OnlySaves(d, t.out)
  <2>1. Len(s.out) \in Nat /\ Len(t.out) = Len(s.out) + 1 /\ t.out[Len(s.out) + 1] = ins
        /\ \A k \in 1 .. Len(s.out) : t.out[k] = s.out[k] /\ s.out[k].does \in Saves \cup c.besides
    BY <1>00 DEF Secured, OnlySaves
  <2>2. \A k \in 1 .. Len(t.out) : k = Len(s.out) + 1 \/ k \in 1 .. Len(s.out)
    BY <2>1
  <2> QED BY <1>00, <2>1, <2>2 DEF OnlySaves
<1>14. Pinned(i, <<>>, C)
  BY DEF Pinned
<1>15. d.kept \subseteq t.slots
  BY <1>00 DEF Secured
<1> QED BY <1>11, <1>12, <1>13, <1>14, <1>15, <1>00 DEF Secured

LEMMA PoolFields ==
    ASSUME NEW s, State(s), NEW pool, pool = [r \in Reg |-> pool[r]],
           \A r \in Reg : pool[r] \in {s.pool[r], None}, NEW t, t = [s EXCEPT !.pool = pool]
    PROVE  State(t) /\ t.pool = pool /\ t.clean = s.clean /\ t.slots = s.slots /\ t.out = s.out /\ t.refused = s.refused
<1>0. PICK a, b, c, d : a = s.clean /\ b = s.slots /\ c = s.out /\ d = s.refused
  OBVIOUS
<1>1. s = [pool |-> s.pool, clean |-> a, slots |-> b, out |-> c, refused |-> d]
  BY <1>0 DEF State
<1>2. t = [pool |-> pool, clean |-> a, slots |-> b, out |-> c, refused |-> d]
  BY <1>1
<1>3. t.pool = pool /\ t.clean = a /\ t.slots = b /\ t.out = c /\ t.refused = d
  BY <1>2
<1>4. State(t)
  BY GivenUp DEF Fewer
<1> QED BY <1>0, <1>3, <1>4

LEMMA Released ==
    ASSUME Sound, NEW c, NEW s, NEW live \in SUBSET Vreg, NEW pins, Secured(c, s, live, pins), NEW t, t = Release(s, live)
    PROVE  /\ Secured(c, t, live, pins) /\ t.out = s.out
           /\ AllSaved(s, live) => AllSaved(t, live)
<1>1. PICK pool : pool = [r \in Reg |-> IF s.pool[r] \in live THEN s.pool[r] ELSE None]
  OBVIOUS
<1>2. pool = [r \in Reg |-> pool[r]] /\ \A r \in Reg : pool[r] = IF s.pool[r] \in live THEN s.pool[r] ELSE None
  BY <1>1
<1>3. State(s) /\ t = [s EXCEPT !.pool = pool] /\ None \notin live
  BY <1>1 DEF Release, Secured, Sound
<1>4. State(t) /\ t.pool = pool /\ t.clean = s.clean /\ t.slots = s.slots /\ t.out = s.out
  BY <1>2, <1>3, PoolFields
<1>5. PICK B : Reaches(c.item, c.from, s.out, B) /\ Ready(s, live, B) /\ Pinned(c.item, pins, B)
  BY DEF Secured
<1>6. \A v \in live : Mapped(t, v) <=> Mapped(s, v)
  BY <1>2, <1>3, <1>4 DEF Mapped
<1>7. \A r \in Reg : t.pool[r] \in live => t.pool[r] = s.pool[r]
  BY <1>2, <1>3, <1>4
<1>8. Ready(t, live, B)
  BY <1>4, <1>5, <1>6, <1>7 DEF Ready
<1>9. Secured(c, t, live, pins)
  BY <1>4, <1>5, <1>8 DEF Secured
<1>10. AllSaved(s, live) => AllSaved(t, live)
  BY <1>4, <1>7 DEF AllSaved
<1> QED BY <1>4, <1>9, <1>10

\* Where nothing stays in a register: before a label that others join.
SavesBehind(i) == BeforeLabel(i) /\ ~IsTerminator(program, i) /\ i \notin carry_after

LEMMA BehindSecured ==
    ASSUME Sound, NEW i, NEW live \in SUBSET Vreg, live = live_after[i],
           NEW c, NEW s, NEW pins, Secured(c, s, live, pins), NEW t, t = Behind(s, i)
    PROVE  /\ Secured(c, t, live, pins)
           /\ SavesBehind(i) => AllSaved(t, live)
           /\ ~SavesBehind(i) => t = s
<1>1. CASE SavesBehind(i)
  <2>1. PICK keep \in BOOLEAN : keep = FALSE
    OBVIOUS
  <2>2. t = Flush(s, Reg, live, keep)
    BY <1>1, <2>1 DEF Behind, SavesBehind
  <2>3. Secured(c, t, live, pins) /\ \A r \in Reg \cap Reg : Emptied(t, r, live, keep)
    BY <2>2, AllEmptied
  <2>4. None \notin live
    BY DEF Sound
  <2> QED BY <1>1, <2>1, <2>3, <2>4 DEF AllSaved, Emptied
<1>2. CASE ~SavesBehind(i)
  BY <1>2 DEF Behind, SavesBehind
<1> QED BY <1>1, <1>2

(***************************************************************************)
(* What the code of an item does, starting from what is known (A): it ends *)
(* in what the allocator holds true for the values that live on, and if    *)
(* the next item may be reached from elsewhere, or another one from here,  *)
(* all of them are in their slots.                                         *)
(***************************************************************************)
Shape(i, out) ==
    /\ Len(out) \in Nat /\ Len(out) > 0
    /\ \A k \in 1 .. Len(out) : out[k].does \in Saves \cup {program[i].does}
    /\ IsTerminator(program, i) => /\ out[Len(out)].does = program[i].does
                                   /\ \A k \in 1 .. (Len(out) - 1) : out[k].does \in Saves

Leaving(i) == IsTerminator(program, i) \/ SavesBehind(i)

Translated(A, i, kept, t, out) ==
    /\ \E B : Reaches(i, A, out, B) /\ Ready(t, live_after[i], B)
    /\ Shape(i, out) /\ kept \subseteq t.slots
    /\ Leaving(i) => AllSaved(t, live_after[i])

LEMMA Resolved ==
    ASSUME Sound, WellFormed(program), Selected(program), NEW i \in DOMAIN program, ~IsLabel(program, i),
           live_after[i] \subseteq Vreg, State(st), ~st.refused, st.out = <<>>,
           NEW A, Ready(st, BlockIn(program, live_after, i), A),
           NEW c, c.item = i, c.from = A, c.kept = st.slots, c.besides = {},
           NEW used, used = ResolveUses(st, i),
           NEW resolved, resolved = ResolveDef(used.s, i, used.reserved), ~resolved.refused
    PROVE  /\ Secured(c, resolved, live_after[i] \ program[i].def, used.regs)
           /\ Len(used.regs) = Len(program[i].uses)
           /\ \A v \in program[i].def : Mapped(resolved, v)
<1>1. PICK need : need = BlockIn(program, live_after, i)
  OBVIOUS
<1>2. Needs(i, need) /\ live_after[i] \ program[i].def \subseteq need
  BY <1>1 DEF Needs, BlockIn, Sources, Selected
<1>3. Secured(c, st, need, <<>>)
  <2>1. Len(<<>>) = 0 /\ 1 .. 0 = {}
    OBVIOUS
  <2>2. Reaches(c.item, c.from, st.out, A)
    BY ReachesNothing
  <2>3. OnlySaves(c, st.out) /\ Pinned(c.item, <<>>, A)
    BY <2>1 DEF OnlySaves, Pinned
  <2> QED BY <1>1, <2>2, <2>3 DEF Secured
<1>4. Located(c, need, Len(program[i].uses), used)
  BY <1>2, <1>3, SourcesLocated
<1>5. ~used.s.refused
  BY DEF ResolveDef
<1>6. Secured(c, used.s, need, used.regs) /\ Len(used.regs) = Len(program[i].uses)
  BY <1>4, <1>5 DEF Located
<1>7. Secured(c, used.s, live_after[i] \ program[i].def, used.regs)
  BY <1>2, <1>6, NeedLess
<1>8. program[i].def \subseteq Vreg
  BY DEF Selected
<1>9. Secured(c, resolved, live_after[i] \ program[i].def, used.regs) /\ \A v \in program[i].def : Mapped(resolved, v)
  <2>1. PICK s, pins, reserved : s = used.s /\ pins = used.regs /\ reserved = used.reserved
    OBVIOUS
  <2>2. Secured(c, s, live_after[i] \ program[i].def, pins) /\ ~s.refused /\ resolved = ResolveDef(s, i, reserved)
    BY <1>5, <1>7, <2>1
  <2>3. Secured(c, resolved, live_after[i] \ program[i].def, pins) /\ \A v \in program[i].def : Mapped(resolved, v)
    BY <1>8, <2>2, DestinationLocated
  <2> QED BY <2>1, <2>3
<1> QED BY <1>6, <1>9

LEMMA ItemTranslated ==
    ASSUME Sound, WellFormed(program), Selected(program), NEW i \in DOMAIN program, AtInstruction(i),
           live_after[i] \subseteq Vreg, State(st), ~st.refused, st.out = <<>>, ~st'.refused, i \in DOMAIN code,
           NEW A, Ready(st, BlockIn(program, live_after, i), A)
    PROVE  Translated(A, i, st.slots, st', code'[i]) /\ st'.out = <<>>
<1>0. PICK used, resolved : used = ResolveUses(st, i) /\ resolved = ResolveDef(used.s, i, used.reserved)
  OBVIOUS
<1>1. PICK ins : ins = [does |-> program[i].does, uses |-> used.regs,
                        def |-> IF resolved.refused THEN {} ELSE {RegOf(resolved, v) : v \in program[i].def}]
  OBVIOUS
<1>2. PICK saved, ran, released, done :
          /\ saved = Before(resolved, i)
          /\ ran = [saved EXCEPT !.out = Append(@, ins), !.clean = @ \ program[i].def]
          /\ released = Release(ran, live_after[i])
          /\ done = Behind(released, i)
  OBVIOUS
<1>3. /\ ~IsLabel(program, i)
      /\ st' = [IF resolved.refused THEN resolved ELSE done EXCEPT !.out = <<>>]
      /\ code' = IF resolved.refused THEN code ELSE [code EXCEPT ![i] = done.out]
  BY <1>0, <1>1, <1>2 DEF AtInstruction
<1>4. PICK c : c = [item |-> i, from |-> A, kept |-> st.slots, besides |-> {}]
  OBVIOUS
<1>5. c.item = i /\ c.from = A /\ c.kept = st.slots /\ c.besides = {}
  BY <1>4
<1>6. PICK d : d = [item |-> i, from |-> A, kept |-> st.slots, besides |-> {program[i].does}]
  OBVIOUS
<1>7. d.item = i /\ d.from = c.from /\ d.kept = c.kept /\ d.besides = c.besides \cup {program[i].does}
  BY <1>5, <1>6
<1>8. ~resolved.refused
  <2>1. ASSUME resolved.refused PROVE FALSE
    <3>1. Resolving(used, i)
      BY <1>0, SourcesResolved
    <3>2. State(resolved)
      BY <1>0, <3>1, OperandsResolved DEF ForCause
    <3>3. st' = [resolved EXCEPT !.out = <<>>]
      BY <1>3, <2>1
    <3>4. st'.refused
      BY <2>1, <3>2, <3>3 DEF State
    <3> QED BY <3>4
  <2> QED BY <2>1
<1>9. PICK live, def, pins : live = live_after[i] /\ def = program[i].def /\ pins = used.regs
  OBVIOUS
<1>10. live \in SUBSET Vreg /\ (def # {} => program[i].does = "op")
  BY <1>9 DEF Selected
<1>11. /\ Secured(c, resolved, live \ def, pins) /\ Len(pins) = Len(program[i].uses)
       /\ \A v \in def : Mapped(resolved, v)
  BY <1>0, <1>3, <1>5, <1>8, <1>9, Resolved
<1>12. /\ Secured(c, saved, live \ def, pins)
       /\ program[i].does = "call" => \A r \in Reg \cap CallerSaved : saved.pool[r] = None
       /\ IsTerminator(program, i) => AllSaved(saved, live)
       /\ def # {} => saved = resolved
  <2>1. CASE def = {}
    <3>1. live \ def = live
      BY <2>1
    <3>2. Secured(c, resolved, live, pins)
      BY <1>11, <3>1
    <3>3. live \in SUBSET Vreg /\ live = live_after[i] /\ saved = Before(resolved, i)
      BY <1>2, <1>9, <1>10
    <3>4. /\ Secured(c, saved, live, pins)
          /\ program[i].does = "call" => \A r \in Reg \cap CallerSaved : saved.pool[r] = None
          /\ IsTerminator(program, i) => AllSaved(saved, live)
      BY <3>2, <3>3, BeforeSecured
    <3> QED BY <2>1, <3>1, <3>4
  <2>2. CASE def # {}
    <3>1. program[i].does = "op"
      BY <1>10, <2>2
    <3>2. saved = resolved
      BY <1>2, <3>1 DEF Before, IsTerminator
    <3> QED BY <1>11, <3>1, <3>2 DEF IsTerminator
  <2> QED BY <2>1, <2>2
<1>13. \A v \in def : Mapped(saved, v)
  BY <1>11, <1>12
<1>14. ins.does = program[i].does /\ ins.uses = pins /\ ins.def = {RegOf(saved, v) : v \in def}
  <2>1. ins.def = {RegOf(resolved, v) : v \in def}
    BY <1>1, <1>8, <1>9
  <2>2. {RegOf(resolved, v) : v \in def} = {RegOf(saved, v) : v \in def}
    BY <1>12
  <2> QED BY <1>1, <1>9, <2>1, <2>2
<1>15. /\ State(ran) /\ ran.pool = saved.pool /\ ran.clean = saved.clean \ def /\ ran.slots = saved.slots
       /\ ran.out = Append(saved.out, ins)
  <2>1. PICK out, clean, slots : out = Append(saved.out, ins) /\ clean = saved.clean \ def /\ slots = saved.slots
    OBVIOUS
  <2>2. State(saved)
    BY <1>12 DEF Secured
  <2>3. PICK e, f : e = saved.pool /\ f = saved.refused
    OBVIOUS
  <2>4. PICK old, oldout : old = saved.clean /\ oldout = saved.out
    OBVIOUS
  <2>5. saved = [pool |-> e, clean |-> old, slots |-> slots, out |-> oldout, refused |-> f]
    BY <2>1, <2>2, <2>3, <2>4 DEF State
  <2>6. ran = [saved EXCEPT !.out = out, !.clean = clean]
    BY <1>2, <1>9, <2>1
  <2>7. ran = [pool |-> e, clean |-> clean, slots |-> slots, out |-> out, refused |-> f]
    BY <2>5, <2>6
  <2>8. ran.pool = e /\ ran.clean = clean /\ ran.slots = slots /\ ran.out = out /\ ran.refused = f
    BY <2>7
  <2>9. State(ran)
    BY <2>2, <2>3, <2>7, <2>8 DEF State
  <2> QED BY <2>1, <2>3, <2>8, <2>9
<1>16. Secured(d, ran, live, <<>>)
  <2>1. c.item = i /\ d.item = i /\ d.from = c.from /\ d.kept = c.kept /\ d.besides = c.besides \cup {program[i].does}
    BY <1>5, <1>7
  <2>2. live \in SUBSET Vreg /\ def = program[i].def /\ Len(pins) = Len(program[i].uses)
    BY <1>9, <1>10, <1>11
  <2>3. /\ Secured(c, saved, live \ def, pins)
        /\ program[i].does = "call" => \A r \in Reg \cap CallerSaved : saved.pool[r] = None
    BY <1>12
  <2>4. Written(i, saved, pins, ins) /\ RanAt(i, saved, ins, ran)
    BY <1>9, <1>14, <1>15 DEF Written, RanAt
  <2> QED BY <1>13, <2>1, <2>2, <2>3, <2>4, ItemSecured
<1>17. IsTerminator(program, i) => AllSaved(ran, live)
  <2>1. IsTerminator(program, i) => def = {}
    BY <1>10 DEF IsTerminator
  <2> QED BY <1>12, <1>15, <2>1 DEF AllSaved
<1>18. Secured(d, released, live, <<>>) /\ released.out = ran.out /\ (AllSaved(ran, live) => AllSaved(released, live))
  <2>1. live \in SUBSET Vreg /\ released = Release(ran, live)
    BY <1>2, <1>9, <1>10
  <2> QED BY <1>16, <2>1, Released
<1>19. /\ Secured(d, done, live, <<>>)
       /\ SavesBehind(i) => AllSaved(done, live)
       /\ ~SavesBehind(i) => done = released
  BY <1>2, <1>9, <1>10, <1>18, BehindSecured
<1>20. Leaving(i) => AllSaved(done, live)
  BY <1>17, <1>18, <1>19 DEF Leaving
<1>21. st'.pool = done.pool /\ st'.clean = done.clean /\ st'.slots = done.slots /\ st'.out = <<>> /\ code'[i] = done.out
  <2>1. State(done)
    BY <1>19 DEF Secured
  <2>2. PICK e, f, g, h, o : e = done.pool /\ f = done.refused /\ g = done.clean /\ h = done.slots /\ o = done.out
    OBVIOUS
  <2>3. done = [pool |-> e, clean |-> g, slots |-> h, out |-> o, refused |-> f]
    BY <2>1, <2>2 DEF State
  <2>4. PICK t : t = [done EXCEPT !.out = <<>>]
    OBVIOUS
  <2>5. t = [pool |-> e, clean |-> g, slots |-> h, out |-> <<>>, refused |-> f]
    BY <2>3, <2>4
  <2>6. st' = t /\ code'[i] = o
    BY <1>3, <1>8, <2>2, <2>4
  <2> QED BY <2>2, <2>5, <2>6
<1>22. PICK B : Reaches(i, A, done.out, B) /\ Ready(done, live, B)
  BY <1>5, <1>7, <1>19 DEF Secured
<1>23. Ready(st', live, B)
  BY <1>21, <1>22 DEF Ready, Mapped
<1>24. Shape(i, code'[i])
  <2>1. \A k \in 1 .. Len(done.out) : done.out[k].does \in Saves \cup {program[i].does}
    BY <1>5, <1>7, <1>19 DEF Secured, OnlySaves
  <2>2. Len(done.out) \in Nat
    BY <1>19 DEF Secured, OnlySaves
  <2>3. Len(done.out) > 0
    BY <1>5, <1>7, <1>19 DEF Secured, OnlySaves
  <2>4. ASSUME IsTerminator(program, i) PROVE done.out = Append(saved.out, ins)
    BY <1>15, <1>18, <1>19, <2>4 DEF SavesBehind
  <2>5. ASSUME IsTerminator(program, i) PROVE done.out[Len(done.out)].does = program[i].does
    <3>1. Len(saved.out) \in Nat
      BY <1>5, <1>12 DEF Secured, OnlySaves
    <3>2. Len(done.out) = Len(saved.out) + 1 /\ done.out[Len(saved.out) + 1] = ins
      BY <2>4, <2>5, <3>1
    <3> QED BY <1>14, <3>2
  <2>6. ASSUME IsTerminator(program, i), NEW k \in 1 .. (Len(done.out) - 1) PROVE done.out[k].does \in Saves
    <3>1. done.out = Append(saved.out, ins)
      BY <2>4, <2>6
    <3>2. Len(saved.out) \in Nat /\ \A n \in 1 .. Len(saved.out) : saved.out[n].does \in Saves
      BY <1>5, <1>12 DEF Secured, OnlySaves
    <3>3. Len(done.out) = Len(saved.out) + 1 /\ k \in 1 .. Len(saved.out) /\ done.out[k] = saved.out[k]
      BY <3>1, <3>2
    <3> QED BY <3>2, <3>3
  <2> QED BY <1>21, <2>1, <2>2, <2>3, <2>5, <2>6 DEF Shape
<1>25. st.slots \subseteq st'.slots
  BY <1>5, <1>7, <1>19, <1>21 DEF Secured
<1>26. Leaving(i) => AllSaved(st', live)
  BY <1>20, <1>21 DEF AllSaved
<1> QED BY <1>9, <1>21, <1>22, <1>23, <1>24, <1>25, <1>26 DEF Translated

-----------------------------------------------------------------------------
(***************************************************************************)
(* The values from outside in the order of their first use: each has its   *)
(* own number of others before it.                                         *)
(***************************************************************************)
LEMMA FirstUseIs ==
    ASSUME Sound, NEW p, WellFormed(p), NEW v \in EntryValues(p)
    PROVE  \E a \in DOMAIN p : \E b \in DOMAIN p[a].uses :
               a \in Nat /\ b \in Nat /\ FirstUse(p, v) = <<a, b>> /\ p[a].uses[b] = v
<1> DEFINE users == {i \in DOMAIN p : v \in UsesOf(p, i)}
<1>1. DOMAIN p \in SUBSET Nat /\ users # {} /\ users \in SUBSET Nat
  BY DEF WellFormed, EntryValues, UsedBefore
<1>2. PICK a \in users : \A x \in users : a <= x
  <2> HIDE DEF users
  <2> QED BY <1>1, LeastNatural
<1>3. Min(users) \in users
  <2> HIDE DEF users
  <2> QED BY <1>2 DEF Min
<1>4. PICK i : i = Min(users)
  OBVIOUS
<1>5. i \in DOMAIN p /\ v \in UsesOf(p, i)
  BY <1>3, <1>4
<1> DEFINE places == {n \in DOMAIN p[i].uses : p[i].uses[n] = v}
<1>6. places # {} /\ places \in SUBSET Nat
  BY <1>5 DEF WellFormed, UsesOf
<1>7. Min(places) \in places
  <2>1. \E n \in places : \A x \in places : n <= x
    <3> HIDE DEF places
    <3> QED BY <1>6, LeastNatural
  <2> HIDE DEF places
  <2> QED BY <2>1 DEF Min
<1>8. FirstUse(p, v) = <<i, Min(places)>>
  BY <1>4 DEF FirstUse
<1> QED BY <1>1, <1>5, <1>6, <1>7, <1>8

LEMMA Ranked ==
    ASSUME Sound, NEW p, WellFormed(p)
    PROVE  /\ Cardinality(EntryValues(p)) \in Nat /\ IsFiniteSet(EntryValues(p))
           /\ \A v \in EntryValues(p) : \E n \in 1 .. Cardinality(EntryValues(p)) : EntryValue(p, n) = v
<1>0. PICK E : E = EntryValues(p)
  OBVIOUS
<1>1. IsFiniteSet(E) /\ Cardinality(E) \in Nat
  <2>1. E \in SUBSET Value
    BY <1>0 DEF EntryValues, UsedBefore
  <2>2. IsFiniteSet(E)
    BY <2>1, FS_Subset DEF Sound
  <2> QED BY <2>2, FS_CardinalityType
<1> DEFINE Sooner(v) == UsedSooner(p, v)
<1>2. \A v, w \in E : w \in Sooner(v) <=>
          \/ FirstUse(p, w)[1] < FirstUse(p, v)[1]
          \/ FirstUse(p, w)[1] = FirstUse(p, v)[1] /\ FirstUse(p, w)[2] < FirstUse(p, v)[2]
  BY <1>0 DEF UsedSooner
<1>3. \A v : Sooner(v) \in SUBSET E
  BY <1>0 DEF UsedSooner
<1>4. \A v \in E : \E a, b \in Nat : FirstUse(p, v)[1] = a /\ FirstUse(p, v)[2] = b /\ p[a].uses[b] = v
  BY <1>0, FirstUseIs
<1> HIDE DEF Sooner
<1>5. \A v \in E : v \notin Sooner(v)
  BY <1>2, <1>4
<1>6. ASSUME NEW v \in E, NEW w \in E, v # w PROVE v \in Sooner(w) \/ w \in Sooner(v)
  <2>1. PICK a, b \in Nat : FirstUse(p, v)[1] = a /\ FirstUse(p, v)[2] = b /\ p[a].uses[b] = v
    BY <1>4
  <2>2. PICK c, d \in Nat : FirstUse(p, w)[1] = c /\ FirstUse(p, w)[2] = d /\ p[c].uses[d] = w
    BY <1>4
  <2>3. a # c \/ b # d
    BY <1>6, <2>1, <2>2
  <2>4. (a < c \/ (a = c /\ b < d)) \/ (c < a \/ (c = a /\ d < b))
    BY <2>3
  <2> QED BY <1>2, <2>1, <2>2, <2>4
<1>7. ASSUME NEW u \in E, NEW v \in E, NEW w \in E, u \in Sooner(v), v \in Sooner(w) PROVE u \in Sooner(w)
  <2>1. PICK a, b \in Nat : FirstUse(p, v)[1] = a /\ FirstUse(p, v)[2] = b
    BY <1>4
  <2>2. PICK c, d \in Nat : FirstUse(p, w)[1] = c /\ FirstUse(p, w)[2] = d
    BY <1>4
  <2>3. PICK e, f \in Nat : FirstUse(p, u)[1] = e /\ FirstUse(p, u)[2] = f
    BY <1>4
  <2>4. (e < a \/ (e = a /\ f < b)) /\ (a < c \/ (a = c /\ b < d))
    BY <1>2, <1>7, <2>1, <2>2, <2>3
  <2>5. e < c \/ (e = c /\ f < d)
    BY <2>4
  <2> QED BY <1>2, <2>2, <2>3, <2>5
<1>8. \A v \in E : IsFiniteSet(Sooner(v)) /\ Cardinality(Sooner(v)) \in Nat
  BY <1>1, <1>3, FS_Subset, FS_CardinalityType
<1>9. ASSUME NEW v \in E, NEW w \in E, v \in Sooner(w) PROVE Cardinality(Sooner(v)) < Cardinality(Sooner(w))
  <2>1. Sooner(v) \cup {v} \in SUBSET Sooner(w)
    BY <1>3, <1>7, <1>9
  <2>2. Cardinality(Sooner(v) \cup {v}) = Cardinality(Sooner(v)) + 1
    BY <1>5, <1>8, FS_AddElement
  <2>3. Cardinality(Sooner(v) \cup {v}) <= Cardinality(Sooner(w))
    BY <1>8, <2>1, FS_Subset
  <2> QED BY <1>8, <2>2, <2>3
<1>10. \A v, w \in E : Cardinality(Sooner(v)) = Cardinality(Sooner(w)) => v = w
  <2> SUFFICES ASSUME NEW v \in E, NEW w \in E, Cardinality(Sooner(v)) = Cardinality(Sooner(w)), v # w PROVE FALSE
    OBVIOUS
  <2>1. Cardinality(Sooner(v)) < Cardinality(Sooner(w)) \/ Cardinality(Sooner(w)) < Cardinality(Sooner(v))
    BY <1>6, <1>9
  <2> QED BY <1>8, <2>1
<1>11. ASSUME NEW v \in E PROVE Cardinality(Sooner(v)) + 1 \in 1 .. Cardinality(E)
  <2>1. Sooner(v) \cup {v} \in SUBSET E
    BY <1>3
  <2>2. Cardinality(Sooner(v) \cup {v}) = Cardinality(Sooner(v)) + 1
    BY <1>5, <1>8, FS_AddElement
  <2>3. Cardinality(Sooner(v) \cup {v}) <= Cardinality(E)
    BY <1>1, <2>1, FS_Subset
  <2> QED BY <1>1, <1>8, <2>2, <2>3
<1>12. ASSUME NEW v \in E PROVE \E n \in 1 .. Cardinality(E) : EntryValue(p, n) = v
  <2>1. PICK k \in Nat : k = Cardinality(Sooner(v))
    BY <1>8
  <2>2. k + 1 \in 1 .. Cardinality(E) /\ (k + 1) - 1 = k
    BY <1>11, <2>1
  <2>3. EntryValue(p, k + 1) = CHOOSE w \in E : Cardinality(Sooner(w)) = k
    BY <1>0, <2>2 DEF EntryValue, Sooner
  <2>4. EntryValue(p, k + 1) = v
    BY <1>10, <2>1, <2>3
  <2> QED BY <2>2, <2>4
<1> QED BY <1>0, <1>1, <1>12

\* While fewer of them than registers have come, one is free.
TookFirst(s, n) ==
    /\ State(s) /\ ~s.refused /\ s.clean = {} /\ s.out = <<>>
    /\ \A r \in Reg : s.pool[r] = None \/ \E m \in 1 .. n : s.pool[r] = EntryValue(program, m)
    /\ \A m \in 1 .. n : EntryValue(program, m) # None => Mapped(s, EntryValue(program, m))

LEMMA OneIsFree ==
    ASSUME Sound, NEW n \in Nat, n < Len(Bank), NEW s, TookFirst(s, n)
    PROVE  \E r \in Reg : s.pool[r] = None
<1> SUFFICES ASSUME \A r \in Reg : s.pool[r] # None PROVE FALSE
  OBVIOUS
<1>0. PICK N : N = Len(Bank)
  OBVIOUS
<1>1. N \in Nat /\ n < N /\ DOMAIN Bank = 1 .. N /\ \A k \in 1 .. N : Bank[k] \in Reg
  BY <1>0 DEF Sound, Reg
<1>2. PICK g : g = [k \in 1 .. N |-> CHOOSE m \in 1 .. n : s.pool[Bank[k]] = EntryValue(program, m)]
  OBVIOUS
<1>3. \A k \in 1 .. N : g[k] \in 1 .. n /\ s.pool[Bank[k]] = EntryValue(program, g[k])
  <2> SUFFICES ASSUME NEW k \in 1 .. N PROVE g[k] \in 1 .. n /\ s.pool[Bank[k]] = EntryValue(program, g[k])
    OBVIOUS
  <2>1. \E m \in 1 .. n : s.pool[Bank[k]] = EntryValue(program, m)
    BY <1>1 DEF TookFirst
  <2> QED BY <1>2, <2>1
<1>4. g \in [1 .. N -> 1 .. n]
  BY <1>2, <1>3
<1>5. PICK j, k \in 1 .. N : j # k /\ g[j] = g[k]
  <2>1. \A k \in Nat : IsFiniteSet(1 .. k) /\ Cardinality(1 .. k) = k
    <3> SUFFICES ASSUME NEW k \in Nat PROVE IsFiniteSet(1 .. k) /\ Cardinality(1 .. k) = k
      OBVIOUS
    <3>1. k \in Int /\ 1 \in Int
      OBVIOUS
    <3>2. IsFiniteSet(1 .. k) /\ Cardinality(1 .. k) = IF 1 > k THEN 0 ELSE k - 1 + 1
      BY <3>1, FS_Interval
    <3> QED BY <3>2
  <2>2. Cardinality(1 .. n) < Cardinality(1 .. N)
    BY <1>1, <2>1
  <2> QED BY <1>1, <1>4, <2>1, <2>2, FS_PigeonHole
<1>6. Bank[j] = Bank[k]
  <2>1. Bank[j] \in Reg /\ Bank[k] \in Reg /\ s.pool[Bank[j]] = s.pool[Bank[k]]
    BY <1>1, <1>3, <1>5
  <2> QED BY <2>1 DEF TookFirst, State, Distinct
<1> QED BY <1>1, <1>5, <1>6 DEF Sound

LEMMA FreeTaken ==
    ASSUME Sound, NEW s, NEW v, ~Mapped(s, v), \E r \in Reg : s.pool[r] = None
    PROVE  \E r \in Reg : s.pool[r] = None /\ Assign(s, 1, v, FALSE, {}, {}) = [s EXCEPT !.pool[r] = v]
<1> DEFINE candidates == {k \in DOMAIN Bank : Bank[k] \notin {}}
           free == {k \in candidates : s.pool[Bank[k]] = None}
           k == IF free # {} THEN Min(free) ELSE Victim(s, 1, candidates)
           r == Bank[k]
           evicted == IF free # {} THEN s ELSE SpillIfStale(s, s.pool[r], r, {})
           placed == [evicted EXCEPT !.pool[r] = v]
<1>1. free # {} /\ candidates # {} /\ free \in SUBSET DOMAIN Bank
  BY DEF Reg
<1>2. Min(free) \in free
  BY <1>1, FirstPlace
<1>3. Assign(s, 1, v, FALSE, {}, {}) = placed
  <2>1. Assign(s, 1, v, FALSE, {}, {}) =
            IF Mapped(s, v) THEN s
            ELSE IF candidates = {} THEN [s EXCEPT !.refused = TRUE]
            ELSE IF FALSE THEN EmitReload(placed, v, r) ELSE placed
    BY DEF Assign
  <2> HIDE DEF candidates, placed, r
  <2> QED BY <1>1, <2>1
<1>4. k = Min(free) /\ evicted = s
  BY <1>1
<1>5. r \in Reg /\ s.pool[r] = None
  <2>1. k \in free
    BY <1>2, <1>4
  <2> QED BY <2>1 DEF Reg
<1> QED BY <1>3, <1>4, <1>5

LEMMA OneEntered ==
    ASSUME Sound, NEW n \in Nat, n < Len(Bank), NEW s, TookFirst(s, n),
           NEW t, t = Assign(s, 1, EntryValue(program, n + 1), FALSE, {}, {})
    PROVE  TookFirst(t, n + 1)
<1>0. PICK v : v = EntryValue(program, n + 1)
  OBVIOUS
<1>1. \A m \in 1 .. n + 1 : m \in 1 .. n \/ m = n + 1
  OBVIOUS
<1>2. \A m \in 1 .. n : m \in 1 .. n + 1
  OBVIOUS
<1>3. CASE Mapped(s, v)
  <2>1. t = s
    BY <1>0, <1>3 DEF Assign
  <2> QED BY <1>0, <1>1, <1>2, <1>3, <2>1 DEF TookFirst
<1>4. CASE ~Mapped(s, v)
  <2>1. PICK r \in Reg : s.pool[r] = None /\ t = [s EXCEPT !.pool[r] = v]
    <3>1. \E r \in Reg : s.pool[r] = None
      BY OneIsFree
    <3>2. \E r \in Reg : s.pool[r] = None /\ Assign(s, 1, v, FALSE, {}, {}) = [s EXCEPT !.pool[r] = v]
      BY <1>4, <3>1, FreeTaken
    <3> QED BY <1>0, <3>2
  <2>2. \A q \in Reg : s.pool[q] = v => v = None
    BY <1>4 DEF Mapped
  <2>3. State(s)
    BY DEF TookFirst
  <2>4. Placed(s, r, v, t)
    BY <2>1, <2>2, <2>3, PlaceFields
  <2>5. State(t) /\ ~t.refused /\ t.clean = {} /\ t.out = <<>>
    BY <2>4 DEF Placed, TookFirst
  <2>6. n + 1 \in 1 .. n + 1
    OBVIOUS
  <2>7. ASSUME NEW q \in Reg PROVE t.pool[q] = None \/ \E m \in 1 .. n + 1 : t.pool[q] = EntryValue(program, m)
    <3>1. CASE q = r
      BY <1>0, <2>4, <2>6, <3>1 DEF Placed
    <3>2. CASE q # r
      BY <1>2, <2>4, <3>2 DEF Placed, TookFirst
    <3> QED BY <3>1, <3>2
  <2>8. \A w : w # None /\ Mapped(s, w) => Mapped(t, w)
    BY <2>1, <2>4 DEF Placed, Mapped
  <2>9. Mapped(t, v)
    BY <2>4 DEF Placed, Mapped
  <2>10. \A m \in 1 .. n + 1 : EntryValue(program, m) # None => Mapped(t, EntryValue(program, m))
    BY <1>0, <1>1, <2>8, <2>9 DEF TookFirst
  <2> QED BY <2>5, <2>7, <2>10 DEF TookFirst
<1> QED BY <1>3, <1>4

(***************************************************************************)
(* The allocator's state as the first item begins: the values from outside *)
(* have registers, the values that come round an edge have slots.          *)
(***************************************************************************)
Begun(s, across) ==
    /\ State(s) /\ ~s.refused /\ s.clean = {} /\ s.out = <<>>
    /\ s.slots = UsedBefore(program) \cap Defined(program) \cap across
    /\ \A v \in EntryValues(program) : Mapped(s, v)

LEMMA StartIsBegun ==
    ASSUME Sound, WellFormed(program), Cardinality(EntryValues(program)) <= Len(Bank)
    PROVE  Begun(Start(program), LiveOnEdges(program, graph, live_in))
<1> DEFINE N == Cardinality(EntryValues(program))
           loop == [over |-> "entry", code |-> program]
<1>1. N \in Nat /\ \A v \in EntryValues(program) : \E n \in 1 .. N : EntryValue(program, n) = v
  BY Ranked
<1>2. PICK f : /\ Rounds(loop, Blank, N, f)
               /\ Start(program) = [f[N] EXCEPT !.slots = UsedBefore(program) \cap Defined(program)
                                                          \cap LiveOnEdges(program, graph, live_in)]
  BY <1>1, StartUnfolded
<1>3. \A x, n : LoopPass(loop, x, n) = Assign(x, 1, EntryValue(program, n), FALSE, {}, {})
  BY DEF LoopPass
<1>4. TookFirst(Blank, 0)
  <2>1. 1 .. 0 = {}
    OBVIOUS
  <2>2. Blank.clean = {} /\ Blank.out = <<>> /\ \A r \in Reg : Blank.pool[r] = None
    BY DEF Blank, NoRegisters
  <2> QED BY <2>1, <2>2, BlankState DEF TookFirst
<1> HIDE DEF loop
<1>5. N <= Len(Bank) /\ Len(Bank) \in Nat
  BY DEF Sound
<1> HIDE DEF N
<1> DEFINE Bad == {n \in 0 .. N : ~TookFirst(f[n], n)}
<1>6. Bad = {}
  <2> SUFFICES ASSUME Bad # {} PROVE FALSE
    OBVIOUS
  <2>1. PICK n \in Bad : \A m \in Bad : n <= m
    <3>1. Bad \in SUBSET Nat
      BY <1>1
    <3> HIDE DEF Bad
    <3> QED BY <3>1, LeastNatural
  <2>2. CASE n = 0
    BY <1>2, <1>4, <2>1, <2>2 DEF Rounds
  <2>3. CASE n # 0
    <3>1. n \in 1 .. N /\ n - 1 \in 0 .. N /\ ~(n <= n - 1) /\ n - 1 < Len(Bank) /\ (n - 1) + 1 = n /\ n - 1 \in Nat
      BY <1>1, <1>5, <2>1, <2>3
    <3>2. TookFirst(f[n - 1], n - 1)
      BY <2>1, <3>1
    <3>3. PICK k : k = n - 1
      OBVIOUS
    <3>4. PICK s, t : s = f[k] /\ t = f[n]
      OBVIOUS
    <3>5. t = Assign(s, 1, EntryValue(program, k + 1), FALSE, {}, {})
      BY <1>2, <1>3, <3>1, <3>3, <3>4 DEF Rounds
    <3>6. k \in Nat /\ k < Len(Bank) /\ k + 1 = n /\ TookFirst(s, k)
      BY <3>1, <3>2, <3>3, <3>4
    <3>7. TookFirst(t, k + 1)
      BY <3>5, <3>6, OneEntered
    <3> QED BY <2>1, <3>4, <3>6, <3>7
  <2> QED BY <2>2, <2>3
<1>7. PICK s : s = f[N] /\ TookFirst(s, N)
  BY <1>1, <1>6
<1>8. PICK slots : slots = UsedBefore(program) \cap Defined(program) \cap LiveOnEdges(program, graph, live_in)
  OBVIOUS
<1>9. PICK a, b, d, e, o : s = [pool |-> a, clean |-> b, slots |-> o, out |-> d, refused |-> e]
  BY <1>7 DEF TookFirst, State
<1>10. PICK t : t = [s EXCEPT !.slots = slots]
  OBVIOUS
<1>11. t = [pool |-> a, clean |-> b, slots |-> slots, out |-> d, refused |-> e]
  BY <1>9, <1>10
<1>12. /\ t.pool = s.pool /\ t.refused = s.refused /\ t.slots = slots /\ t.clean = s.clean /\ t.out = s.out
       /\ t = [pool |-> t.pool, clean |-> t.clean, slots |-> t.slots, out |-> t.out, refused |-> t.refused]
  BY <1>9, <1>11
<1>13. State(t) /\ ~t.refused /\ t.clean = {} /\ t.out = <<>>
  BY <1>7, <1>12 DEF State, TookFirst
<1>14. ASSUME NEW v \in EntryValues(program) PROVE Mapped(t, v)
  <2>1. PICK n \in 1 .. N : EntryValue(program, n) = v
    BY <1>1
  <2>2. v # None
    BY DEF EntryValues, UsedBefore, Sound
  <2>3. Mapped(s, v)
    BY <1>7, <2>1, <2>2 DEF TookFirst
  <2> QED BY <1>12, <2>3 DEF Mapped
<1>15. Start(program) = t
  BY <1>2, <1>7, <1>8, <1>10
<1> QED BY <1>8, <1>12, <1>13, <1>14, <1>15 DEF Begun

-----------------------------------------------------------------------------
(***************************************************************************)
(* From item to item: every value that is still needed has a register or a *)
(* slot, and those that blocks further up have saved keep their slots.     *)
(***************************************************************************)
Fit(s, need) == (\A v \in need : Mapped(s, v) \/ v \in s.slots) /\ s.clean \subseteq s.slots

Slotted(p, after, i, s) ==
    /\ Reserved(p, after) \subseteq s.slots
    /\ \A a \in Saving(p) : LastOf(p, a) < i => after[LastOf(p, a)] \subseteq s.slots
Waiting(p, after, i, s) == Slotted(p, after, i, s) /\ Fit(s, BlockIn(p, after, i))

LEMMA FitIsReady == ASSUME NEW s, NEW need, Fit(s, need) PROVE \E A : Ready(s, need, A)
<1>1. PICK held : held = [r \in Reg |-> {s.pool[r]}]
  OBVIOUS
<1>2. PICK A : A = [held |-> held, stored |-> need]
  OBVIOUS
<1>3. A.stored = need /\ \A r \in Reg : s.pool[r] \in A.held[r]
  BY <1>1, <1>2
<1>4. Ready(s, need, A)
  BY <1>3 DEF Ready, Fit
<1> QED BY <1>4

\* What is passed on in the slots is there.
LEMMA Handed ==
    ASSUME NEW p, WellFormed(p), NEW after, InOrder(p, after), NEW b \in Leaders(p), b # 1, b - 1 \notin CarryAfter(p),
           NEW s, Slotted(p, after, b, s)
    PROVE  BlockIn(p, after, b) \subseteq s.slots
<1>1. BlockIn(p, after, b) \subseteq Reserved(p, after) \cup SavedBefore(p, after, b)
  BY DEF InOrder
<1>2. Reserved(p, after) \subseteq s.slots
  BY DEF Slotted
<1>3. ASSUME NEW a \in Saving(p), a < b PROVE after[LastOf(p, a)] \subseteq s.slots
  <2>0. PICK l, N : l = LastOf(p, a) /\ N = Len(p)
    OBVIOUS
  <2>1. a \in DOMAIN p /\ a \in Leaders(p) /\ b \in DOMAIN p /\ Leads(p, b) /\ DOMAIN p = 1 .. N /\ N \in Nat
    BY <2>0 DEF Saving, Leaders, WellFormed
  <2>2. l \in a .. N /\ \A k \in a + 1 .. l : ~Leads(p, k)
    BY <2>0, <2>1, LastIs
  <2>3. b \notin a + 1 .. l
    BY <2>1, <2>2
  <2>4. l < b
    BY <1>3, <2>1, <2>2, <2>3
  <2> QED BY <2>0, <2>4 DEF Slotted
<1>4. SavedBefore(p, after, b) \subseteq s.slots
  BY <1>3 DEF SavedBefore
<1> QED BY <1>1, <1>2, <1>4

\* What an item expects lives behind the one before it.
LEMMA Follows ==
    ASSUME NEW p, WellFormed(p), Selected(p), NEW after, NEW across, Flows(p, after, across), NEW i \in DOMAIN p
    PROVE  /\ i + 1 \in DOMAIN p /\ (~Leads(p, i + 1) \/ FallsTo(p, i) \/ i \in CarryAfter(p)) =>
                  BlockIn(p, after, i + 1) \subseteq after[i]
           /\ GoesTo(p, i) => BlockIn(p, after, LabelPlace(p, p[i].to)) \subseteq after[i]
<1>1. i + 1 \in DOMAIN p /\ ~Leads(p, i + 1) => BlockIn(p, after, i + 1) \subseteq after[i]
  BY DEF Flows
<1>2. ASSUME i + 1 \in DOMAIN p, Leads(p, i + 1), FallsTo(p, i) \/ i \in CarryAfter(p) PROVE BlockIn(p, after, i + 1) \subseteq after[i]
  <2>1. PICK e : e = [from |-> BlockOf(p, i), to |-> i + 1, falls |-> TRUE]
    OBVIOUS
  <2>2. e \in Edges(p) /\ e.from = BlockOf(p, i) /\ e.to = i + 1
    <3>1. i \in CarryAfter(p) => {x \in Edges(p) : x.to = i + 1} = {e}
      BY <2>1 DEF CarryAfter
    <3>2. FallsTo(p, i) => e \in Edges(p)
      BY <1>2, <2>1, EdgesFrom
    <3> QED BY <1>2, <2>1, <3>1, <3>2
  <2>3. LastOf(p, e.from) = i
    BY <1>2, <2>2, InBlock
  <2> QED BY <2>2, <2>3 DEF Flows
<1>3. ASSUME GoesTo(p, i) PROVE BlockIn(p, after, LabelPlace(p, p[i].to)) \subseteq after[i]
  <2>1. Leads(p, i + 1)
    <3>1. (i + 1) - 1 = i /\ IsTerminator(p, i)
      BY <1>3 DEF GoesTo, IsTerminator, WellFormed
    <3> QED BY <3>1 DEF Leads
  <2>2. PICK e : e = [from |-> BlockOf(p, i), to |-> LabelPlace(p, p[i].to), falls |-> FALSE]
    OBVIOUS
  <2>3. e \in Edges(p) /\ e.from = BlockOf(p, i) /\ e.to = LabelPlace(p, p[i].to)
    BY <1>3, <2>1, <2>2, EdgesFrom
  <2>4. LastOf(p, e.from) = i
    BY <2>1, <2>3, InBlock
  <2> QED BY <2>3, <2>4 DEF Flows
<1> QED BY <1>1, <1>2, <1>3

\* Behind an instruction.
LEMMA WaitingBehind ==
    ASSUME Sound, WellFormed(program), Selected(program), InOrder(program, live_after), NEW across,
           Flows(program, live_after, across), carry_after = CarryAfter(program),
           NEW i \in DOMAIN program, i + 1 \in DOMAIN program, ~IsLabel(program, i),
           NEW s, Waiting(program, live_after, i, s), NEW A, NEW t, NEW out, Translated(A, i, s.slots, t, out)
    PROVE  Waiting(program, live_after, i + 1, t)
<1>1. /\ i \in Nat /\ i + 1 # 1 /\ (i + 1) - 1 = i /\ i + 1 <= Len(program) /\ i < Len(program)
      /\ i + 1 \in Leaders(program) <=> Leads(program, i + 1)
  BY DEF WellFormed, Leaders
<1>2. PICK live : live = live_after[i]
  OBVIOUS
<1>3. /\ Fit(t, live) /\ s.slots \subseteq t.slots
      /\ Leaving(i) => AllSaved(t, live)
  BY <1>2 DEF Translated, Ready, Fit
<1>4. Leaving(i) => live \subseteq t.slots
  BY <1>3 DEF AllSaved, Fit, Mapped
<1>5. Slotted(program, live_after, i + 1, t)
  <2>1. ASSUME NEW a \in Saving(program), LastOf(program, a) < i + 1 PROVE live_after[LastOf(program, a)] \subseteq t.slots
    <3>0. PICK l : l = LastOf(program, a)
      OBVIOUS
    <3>1. l \in Nat /\ (l = Len(program) \/ Leads(program, l + 1)) /\ (IsTerminator(program, l) \/ l \notin carry_after)
      <4>1. a \in DOMAIN program /\ (IsTerminator(program, l) \/ l \notin carry_after)
        BY <3>0 DEF Saving, Leaders
      <4>2. l \in DOMAIN program /\ (l = Len(program) \/ Leads(program, l + 1))
        BY <3>0, <4>1, LastIs
      <4> QED BY <4>1, <4>2 DEF WellFormed
    <3>2. CASE l < i
      BY <1>3, <3>0, <3>2 DEF Waiting, Slotted
    <3>3. CASE ~(l < i)
      <4>1. l = i
        BY <1>1, <2>1, <3>0, <3>1, <3>3
      <4>2. IsTerminator(program, i) \/ (IsLabel(program, i + 1) /\ i \notin carry_after)
        BY <1>1, <3>1, <4>1 DEF Leads
      <4>3. Leaving(i)
        BY <1>1, <4>2 DEF Leaving, SavesBehind, BeforeLabel
      <4> QED BY <1>2, <1>4, <3>0, <4>1, <4>3
    <3> QED BY <3>2, <3>3
  <2>2. Reserved(program, live_after) \subseteq t.slots
    BY <1>3 DEF Waiting, Slotted
  <2> QED BY <2>1, <2>2 DEF Slotted
<1>6. BlockIn(program, live_after, i + 1) \subseteq live \/ BlockIn(program, live_after, i + 1) \subseteq t.slots
  <2>1. CASE ~Leads(program, i + 1) \/ i \in CarryAfter(program)
    BY <1>2, <2>1, Follows
  <2>2. CASE Leads(program, i + 1) /\ i \notin CarryAfter(program)
    <3>1. PICK b : b = i + 1
      OBVIOUS
    <3>2. b \in Leaders(program) /\ b # 1 /\ b - 1 \notin CarryAfter(program) /\ Slotted(program, live_after, b, t)
      BY <1>1, <1>5, <2>2, <3>1
    <3>3. BlockIn(program, live_after, b) \subseteq t.slots
      BY <3>2, Handed
    <3> QED BY <3>1, <3>3
  <2> QED BY <2>1, <2>2
<1>7. Fit(t, BlockIn(program, live_after, i + 1))
  BY <1>3, <1>6 DEF Fit
<1> QED BY <1>5, <1>7 DEF Waiting

\* Behind a label, where the registers may have been forgotten.
Joined(i, s, t) ==
    /\ t.slots = s.slots /\ t.clean = s.clean
    /\ IF i # 1 /\ i - 1 \notin carry_after THEN \A r \in Reg : t.pool[r] = None ELSE t.pool = s.pool

LEMMA WaitingAtLabel ==
    ASSUME Sound, WellFormed(program), Selected(program), InOrder(program, live_after), NEW across,
           Flows(program, live_after, across), carry_after = CarryAfter(program),
           NEW i \in DOMAIN program, i + 1 \in DOMAIN program, IsLabel(program, i),
           NEW s, Waiting(program, live_after, i, s), NEW t, Joined(i, s, t)
    PROVE  /\ Waiting(program, live_after, i + 1, t) /\ Fit(t, live_after[i])
           /\ BlockIn(program, live_after, i + 1) \subseteq live_after[i]
           /\ ~IsLabel(program, i + 1)
<1>1. i \in Nat /\ i + 1 # 1 /\ (i + 1) - 1 = i /\ i \in Leaders(program)
  BY DEF WellFormed, Leaders, Leads
<1>2. ~IsLabel(program, i + 1) /\ ~Leads(program, i + 1)
  <2>1. ~IsLabel(program, i + 1) /\ ~IsTerminator(program, i)
    BY DEF InOrder, IsTerminator, IsLabel
  <2> QED BY <1>1, <2>1 DEF Leads
<1>3. BlockIn(program, live_after, i + 1) \subseteq live_after[i] /\ BlockIn(program, live_after, i) = live_after[i]
  BY <1>2, Follows DEF BlockIn
<1>4. Slotted(program, live_after, i + 1, t)
  <2>1. ASSUME NEW a \in Saving(program), LastOf(program, a) < i + 1 PROVE live_after[LastOf(program, a)] \subseteq s.slots
    <3>0. PICK l : l = LastOf(program, a)
      OBVIOUS
    <3>1. l \in Nat /\ (l = Len(program) \/ Leads(program, l + 1))
      <4>1. a \in DOMAIN program
        BY <3>0 DEF Saving, Leaders
      <4>2. l \in DOMAIN program /\ (l = Len(program) \/ Leads(program, l + 1))
        BY <3>0, <4>1, LastIs
      <4> QED BY <4>2 DEF WellFormed
    <3>2. l # i
      <4>1. i < Len(program)
        BY <1>1 DEF WellFormed
      <4>2. l = i => l = Len(program)
        BY <1>2, <3>1
      <4> QED BY <1>1, <4>1, <4>2
    <3>3. l < i
      BY <1>1, <2>1, <3>0, <3>1, <3>2
    <3> QED BY <3>0, <3>3 DEF Waiting, Slotted
  <2> QED BY <2>1 DEF Waiting, Slotted, Joined
<1>5. Fit(t, live_after[i])
  <2>1. CASE i # 1 /\ i - 1 \notin carry_after
    <3>1. live_after[i] \subseteq s.slots
      BY <1>1, <1>3, <2>1, Handed DEF Waiting
    <3> QED BY <3>1 DEF Joined, Fit, Waiting
  <2>2. CASE ~(i # 1 /\ i - 1 \notin carry_after)
    <3>1. t.pool = s.pool
      BY <2>2 DEF Joined
    <3> QED BY <1>3, <3>1 DEF Joined, Fit, Waiting, Mapped
  <2> QED BY <2>1, <2>2
<1>6. Fit(t, BlockIn(program, live_after, i + 1))
  BY <1>3, <1>5 DEF Fit
<1> QED BY <1>2, <1>3, <1>4, <1>5, <1>6 DEF Waiting

-----------------------------------------------------------------------------
(***************************************************************************)
(* The allocator's way through the text: f has its state at every item it  *)
(* has come to.                                                            *)
(***************************************************************************)
Passed(i, s, t, out) ==
    IF IsLabel(program, i) THEN out = <<>> /\ Joined(i, s, t)
    ELSE \A A : Ready(s, BlockIn(program, live_after, i), A) => Translated(A, i, s.slots, t, out)

History(f) ==
    /\ Flows(program, live_after, Value) /\ carry_after = CarryAfter(program)
    /\ DOMAIN code = DOMAIN program /\ \A i \in DOMAIN program : i >= next => code[i] = <<>>
    /\ f[1].clean = {} /\ \A v \in EntryValues(program) : Mapped(f[1], v)
    /\ next > 1 => arriving = f[1].pool
    /\ f[next] = st /\ st.out = <<>>
    /\ \A i \in 1 .. next : i \in DOMAIN program => Waiting(program, live_after, i, f[i])
    /\ \A i \in 1 .. (next - 1) : i \in DOMAIN program /\ Passed(i, f[i], f[i + 1], code[i])

LEMMA SamePassed ==
    ASSUME program' = program, live_after' = live_after, carry_after' = carry_after,
           NEW i, NEW s, NEW t, NEW out, code'[i] = out, Passed(i, s, t, out)
    PROVE  Passed(i, s, t, code[i])'
<1>1. \A A, B : Reaches(i, A, out, B) => Reaches(i, A, code[i], B)'
  BY DEF Reaches, Trace, Emits, Stores, Loads, Runs
<1>2. Shape(i, out) => Shape(i, code[i])'
  BY DEF Shape
<1>3. (Leaving(i) <=> Leaving(i)') /\ (Joined(i, s, t) <=> Joined(i, s, t)')
  BY DEF Leaving, SavesBehind, BeforeLabel, Joined
<1>4. \A A : Translated(A, i, s.slots, t, out) => Translated(A, i, s.slots, t, code[i])'
  BY <1>1, <1>2, <1>3 DEF Translated
<1> QED BY <1>3, <1>4 DEF Passed

LEMMA HistoryStarts ==
    ASSUME Sound, WellFormed(program), Selected(program), graph = FlowGraph(program), DOMAIN code = DOMAIN program,
           \A i \in DOMAIN program : code[i] = <<>>, GreedyStart, InOrder(program, live_after')
    PROVE  \E f : History(f)'
<1>1. /\ program' = program /\ code' = code /\ next' = 1 /\ carry_after' = CarryAfter(program)
      /\ st' = Start(program) /\ Round = live_in /\ live_after' = LiveAfterItems(program, graph, live_in)
  BY DEF GreedyStart, Analysed
<1>2. PICK after, across : after = live_after' /\ across = LiveOnEdges(program, graph, live_in)
  OBVIOUS
<1>3. Solved(program, graph, live_in)
  <2>1. live_in = [b \in Block |-> NewIn(graph, live_in, b)]
    BY <1>1 DEF Round
  <2>2. \A b \in Block : NewIn(graph, live_in, b) \in SUBSET Value
    BY DEF NewIn, NewOut, Uses
  <2>3. \A b \in Block : live_in[b] = NewIn(graph, live_in, b)
    BY <2>1
  <2>4. live_in \in [Block -> SUBSET Value]
    BY <2>1, <2>2, <2>3
  <2> QED BY <2>3, <2>4 DEF Solved
<1>4. Flows(program, after, across)
  BY <1>1, <1>2, <1>3, AnswerFlows
<1>5. Flows(program, after, Value)
  <2>1. \A e \in Edges(program) : LastOf(program, e.from) \in DOMAIN program
    BY EdgeIs
  <2> QED BY <1>4, <2>1 DEF Flows
<1>6. Cardinality(EntryValues(program)) <= Len(Bank)
  BY <1>2 DEF InOrder
<1>7. PICK s : s = Start(program)
  OBVIOUS
<1>8. Begun(s, across)
  BY <1>2, <1>6, <1>7, StartIsBegun
<1>9. Reserved(program, after) \subseteq s.slots
  BY <1>4, <1>8 DEF Begun, Reserved, Flows
<1>10. ASSUME 1 \in DOMAIN program PROVE Waiting(program, after, 1, s)
  <2>1. ASSUME NEW a \in Saving(program), LastOf(program, a) < 1 PROVE FALSE
    <3>1. a \in DOMAIN program
      BY DEF Saving, Leaders
    <3>2. LastOf(program, a) \in DOMAIN program
      BY <3>1, LastIs
    <3> QED BY <2>1, <3>2 DEF WellFormed
  <2>2. Slotted(program, after, 1, s)
    BY <1>9, <2>1 DEF Slotted
  <2>3. BlockIn(program, after, 1) \subseteq Reserved(program, after) \cup EntryValues(program)
    BY <1>2, <1>10 DEF InOrder
  <2>4. Fit(s, BlockIn(program, after, 1))
    BY <1>8, <1>9, <2>3 DEF Fit, Begun
  <2> QED BY <2>2, <2>4 DEF Waiting
<1>11. PICK f : f = [i \in {1} |-> s]
  OBVIOUS
<1>12. f[1] = s
  BY <1>11
<1>13. /\ Flows(program, live_after, Value)' /\ (carry_after = CarryAfter(program))'
       /\ (DOMAIN code = DOMAIN program /\ \A i \in DOMAIN program : i >= next => code[i] = <<>>)' /\ (f[1].clean = {})'
       /\ (\A v \in EntryValues(program) : Mapped(f[1], v))'
       /\ (f[next] = st /\ st.out = <<>>)'
  BY <1>1, <1>2, <1>5, <1>7, <1>8, <1>12 DEF Begun
<1>14. (next > 1 => arriving = f[1].pool)'
  BY <1>1
<1>15. (\A i \in 1 .. next : i \in DOMAIN program => Waiting(program, live_after, i, f[i]))'
  <2>1. \A i \in 1 .. 1 : i = 1
    OBVIOUS
  <2> QED BY <1>1, <1>2, <1>10, <1>12, <2>1
<1>16. (\A i \in 1 .. (next - 1) : i \in DOMAIN program /\ Passed(i, f[i], f[i + 1], code[i]))'
  <2>1. 1 .. (next' - 1) = {}
    BY <1>1
  <2> QED BY <2>1
<1>17. History(f)'
  BY <1>13, <1>14, <1>15, <1>16 DEF History
<1> QED BY <1>17

LEMMA ForgetFields ==
    ASSUME NEW s, State(s), NEW t, t = Forget(s)
    PROVE  t.slots = s.slots /\ t.clean = s.clean /\ t.out = s.out /\ \A r \in Reg : t.pool[r] = None
<1>1. PICK pool : pool = [r \in Reg |-> None]
  OBVIOUS
<1>2. pool = [r \in Reg |-> pool[r]] /\ \A r \in Reg : pool[r] = None
  BY <1>1
<1>3. t = [s EXCEPT !.pool = pool]
  BY <1>1 DEF Forget
<1>4. t.pool = pool /\ t.clean = s.clean /\ t.slots = s.slots /\ t.out = s.out
  BY <1>2, <1>3, PoolFields
<1> QED BY <1>2, <1>4

LEMMA LabelJoined ==
    ASSUME WellFormed(program), InOrder(program, live_after), NEW i \in DOMAIN program, AtLabel(i), State(st)
    PROVE  IsLabel(program, i) /\ Joined(i, st, st') /\ st'.out = st.out /\ code' = code
<1>1. i \in Nat /\ DOMAIN program = 1 .. Len(program) /\ Len(program) \in Nat
  BY DEF WellFormed
<1>2. (\E j \in 1 .. (i - 1) : ~IsLabel(program, j)) <=> i # 1
  <2>1. CASE i = 1
    BY <2>1
  <2>2. CASE i # 1
    <3>1. i - 1 \in 1 .. (i - 1) /\ i - 1 \in DOMAIN program /\ (i - 1) + 1 = i
      BY <1>1, <2>2
    <3>2. ~IsLabel(program, i - 1)
      <4>1. PICK j : j = i - 1
        OBVIOUS
      <4>2. j \in DOMAIN program /\ j + 1 = i
        BY <3>1, <4>1
      <4>3. IsLabel(program, i)
        BY DEF AtLabel
      <4> QED BY <4>1, <4>2, <4>3 DEF InOrder
    <3> QED BY <2>2, <3>1, <3>2
  <2> QED BY <2>1, <2>2
<1>3. IsLabel(program, i) /\ code' = code /\ st' = IF i # 1 /\ i - 1 \notin carry_after THEN Forget(st) ELSE st
  BY <1>2 DEF AtLabel
<1>4. CASE i # 1 /\ i - 1 \notin carry_after
  <2>1. PICK t : t = Forget(st)
    OBVIOUS
  <2>2. t.slots = st.slots /\ t.clean = st.clean /\ t.out = st.out /\ \A r \in Reg : t.pool[r] = None
    BY <2>1, ForgetFields
  <2> QED BY <1>3, <1>4, <2>1, <2>2 DEF Joined
<1>5. CASE ~(i # 1 /\ i - 1 \notin carry_after)
  BY <1>3, <1>5 DEF Joined
<1> QED BY <1>3, <1>4, <1>5

LEMMA HistoryGrows ==
    ASSUME Sound, WellFormed(program), Selected(program), InOrder(program, live_after), State(st),
           NEW f, History(f), Allocate, ~st'.refused
    PROVE  \E h : History(h)'
<1>1. PICK i : i = next
  OBVIOUS
<1>2. /\ i \in 1 .. Len(program) /\ i \in DOMAIN program /\ i \in Nat /\ i # 0 /\ DOMAIN program = 1 .. Len(program)
      /\ Len(program) \in Nat /\ ~st.refused
      /\ program' = program /\ live_after' = live_after /\ carry_after' = carry_after /\ next' = i + 1
      /\ arriving' = IF i = 1 THEN st.pool ELSE arriving
      /\ f[i] = st /\ st.out = <<>> /\ i \in DOMAIN code
  BY <1>1 DEF Allocate, analysisVars, WellFormed, History
<1>3. Waiting(program, live_after, i, st)
  <2>1. i \in 1 .. i
    BY <1>2
  <2> QED BY <1>1, <1>2, <2>1 DEF History
<1>4. live_after[i] \subseteq Vreg
  BY <1>2 DEF History, Flows, Sound
<1>5. PICK s, t, out : s = st /\ t = st' /\ out = code'[i]
  OBVIOUS
<1>6. /\ Passed(i, s, t, out) /\ t.out = <<>>
      /\ i + 1 \in DOMAIN program => Waiting(program, live_after, i + 1, t)
      /\ DOMAIN code' = DOMAIN code /\ \A j \in DOMAIN code : j # i => code'[j] = code[j]
  <2>1. CASE AtLabel(next)
    <3>1. AtLabel(i)
      BY <1>1, <2>1
    <3>2. IsLabel(program, i) /\ Joined(i, s, t) /\ t.out = <<>> /\ code' = code
      BY <1>2, <1>5, <3>1, LabelJoined
    <3>3. out = <<>>
      BY <1>1, <1>2, <1>5, <3>2 DEF History
    <3>4. Passed(i, s, t, out)
      BY <3>2, <3>3 DEF Passed
    <3>5. i + 1 \in DOMAIN program => Waiting(program, live_after, i + 1, t)
      <4>1. Flows(program, live_after, Value) /\ carry_after = CarryAfter(program) /\ Waiting(program, live_after, i, s)
        BY <1>3, <1>5 DEF History
      <4> QED BY <1>2, <3>2, <4>1, WaitingAtLabel
    <3> QED BY <3>2, <3>4, <3>5
  <2>2. CASE AtInstruction(next)
    <3>1. AtInstruction(i)
      BY <1>1, <2>2
    <3>2. ~IsLabel(program, i)
      BY <3>1 DEF AtInstruction
    <3>3. ASSUME NEW A, Ready(s, BlockIn(program, live_after, i), A)
          PROVE  Translated(A, i, s.slots, t, out) /\ t.out = <<>>
      <4>1. Ready(st, BlockIn(program, live_after, i), A)
        BY <1>5, <3>3
      <4>2. Translated(A, i, st.slots, st', code'[i]) /\ st'.out = <<>>
        BY <1>2, <1>4, <3>1, <4>1, ItemTranslated
      <4> QED BY <1>5, <4>2
    <3>4. PICK A : Ready(s, BlockIn(program, live_after, i), A)
      BY <1>3, <1>5, FitIsReady DEF Waiting
    <3>5. Passed(i, s, t, out)
      BY <3>2, <3>3 DEF Passed
    <3>6. i + 1 \in DOMAIN program => Waiting(program, live_after, i + 1, t)
      <4>1. Flows(program, live_after, Value) /\ carry_after = CarryAfter(program) /\ Waiting(program, live_after, i, s)
        BY <1>3, <1>5 DEF History
      <4>2. Translated(A, i, s.slots, t, out)
        BY <3>3, <3>4
      <4> QED BY <1>2, <3>2, <4>1, <4>2, WaitingBehind
    <3>7. DOMAIN code' = DOMAIN code /\ \A j \in DOMAIN code : j # i => code'[j] = code[j]
      <4>1. PICK given : code' = code \/ code' = [code EXCEPT ![i] = given]
        BY <3>1 DEF AtInstruction
      <4>2. CASE code' = code
        BY <4>2
      <4>3. CASE code' = [code EXCEPT ![i] = given]
        BY <4>3
      <4> QED BY <4>1, <4>2, <4>3
    <3> QED BY <3>3, <3>4, <3>5, <3>6, <3>7
  <2> QED BY <2>1, <2>2 DEF Allocate
<1>7. PICK h : h = [j \in 1 .. i + 1 |-> IF j = i + 1 THEN t ELSE f[j]]
  OBVIOUS
<1>8. h[i + 1] = t /\ h[1] = f[1] /\ \A j \in 1 .. i : h[j] = f[j]
  <2>1. i + 1 \in 1 .. i + 1 /\ 1 \in 1 .. i /\ \A j \in 1 .. i : j \in 1 .. i + 1 /\ j # i + 1
    BY <1>2
  <2> QED BY <1>7, <2>1
<1>9. (Flows(program, live_after, Value) /\ carry_after = CarryAfter(program))'
  BY <1>2 DEF History
<1>10. (DOMAIN code = DOMAIN program /\ \A j \in DOMAIN program : j >= next => code[j] = <<>>)'
  <2>1. ASSUME NEW j \in DOMAIN program, j >= i + 1 PROVE code'[j] = <<>>
    <3>1. j \in DOMAIN code /\ j # i /\ j >= i
      BY <1>2, <2>1 DEF History
    <3> QED BY <1>1, <1>6, <3>1 DEF History
  <2> QED BY <1>2, <1>6, <2>1 DEF History
<1>11. (h[1].clean = {} /\ \A v \in EntryValues(program) : Mapped(h[1], v))'
  BY <1>2, <1>8 DEF History
<1>12. (next > 1 => arriving = h[1].pool)'
  <2>1. CASE i = 1
    BY <1>2, <1>8, <2>1
  <2>2. CASE i # 1
    BY <1>1, <1>2, <1>8, <2>2 DEF History
  <2> QED BY <2>1, <2>2
<1>13. (h[next] = st /\ st.out = <<>>)'
  BY <1>2, <1>5, <1>6, <1>8
<1>14. (\A j \in 1 .. next : j \in DOMAIN program => Waiting(program, live_after, j, h[j]))'
  <2>1. ASSUME NEW j \in 1 .. i + 1, j \in DOMAIN program PROVE Waiting(program, live_after, j, h[j])
    <3>1. CASE j = i + 1
      BY <1>6, <1>8, <2>1, <3>1
    <3>2. CASE j # i + 1
      <4>1. j \in 1 .. i
        BY <1>2, <3>2
      <4> QED BY <1>1, <1>8, <2>1, <4>1 DEF History
    <3> QED BY <3>1, <3>2
  <2> QED BY <1>2, <2>1
<1>15. (\A j \in 1 .. (next - 1) : j \in DOMAIN program /\ Passed(j, h[j], h[j + 1], code[j]))'
  <2>1. ASSUME NEW j \in 1 .. i PROVE j \in DOMAIN program /\ Passed(j, h[j], h[j + 1], code[j])'
    <3>1. j \in DOMAIN program /\ j \in DOMAIN code
      BY <1>2, <2>1 DEF History
    <3>2. PICK x, y, o : x = h[j] /\ y = h[j + 1] /\ o = code'[j]
      OBVIOUS
    <3>3. Passed(j, x, y, o)
      <4>1. CASE j = i
        BY <1>2, <1>5, <1>6, <1>8, <3>2, <4>1
      <4>2. CASE j # i
        <5>1. j \in 1 .. (i - 1) /\ j + 1 \in 1 .. i /\ o = code[j]
          BY <1>2, <1>6, <2>1, <3>1, <3>2, <4>2
        <5>2. Passed(j, f[j], f[j + 1], code[j])
          BY <1>1, <5>1 DEF History
        <5> QED BY <1>8, <2>1, <3>2, <5>1, <5>2
      <4> QED BY <4>1, <4>2
    <3>4. Passed(j, x, y, code[j])'
      BY <1>2, <3>2, <3>3, SamePassed
    <3> QED BY <3>1, <3>2, <3>4
  <2>2. next' - 1 = i
    BY <1>2
  <2> QED BY <1>2, <2>1, <2>2
<1>16. History(h)'
  BY <1>9, <1>10, <1>11, <1>12, <1>13, <1>14, <1>15 DEF History
<1> QED BY <1>16

-----------------------------------------------------------------------------
(***************************************************************************)
(* The machine runs the code: what is known where it is, is true.          *)
(***************************************************************************)
Agree(B, e, g, m) ==
    /\ \A r \in Reg : \A v \in B.held[r] : v \in Vreg /\ e[v] # Junk => g[r] = e[v]
    /\ \A v \in B.stored : v \in Vreg /\ e[v] # Junk => m[v] = e[v]

AtPlace(f, i, k, e, g, m) ==
    /\ i \in DOMAIN program /\ ~IsLabel(program, i) /\ k \in 1 .. Len(code[i])
    /\ Shape(i, code[i]) /\ (Leaving(i) => AllSaved(f[i + 1], live_after[i]))
    /\ \E tr : /\ Trace(i, code[i], tr) /\ Agree(tr[k - 1], e, g, m)
               /\ Ready(f[i + 1], live_after[i], tr[Len(code[i])])

OnPlace(f, place, e, g, m) == place = Stopped \/ AtPlace(f, place[1], place[2], e, g, m)

Through(f) == History(f) /\ next > Len(program)
Laid == Sound /\ WellFormed(program) /\ Selected(program) /\ InOrder(program, live_after) /\ next \in Nat

LEMMA Past ==
    ASSUME Laid, NEW f, Through(f), NEW i \in DOMAIN program
    PROVE  /\ Waiting(program, live_after, i, f[i]) /\ Passed(i, f[i], f[i + 1], code[i])
           /\ i \in Nat /\ i # 0 /\ (i + 1 \in DOMAIN program <=> i < Len(program)) /\ i <= Len(program)
           /\ Len(program) \in Nat /\ DOMAIN program = 1 .. Len(program)
           /\ Flows(program, live_after, Value) /\ carry_after = CarryAfter(program)
<1>1. i \in 1 .. next /\ i \in 1 .. (next - 1)
  BY DEF Through, Laid, WellFormed
<1>2. i \in Nat /\ i # 0 /\ (i + 1 \in DOMAIN program <=> i < Len(program)) /\ i <= Len(program)
      /\ Len(program) \in Nat /\ DOMAIN program = 1 .. Len(program)
  BY DEF Laid, WellFormed
<1> QED BY <1>1, <1>2 DEF Through, History

\* An instruction is begun.
LEMMA Begins ==
    ASSUME Laid, NEW f, Through(f), NEW i \in DOMAIN program, ~IsLabel(program, i),
           NEW A, Ready(f[i], BlockIn(program, live_after, i), A), NEW e, NEW g, NEW m, Agree(A, e, g, m)
    PROVE  AtPlace(f, i, 1, e, g, m)
<1>1. Translated(A, i, f[i].slots, f[i + 1], code[i])
  BY Past DEF Passed
<1>2. PICK B : Reaches(i, A, code[i], B) /\ Ready(f[i + 1], live_after[i], B)
  BY <1>1 DEF Translated
<1>3. PICK tr : tr[0] = A /\ tr[Len(code[i])] = B /\ Trace(i, code[i], tr)
  BY <1>2 DEF Reaches
<1>4. Shape(i, code[i]) /\ (Leaving(i) => AllSaved(f[i + 1], live_after[i]))
  BY <1>1 DEF Translated
<1>5. 1 \in 1 .. Len(code[i]) /\ 1 - 1 = 0
  BY <1>4 DEF Shape
<1> QED BY <1>2, <1>3, <1>4, <1>5 DEF AtPlace

LEMMA HasCode ==
    ASSUME Laid, NEW f, Through(f), NEW i \in DOMAIN program
    PROVE  code[i] # <<>> <=> ~IsLabel(program, i)
<1>1. CASE IsLabel(program, i)
  BY <1>1, Past DEF Passed
<1>2. CASE ~IsLabel(program, i)
  <2>1. Fit(f[i], BlockIn(program, live_after, i))
    BY Past DEF Waiting
  <2>2. PICK A : Ready(f[i], BlockIn(program, live_after, i), A)
    BY <2>1, FitIsReady
  <2>3. Translated(A, i, f[i].slots, f[i + 1], code[i])
    BY <1>2, <2>2, Past DEF Passed
  <2>4. Len(code[i]) > 0
    BY <2>3 DEF Translated, Shape
  <2> QED BY <1>2, <2>4
<1> QED BY <1>1, <1>2

LEMMA FromIs ==
    ASSUME Laid, NEW f, Through(f), NEW j \in DOMAIN program
    PROVE  \/ ~IsLabel(program, j) /\ From(j) = <<j, 1>>
           \/ IsLabel(program, j) /\ j + 1 \in DOMAIN program /\ ~IsLabel(program, j + 1) /\ From(j) = <<j + 1, 1>>
           \/ From(j) = Stopped
<1> DEFINE later == {x \in j .. Len(program) : code[x] # <<>>}
<1>1. From(j) = IF later = {} THEN Stopped ELSE <<Min(later), 1>>
  BY DEF From
<1>2. j \in Nat /\ j # 0 /\ Len(program) \in Nat /\ DOMAIN program = 1 .. Len(program) /\ j <= Len(program)
  BY Past
<1>3. \A x \in j .. Len(program) : x \in DOMAIN program /\ (x \in later <=> ~IsLabel(program, x))
  <2>1. \A x \in j .. Len(program) : x \in DOMAIN program
    BY <1>2
  <2> QED BY <2>1, HasCode
<1>4. ASSUME NEW x \in later, \A y \in later : x <= y PROVE Min(later) = x
  <2>1. later \in SUBSET Nat
    BY <1>2
  <2>2. \A y \in later : (\A z \in later : y <= z) => y = x
    <3> HIDE DEF later
    <3> QED BY <1>4, <2>1
  <2> HIDE DEF later
  <2> QED BY <1>4, <2>2 DEF Min
<1>5. CASE ~IsLabel(program, j)
  <2>1. j \in later /\ \A y \in later : j <= y
    BY <1>2, <1>3, <1>5
  <2>2. Min(later) = j
    <3> HIDE DEF later
    <3> QED BY <1>4, <2>1
  <2> HIDE DEF later
  <2> QED BY <1>1, <1>5, <2>1, <2>2
<1>6. CASE IsLabel(program, j)
  <2>1. \A y \in later : y # j /\ y \in j + 1 .. Len(program)
    BY <1>2, <1>3, <1>6
  <2>2. CASE j + 1 \in DOMAIN program
    <3>1. ~IsLabel(program, j + 1)
      BY <1>6, <2>2 DEF Laid, InOrder
    <3>2. j + 1 \in later /\ \A y \in later : j + 1 <= y
      BY <1>2, <1>3, <2>1, <2>2, <3>1
    <3>3. Min(later) = j + 1
      <4>1. PICK k : k = j + 1
        OBVIOUS
      <4>2. k \in later /\ \A y \in later : k <= y
        BY <3>2, <4>1
      <4> HIDE DEF later
      <4> QED BY <1>4, <4>1, <4>2
    <3> HIDE DEF later
    <3> QED BY <1>1, <1>6, <2>2, <3>1, <3>2, <3>3
  <2>3. CASE j + 1 \notin DOMAIN program
    <3>1. later = {}
      BY <1>2, <2>1, <2>3
    <3> QED BY <1>1, <3>1
  <2> QED BY <2>2, <2>3
<1> QED BY <1>5, <1>6

\* Behind a label nothing is known to be in a register, or what was known before it.
Forgets(i) == i # 1 /\ i - 1 \notin carry_after
HandsOver(i, s, need, B) ==
    \/ Ready(s, need, B) /\ (AllSaved(s, need) \/ ~Forgets(i))
    \/ Forgets(i) /\ need \subseteq B.stored

LEMMA LabelReady ==
    ASSUME NEW i, NEW s, NEW t, Joined(i, s, t), NEW need, None \notin need, Fit(t, need), NEW B, HandsOver(i, s, need, B)
    PROVE  Ready(t, need, B)
<1> USE DEF HandsOver, Forgets
<1>1. CASE i # 1 /\ i - 1 \notin carry_after
  <2>1. need \subseteq B.stored
    BY <1>1 DEF Ready, AllSaved, Mapped
  <2> QED BY <1>1, <2>1 DEF Joined, Ready, Fit
<1>2. CASE ~(i # 1 /\ i - 1 \notin carry_after)
  BY <1>2 DEF Joined, Ready, Mapped
<1> QED BY <1>1, <1>2

\* Wherever the machine goes on it finds an instruction that it is ready for.
LEMMA LandsOn ==
    ASSUME Laid, NEW f, Through(f), NEW j \in DOMAIN program, NEW E, NEW e, NEW g, NEW m, Agree(E, e, g, m),
           ~IsLabel(program, j) => Ready(f[j], BlockIn(program, live_after, j), E),
           IsLabel(program, j) /\ j + 1 \in DOMAIN program => HandsOver(j, f[j], live_after[j], E)
    PROVE  OnPlace(f, From(j), e, g, m)
<1>1. CASE ~IsLabel(program, j) /\ From(j) = <<j, 1>>
  <2>1. AtPlace(f, j, 1, e, g, m)
    BY <1>1, Begins
  <2> QED BY <1>1, <2>1 DEF OnPlace
<1>2. CASE IsLabel(program, j) /\ j + 1 \in DOMAIN program /\ ~IsLabel(program, j + 1) /\ From(j) = <<j + 1, 1>>
  <2>1. PICK k : k = j + 1
    OBVIOUS
  <2>2. PICK s, t, need : s = f[j] /\ t = f[k] /\ need = live_after[j]
    OBVIOUS
  <2>3. /\ Joined(j, s, t) /\ Waiting(program, live_after, j, s)
        /\ Flows(program, live_after, Value) /\ carry_after = CarryAfter(program)
    BY <1>2, <2>1, <2>2, Past DEF Passed
  <2>4. Fit(t, need) /\ BlockIn(program, live_after, k) \subseteq need
    <3>1. Sound /\ WellFormed(program) /\ Selected(program) /\ InOrder(program, live_after)
      BY DEF Laid
    <3> QED BY <1>2, <2>1, <2>2, <2>3, <3>1, WaitingAtLabel
  <2>5. None \notin need
    BY <2>2, <2>3 DEF Flows, Laid, Sound
  <2>6. HandsOver(j, s, need, E)
    BY <1>2, <2>2
  <2>7. Ready(t, need, E)
    BY <2>3, <2>4, <2>5, <2>6, LabelReady
  <2>8. Ready(f[k], BlockIn(program, live_after, k), E)
    BY <2>2, <2>4, <2>7 DEF Ready
  <2>9. k \in DOMAIN program /\ ~IsLabel(program, k)
    BY <1>2, <2>1
  <2>10. AtPlace(f, k, 1, e, g, m)
    BY <2>8, <2>9, Begins
  <2> QED BY <1>2, <2>1, <2>10 DEF OnPlace
<1>3. CASE From(j) = Stopped
  BY <1>3 DEF OnPlace
<1> QED BY <1>1, <1>2, <1>3, FromIs

\* Behind the last instruction of an item.
Ended(f, i, E, e, g, m) ==
    /\ i \in DOMAIN program /\ ~IsLabel(program, i)
    /\ Agree(E, e, g, m) /\ Ready(f[i + 1], live_after[i], E) /\ (Leaving(i) => AllSaved(f[i + 1], live_after[i]))

LEMMA NoMore == ASSUME Laid, NEW j, j = Len(program) + 1 PROVE From(j) = Stopped
<1>1. j .. Len(program) = {}
  BY DEF Laid, WellFormed
<1> QED BY <1>1 DEF From

LEMMA FallsOn ==
    ASSUME Laid, NEW f, Through(f), NEW i, NEW E, NEW e, NEW g, NEW m, Ended(f, i, E, e, g, m),
           program[i].does \notin {"jump", "ret"}
    PROVE  OnPlace(f, From(i + 1), e, g, m)
<1>1. PICK j : j = i + 1
  OBVIOUS
<1>2. /\ i \in DOMAIN program /\ i \in Nat /\ i # 0 /\ (j \in DOMAIN program <=> i < Len(program)) /\ i <= Len(program)
      /\ Len(program) \in Nat /\ j # 1 /\ j - 1 = i /\ j \in Nat
  BY <1>1, Past DEF Ended
<1>3. CASE j \in DOMAIN program
  <2>1. BlockIn(program, live_after, j) \subseteq live_after[i]
    <3>1. FallsTo(program, i)
      BY <1>1, <1>3 DEF FallsTo
    <3>2. WellFormed(program) /\ Selected(program) /\ Flows(program, live_after, Value)
      BY <1>2, Past DEF Laid
    <3> QED BY <1>1, <1>2, <1>3, <3>1, <3>2, Follows
  <2>2. ~IsLabel(program, j) => Ready(f[j], BlockIn(program, live_after, j), E)
    BY <1>1, <2>1 DEF Ended, Ready
  <2>3. ASSUME IsLabel(program, j)
        PROVE  HandsOver(j, f[j], live_after[j], E)
    <3>1. live_after[j] \subseteq live_after[i]
      BY <2>1, <2>3 DEF BlockIn
    <3>2. Ready(f[j], live_after[j], E)
      BY <1>1, <3>1 DEF Ended, Ready
    <3>3. ASSUME i \notin carry_after PROVE AllSaved(f[j], live_after[j])
      <4>1. Leaving(i)
        BY <1>1, <1>2, <1>3, <2>3, <3>3 DEF Leaving, SavesBehind, BeforeLabel
      <4> QED BY <1>1, <3>1, <4>1 DEF Ended, AllSaved
    <3> QED BY <1>2, <3>2, <3>3 DEF HandsOver, Forgets
  <2>4. Agree(E, e, g, m)
    BY DEF Ended
  <2>5. OnPlace(f, From(j), e, g, m)
    BY <1>3, <2>2, <2>3, <2>4, LandsOn
  <2> QED BY <1>1, <2>5
<1>4. CASE j \notin DOMAIN program
  <2>1. j = Len(program) + 1
    BY <1>1, <1>2, <1>4
  <2>2. From(j) = Stopped
    BY <2>1, NoMore
  <2> QED BY <1>1, <2>2 DEF OnPlace
<1> QED BY <1>3, <1>4

LEMMA GoesOn ==
    ASSUME Laid, NEW f, Through(f), NEW i, NEW E, NEW e, NEW g, NEW m, Ended(f, i, E, e, g, m), GoesTo(program, i)
    PROVE  OnPlace(f, From(LabelPlace(program, program[i].to)), e, g, m)
<1>1. PICK j : j = LabelPlace(program, program[i].to)
  OBVIOUS
<1>2. i \in DOMAIN program /\ WellFormed(program) /\ Selected(program) /\ InOrder(program, live_after)
      /\ Flows(program, live_after, Value) /\ carry_after = CarryAfter(program)
  BY Past DEF Ended, Laid
<1>3. j \in DOMAIN program /\ IsLabel(program, j) /\ j \in Nat
  <2>1. \E k \in DOMAIN program : IsLabel(program, k) /\ program[k].to = program[i].to
    BY <1>2 DEF Selected, GoesTo
  <2>2. j \in DOMAIN program /\ IsLabel(program, j)
    BY <1>1, <2>1 DEF LabelPlace
  <2> QED BY <2>2, Past
<1>4. PICK edge : edge = [from |-> BlockOf(program, i), to |-> j, falls |-> FALSE]
  OBVIOUS
<1>5. edge \in Edges(program) /\ edge.to = j /\ edge.falls = FALSE
  <2>1. i + 1 \notin DOMAIN program \/ Leads(program, i + 1)
    <3>1. (i + 1) - 1 = i /\ IsTerminator(program, i)
      BY <1>2, Past DEF GoesTo, IsTerminator
    <3> QED BY <3>1 DEF Leads
  <2> QED BY <1>1, <1>2, <1>4, <2>1, EdgesFrom
<1>6. j # 1
  BY <1>2, <1>5 DEF InOrder
<1>7. j - 1 \notin carry_after
  <2>1. ASSUME j - 1 \in CarryAfter(program) PROVE FALSE
    <3>1. (j - 1) + 1 = j
      BY <1>3
    <3>2. {x \in Edges(program) : x.to = j} = {[from |-> BlockOf(program, j - 1), to |-> j, falls |-> TRUE]}
      BY <2>1, <3>1 DEF CarryAfter
    <3>3. edge = [from |-> BlockOf(program, j - 1), to |-> j, falls |-> TRUE]
      BY <1>5, <3>2
    <3>4. edge.falls = TRUE
      BY <3>3
    <3> QED BY <1>5, <3>4
  <2> QED BY <1>2, <2>1
<1>8. live_after[j] \subseteq live_after[i]
  <2>1. BlockIn(program, live_after, j) \subseteq live_after[i]
    BY <1>1, <1>2, Follows
  <2> QED BY <1>3, <2>1 DEF BlockIn
<1>9. live_after[j] \subseteq E.stored
  <2>1. Leaving(i)
    BY DEF Leaving, GoesTo, IsTerminator
  <2> QED BY <1>8, <2>1 DEF Ended, Ready, AllSaved, Mapped
<1>10. OnPlace(f, From(j), e, g, m)
  <2>1. Agree(E, e, g, m)
    BY DEF Ended
  <2>2. HandsOver(j, f[j], live_after[j], E)
    BY <1>6, <1>7, <1>9 DEF HandsOver, Forgets
  <2> QED BY <1>3, <2>1, <2>2, LandsOn
<1> QED BY <1>1, <1>10

\* The machine enters with the values from outside in their registers.
LEMMA EntersOn ==
    ASSUME Laid, NEW f, Through(f), NEW given \in [EntryValues(program) -> Data], NEW e, NEW g, NEW m,
           \A v \in Vreg : e[v] = IF v \in EntryValues(program) THEN given[v] ELSE Junk,
           \A r \in Reg : arriving[r] \in EntryValues(program) => g[r] = given[arriving[r]]
    PROVE  OnPlace(f, From(1), e, g, m)
<1>1. CASE 1 \in DOMAIN program
  <2>1. PICK s, need : s = f[1] /\ need = BlockIn(program, live_after, 1)
    OBVIOUS
  <2>2. /\ arriving = s.pool /\ s.clean = {} /\ \A v \in EntryValues(program) : Mapped(s, v)
    <3>1. next > 1
      BY <1>1, Past DEF Through, Laid
    <3> QED BY <2>1, <3>1 DEF Through, History
  <2>3. Fit(s, need)
    BY <1>1, <2>1, Past DEF Waiting
  <2>4. PICK held : held = [r \in Reg |-> {s.pool[r]}]
    OBVIOUS
  <2>5. PICK A : A = [held |-> held, stored |-> need \ EntryValues(program)]
    OBVIOUS
  <2>6. A.stored = need \ EntryValues(program) /\ \A r \in Reg : A.held[r] = {s.pool[r]}
    BY <2>4, <2>5
  <2>7. Ready(s, need, A)
    BY <2>2, <2>3, <2>6 DEF Ready, Fit
  <2>8. Agree(A, e, g, m)
    <3>1. ASSUME NEW r \in Reg, NEW v \in A.held[r], v \in Vreg, e[v] # Junk PROVE g[r] = e[v]
      <4>1. v = arriving[r] /\ v \in EntryValues(program)
        BY <2>2, <2>6, <3>1
      <4> QED BY <3>1, <4>1
    <3>2. ASSUME NEW v \in A.stored, v \in Vreg, e[v] # Junk PROVE m[v] = e[v]
      BY <2>6, <3>2
    <3> QED BY <3>1, <3>2 DEF Agree
  <2>9. ~IsLabel(program, 1) => Ready(f[1], BlockIn(program, live_after, 1), A)
    BY <2>1, <2>7
  <2>10. IsLabel(program, 1) => HandsOver(1, f[1], live_after[1], A)
    BY <2>1, <2>7 DEF BlockIn, HandsOver, Forgets
  <2> QED BY <1>1, <2>8, <2>9, <2>10, LandsOn
<1>2. CASE 1 \notin DOMAIN program
  <2>1. 1 = Len(program) + 1
    BY <1>2 DEF Laid, WellFormed
  <2>2. From(1) = Stopped
    BY <2>1, NoMore
  <2> QED BY <2>2 DEF OnPlace
<1> QED BY <1>1, <1>2

(***************************************************************************)
(* Every emitted instruction does what is known of it.                     *)
(***************************************************************************)
LEMMA StoreTrue ==
    ASSUME NEW B, NEW ins, NEW C, Stores(B, ins, C), NEW e, NEW g, NEW m, DOMAIN m = Vreg, Agree(B, e, g, m)
    PROVE  Agree(C, e, g, [m EXCEPT ![ins.vreg] = g[ins.reg]])
<1>1. PICK to : to = [m EXCEPT ![ins.vreg] = g[ins.reg]]
  OBVIOUS
<1>2. \A v \in Vreg : to[v] = IF v = ins.vreg THEN g[ins.reg] ELSE m[v]
  BY <1>1
<1>3. Agree(C, e, g, to)
  BY <1>2 DEF Agree, Stores
<1> QED BY <1>1, <1>3

LEMMA LoadTrue ==
    ASSUME NEW B, NEW ins, NEW C, Loads(B, ins, C), NEW e, NEW g, DOMAIN g = Reg, NEW m, Agree(B, e, g, m)
    PROVE  Agree(C, e, [g EXCEPT ![ins.reg] = m[ins.vreg]], m)
<1>1. PICK to : to = [g EXCEPT ![ins.reg] = m[ins.vreg]]
  OBVIOUS
<1>2. \A r \in Reg : to[r] = IF r = ins.reg THEN m[ins.vreg] ELSE g[r]
  BY <1>1
<1>3. Agree(C, e, to, m)
  BY <1>2 DEF Agree, Loads
<1> QED BY <1>1, <1>3

LEMMA RunTrue ==
    ASSUME NEW i, NEW B, NEW ins, NEW C, Runs(i, B, ins, C), NEW e, NEW g, NEW m, Agree(B, e, g, m), NEW f, NEW h,
           \/ \E x : /\ \A v \in Vreg : f[v] = IF v \in program[i].def THEN x ELSE e[v]
                     /\ \A r \in Reg : h[r] = IF r \in ins.def THEN x ELSE g[r]
           \/ /\ program[i].def = {} /\ f = e
              /\ \A r \in Reg : (program[i].does = "call" /\ r \in CallerSaved) \/ h[r] = g[r]
    PROVE  Agree(C, f, h, m)
<1>1. CASE \E x : /\ \A v \in Vreg : f[v] = IF v \in program[i].def THEN x ELSE e[v]
                  /\ \A r \in Reg : h[r] = IF r \in ins.def THEN x ELSE g[r]
  BY <1>1 DEF Agree, Runs
<1>2. CASE /\ program[i].def = {} /\ f = e
           /\ \A r \in Reg : (program[i].does = "call" /\ r \in CallerSaved) \/ h[r] = g[r]
  BY <1>2 DEF Agree, Runs
<1> QED BY <1>1, <1>2

\* And the machine is at the next one then.
Underway(f, i, tr) ==
    /\ i \in DOMAIN program /\ ~IsLabel(program, i)
    /\ Shape(i, code[i]) /\ (Leaving(i) => AllSaved(f[i + 1], live_after[i]))
    /\ Trace(i, code[i], tr) /\ Ready(f[i + 1], live_after[i], tr[Len(code[i])])

LEMMA StepsOn ==
    ASSUME Laid, NEW f, Through(f), NEW i, NEW tr, Underway(f, i, tr), NEW k \in 1 .. Len(code[i]),
           code[i][k].does \notin {"jump", "ret"}, NEW e, NEW g, NEW m, Agree(tr[k], e, g, m)
    PROVE  OnPlace(f, Onward(<<i, k>>), e, g, m)
<1>1. Len(code[i]) \in Nat /\ k \in Nat
  BY DEF Underway, Shape
<1>2. CASE k < Len(code[i])
  <2>1. k + 1 \in 1 .. Len(code[i]) /\ (k + 1) - 1 = k
    BY <1>1, <1>2
  <2>2. AtPlace(f, i, k + 1, e, g, m)
    BY <2>1 DEF AtPlace, Underway
  <2>3. Onward(<<i, k>>) = <<i, k + 1>>
    BY <1>2 DEF Onward
  <2> QED BY <2>2, <2>3 DEF OnPlace
<1>3. CASE ~(k < Len(code[i]))
  <2>1. k = Len(code[i])
    BY <1>1, <1>3
  <2>2. PICK E : E = tr[k]
    OBVIOUS
  <2>3. Ended(f, i, E, e, g, m)
    BY <2>1, <2>2 DEF Ended, Underway
  <2>4. program[i].does \notin {"jump", "ret"}
    BY <2>1 DEF Underway, Shape, IsTerminator
  <2>5. Onward(<<i, k>>) = From(i + 1)
    BY <1>3 DEF Onward
  <2> QED BY <2>3, <2>4, <2>5, FallsOn
<1> QED BY <1>2, <1>3

LEMMA JumpsOn ==
    ASSUME Laid, NEW f, Through(f), NEW i, NEW tr, Underway(f, i, tr), NEW k \in 1 .. Len(code[i]),
           code[i][k].does \in {"jump", "branch"}, NEW e, NEW g, NEW m, Agree(tr[k], e, g, m)
    PROVE  OnPlace(f, From(LabelPlace(program, program[i].to)), e, g, m)
<1>1. Len(code[i]) \in Nat /\ k \in Nat
  BY DEF Underway, Shape
<1>2. code[i][k].does = program[i].does
  BY DEF Underway, Shape, Saves
<1>3. k = Len(code[i])
  <2>1. IsTerminator(program, i)
    BY <1>2 DEF IsTerminator
  <2>2. k \in 1 .. (Len(code[i]) - 1) => code[i][k].does \in Saves
    BY <2>1 DEF Underway, Shape
  <2>3. k \notin 1 .. (Len(code[i]) - 1)
    BY <2>2 DEF Saves
  <2> QED BY <1>1, <2>3
<1>4. PICK E : E = tr[k]
  OBVIOUS
<1>5. Ended(f, i, E, e, g, m)
  BY <1>3, <1>4 DEF Ended, Underway
<1>6. GoesTo(program, i)
  BY <1>2 DEF GoesTo
<1> QED BY <1>5, <1>6, GoesOn

MachineAt(f) == Running => AtPlace(f, pc[1], pc[2], env, regs, mem)
Computing ==
    /\ DOMAIN mem = Vreg /\ DOMAIN regs = Reg
    /\ allocator = "greedy" =>
          /\ next = 0 => /\ graph = FlowGraph(program)
                         /\ DOMAIN code = DOMAIN program /\ \A i \in DOMAIN program : code[i] = <<>>
          /\ Running => next > Len(program) /\ next > 0 /\ ~st.refused
          /\ next > 0 /\ ~st.refused /\ InOrder(program, live_after) => \E f : History(f) /\ MachineAt(f)

LEMMA SameHistory ==
    ASSUME UNCHANGED allocVars, NEW f, History(f)
    PROVE  History(f)'
<1>1. /\ program' = program /\ live_after' = live_after /\ carry_after' = carry_after /\ code' = code
      /\ next' = next /\ arriving' = arriving /\ st' = st
  BY DEF allocVars, sharedVars, analysisVars, greedyVars
<1>2. (\A i \in 1 .. (next - 1) : i \in DOMAIN program /\ Passed(i, f[i], f[i + 1], code[i]))'
  <2>1. ASSUME NEW i \in 1 .. (next - 1) PROVE i \in DOMAIN program /\ Passed(i, f[i], f[i + 1], code[i])'
    <3>1. PICK x, y, o : x = f[i] /\ y = f[i + 1] /\ o = code[i]
      OBVIOUS
    <3>2. i \in DOMAIN program /\ Passed(i, x, y, o)
      BY <3>1 DEF History
    <3>3. Passed(i, x, y, code[i])'
      BY <1>1, <3>1, <3>2, SamePassed
    <3> QED BY <3>1, <3>2, <3>3
  <2> QED BY <1>1, <2>1
<1> QED BY <1>1, <1>2 DEF History

LEMMA SamePlace ==
    ASSUME UNCHANGED allocVars, NEW f, NEW place, NEW e, NEW g, NEW m, OnPlace(f, place, e, g, m)
    PROVE  OnPlace(f, place, e, g, m)'
<1>1. program' = program /\ live_after' = live_after /\ carry_after' = carry_after /\ code' = code
  BY DEF allocVars, sharedVars, analysisVars, greedyVars
<1>2. \A i, tr : Trace(i, code[i], tr) => Trace(i, code[i], tr)'
  BY <1>1 DEF Trace, Emits, Stores, Loads, Runs
<1>3. \A i : (Shape(i, code[i]) => Shape(i, code[i])') /\ (Leaving(i) <=> Leaving(i)')
  BY <1>1 DEF Shape, Leaving, SavesBehind, BeforeLabel
<1>4. \A i, k : AtPlace(f, i, k, e, g, m) => AtPlace(f, i, k, e, g, m)'
  BY <1>1, <1>2, <1>3 DEF AtPlace
<1> QED BY <1>4 DEF OnPlace, Stopped

\* The machine's step, if it leads to such a place.
LEMMA MachineSteps ==
    ASSUME Computing, UNCHANGED allocVars, DOMAIN mem' = Vreg, DOMAIN regs' = Reg,
           Running' => next > Len(program) /\ next > 0 /\ ~st.refused,
           ASSUME NEW f, History(f), MachineAt(f), allocator = "greedy", InOrder(program, live_after), ~st.refused,
                  next > Len(program), next > 0, Running'
           PROVE  OnPlace(f, pc', env', regs', mem')
    PROVE  Computing'
<1>1. /\ allocator' = allocator /\ next' = next /\ graph' = graph /\ program' = program /\ live_after' = live_after
      /\ code' = code /\ st' = st
  BY DEF allocVars, sharedVars, analysisVars, greedyVars
<1>2. ASSUME allocator = "greedy", next > 0, ~st.refused, InOrder(program, live_after)
      PROVE  \E f : History(f)' /\ MachineAt(f)'
  <2>1. PICK f : History(f) /\ MachineAt(f)
    BY <1>2 DEF Computing
  <2>2. History(f)'
    BY <2>1, SameHistory
  <2>3. ASSUME Running' PROVE AtPlace(f, pc[1], pc[2], env, regs, mem)'
    <3>1. OnPlace(f, pc', env', regs', mem')
      BY <1>2, <2>1, <2>3
    <3>2. PICK place, e, g, m : place = pc' /\ e = env' /\ g = regs' /\ m = mem'
      OBVIOUS
    <3>3. OnPlace(f, place, e, g, m)'
      BY <3>1, <3>2, SamePlace
    <3>4. place # Stopped
      BY <2>3, <3>2 DEF Running, Stopped
    <3>5. AtPlace(f, place[1], place[2], e, g, m)'
      BY <3>3, <3>4 DEF OnPlace, Stopped
    <3> QED BY <3>2, <3>5
  <2> QED BY <2>2, <2>3 DEF MachineAt
<1> QED BY <1>1, <1>2 DEF Computing

\* Where a running machine is, and what it has before it.
Facing(f, i, k, tr) ==
    /\ i = pc[1] /\ k = pc[2] /\ Underway(f, i, tr) /\ k \in 1 .. Len(code[i])
    /\ Agree(tr[k - 1], env, regs, mem) /\ Current = code[i][k]
    /\ Current.does \notin Saves => Runs(i, tr[k - 1], Current, tr[k])
    /\ Current.does = "spill" => Stores(tr[k - 1], Current, tr[k])
    /\ Current.does = "reload" => Loads(tr[k - 1], Current, tr[k])

LEMMA RunningFaces ==
    ASSUME Laid, NEW f, MachineAt(f), Running
    PROVE  \E i, k, tr : Facing(f, i, k, tr)
<1>1. PICK i, k : i = pc[1] /\ k = pc[2]
  OBVIOUS
<1>2. AtPlace(f, i, k, env, regs, mem)
  BY <1>1 DEF MachineAt
<1>3. PICK tr : /\ Trace(i, code[i], tr) /\ Agree(tr[k - 1], env, regs, mem)
                /\ Ready(f[i + 1], live_after[i], tr[Len(code[i])])
  BY <1>2 DEF AtPlace
<1>4. Underway(f, i, tr) /\ k \in 1 .. Len(code[i])
  BY <1>2, <1>3 DEF AtPlace, Underway
<1>5. Emits(i, tr[k - 1], code[i][k], tr[k])
  BY <1>3, <1>4 DEF Trace
<1>6. Current = code[i][k]
  BY <1>1 DEF Current
<1>7. program[i].does \notin Saves
  <2>1. i \in DOMAIN program
    BY <1>4 DEF Underway
  <2>2. program[i].does \in {"label", "op", "branch", "jump", "call", "ret"}
    BY <2>1 DEF Laid, Selected
  <2> QED BY <2>2 DEF Saves
<1>8. PICK B, C, ins : B = tr[k - 1] /\ C = tr[k] /\ ins = Current
  OBVIOUS
<1>9. /\ ins.does \notin Saves => Runs(i, B, ins, C)
      /\ ins.does = "spill" => Stores(B, ins, C)
      /\ ins.does = "reload" => Loads(B, ins, C)
  <2>1. Emits(i, B, ins, C)
    BY <1>5, <1>6, <1>8
  <2>2. Stores(B, ins, C) => ins.does = "spill"
    BY DEF Stores
  <2>3. Loads(B, ins, C) => ins.does = "reload"
    BY DEF Loads
  <2>4. Runs(i, B, ins, C) => ins.does \notin Saves
    BY <1>7 DEF Runs
  <2> QED BY <2>1, <2>2, <2>3, <2>4 DEF Emits, Saves
<1>10. Facing(f, i, k, tr)
  BY <1>1, <1>3, <1>4, <1>6, <1>8, <1>9 DEF Facing
<1> QED BY <1>10

LEMMA SpillGoesOn ==
    ASSUME Laid, NEW f, Through(f), MachineAt(f), DOMAIN mem = Vreg, Spill
    PROVE  OnPlace(f, pc', env', regs', mem')
<1>1. PICK i, k, tr : Facing(f, i, k, tr)
  BY RunningFaces DEF Spill, Doing
<1>2. PICK B, C, ins : B = tr[k - 1] /\ C = tr[k] /\ ins = Current
  OBVIOUS
<1>3. Stores(B, ins, C) /\ Agree(B, env, regs, mem) /\ ins.does = "spill" /\ Underway(f, i, tr) /\ k \in 1 .. Len(code[i])
      /\ code[i][k] = ins
  BY <1>1, <1>2 DEF Facing, Spill, Doing
<1>4. PICK e, g, m : e = env' /\ g = regs' /\ m = mem'
  OBVIOUS
<1>5. e = env /\ g = regs /\ m = [mem EXCEPT ![ins.vreg] = regs[ins.reg]]
  BY <1>2, <1>4 DEF Spill
<1>6. Agree(C, e, g, m)
  BY <1>3, <1>5, StoreTrue
<1>7. OnPlace(f, Onward(<<i, k>>), e, g, m)
  BY <1>2, <1>3, <1>6, StepsOn
<1>8. pc' = Onward(<<i, k>>)
  BY <1>1 DEF Facing, Spill, Onward
<1> QED BY <1>4, <1>7, <1>8

LEMMA ReloadGoesOn ==
    ASSUME Laid, NEW f, Through(f), MachineAt(f), DOMAIN regs = Reg, Reload
    PROVE  OnPlace(f, pc', env', regs', mem')
<1>1. PICK i, k, tr : Facing(f, i, k, tr)
  BY RunningFaces DEF Reload, Doing
<1>2. PICK B, C, ins : B = tr[k - 1] /\ C = tr[k] /\ ins = Current
  OBVIOUS
<1>3. Loads(B, ins, C) /\ Agree(B, env, regs, mem) /\ ins.does = "reload" /\ Underway(f, i, tr) /\ k \in 1 .. Len(code[i])
      /\ code[i][k] = ins
  BY <1>1, <1>2 DEF Facing, Reload, Doing
<1>4. PICK e, g, m : e = env' /\ g = regs' /\ m = mem'
  OBVIOUS
<1>5. e = env /\ m = mem /\ g = [regs EXCEPT ![ins.reg] = mem[ins.vreg]]
  BY <1>2, <1>4 DEF Reload
<1>6. Agree(C, e, g, m)
  BY <1>3, <1>5, LoadTrue
<1>7. OnPlace(f, Onward(<<i, k>>), e, g, m)
  BY <1>2, <1>3, <1>6, StepsOn
<1>8. pc' = Onward(<<i, k>>)
  BY <1>1 DEF Facing, Reload, Onward
<1> QED BY <1>4, <1>7, <1>8

LEMMA ComputeGoesOn ==
    ASSUME Laid, NEW f, Through(f), MachineAt(f), Compute
    PROVE  OnPlace(f, pc', env', regs', mem')
<1>1. PICK i, k, tr : Facing(f, i, k, tr)
  BY RunningFaces DEF Compute, Doing
<1>2. PICK B, C, ins : B = tr[k - 1] /\ C = tr[k] /\ ins = Current
  OBVIOUS
<1>3. Runs(i, B, ins, C) /\ Agree(B, env, regs, mem) /\ ins.does = "op" /\ Underway(f, i, tr) /\ k \in 1 .. Len(code[i])
      /\ code[i][k] = ins
  BY <1>1, <1>2 DEF Facing, Compute, Doing, Saves
<1>4. PICK e, g, m : e = env' /\ g = regs' /\ m = mem'
  OBVIOUS
<1>5. \E x : /\ \A v \in Vreg : e[v] = IF v \in program[i].def THEN x ELSE env[v]
             /\ \A r \in Reg : g[r] = IF r \in ins.def THEN x ELSE regs[r]
  <2>1. PICK x : /\ env' = [v \in Vreg |-> IF v \in program[pc[1]].def THEN x ELSE env[v]]
                 /\ regs' = [r \in Reg |-> IF r \in Current.def THEN x ELSE regs[r]]
    BY DEF Compute
  <2>2. pc[1] = i
    BY <1>1 DEF Facing
  <2> QED BY <1>2, <1>4, <2>1, <2>2
<1>6. Agree(C, e, g, mem)
  BY <1>3, <1>5, RunTrue
<1>7. OnPlace(f, Onward(<<i, k>>), e, g, m)
  <2>1. m = mem
    BY <1>4 DEF Compute
  <2> QED BY <1>2, <1>3, <1>6, <2>1, StepsOn
<1>8. pc' = Onward(<<i, k>>)
  BY <1>1 DEF Facing, Compute, Onward
<1> QED BY <1>4, <1>7, <1>8

LEMMA PassesOn ==
    ASSUME Laid, NEW f, Through(f), MachineAt(f), Jumped \/ NotTaken \/ Called
    PROVE  OnPlace(f, pc', env', regs', mem')
<1>1. PICK i, k, tr : Facing(f, i, k, tr)
  BY RunningFaces DEF Jumped, NotTaken, Called, Doing
<1>2. PICK B, C, ins : B = tr[k - 1] /\ C = tr[k] /\ ins = Current
  OBVIOUS
<1>3. /\ Runs(i, B, ins, C) /\ Agree(B, env, regs, mem) /\ Underway(f, i, tr) /\ k \in 1 .. Len(code[i])
      /\ code[i][k] = ins /\ ins.does \in {"jump", "branch", "call"}
  BY <1>1, <1>2 DEF Facing, Jumped, NotTaken, Called, Doing, Saves
<1>4. PICK e, g, m : e = env' /\ g = regs' /\ m = mem'
  OBVIOUS
<1>5. /\ e = env /\ m = mem /\ program[i].def = {} /\ i = pc[1]
      /\ \A r \in Reg : (program[i].does = "call" /\ r \in CallerSaved) \/ g[r] = regs[r]
  <2>1. program[i].does = ins.does /\ i \in DOMAIN program
    BY <1>3 DEF Runs, Underway
  <2>2. program[i].def = {}
    BY <1>3, <2>1 DEF Laid, Selected
  <2>3. e = env /\ m = mem
    BY <1>4 DEF Jumped, NotTaken, Called
  <2>4. CASE Jumped \/ NotTaken
    BY <1>1, <1>4, <2>2, <2>3, <2>4 DEF Jumped, NotTaken, Facing
  <2>5. CASE Called
    <3>1. program[i].does = "call" /\ regs' = [r \in Reg |-> IF r \in CallerSaved THEN Junk ELSE regs[r]]
      BY <1>2, <2>1, <2>5 DEF Called, Doing
    <3> QED BY <1>1, <1>4, <2>2, <2>3, <3>1 DEF Facing
  <2> QED BY <2>4, <2>5
<1>6. Agree(C, e, g, m)
  <2>1. \A r \in Reg : (program[i].does = "call" /\ r \in CallerSaved) \/ g[r] = regs[r]
    BY <1>5
  <2>2. program[i].def = {} /\ e = env
    BY <1>5
  <2>3. Agree(C, e, g, mem)
    BY <1>3, <2>1, <2>2, RunTrue
  <2> QED BY <1>5, <2>3
<1>7. CASE Jumped
  <2>1. ins.does \in {"jump", "branch"} /\ pc' = From(LabelPlace(program, program[i].to))
    BY <1>2, <1>5, <1>7 DEF Jumped, Doing
  <2>2. OnPlace(f, From(LabelPlace(program, program[i].to)), e, g, m)
    BY <1>2, <1>3, <1>6, <2>1, JumpsOn
  <2> QED BY <1>4, <2>1, <2>2
<1>8. CASE NotTaken \/ Called
  <2>1. ins.does \in {"branch", "call"} /\ pc' = Onward(<<i, k>>)
    BY <1>1, <1>2, <1>8 DEF NotTaken, Called, Doing, Facing, Onward
  <2>2. OnPlace(f, Onward(<<i, k>>), e, g, m)
    BY <1>2, <1>3, <1>6, <2>1, StepsOn
  <2> QED BY <1>4, <2>1, <2>2
<1> QED BY <1>7, <1>8

LEMMA EnterGoesOn ==
    ASSUME Laid, NEW f, Through(f), Enter
    PROVE  OnPlace(f, pc', env', regs', mem')
<1>1. PICK given \in [EntryValues(program) -> Data] :
          /\ env' = [v \in Vreg |-> IF v \in DOMAIN given THEN given[v] ELSE Junk]
          /\ regs' = [r \in Reg |-> LET v == arriving[r] IN IF v \in DOMAIN given THEN given[v] ELSE Junk]
  BY DEF Enter, EntryValues
<1>2. PICK e, g, m : e = env' /\ g = regs' /\ m = mem'
  OBVIOUS
<1>3. \A v \in Vreg : e[v] = IF v \in EntryValues(program) THEN given[v] ELSE Junk
  BY <1>1, <1>2
<1>4. \A r \in Reg : arriving[r] \in EntryValues(program) => g[r] = given[arriving[r]]
  BY <1>1, <1>2
<1>5. OnPlace(f, From(1), e, g, m)
  BY <1>3, <1>4, EntersOn
<1>6. pc' = From(1)
  BY DEF Enter
<1> QED BY <1>2, <1>5, <1>6

LEMMA IsLaid ==
    ASSUME Sound, GreedyInv, InOrder(program, live_after)
    PROVE  Laid
BY DEF Laid, Sound, GreedyInv

Machine == Enter \/ Spill \/ Reload \/ Compute \/ Jumped \/ NotTaken \/ Called

LEMMA MachineComputes ==
    ASSUME Sound, GreedyInv, Computing, Machine
    PROVE  Computing'
<1>1. UNCHANGED allocVars
  BY DEF Machine, Enter, Spill, Reload, Compute, Jumped, NotTaken, Called
<1>2. DOMAIN mem' = Vreg /\ DOMAIN regs' = Reg
  BY DEF Computing, Machine, Enter, Spill, Reload, Compute, Jumped, NotTaken, Called
<1>3. CASE allocator # "greedy"
  <2>1. allocator' # "greedy"
    BY <1>1, <1>3 DEF allocVars
  <2> QED BY <1>2, <2>1 DEF Computing
<1>4. CASE allocator = "greedy"
  <2>1. next > Len(program) /\ next > 0 /\ ~st.refused
    <3>1. CASE Enter
      <4>1. WellFormed(program) /\ next \in Nat
        BY DEF GreedyInv, Sound
      <4> QED BY <3>1, <4>1 DEF Enter, Allocated, Refused, WellFormed
    <3>2. CASE ~Enter
      <4>1. Running
        BY <3>2 DEF Machine, Spill, Reload, Compute, Jumped, NotTaken, Called, Doing
      <4> QED BY <1>4, <4>1 DEF Computing
    <3> QED BY <3>1, <3>2
  <2>2. ASSUME NEW f, History(f), MachineAt(f), InOrder(program, live_after)
        PROVE  OnPlace(f, pc', env', regs', mem')
    <3>1. Laid
      BY <2>2, IsLaid
    <3>2. Through(f)
      BY <2>1, <2>2 DEF Through
    <3>3. CASE Enter
      BY <3>1, <3>2, <3>3, EnterGoesOn
    <3>4. CASE Spill
      BY <2>2, <3>1, <3>2, <3>4, SpillGoesOn DEF Computing
    <3>5. CASE Reload
      BY <2>2, <3>1, <3>2, <3>5, ReloadGoesOn DEF Computing
    <3>6. CASE Compute
      BY <2>2, <3>1, <3>2, <3>6, ComputeGoesOn
    <3>7. CASE Jumped \/ NotTaken \/ Called
      BY <2>2, <3>1, <3>2, <3>7, PassesOn
    <3> QED BY <3>3, <3>4, <3>5, <3>6, <3>7 DEF Machine
  <2> QED BY <1>1, <1>2, <2>1, <2>2, MachineSteps
<1> QED BY <1>3, <1>4

\* The allocator's steps.
LEMMA StartComputes ==
    ASSUME Sound, GreedyInv, Computing, GreedyStart, allocator = "greedy", UNCHANGED machineVars
    PROVE  Computing'
<1>1. /\ program' = program /\ next = 0 /\ next' = 1 /\ graph = FlowGraph(program) /\ DOMAIN code = DOMAIN program
      /\ \A i \in DOMAIN program : code[i] = <<>>
      /\ WellFormed(program) /\ Selected(program)
  BY DEF Computing, GreedyInv, GreedyStart, Analysed, Sound
<1>2. ~Running /\ ~Running'
  <2>1. ~(next > 0)
    BY <1>1
  <2> QED BY <2>1 DEF Computing, Running, machineVars
<1>3. InOrder(program, live_after') => \E f : History(f)'
  BY <1>1, HistoryStarts
<1>4. \A f : MachineAt(f)'
  BY <1>2 DEF MachineAt
<1> QED BY <1>1, <1>2, <1>3, <1>4 DEF Computing, machineVars

LEMMA AllocateComputes ==
    ASSUME Sound, GreedyInv, Computing, Allocate, allocator = "greedy", UNCHANGED machineVars
    PROVE  Computing'
<1>1. /\ WellFormed(program) /\ Selected(program) /\ State(st) /\ next \in 1 .. Len(program) /\ next' = next + 1
      /\ program' = program /\ live_after' = live_after /\ ~st.refused
  BY DEF GreedyInv, Allocate, Sound, analysisVars
<1>2. next > 0 /\ ~(next > Len(program)) /\ next' # 0
  BY <1>1 DEF WellFormed
<1>3. ~Running /\ ~Running'
  BY <1>2 DEF Computing, Running, machineVars
<1>4. InOrder(program, live_after) /\ ~st'.refused => \E f : History(f)'
  BY <1>1, <1>2, HistoryGrows DEF Computing
<1>5. \A f : MachineAt(f)'
  BY <1>3 DEF MachineAt
<1> QED BY <1>1, <1>2, <1>3, <1>4, <1>5 DEF Computing, machineVars

LEMMA AnalyseComputes ==
    ASSUME Computing, Analyse, UNCHANGED <<allocator, greedyVars, machineVars>>
    PROVE  Computing'
<1>1. next = 0 /\ next' = 0 /\ graph' = graph /\ program' = program /\ code' = code /\ st' = st
      /\ allocator' = allocator
  BY DEF Analyse, greedyVars
<1>2. ~(next > 0) /\ ~(next' > 0)
  BY <1>1
<1> QED BY <1>1, <1>2 DEF Computing, Running, machineVars

LEMMA StillComputes ==
    ASSUME Computing, UNCHANGED vars
    PROVE  Computing'
<1>1. UNCHANGED allocVars /\ UNCHANGED machineVars
  BY DEF vars
<1>2. /\ DOMAIN mem' = Vreg /\ DOMAIN regs' = Reg
      /\ allocator' = allocator /\ next' = next /\ graph' = graph /\ program' = program /\ live_after' = live_after
      /\ code' = code /\ st' = st /\ (Running' <=> Running)
  BY <1>1 DEF Computing, allocVars, sharedVars, analysisVars, greedyVars, machineVars, Running
<1>3. ASSUME NEW f, History(f), MachineAt(f) PROVE History(f)' /\ MachineAt(f)'
  <2>1. History(f)'
    BY <1>1, <1>3, SameHistory
  <2>2. ASSUME Running' PROVE MachineAt(f)'
    <3>1. PICK place, e, g, m : place = pc /\ e = env /\ g = regs /\ m = mem
      OBVIOUS
    <3>2. OnPlace(f, place, e, g, m)
      BY <1>2, <1>3, <2>2, <3>1 DEF MachineAt, OnPlace
    <3>3. OnPlace(f, place, e, g, m)'
      BY <1>1, <3>2, SamePlace
    <3>4. place # Stopped
      BY <1>2, <2>2, <3>1 DEF Running, Stopped
    <3> QED BY <1>1, <3>1, <3>3, <3>4 DEF OnPlace, MachineAt, machineVars, Stopped
  <2> QED BY <2>1, <2>2 DEF MachineAt
<1> QED BY <1>2, <1>3 DEF Computing

LEMMA ComputingInductive == ASSUME Sound PROVE Spec => []Computing
<1>1. Init => Computing
  <2> SUFFICES ASSUME NEW a \in {"greedy", "linear"}, NEW p \in Programs \cup Scanned, InitOf(a, p)
               PROVE  Computing
    BY DEF Init
  <2>1. pc[1] = 0 /\ next = 0
    BY DEF InitOf, SharedInit, NotStarted
  <2>2. ~Running /\ ~(next > 0)
    BY <2>1 DEF Running
  <2> QED BY <2>1, <2>2 DEF InitOf, SharedInit, Computing
<1>2. GreedyInv /\ Computing /\ [Next]_vars => Computing'
  <2> SUFFICES ASSUME GreedyInv, Computing, [Next]_vars PROVE Computing'
    OBVIOUS
  <2>1. CASE Greedy
    <3>1. CASE Analyse /\ UNCHANGED greedyVars
      BY <2>1, <3>1, AnalyseComputes DEF Greedy
    <3>2. CASE GreedyStart
      BY <2>1, <3>2, StartComputes DEF Greedy
    <3>3. CASE Allocate
      BY <2>1, <3>3, AllocateComputes DEF Greedy
    <3> QED BY <2>1, <3>1, <3>2, <3>3 DEF Greedy
  <2>2. CASE Linear
    BY <2>2 DEF Linear, Computing, machineVars
  <2>3. CASE Machine
    BY <2>3, MachineComputes
  <2>4. CASE UNCHANGED vars
    BY <2>4, StillComputes
  <2> QED BY <2>1, <2>2, <2>3, <2>4 DEF Next, Machine
<1>3. GreedyInv /\ Computing => Computing
  OBVIOUS
<1> QED BY <1>1, <1>2, GreedyInductive, PTL DEF Spec

LEMMA ComputedSame ==
    ASSUME Sound, GreedyInv, Computing, allocator = "greedy", LaidOut
    PROVE  SameValues
<1>1. SUFFICES ASSUME Running, Current.does \notin {"spill", "reload"}, NEW n \in DOMAIN program[pc[1]].uses,
                      env[program[pc[1]].uses[n]] # Junk
               PROVE  regs[Current.uses[n]] = env[program[pc[1]].uses[n]]
  BY DEF SameValues
<1>2. PICK f : History(f) /\ MachineAt(f)
  BY <1>1 DEF Computing, LaidOut
<1>3. Laid
  BY IsLaid DEF LaidOut
<1>4. PICK i, k, tr : Facing(f, i, k, tr)
  BY <1>1, <1>2, <1>3, RunningFaces
<1>5. PICK B, C : B = tr[k - 1] /\ C = tr[k]
  OBVIOUS
<1>6. i = pc[1] /\ i \in DOMAIN program /\ Agree(B, env, regs, mem) /\ Runs(i, B, Current, C)
  BY <1>1, <1>4, <1>5 DEF Facing, Saves, Underway
<1>7. PICK v, r : v = program[i].uses[n] /\ r = Current.uses[n]
  OBVIOUS
<1>8. n \in DOMAIN program[i].uses /\ env[v] # Junk
  BY <1>1, <1>6, <1>7
<1>9. v \in Vreg
  BY <1>3, <1>6, <1>7, <1>8 DEF Laid, Selected, UsesOf
<1>10. r \in Reg /\ v \in B.held[r]
  BY <1>6, <1>7, <1>8 DEF Runs
<1>11. regs[r] = env[v]
  BY <1>6, <1>8, <1>9, <1>10 DEF Agree
<1> QED BY <1>6, <1>7, <1>11

(***************************************************************************)
(* The greedy allocator's code computes what the program says, on every    *)
(* path, for any code and liveness, any bank and caller-saved registers,   *)
(* if the text is laid out the way the allocator counts on: whatever       *)
(* instruction runs next finds in its operand registers the values of its  *)
(* variables.                                                              *)
(***************************************************************************)
THEOREM GreedyComputes == ASSUME Sound PROVE Spec => [](allocator = "greedy" /\ LaidOut => SameValues)
<1>1. GreedyInv /\ Computing => (allocator = "greedy" /\ LaidOut => SameValues)
  BY ComputedSame
<1> QED BY <1>1, GreedyInductive, ComputingInductive, PTL
=============================================================================
