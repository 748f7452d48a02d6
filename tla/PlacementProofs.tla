--------------------------- MODULE PlacementProofs ---------------------------
(***************************************************************************)
(* Where things go, and what takes the place of what: buffers in the       *)
(* memory of the NPU, the instructions of a region in its schedule, and    *)
(* the lines of assembly that the rules and the merger write for others.   *)
(***************************************************************************)
EXTENDS Allocator, Peephole, ConstMerge, Scheduler, NumberLemmas, SequenceTheorems, TLAPS

(***************************************************************************)
(* For every pool, alignment and request.  By first fit, and in the        *)
(* scratchpad, what a caller holds lies below the pointer of its region,   *)
(* and a pointer only moves up until a reset.  By buddies, a block moves   *)
(* between its list, the hand and the record of what is allocated, and     *)
(* only Split and Merge change which blocks there are.                     *)
(***************************************************************************)
\* Every area is below the pointer of the region it was taken from.
UnderPointer(g) ==
    \/ g.addr + g.size <= scratch
    \/ Scratch <= g.addr /\ g.addr + g.size <= cursor

Area == [id : Nat, addr : Nat, size : Nat, align : Nat]

CursorInv ==
    /\ ~buddy /\ pc = "ready" /\ allocs \in Nat
    /\ scratch \in 0 .. Scratch /\ cursor \in Scratch .. Pool
    /\ granted \subseteq Area
    /\ \A g \in granted : g.id < allocs /\ UnderPointer(g)
    /\ \A g, h \in granted : g # h => Apart(g.addr, g.size, h.addr, h.size)

\* Rounding up stays a natural number and never goes down.
LEMMA AlignUpGrows ==
    ASSUME NEW a \in Nat, NEW n \in Nat \ {0}
    PROVE  AlignUp(a, n) \in Nat /\ a <= AlignUp(a, n)
<1> DEFINE x == a + n - 1
           q == x \div n
           r == x % n
<1>1. x \in Nat /\ x >= 0
  OBVIOUS
<1>2. q \in Int /\ r \in 0 .. (n - 1) /\ x = n * q + r
  BY <1>1
<1>3. q >= 0
  BY <1>1, <1>2
<1>4. n * q \in Int /\ n * q = q * n
  BY <1>2
<1>5. n * q >= a
  BY <1>2, <1>4
<1> QED
  BY <1>4, <1>5 DEF AlignUp

\* What alloc makes of a request: a natural size and a positive alignment.
LEMMA AskedTypes ==
    ASSUME NEW size \in Requests, NEW align \in Aligns
    PROVE  Asked(size, align) \in [size : Nat, align : Nat \ {0}]
<1>1. Size[0] \in Nat \ {0}
  BY TopAssumption, SizeAssumption DEF Levels
<1>2. size \in Nat /\ align \in Nat
  BY RequestAssumption
<1>3. (IF align = 0 THEN Size[0] ELSE align) \in Nat \ {0}
  BY <1>1, <1>2
<1> QED
  BY <1>2, <1>3, AlignUpGrows DEF Asked

\* An area apart from all the others joins them.
LEMMA GrantKeepsApart ==
    ASSUME CursorInv,
           NEW addr \in Nat, NEW ask \in [size : Nat, align : Nat \ {0}],
           Grant(addr, ask),
           \A g \in granted : Apart(g.addr, g.size, addr, ask.size)
    PROVE  /\ allocs' \in Nat /\ granted' \subseteq Area
           /\ \A g \in granted' : g.id < allocs'
           /\ \A g, h \in granted' : g # h => Apart(g.addr, g.size, h.addr, h.size)
<1> DEFINE new == [id |-> allocs, addr |-> addr, size |-> ask.size, align |-> ask.align]
<1>1. new \in Area /\ granted' = granted \cup {new} /\ allocs' = allocs + 1
  BY DEF CursorInv, Grant, Area
<1>2. granted \subseteq Area /\ allocs \in Nat /\ \A g \in granted : g.id < allocs
  BY DEF CursorInv
<1>3. \A g \in granted' : g.id < allocs'
  BY <1>1, <1>2 DEF Area
<1>4. \A g \in granted : Apart(g.addr, g.size, new.addr, new.size)
                          /\ Apart(new.addr, new.size, g.addr, g.size)
  BY <1>1, <1>2 DEF Apart, Area
<1>5. \A g, h \in granted' : g # h => Apart(g.addr, g.size, h.addr, h.size)
  BY <1>1, <1>4 DEF CursorInv
<1> QED
  BY <1>1, <1>2, <1>3, <1>5

\* An area taken from the scratchpad starts at its pointer or above.
LEMMA FromScratchpadKeeps ==
    ASSUME CursorInv, NEW ask \in [size : Nat, align : Nat \ {0}], FromScratchpad(ask)
    PROVE  CursorInv'
<1> DEFINE where == AlignUp(scratch, ask.align)
<1>1. scratch \in Nat /\ cursor \in Nat /\ scratch <= Scratch /\ Scratch \in Nat /\ Pool \in Nat
      /\ Scratch <= cursor /\ cursor <= Pool
  BY PoolAssumption DEF CursorInv
<1>2. where \in Nat /\ scratch <= where
  BY <1>1, AlignUpGrows
<1> HIDE DEF where
<1>3. where + ask.size <= Scratch /\ scratch' = where + ask.size /\ Grant(where, ask)
      /\ cursor' = cursor /\ pc' = pc /\ buddy' = buddy
  BY DEF FromScratchpad, where, loopvars
<1>4. \A g \in granted : g \in Area /\ UnderPointer(g)
  BY DEF CursorInv
<1>5. \A g \in granted : Apart(g.addr, g.size, where, ask.size)
  BY <1>1, <1>2, <1>3, <1>4 DEF Apart, UnderPointer, Area
<1>6. /\ allocs' \in Nat /\ granted' \subseteq Area
      /\ \A g \in granted' : g.id < allocs'
      /\ \A g, h \in granted' : g # h => Apart(g.addr, g.size, h.addr, h.size)
  BY <1>2, <1>3, <1>5, GrantKeepsApart
<1>7. scratch' \in 0 .. Scratch /\ scratch <= scratch'
  BY <1>1, <1>2, <1>3
<1>8. \A g \in granted : UnderPointer(g)'
  BY <1>1, <1>3, <1>4, <1>7 DEF UnderPointer, Area
<1>9. \A g \in granted' : UnderPointer(g)'
  BY <1>3, <1>8 DEF UnderPointer, Grant
<1> QED
  BY <1>3, <1>6, <1>7, <1>9 DEF CursorInv

\* An area taken from the general region starts at its pointer or above.
LEMMA FromCursorKeeps ==
    ASSUME CursorInv, NEW ask \in [size : Nat, align : Nat \ {0}], FromCursor(ask)
    PROVE  CursorInv'
<1> DEFINE where == AlignUp(cursor, ask.align)
<1>1. scratch \in Nat /\ cursor \in Nat /\ scratch <= Scratch /\ Scratch \in Nat /\ Pool \in Nat
      /\ Scratch <= cursor /\ cursor <= Pool
  BY PoolAssumption DEF CursorInv
<1>2. where \in Nat /\ cursor <= where
  BY <1>1, AlignUpGrows
<1> HIDE DEF where
<1>3. where + ask.size <= Pool /\ cursor' = where + ask.size /\ Grant(where, ask)
      /\ scratch' = scratch /\ pc' = pc /\ buddy' = buddy
  BY DEF FromCursor, where, loopvars
<1>4. \A g \in granted : g \in Area /\ UnderPointer(g)
  BY DEF CursorInv
<1>5. \A g \in granted : Apart(g.addr, g.size, where, ask.size)
  BY <1>1, <1>2, <1>3, <1>4 DEF Apart, UnderPointer, Area
<1>6. /\ allocs' \in Nat /\ granted' \subseteq Area
      /\ \A g \in granted' : g.id < allocs'
      /\ \A g, h \in granted' : g # h => Apart(g.addr, g.size, h.addr, h.size)
  BY <1>2, <1>3, <1>5, GrantKeepsApart
<1>7. cursor' \in Scratch .. Pool /\ cursor <= cursor'
  BY <1>1, <1>2, <1>3
<1>8. \A g \in granted : UnderPointer(g)'
  BY <1>1, <1>3, <1>4, <1>7 DEF UnderPointer, Area
<1>9. \A g \in granted' : UnderPointer(g)'
  BY <1>1, <1>2, <1>3, <1>8 DEF UnderPointer, Grant
<1> QED
  BY <1>3, <1>6, <1>7, <1>9 DEF CursorInv

\* Under first fit the invariant is inductive, and the policy never changes.
LEMMA CursorInvInit == Init /\ ~buddy => CursorInv
<1> SUFFICES ASSUME Init, ~buddy PROVE CursorInv
  OBVIOUS
<1>1. granted = {} /\ pc = "ready" /\ allocs = 0 /\ scratch = 0 /\ cursor = Scratch
  BY DEF Init
<1> QED
  BY <1>1, PoolAssumption DEF CursorInv

\* Every step keeps it.
LEMMA CursorInvNext == CursorInv /\ [Next]_vars => CursorInv'
<1> SUFFICES ASSUME CursorInv, [Next]_vars PROVE CursorInv'
  OBVIOUS
<1>1. CASE Alloc
  <2>1. PICK size \in Requests, align \in Aligns :
           \/ FromScratchpad(Asked(size, align))
           \/ FromCursor(Asked(size, align))
    BY <1>1 DEF Alloc, CursorInv
  <2> QED
    BY <2>1, AskedTypes, FromScratchpadKeeps, FromCursorKeeps
<1>2. CASE Split \/ Take \/ Merge \/ Settle
  BY <1>2 DEF CursorInv, Split, Take, Merge, Settle
<1>3. CASE \E g \in granted : Free(g)
  <2>1. granted' \subseteq granted /\ pc' = "ready"
        /\ UNCHANGED <<buddy, cursor, scratch, allocs>>
    BY <1>3 DEF Free, CursorInv, cursors
  <2> QED
    BY <2>1 DEF CursorInv, UnderPointer
<1>4. CASE Reset
  BY <1>4, PoolAssumption DEF CursorInv, Reset, loopvars
<1>5. CASE UNCHANGED vars
  BY <1>5 DEF CursorInv, UnderPointer, vars, loopvars, cursors
<1> QED
  BY <1>1, <1>2, <1>3, <1>4, <1>5 DEF Next

\* The policy chosen at construction stays.
LEMMA PolicyStays == buddy /\ [Next]_vars => buddy'
<1> SUFFICES ASSUME buddy, [Next]_vars PROVE buddy'
  OBVIOUS
<1>1. UNCHANGED buddy
  BY DEF Next, Alloc, FromScratchpad, FromCursor, FromBuddies, Split, Take, Free, Merge, Settle,
         Reset, vars, cursors
<1> QED
  BY <1>1

\* By first fit no byte of the pool is ever held by two callers, for every size
\* of the pool, every alignment and every sequence of requests and resets.
THEOREM CursorGrantsApart == Spec => []FirstFitApart
<1>1. Init => buddy \/ CursorInv
  BY CursorInvInit
<1>2. (buddy \/ CursorInv) /\ [Next]_vars => (buddy \/ CursorInv)'
  BY PolicyStays, CursorInvNext
<1>3. buddy \/ CursorInv => FirstFitApart
  BY PoolAssumption DEF CursorInv, FirstFitApart, GrantsApart, UnderPointer, Area
<1> QED
  BY <1>1, <1>2, <1>3, PTL DEF Spec

-----------------------------------------------------------------------------
(***************************************************************************)
(* Levels, sizes, and the least and the largest of a set of levels.        *)
(***************************************************************************)
\* The levels are natural numbers, and each size is twice the one below.
LEMMA LevelSizes ==
    /\ 0 \in Levels /\ Top \in Levels /\ Levels \subseteq Nat
    /\ \A l \in Levels : Size[l] \in Nat \ {0}
    /\ \A l \in Levels : l # 0 => l - 1 \in Levels /\ Size[l] = 2 * Size[l-1]
    /\ \A l \in Levels : l # Top => l + 1 \in Levels /\ Size[l+1] = 2 * Size[l]
<1>1. Top \in Nat /\ Size \in [Levels -> Nat \ {0}]
      /\ \A l \in Levels \ {0} : Size[l] = 2 * Size[l-1]
  BY TopAssumption, SizeAssumption
<1>2. \A l \in Levels : l # 0 => l - 1 \in Levels
  BY <1>1 DEF Levels
<1>3. \A l \in Levels : l # Top => l + 1 \in Levels \ {0} /\ (l + 1) - 1 = l
  BY <1>1 DEF Levels
<1>4. \A l \in Levels : l # Top => Size[l+1] = 2 * Size[l]
  BY <1>1, <1>3
<1> QED BY <1>1, <1>2, <1>3, <1>4 DEF Levels

\* The level _buddy_alloc searches from, and the list it takes from, exist.
LEMMA SmallestIsIn ==
    ASSUME NEW S \in SUBSET Levels, S # {}
    PROVE  Smallest(S) \in S
<1>1. \E l \in S : \A m \in S : l <= m
  BY LevelSizes, LeastNatural
<1> QED BY <1>1 DEF Smallest

\* The largest level that fits, in _init_buddy, exists.
LEMMA LargestIsIn ==
    ASSUME NEW S \in SUBSET Levels, S # {}
    PROVE  Largest(S) \in S
<1> DEFINE Down == {Top - l : l \in S}
<1>1. Down \in SUBSET Nat /\ Down # {}
  <2>1. \A l \in S : Top - l \in Nat
    BY TopAssumption DEF Levels
  <2> QED BY <2>1
<1>2. PICK d \in Down : \A e \in Down : d <= e
  <2> HIDE DEF Down
  <2> QED BY <1>1, LeastNatural
<1>3. PICK l \in S : d = Top - l
  BY <1>2
<1>4. ASSUME NEW m \in S PROVE m <= l
  <2>1. Top - m \in Down OBVIOUS
  <2>2. d <= Top - m
    BY <1>2, <2>1
  <2> QED BY <1>3, <2>2, TopAssumption DEF Levels
<1>5. \E n \in S : \A m \in S : m <= n
  BY <1>4
<1> QED BY <1>5 DEF Largest

-----------------------------------------------------------------------------
(***************************************************************************)
(* Lists of addresses.                                                     *)
(***************************************************************************)
\* A list with an address appended holds it once, if it did not hold it.
LEMMA Appended ==
    ASSUME NEW s \in Seq(Nat), NEW a \in Nat
    PROVE  /\ Append(s, a) \in Seq(Nat)
           /\ Range(Append(s, a)) = Range(s) \cup {a}
           /\ IsInjective(s) /\ a \notin Range(s) => IsInjective(Append(s, a))
<1>1. Append(s, a) \in Seq(Nat) /\ Len(s) \in Nat /\ DOMAIN s = 1 .. Len(s)
      /\ DOMAIN Append(s, a) = 1 .. Len(s) + 1
      /\ Append(s, a)[Len(s) + 1] = a
      /\ \A i \in 1 .. Len(s) : Append(s, a)[i] = s[i]
  OBVIOUS
<1>2. Range(Append(s, a)) = Range(s) \cup {a}
  BY <1>1 DEF Range
<1>3. IsInjective(s) /\ a \notin Range(s) => IsInjective(Append(s, a))
  BY <1>1 DEF Range, IsInjective
<1> QED BY <1>1, <1>2, <1>3

\* Popping the head of a list leaves the others.
LEMMA Beheaded ==
    ASSUME NEW s \in Seq(Nat), s # <<>>
    PROVE  /\ Tail(s) \in Seq(Nat) /\ Head(s) \in Range(s) /\ Head(s) \in Nat
           /\ Range(Tail(s)) \subseteq Range(s)
           /\ IsInjective(s) => IsInjective(Tail(s)) /\ Range(Tail(s)) = Range(s) \ {Head(s)}
<1>1. Tail(s) \in Seq(Nat) /\ Len(s) \in Nat \ {0} /\ DOMAIN s = 1 .. Len(s) /\ Head(s) = s[1]
      /\ DOMAIN Tail(s) = 1 .. Len(s) - 1
      /\ \A i \in 1 .. Len(s) - 1 : Tail(s)[i] = s[i + 1]
  OBVIOUS
<1>2. 1 \in DOMAIN s /\ \A i \in DOMAIN s : s[i] \in Nat
  BY <1>1
<1>3. Range(Tail(s)) \subseteq Range(s)
  BY <1>1 DEF Range
<1>4. ASSUME IsInjective(s) PROVE IsInjective(Tail(s)) /\ Range(Tail(s)) = Range(s) \ {Head(s)}
  <2>1. IsInjective(Tail(s))
    BY <1>1, <1>4 DEF IsInjective
  <2>2. \A i \in 1 .. Len(s) - 1 : Tail(s)[i] # s[1]
    BY <1>1, <1>4 DEF IsInjective
  <2>3. ASSUME NEW i \in DOMAIN s, s[i] # s[1] PROVE s[i] \in Range(Tail(s))
    <3>1. i - 1 \in 1 .. Len(s) - 1 /\ Tail(s)[i - 1] = s[(i - 1) + 1] /\ (i - 1) + 1 = i
      BY <1>1, <2>3
    <3> QED BY <1>1, <3>1 DEF Range
  <2> QED BY <1>1, <1>3, <2>1, <2>2, <2>3 DEF Range
<1> QED BY <1>1, <1>2, <1>3, <1>4 DEF Range

\* Removing an address from a list adds nothing to it.
LEMMA Removed ==
    ASSUME NEW s \in Seq(Nat), NEW a
    PROVE  RemoveFirst(s, a) \in Seq(Nat) /\ Range(RemoveFirst(s, a)) \subseteq Range(s)
<1>1. CASE ~ \E i \in 1 .. Len(s) : s[i] = a
  BY <1>1 DEF RemoveFirst
<1>2. CASE \E i \in 1 .. Len(s) : s[i] = a
  <2> DEFINE I == {i \in 1 .. Len(s) : s[i] = a}
             j == Min(I)
  <2>1. I # {} /\ I \in SUBSET Nat
    BY <1>2
  <2>2. j \in 1 .. Len(s)
    <3>1. \E n \in I : \A m \in I : n <= m
      <4> HIDE DEF I
      <4> QED BY <2>1, LeastNatural
    <3>2. j \in I
      BY <3>1 DEF Min
    <3> QED BY <3>2
  <2>3. SelectInSeq(s, LAMBDA v : v = a) = j
    BY <2>1 DEF SelectInSeq
  <2>4. RemoveFirst(s, a) = SubSeq(s, 1, j - 1) \o SubSeq(s, j + 1, Len(s))
    BY <1>2, <2>3 DEF RemoveFirst, RemoveAt
  <2> HIDE DEF j
  <2> DEFINE f == SubSeq(s, 1, j - 1)
             g == SubSeq(s, j + 1, Len(s))
  <2>5. f \in Seq(Nat) /\ Len(f) = j - 1 /\ \A i \in 1 .. Len(f) : f[i] = s[i]
    BY <2>2
  <2>6. g \in Seq(Nat) /\ Len(g) = Len(s) - j /\ \A i \in 1 .. Len(g) : g[i] = s[i + j]
    <3>1. Len(s) \in Nat /\ j \in Nat /\ j + 1 \in 1 .. Len(s) + 1 /\ j <= Len(s)
      BY <2>2
    <3> HIDE DEF I
    <3>2. g \in Seq(Nat) /\ Len(g) = Len(s) - j
      BY <3>1
    <3>3. ASSUME NEW i \in 1 .. Len(g) PROVE g[i] = s[i + j]
      <4>1. i \in 1 .. Len(s) - j /\ g[i] = s[(j + 1) + i - 1]
        BY <3>1, <3>2
      <4>2. (j + 1) + i - 1 = i + j
        BY <3>1, <4>1
      <4> QED BY <4>1, <4>2
    <3> QED BY <3>2, <3>3
  <2>7. \A i \in 1 .. Len(f) : f[i] \in Range(s)
    BY <2>2, <2>5 DEF Range
  <2>8. \A i \in 1 .. Len(g) : g[i] \in Range(s)
    BY <2>2, <2>6 DEF Range
  <2> HIDE DEF f, g
  <2>9. \A i \in 1 .. Len(f \o g) : (f \o g)[i] \in Range(s)
    <3>1. f \in Seq(Nat) /\ g \in Seq(Nat) /\ Len(f) \in Nat /\ Len(g) \in Nat
          /\ Len(f \o g) = Len(f) + Len(g)
      <4>1. f \in Seq(Nat) /\ g \in Seq(Nat)
        BY <2>5, <2>6
      <4> HIDE DEF I
      <4> QED BY <4>1
    <3> SUFFICES ASSUME NEW i \in 1 .. Len(f \o g) PROVE (f \o g)[i] \in Range(s)
      OBVIOUS
    <3>2. CASE i <= Len(f)
      <4>1. i \in 1 .. Len(f) /\ (f \o g)[i] = f[i]
        BY <3>1, <3>2
      <4> QED BY <2>7, <4>1
    <3>3. CASE i > Len(f)
      <4>1. i - Len(f) \in 1 .. Len(g) /\ (f \o g)[i] = g[i - Len(f)]
        BY <3>1, <3>3
      <4> QED BY <2>8, <4>1
    <3> QED BY <3>1, <3>2, <3>3
  <2>10. f \o g \in Seq(Nat)
    BY <2>5, <2>6
  <2>11. RemoveFirst(s, a) = f \o g
    BY <2>4 DEF f, g
  <2>12. DOMAIN (f \o g) = 1 .. Len(f \o g)
    BY <2>10
  <2> QED BY <2>9, <2>10, <2>11, <2>12 DEF Range
<1> QED BY <1>1, <1>2

\* A finite set of addresses as a list holds each once.
LEMMA Enumerated ==
    ASSUME NEW S \in SUBSET Nat, IsFiniteSet(S)
    PROVE  /\ SetToSeq(S) \in Seq(Nat) /\ IsInjective(SetToSeq(S)) /\ Range(SetToSeq(S)) = S
<1> DEFINE n == Cardinality(S)
           f == SetToSeq(S)
<1>1. n \in Nat /\ ExistsBijection(1 .. n, S)
  BY FS_CardinalityType
<1>2. \E g \in [1 .. n -> S] : IsInjective(g)
  BY <1>1 DEF ExistsBijection, Bijection, Injection
<1>3. f \in [1 .. n -> S] /\ IsInjective(f)
  BY <1>2 DEF SetToSeq
<1> HIDE DEF f
<1>4. f \in Surjection(1 .. n, S)
  <2>1. f \in Injection(1 .. n, S)
    BY <1>3 DEF Injection
  <2>2. Cardinality(1 .. n) = n
    BY <1>1, FS_Interval
  <2> QED BY <2>1, <2>2, FS_Injection
<1>5. Range(f) = S
  BY <1>3, <1>4 DEF Range, Surjection
<1>6. f \in Seq(Nat)
  <2>1. f \in [1 .. n -> Nat]
    BY <1>3
  <2> QED BY <1>1, <2>1, SeqDef
<1> QED BY <1>3, <1>5, <1>6 DEF f

-----------------------------------------------------------------------------
(***************************************************************************)
(* Listed blocks.                                                          *)
(***************************************************************************)
Lists   == [Levels -> Seq(Nat)]
BlockSet == [addr : Nat, level : Levels]

\* The blocks on the lists, by level and address.
LEMMA OnLists ==
    ASSUME NEW f \in Lists
    PROVE  On(f) = {b \in BlockSet : b.addr \in Range(f[b.level])}
<1>1. \A l \in Levels : Range(f[l]) \subseteq Nat
  BY DEF Lists, Range
<1> QED BY <1>1 DEF On, BlockSet

\* Appending an address to one list puts one block on the lists.
LEMMA ListAppend ==
    ASSUME NEW f \in Lists, NEW l \in Levels, NEW a \in Nat
    PROVE  LET g == [f EXCEPT ![l] = Append(@, a)] IN
           /\ g \in Lists
           /\ On(g) = On(f) \cup {Block(a, l)}
           /\ (\A m \in Levels : IsInjective(f[m])) /\ Block(a, l) \notin On(f) =>
                 \A m \in Levels : IsInjective(g[m])
<1> DEFINE g == [f EXCEPT ![l] = Append(@, a)]
<1>1. f[l] \in Seq(Nat)
  BY DEF Lists
<1>2. /\ Append(f[l], a) \in Seq(Nat) /\ Range(Append(f[l], a)) = Range(f[l]) \cup {a}
      /\ IsInjective(f[l]) /\ a \notin Range(f[l]) => IsInjective(Append(f[l], a))
  BY <1>1, Appended
<1>3. g \in Lists /\ \A m \in Levels : g[m] = IF m = l THEN Append(f[l], a) ELSE f[m]
  BY <1>2 DEF Lists
<1> HIDE DEF g
<1>4. On(g) = On(f) \cup {Block(a, l)}
  <2>1. Block(a, l) \in BlockSet /\ Block(a, l).addr = a /\ Block(a, l).level = l
    BY DEF Block, BlockSet
  <2>2. \A b \in BlockSet : b.level \in Levels
    BY DEF BlockSet
  <2>3. ASSUME NEW b \in BlockSet
        PROVE  b.addr \in Range(g[b.level]) <=> b.addr \in Range(f[b.level]) \/ b = Block(a, l)
    <3>1. b.level = l /\ b.addr = a => b = Block(a, l)
      BY DEF Block, BlockSet
    <3> QED BY <1>2, <1>3, <2>1, <2>2, <3>1
  <2> QED BY <1>3, <2>1, <2>3, OnLists
<1>5. Block(a, l) \notin On(f) => a \notin Range(f[l])
  BY OnLists DEF Block, BlockSet
<1> QED BY <1>2, <1>3, <1>4, <1>5 DEF g

\* Popping one list takes one block off the lists, if no list repeats an address.
LEMMA ListTail ==
    ASSUME NEW f \in Lists, NEW l \in Levels, f[l] # <<>>
    PROVE  LET g == [f EXCEPT ![l] = Tail(@)]
               b == Block(Head(f[l]), l) IN
           /\ g \in Lists /\ b \in On(f) /\ On(g) \subseteq On(f)
           /\ (\A m \in Levels : IsInjective(f[m])) =>
                 On(g) = On(f) \ {b} /\ \A m \in Levels : IsInjective(g[m])
<1> DEFINE g == [f EXCEPT ![l] = Tail(@)]
           b == Block(Head(f[l]), l)
<1>1. f[l] \in Seq(Nat)
  BY DEF Lists
<1>2. /\ Tail(f[l]) \in Seq(Nat) /\ Head(f[l]) \in Range(f[l]) /\ Head(f[l]) \in Nat
      /\ Range(Tail(f[l])) \subseteq Range(f[l])
      /\ IsInjective(f[l]) => IsInjective(Tail(f[l])) /\ Range(Tail(f[l])) = Range(f[l]) \ {Head(f[l])}
  BY <1>1, Beheaded
<1>3. g \in Lists /\ \A m \in Levels : g[m] = IF m = l THEN Tail(f[l]) ELSE f[m]
  BY <1>2 DEF Lists
<1>4. b \in BlockSet /\ b.addr = Head(f[l]) /\ b.level = l
      /\ \A c \in BlockSet : c.level = l /\ c.addr = Head(f[l]) => c = b
  BY <1>2 DEF Block, BlockSet
<1> HIDE DEF g, b
<1>5. \A c \in BlockSet : c.level \in Levels
  BY DEF BlockSet
<1>6. b \in On(f) /\ On(g) \subseteq On(f)
  BY <1>2, <1>3, <1>4, <1>5, OnLists
<1>7. ASSUME \A m \in Levels : IsInjective(f[m])
      PROVE  On(g) = On(f) \ {b} /\ \A m \in Levels : IsInjective(g[m])
  <2>1. \A c \in BlockSet : c.addr \in Range(g[c.level]) <=> c.addr \in Range(f[c.level]) /\ c # b
    BY <1>2, <1>3, <1>4, <1>5, <1>7
  <2> QED BY <1>2, <1>3, <1>7, <2>1, OnLists
<1> QED BY <1>3, <1>6, <1>7 DEF g, b

-----------------------------------------------------------------------------
(***************************************************************************)
(* The seeds.                                                              *)
(***************************************************************************)
InPool(b) == b.addr >= Scratch /\ b.addr + Size[b.level] <= Pool
AllApart(S) == \A b, c \in S : b # c => Apart(b.addr, Size[b.level], c.addr, Size[c.level])

\* The blocks _init_buddy starts from lie in the general region and do not overlap.
LEMMA Seeds ==
    /\ InitBuddy \subseteq BlockSet /\ IsFiniteSet(InitBuddy)
    /\ \A b \in InitBuddy : InPool(b)
    /\ AllApart(InitBuddy)
<1> DEFINE general == Pool - Scratch
           top     == Largest(Below(general))
           rest    == general - Size[top]
           low     == Block(Scratch, top)
           high    == Block(Scratch + Size[top], Largest(Below(rest)))
<1>1. Pool \in Nat /\ Scratch \in Nat /\ general \in Nat /\ Size[0] <= general /\ 0 \in Levels
  BY PoolAssumption, LevelSizes
<1>2. top \in Levels /\ Size[top] <= general /\ Size[top] \in Nat \ {0}
  <2>1. Below(general) \in SUBSET Levels /\ Below(general) # {}
    BY <1>1 DEF Below
  <2>2. top \in Below(general)
    BY <2>1, LargestIsIn
  <2> QED BY <2>2, LevelSizes DEF Below
<1>3. low \in BlockSet /\ low.addr = Scratch /\ low.level = top
  BY <1>1, <1>2 DEF Block, BlockSet
<1> HIDE DEF top
<1>4. CASE Below(rest) = {}
  <2>1. InitBuddy = {low}
    BY <1>4 DEF InitBuddy, top
  <2>2. IsFiniteSet(InitBuddy)
    BY <2>1, FS_Singleton
  <2> QED BY <1>1, <1>2, <1>3, <2>1, <2>2 DEF InPool, AllApart
<1>5. CASE Below(rest) # {}
  <2> DEFINE second == Largest(Below(rest))
  <2>1. second \in Levels /\ Size[second] <= rest /\ Size[second] \in Nat \ {0}
    <3>1. Below(rest) \in SUBSET Levels
      BY DEF Below
    <3>2. second \in Below(rest)
      BY <1>5, <3>1, LargestIsIn
    <3> QED BY <3>2, LevelSizes DEF Below
  <2>2. InitBuddy = {low, high}
    BY <1>5 DEF InitBuddy, top
  <2> HIDE DEF second
  <2>3. high \in BlockSet /\ high.addr = Scratch + Size[top] /\ high.level = second
    BY <1>1, <1>2, <2>1 DEF Block, BlockSet, second
  <2> HIDE DEF low, high
  <2>4. IsFiniteSet({low} \cup {high})
    BY FS_Singleton, FS_AddElement
  <2>5. IsFiniteSet(InitBuddy)
    <3>1. InitBuddy = {low} \cup {high}
      BY <2>2
    <3> QED BY <2>4, <3>1
  <2>6. InPool(low) /\ InPool(high)
    BY <1>1, <1>2, <1>3, <2>1, <2>3 DEF InPool
  <2>7. /\ Apart(low.addr, Size[low.level], high.addr, Size[high.level])
        /\ Apart(high.addr, Size[high.level], low.addr, Size[low.level])
    BY <1>1, <1>2, <1>3, <2>1, <2>3 DEF Apart
  <2> QED BY <1>3, <2>2, <2>3, <2>5, <2>6, <2>7 DEF AllApart
<1> QED BY <1>4, <1>5

\* The seeded lists hold the seeds, each once, and nothing by first fit.
LEMMA SeedsListed ==
    ASSUME NEW policy \in BOOLEAN
    PROVE  /\ SeededLists(policy) \in Lists
           /\ \A l \in Levels : IsInjective(SeededLists(policy)[l])
           /\ On(SeededLists(policy)) = IF policy THEN InitBuddy ELSE {}
<1> DEFINE f == SeededLists(policy)
           There(l) == {b.addr : b \in {c \in InitBuddy : c.level = l}}
<1>1. CASE policy
  <2>1. ASSUME NEW l \in Levels
        PROVE  f[l] \in Seq(Nat) /\ IsInjective(f[l]) /\ Range(f[l]) = There(l)
    <3>1. f[l] = SetToSeq(There(l))
      BY <1>1 DEF SeededLists
    <3>2. There(l) \in SUBSET Nat
      BY Seeds DEF BlockSet
    <3>3. IsFiniteSet(There(l))
      <4>1. IsFiniteSet({c \in InitBuddy : c.level = l})
        BY Seeds, FS_Subset
      <4> DEFINE X == {c \in InitBuddy : c.level = l}
                 h == [b \in X |-> b.addr]
      <4>2. h \in Surjection(X, There(l))
        BY DEF Surjection
      <4> QED BY <4>1, <4>2, FS_Surjection
    <3> HIDE DEF f, There
    <3> QED BY <3>1, <3>2, <3>3, Enumerated
  <2>2. f \in Lists
    <3>1. f = [l \in Levels |-> f[l]]
      BY DEF SeededLists
    <3> QED BY <2>1, <3>1 DEF Lists
  <2> HIDE DEF f
  <2>3. On(f) = {b \in BlockSet : b.addr \in There(b.level)}
    <3>1. \A b \in BlockSet : b.level \in Levels
      BY DEF BlockSet
    <3> HIDE DEF There
    <3> QED BY <2>1, <2>2, <3>1, OnLists
  <2>4. ASSUME NEW b \in BlockSet PROVE b.addr \in There(b.level) <=> b \in InitBuddy
    <3>1. \A c \in InitBuddy : c \in BlockSet /\ (c.level = b.level /\ c.addr = b.addr => c = b)
      BY Seeds DEF BlockSet
    <3> QED BY <3>1
  <2>5. On(f) = InitBuddy
    BY <2>3, <2>4, Seeds
  <2> QED BY <1>1, <2>1, <2>2, <2>5 DEF f
<1>2. CASE ~policy
  <2>1. f = [l \in Levels |-> <<>>]
    BY <1>2 DEF SeededLists
  <2> HIDE DEF f
  <2>2. f \in Lists /\ \A l \in Levels : IsInjective(f[l]) /\ Range(f[l]) = {}
    BY <2>1 DEF Lists, IsInjective, Range
  <2>3. On(f) = {}
    BY <2>2, OnLists DEF BlockSet
  <2> QED BY <1>2, <2>2, <2>3 DEF f
<1> QED BY <1>1, <1>2

-----------------------------------------------------------------------------
(***************************************************************************)
(* Where blocks lie, merges included.                                      *)
(***************************************************************************)
InLoop ==
    /\ pc = "split" => goal <= block.level /\ 0 < asked.size /\ asked.size <= Size[goal]
    /\ pc = "coalesce" => InPool(block)
Region == TypeOK /\ InRegion /\ scratch <= Scratch /\ InLoop

\* What is listed, allocated or in hand are blocks.
LEMMA TheBlocks ==
    ASSUME TypeOK
    PROVE  /\ free \in Lists /\ taken \in SUBSET BlockSet /\ block \in BlockSet
           /\ Listed = {b \in BlockSet : b.addr \in Range(free[b.level])}
           /\ Blocks \in SUBSET BlockSet
<1>1. free \in Lists /\ taken \in SUBSET BlockSet /\ block \in BlockSet
  BY DEF TypeOK, Lists, BlockSet
<1>2. Listed = {b \in BlockSet : b.addr \in Range(free[b.level])}
  BY <1>1, OnLists DEF Listed
<1> QED BY <1>1, <1>2 DEF Blocks, InHand

\* InRegion, block by block.
LEMMA InRegionIs == InRegion <=> \A b \in Blocks : InPool(b)
BY DEF InRegion, InPool

\* What alloc makes of a request has a positive size.
LEMMA AskedIsPositive ==
    ASSUME NEW size \in Requests, NEW align \in Aligns
    PROVE  Asked(size, align) \in [size : Nat \ {0}, align : Nat \ {0}]
<1>1. size \in Nat \ {0} /\ align \in Nat /\ Size[0] \in Nat \ {0}
  BY RequestAssumption, LevelSizes
<1>2. (IF align = 0 THEN Size[0] ELSE align) \in Nat \ {0}
  BY <1>1
<1>3. AlignUp(size, IF align = 0 THEN Size[0] ELSE align) \in Nat
      /\ size <= AlignUp(size, IF align = 0 THEN Size[0] ELSE align)
  BY <1>1, <1>2, AlignUpGrows
<1> QED BY <1>1, <1>2, <1>3 DEF Asked

\* What FromBuddies does to the lists: one listed block leaves for the hand.
LEMMA FromBuddiesSteps ==
    ASSUME TypeOK, NEW ask \in [size : Nat \ {0}, align : Nat \ {0}], FromBuddies(ask)
    PROVE  /\ goal' \in Levels /\ Size[goal'] >= ask.size
           /\ free' \in Lists /\ block' \in Listed /\ block'.level \in Levels /\ goal' <= block'.level
           /\ On(free') \subseteq Listed
           /\ (\A m \in Levels : IsInjective(free[m])) =>
                 On(free') = Listed \ {block'} /\ \A m \in Levels : IsInjective(free'[m])
<1>1. goal' \in Levels /\ Size[goal'] >= ask.size
  <2>1. goal' = Smallest(Fitting(ask)) /\ Fitting(ask) # {}
    BY DEF FromBuddies
  <2>2. Fitting(ask) \in SUBSET Levels
    BY DEF Fitting
  <2>3. goal' \in Fitting(ask)
    BY <2>1, <2>2, SmallestIsIn
  <2> QED BY <2>3 DEF Fitting
<1> DEFINE candidates == {l \in Levels : l >= goal' /\ free[l] # <<>>}
           l == Smallest(candidates)
<1>2. candidates # {} /\ block' = Block(Head(free[l]), l) /\ free' = [free EXCEPT ![l] = Tail(@)]
  BY DEF FromBuddies
<1>3. l \in candidates
  BY <1>2, SmallestIsIn
<1>4. l \in Levels /\ l >= goal' /\ free[l] # <<>>
  BY <1>3
<1> HIDE DEF candidates, l
<1>5. block'.level = l
  BY <1>2 DEF Block
<1>6. free \in Lists
  BY TheBlocks
<1>7. /\ free' \in Lists /\ block' \in On(free) /\ On(free') \subseteq On(free)
      /\ (\A m \in Levels : IsInjective(free[m])) =>
            On(free') = On(free) \ {block'} /\ \A m \in Levels : IsInjective(free'[m])
  BY <1>2, <1>4, <1>6, ListTail
<1> QED BY <1>1, <1>4, <1>5, <1>7, LevelSizes DEF Listed

\* The block popped is in the region and large enough.
LEMMA FromBuddiesRegion ==
    ASSUME Region, NEW ask \in [size : Nat \ {0}, align : Nat \ {0}], pc = "ready", FromBuddies(ask)
    PROVE  Region'
<1>1. TypeOK /\ InRegion /\ scratch <= Scratch
  BY DEF Region
<1>2. /\ goal' \in Levels /\ Size[goal'] >= ask.size
      /\ free' \in Lists /\ block' \in Listed /\ block'.level \in Levels /\ goal' <= block'.level
      /\ On(free') \subseteq Listed
  BY <1>1, FromBuddiesSteps
<1>3. pc' = "split" /\ asked' = ask
      /\ UNCHANGED <<cursor, scratch, buddy, taken, granted, recognised, merged, allocs>>
  BY DEF FromBuddies, cursors
<1>4. Listed \in SUBSET BlockSet
  BY <1>1, TheBlocks
<1>5. TypeOK'
  BY <1>1, <1>2, <1>3, <1>4 DEF TypeOK, Lists, BlockSet
<1>6. Blocks' \subseteq Blocks
  BY <1>2, <1>3 DEF Blocks, InHand, Listed
<1>7. InRegion'
  BY <1>1, <1>6 DEF InRegion
<1>8. InLoop'
  <2>1. ask.size \in Nat \ {0}
    OBVIOUS
  <2>2. Size[goal'] \in Nat
    BY <1>2, LevelSizes
  <2> QED BY <1>2, <1>3, <2>1, <2>2 DEF InLoop
<1> QED BY <1>1, <1>3, <1>5, <1>7, <1>8 DEF Region

\* Halving a block of the pool gives two blocks of the pool.
LEMMA Halves ==
    ASSUME NEW b \in BlockSet, InPool(b), b.level # 0
    PROVE  LET l == b.level - 1 IN
           /\ l \in Levels /\ Size[l] \in Nat \ {0} /\ Size[b.level] = 2 * Size[l]
           /\ Block(b.addr, l) \in BlockSet /\ Block(b.addr + Size[l], l) \in BlockSet
           /\ InPool(Block(b.addr, l)) /\ InPool(Block(b.addr + Size[l], l))
<1> DEFINE l == b.level - 1
<1>1. b.addr \in Nat /\ b.level \in Levels
  BY DEF BlockSet
<1>2. l \in Levels /\ Size[l] \in Nat \ {0} /\ Size[b.level] = 2 * Size[l]
  BY <1>1, LevelSizes
<1> HIDE DEF l
<1>3. Scratch \in Nat /\ Pool \in Nat
  BY PoolAssumption
<1> QED BY <1>1, <1>2, <1>3 DEF Block, BlockSet, InPool, l

\* What Split does: the block in hand is halved and the upper half listed.
LEMMA SplitSteps ==
    ASSUME Region, Split
    PROVE  LET l == block.level - 1
               upper == Block(block.addr + Size[l], l) IN
           /\ block \in BlockSet /\ block \in Blocks /\ InPool(block) /\ block.level # 0
           /\ block' = Block(block.addr, l) /\ upper \in BlockSet
           /\ InPool(block') /\ InPool(upper)
           /\ free' \in Lists /\ Listed' = Listed \cup {upper}
           /\ InHand = {block} /\ InHand' = {block'} /\ taken' = taken
           /\ (\A m \in Levels : IsInjective(free[m])) /\ upper \notin Listed =>
                 \A m \in Levels : IsInjective(free'[m])
<1> DEFINE l == block.level - 1
           upper == Block(block.addr + Size[l], l)
<1>1. TypeOK /\ InRegion
  BY DEF Region
<1>2. block \in BlockSet /\ free \in Lists /\ InHand = {block} /\ block \in Blocks
  BY <1>1, TheBlocks DEF Split, InHand, Blocks
<1>3. InPool(block)
  BY <1>1, <1>2, InRegionIs
<1>4. block.level # 0
  <2>1. goal \in Levels /\ block.level > goal /\ block.level \in Levels
    BY <1>1, <1>2 DEF Split, TypeOK
  <2> QED BY <2>1, TopAssumption DEF Levels
<1>5. /\ l \in Levels /\ Size[l] \in Nat \ {0}
      /\ Block(block.addr, l) \in BlockSet /\ upper \in BlockSet
      /\ InPool(Block(block.addr, l)) /\ InPool(upper)
  BY <1>2, <1>3, <1>4, Halves
<1>6. block' = Block(block.addr, l) /\ pc' = pc /\ pc = "split" /\ taken' = taken
      /\ free' = [free EXCEPT ![l] = Append(@, block.addr + Size[l])]
  BY DEF Split
<1>7. block.addr + Size[l] \in Nat
  BY <1>5 DEF Block, BlockSet
<1> HIDE DEF l
<1>8. /\ free' \in Lists
      /\ On(free') = On(free) \cup {upper}
      /\ (\A m \in Levels : IsInjective(free[m])) /\ upper \notin On(free) =>
            \A m \in Levels : IsInjective(free'[m])
  BY <1>2, <1>5, <1>6, <1>7, ListAppend
<1> QED BY <1>2, <1>3, <1>4, <1>5, <1>6, <1>8 DEF Listed, InHand, l

\* Both halves are in the region.
LEMMA SplitRegion == Region /\ Split => Region'
<1> SUFFICES ASSUME Region, Split PROVE Region' OBVIOUS
<1> DEFINE l == block.level - 1
           upper == Block(block.addr + Size[l], l)
<1>1. TypeOK /\ InRegion /\ scratch <= Scratch /\ InLoop
  BY DEF Region
<1>2. /\ block' = Block(block.addr, l) /\ upper \in BlockSet
      /\ InPool(block') /\ InPool(upper)
      /\ free' \in Lists /\ Listed' = Listed \cup {upper}
      /\ InHand' = {block'} /\ taken' = taken /\ block \in BlockSet /\ block.level # 0
      /\ InPool(block)
  BY SplitSteps
<1>3. pc' = pc /\ pc = "split"
      /\ UNCHANGED <<goal, asked, cursor, scratch, buddy, granted, recognised, merged, allocs>>
  BY DEF Split, cursors
<1>4. block' \in BlockSet /\ block'.level = block.level - 1
  BY <1>2, Halves DEF Block
<1>5. TypeOK'
  BY <1>1, <1>2, <1>3, <1>4 DEF TypeOK, Lists, BlockSet
<1>6. InRegion'
  <2> HIDE DEF upper
  <2>1. \A b \in Blocks' : b \in Blocks \/ b = upper \/ b = block'
    BY <1>2 DEF Blocks
  <2>2. \A b \in Blocks : InPool(b)
    BY <1>1, InRegionIs
  <2>3. \A b \in Blocks' : InPool(b)
    BY <1>2, <2>1, <2>2
  <2> QED BY <2>3 DEF InRegion, InPool
<1>7. InLoop'
  <2>1. goal \in Levels /\ block.level \in Levels /\ block.level > goal
    BY <1>1 DEF Split, TypeOK
  <2>2. goal <= block.level - 1
    BY <2>1, TopAssumption DEF Levels
  <2> QED BY <1>1, <1>3, <1>4, <2>2 DEF InLoop
<1> QED BY <1>1, <1>3, <1>5, <1>6, <1>7 DEF Region

\* The block recorded allocated is the one in hand.
LEMMA TakeRegion == Region /\ Take => Region'
<1> SUFFICES ASSUME Region, Take PROVE Region' OBVIOUS
<1>1. TypeOK /\ InRegion /\ scratch <= Scratch
  BY DEF Region
<1>2. pc = "split" /\ pc' = "ready" /\ block' = Block(0, 0)
      /\ taken' = {b \in taken : b.addr # block.addr} \cup {block}
      /\ Grant(block.addr, asked)
      /\ UNCHANGED <<goal, asked, free, cursor, scratch, buddy, recognised, merged>>
  BY DEF Take, cursors
<1>3. block \in BlockSet /\ taken \in SUBSET BlockSet /\ block \in Blocks
  BY <1>1, <1>2, TheBlocks DEF Blocks, InHand
<1>4. TypeOK'
  <2>1. block' \in BlockSet
    BY <1>2, LevelSizes DEF Block, BlockSet
  <2>2. taken' \in SUBSET BlockSet
    BY <1>2, <1>3
  <2>3. granted' \subseteq Area /\ allocs' \in Nat
    BY <1>1, <1>2, <1>3 DEF Grant, TypeOK, Area, BlockSet
  <2> QED BY <1>1, <1>2, <2>1, <2>2, <2>3 DEF TypeOK, BlockSet, Area
<1>5. Blocks' \subseteq Blocks
  <2>1. Listed' = Listed /\ InHand' = {}
    BY <1>2 DEF Listed, InHand
  <2> QED BY <1>2, <1>3, <2>1 DEF Blocks
<1>6. InRegion'
  BY <1>1, <1>5 DEF InRegion
<1> QED BY <1>1, <1>2, <1>4, <1>6 DEF Region, InLoop

\* What Free does to the lists: the block goes on the list of its level.
LEMMA FreeSteps ==
    ASSUME TypeOK, NEW b \in taken, free' = [free EXCEPT ![b.level] = Append(@, b.addr)]
    PROVE  /\ b \in BlockSet /\ free' \in Lists /\ Listed' = Listed \cup {b}
           /\ (\A m \in Levels : IsInjective(free[m])) /\ b \notin Listed =>
                 \A m \in Levels : IsInjective(free'[m])
<1>1. free \in Lists /\ b \in BlockSet
  BY TheBlocks
<1>2. b.level \in Levels /\ b.addr \in Nat /\ b = Block(b.addr, b.level)
  BY <1>1 DEF Block, BlockSet
<1> DEFINE g == [free EXCEPT ![b.level] = Append(@, b.addr)]
<1>3. /\ g \in Lists /\ On(g) = On(free) \cup {b}
      /\ (\A m \in Levels : IsInjective(free[m])) /\ b \notin On(free) => \A m \in Levels : IsInjective(g[m])
  BY <1>1, <1>2, ListAppend
<1>4. free' = g OBVIOUS
<1> HIDE DEF g
<1> QED BY <1>1, <1>3, <1>4 DEF Listed

\* The block freed was allocated, so it is in the region.
LEMMA FreeRegion == ASSUME Region, NEW g \in granted, Free(g) PROVE Region'
<1>1. TypeOK /\ InRegion /\ scratch <= Scratch
  BY DEF Region
<1>2. pc = "ready" /\ granted' = granted \ {g} /\ recognised' \in BOOLEAN
      /\ UNCHANGED <<goal, asked, cursor, scratch, buddy, merged, allocs>>
  BY DEF Free, cursors
<1>3. CASE UNCHANGED <<pc, taken, block, free>>
  <2>1. TypeOK'
    BY <1>1, <1>2, <1>3 DEF TypeOK
  <2>2. Blocks' = Blocks
    BY <1>3 DEF Blocks, Listed, InHand
  <2>3. InRegion'
    BY <1>1, <2>2 DEF InRegion
  <2> QED BY <1>1, <1>2, <1>3, <2>1, <2>3 DEF Region, InLoop
<1>4. ASSUME NEW b \in taken, taken' = taken \ {b}, block' = b,
             free' = [free EXCEPT ![b.level] = Append(@, b.addr)],
             pc' = "coalesce"
      PROVE  Region'
  <2>1. b \in BlockSet /\ free' \in Lists /\ Listed' = Listed \cup {b}
    BY <1>1, <1>4, FreeSteps
  <2>2. TypeOK'
    BY <1>1, <1>2, <1>4, <2>1 DEF TypeOK, Lists, BlockSet
  <2>3. Blocks' \subseteq Blocks /\ b \in Blocks
    BY <1>4, <2>1 DEF Blocks, InHand
  <2>4. InRegion'
    BY <1>1, <2>3 DEF InRegion
  <2>5. InLoop'
    BY <1>1, <1>4, <2>3 DEF InRegion, InPool, InLoop
  <2> QED BY <1>1, <1>2, <2>2, <2>4, <2>5 DEF Region
<1> QED BY <1>3, <1>4 DEF Free

\* Removing an address from one list puts nothing on the lists.
LEMMA ListRemove ==
    ASSUME NEW f \in Lists, NEW l \in Levels, NEW a
    PROVE  LET g == [f EXCEPT ![l] = RemoveFirst(@, a)] IN g \in Lists /\ On(g) \subseteq On(f)
<1> DEFINE g == [f EXCEPT ![l] = RemoveFirst(@, a)]
<1>1. RemoveFirst(f[l], a) \in Seq(Nat) /\ Range(RemoveFirst(f[l], a)) \subseteq Range(f[l])
  BY Removed DEF Lists
<1>2. g \in Lists /\ \A m \in Levels : Range(g[m]) \subseteq Range(f[m])
  BY <1>1 DEF Lists
<1> HIDE DEF g
<1>3. \A b \in BlockSet : b.level \in Levels
  BY DEF BlockSet
<1>4. On(g) \subseteq On(f)
  BY <1>2, <1>3, OnLists
<1> QED BY <1>2, <1>4 DEF g

\* The lesser of two addresses.
LEMMA LesserOfTwo ==
    ASSUME NEW x \in Nat, NEW y \in Nat
    PROVE  Min({x, y}) = IF x <= y THEN x ELSE y
BY DEF Min

\* A block and its buddy, both in the pool, join to one of the pool.
LEMMA MergeSteps ==
    ASSUME Region, Merge
    PROVE  LET both == Block(Min({block.addr, BuddyOf(block).addr}), block.level + 1) IN
           /\ block' = both /\ both \in BlockSet /\ InPool(both)
           /\ free' \in Lists /\ Listed' \subseteq Listed \cup {both}
<1> DEFINE other == BuddyOf(block)
           l == block.level
           both == Block(Min({block.addr, other.addr}), l + 1)
<1>1. TypeOK /\ InRegion /\ InLoop
  BY DEF Region
<1>2. free \in Lists /\ block \in BlockSet /\ Blocks \in SUBSET BlockSet
      /\ Listed = {b \in BlockSet : b.addr \in Range(free[b.level])}
  BY <1>1, TheBlocks
<1>3. pc = "coalesce" /\ other.addr \in Range(free[l]) /\ block' = both
      /\ free' = [free EXCEPT ![l] = RemoveFirst(@, other.addr), ![both.level] = Append(@, both.addr)]
  BY DEF Merge, BuddyIsFree
<1>4. InPool(block) /\ block.addr \in Nat /\ l \in Levels
  BY <1>1, <1>2, <1>3 DEF InLoop, BlockSet
<1>5. other.level = l /\ (other.addr = block.addr + Size[l] \/ other.addr = block.addr - Size[l])
  BY DEF BuddyOf, Block
<1>6. other.addr \in Nat
  <2>1. free[l] \in Seq(Nat)
    BY <1>2, <1>4 DEF Lists
  <2> QED BY <1>3, <2>1 DEF Range
<1>7. other \in Listed
  <2>1. other = Block(other.addr, l)
    BY DEF BuddyOf, Block
  <2>2. other \in BlockSet
    BY <1>4, <1>6, <2>1 DEF Block, BlockSet
  <2> QED BY <1>2, <1>3, <1>5, <2>2
<1>8. InPool(other)
  BY <1>1, <1>7, InRegionIs DEF Blocks
<1> HIDE DEF other
<1> DEFINE low == Min({block.addr, other.addr})
<1>9. low = IF block.addr <= other.addr THEN block.addr ELSE other.addr
  BY <1>4, <1>6, LesserOfTwo
<1> HIDE DEF low
<1>10. low \in Nat /\ Scratch <= low /\ low + 2 * Size[l] <= Pool
  <2>1. Size[l] \in Nat \ {0} /\ Scratch \in Nat /\ Pool \in Nat
    <3>1. Size[l] \in Nat \ {0}
      BY <1>4, LevelSizes
    <3>2. Scratch \in Nat /\ Pool \in Nat
      BY PoolAssumption
    <3> QED BY <3>1, <3>2
  <2>2. Scratch <= block.addr /\ block.addr + Size[l] <= Pool
    BY <1>4 DEF InPool
  <2>3. Scratch <= other.addr /\ other.addr + Size[l] <= Pool
    BY <1>5, <1>8 DEF InPool
  <2> QED BY <1>4, <1>5, <1>6, <1>9, <2>1, <2>2, <2>3
<1>11. l # Top
  BY <1>10, PoolAssumption, LevelSizes
<1>12. l + 1 \in Levels /\ Size[l + 1] = 2 * Size[l] /\ l + 1 # l
  <2>1. l \in Nat
    BY <1>4, LevelSizes
  <2> QED BY <1>4, <1>11, <2>1, LevelSizes
<1>13. both \in BlockSet /\ InPool(both) /\ both.addr = low /\ both.level = l + 1
  BY <1>10, <1>12 DEF Block, BlockSet, InPool, low
<1> DEFINE fewer == [free EXCEPT ![l] = RemoveFirst(@, other.addr)]
<1> HIDE DEF both
<1>14. fewer \in Lists /\ On(fewer) \subseteq On(free)
  BY <1>2, <1>4, ListRemove
<1>15. free' = [fewer EXCEPT ![l + 1] = Append(@, low)]
  <2>1. free = [m \in Levels |-> free[m]]
    BY <1>2 DEF Lists
  <2>2. both.level = l + 1 /\ both.addr = low /\ l \in Levels /\ l + 1 \in Levels /\ l + 1 # l
    BY <1>4, <1>12, <1>13
  <2>3. free' = [m \in Levels |-> IF m = l + 1 THEN Append(free[m], low)
                                  ELSE IF m = l THEN RemoveFirst(free[m], other.addr) ELSE free[m]]
    BY <1>3, <2>1, <2>2
  <2>4. [fewer EXCEPT ![l + 1] = Append(@, low)]
          = [m \in Levels |-> IF m = l + 1 THEN Append(free[m], low)
                              ELSE IF m = l THEN RemoveFirst(free[m], other.addr) ELSE free[m]]
    BY <2>1, <2>2
  <2> QED BY <2>3, <2>4
<1> HIDE DEF fewer
<1>16. free' \in Lists /\ On(free') = On(fewer) \cup {Block(low, l + 1)}
  BY <1>10, <1>12, <1>14, <1>15, ListAppend
<1>17. both = Block(low, l + 1)
  BY DEF both, low
<1> QED BY <1>3, <1>13, <1>14, <1>16, <1>17 DEF Listed, other, both

\* The merged block is in the region, since its buddy was listed there.
LEMMA MergeRegion == Region /\ Merge => Region'
<1> SUFFICES ASSUME Region, Merge PROVE Region' OBVIOUS
<1> DEFINE both == Block(Min({block.addr, BuddyOf(block).addr}), block.level + 1)
<1>1. TypeOK /\ InRegion /\ scratch <= Scratch
  BY DEF Region
<1>2. /\ block' = both /\ both \in BlockSet /\ InPool(both)
      /\ free' \in Lists /\ Listed' \subseteq Listed \cup {both}
  BY MergeSteps
<1> HIDE DEF both
<1>3. pc = "coalesce" /\ pc' = pc /\ merged' = TRUE
      /\ UNCHANGED <<goal, asked, taken, cursor, scratch, buddy, granted, recognised, allocs>>
  BY DEF Merge, cursors
<1>4. TypeOK'
  BY <1>1, <1>2, <1>3 DEF TypeOK, Lists, BlockSet
<1>5. InRegion'
  <2>1. \A b \in Blocks' : b \in Blocks \/ b = both
    BY <1>2, <1>3 DEF Blocks, InHand
  <2>2. \A b \in Blocks' : InPool(b)
    BY <1>1, <1>2, <2>1, InRegionIs
  <2> QED BY <2>2 DEF InRegion, InPool
<1>6. InLoop'
  BY <1>2, <1>3 DEF InLoop, InPool
<1> QED BY <1>1, <1>3, <1>4, <1>5, <1>6 DEF Region

\* What is listed, allocated and in hand right after the lists are seeded.
LEMMA SeedRegion ==
    ASSUME buddy' \in BOOLEAN, free' = SeededLists(buddy'), taken' = {}, pc' = "ready"
    PROVE  /\ free' \in Lists /\ InHand' = {}
           /\ Listed' = IF buddy' THEN InitBuddy ELSE {}
           /\ Blocks' = IF buddy' THEN InitBuddy ELSE {}
           /\ \A l \in Levels : IsInjective(free'[l])
<1>1. /\ free' \in Lists /\ \A l \in Levels : IsInjective(free'[l])
      /\ On(free') = IF buddy' THEN InitBuddy ELSE {}
  BY SeedsListed
<1> QED BY <1>1 DEF Listed, InHand, Blocks

\* Reset starts from the seeds.
LEMMA ResetRegion == Region /\ Reset => Region'
<1> SUFFICES ASSUME Region, Reset PROVE Region' OBVIOUS
<1>1. TypeOK
  BY DEF Region
<1>2. /\ free' = SeededLists(buddy) /\ taken' = {} /\ cursor' = Scratch /\ scratch' = 0
      /\ granted' = {} /\ merged' = FALSE /\ pc = "ready"
      /\ UNCHANGED <<pc, block, goal, asked, buddy, recognised, allocs>>
  BY DEF Reset, loopvars
<1>3. free' \in Lists /\ Blocks' = IF buddy' THEN InitBuddy ELSE {}
  BY <1>1, <1>2, SeedRegion DEF TypeOK
<1>4. Scratch \in Nat
  BY PoolAssumption
<1>5. TypeOK'
  BY <1>1, <1>2, <1>3, <1>4 DEF TypeOK, Lists
<1>6. InRegion'
  BY <1>3, Seeds DEF InRegion, InPool
<1> QED BY <1>2, <1>4, <1>5, <1>6 DEF Region, InLoop

\* So does the constructor.
LEMMA InitRegion == Init => Region
<1> SUFFICES ASSUME Init PROVE Region OBVIOUS
<1>1. /\ buddy \in BOOLEAN /\ pc = "ready" /\ block = Block(0, 0) /\ goal = 0
      /\ asked = [size |-> 0, align |-> 1] /\ free = SeededLists(buddy) /\ taken = {}
      /\ cursor = Scratch /\ scratch = 0 /\ granted = {} /\ recognised = TRUE
      /\ merged = FALSE /\ allocs = 0
  BY DEF Init
<1>2. free \in Lists /\ On(free) = IF buddy THEN InitBuddy ELSE {}
  BY <1>1, SeedsListed
<1>3. Scratch \in Nat /\ 0 \in Levels
  BY PoolAssumption, LevelSizes
<1>4. TypeOK
  BY <1>1, <1>2, <1>3 DEF TypeOK, Lists, Block
<1>5. InRegion
  BY <1>1, <1>2, Seeds DEF InRegion, InPool, Blocks, Listed, InHand
<1> QED BY <1>1, <1>3, <1>4, <1>5 DEF Region, InLoop

\* A grant by a bump pointer touches no block.
LEMMA GrantRegion ==
    ASSUME Region, pc = "ready", NEW where \in Nat, NEW ask \in [size : Nat \ {0}, align : Nat \ {0}],
           Grant(where, ask), cursor' \in Nat, scratch' \in Nat, scratch' <= Scratch,
           UNCHANGED <<loopvars, free, taken, buddy, recognised, merged>>
    PROVE  Region'
<1>1. TypeOK /\ InRegion
  BY DEF Region
<1>2. UNCHANGED <<pc, block, goal, asked>>
  BY DEF loopvars
<1>3. TypeOK'
  <2>1. granted' \subseteq Area /\ allocs' \in Nat
    BY <1>1 DEF Grant, TypeOK, Area
  <2> QED BY <1>1, <1>2, <2>1 DEF TypeOK, Area
<1>4. Blocks' = Blocks
  BY <1>2 DEF Blocks, Listed, InHand
<1>5. InRegion'
  BY <1>1, <1>4 DEF InRegion
<1> QED BY <1>2, <1>3, <1>5 DEF Region, InLoop

\* Every step keeps the blocks in the region.
LEMMA RegionNext == Region /\ [Next]_vars => Region'
<1> SUFFICES ASSUME Region, [Next]_vars PROVE Region' OBVIOUS
<1>1. TypeOK /\ InRegion /\ scratch <= Scratch /\ InLoop
  BY DEF Region
<1>2. CASE Alloc
  <2>1. PICK size \in Requests, align \in Aligns :
           \/ FromScratchpad(Asked(size, align))
           \/ FromCursor(Asked(size, align))
           \/ FromBuddies(Asked(size, align))
    BY <1>2 DEF Alloc
  <2> DEFINE ask == Asked(size, align)
  <2>2. ask \in [size : Nat \ {0}, align : Nat \ {0}] /\ pc = "ready"
    BY <1>2, AskedIsPositive DEF Alloc
  <2> HIDE DEF ask
  <2>3. cursor \in Nat /\ scratch \in Nat /\ Scratch \in Nat
    BY <1>1, PoolAssumption DEF TypeOK
  <2>4. CASE FromScratchpad(ask)
    <3>1. AlignUp(scratch, ask.align) \in Nat
      BY <2>2, <2>3, AlignUpGrows
    <3> QED BY <1>1, <2>2, <2>3, <2>4, <3>1, GrantRegion DEF FromScratchpad
  <2>5. CASE FromCursor(ask)
    <3>1. AlignUp(cursor, ask.align) \in Nat
      BY <2>2, <2>3, AlignUpGrows
    <3> QED BY <1>1, <2>2, <2>3, <2>5, <3>1, GrantRegion DEF FromCursor
  <2>6. CASE FromBuddies(ask)
    BY <2>2, <2>6, FromBuddiesRegion
  <2> QED BY <2>1, <2>4, <2>5, <2>6 DEF ask
<1>3. CASE Split BY <1>3, SplitRegion
<1>4. CASE Take BY <1>4, TakeRegion
<1>5. CASE \E g \in granted : Free(g) BY <1>5, FreeRegion
<1>6. CASE Merge BY <1>6, MergeRegion
<1>7. CASE Settle
  <2>1. pc = "coalesce" /\ pc' = "ready" /\ block' = Block(0, 0)
        /\ UNCHANGED <<goal, asked, free, taken, cursor, scratch, buddy, granted, recognised, merged, allocs>>
    BY <1>7 DEF Settle, cursors
  <2>2. TypeOK'
    BY <1>1, <2>1, LevelSizes DEF TypeOK, Block
  <2>3. Blocks' = Blocks
    BY <2>1 DEF Blocks, Listed, InHand
  <2>4. InRegion'
    BY <1>1, <2>3 DEF InRegion
  <2> QED BY <1>1, <2>1, <2>2, <2>4 DEF Region, InLoop
<1>8. CASE Reset BY <1>8, ResetRegion
<1>9. CASE UNCHANGED vars
  <2>1. UNCHANGED <<pc, block, goal, asked, free, taken, cursor, scratch, buddy, granted, recognised, merged, allocs>>
    BY <1>9 DEF vars, loopvars, cursors
  <2>2. TypeOK' /\ InRegion'
    BY <1>1, <2>1 DEF TypeOK, InRegion, Blocks, Listed, InHand
  <2> QED BY <1>1, <2>1, <2>2 DEF Region, InLoop, InPool
<1> QED BY <1>2, <1>3, <1>4, <1>5, <1>6, <1>7, <1>8, <1>9 DEF Next

\* All blocks the buddy system ever lists, splits or merges lie in the general
\* region, although _buddy_free_block computes a buddy from the absolute address.
THEOREM BlocksInRegion == Spec => [](TypeOK /\ InRegion)
<1>1. Region => TypeOK /\ InRegion
  BY DEF Region
<1> QED BY <1>1, InitRegion, RegionNext, PTL DEF Spec

-----------------------------------------------------------------------------
(***************************************************************************)
(* Until two blocks are merged: the blocks are disjoint, cover what was    *)
(* seeded, and each grant has its block or its part of the scratchpad.     *)
(***************************************************************************)
Disjoint ==
    /\ AllApart(Blocks)
    /\ \A l \in Levels : IsInjective(free[l])
    /\ Listed \cap taken = {} /\ InHand \cap (Listed \cup taken) = {}
Whole == \A x \in 0 .. Pool-1 : Covered(x, Blocks) <=> Covered(x, InitBuddy)

HeldBy(g, b) == b.addr = g.addr /\ g.size <= Size[b.level]
Lies(g) ==
    \/ g.addr + g.size <= scratch
    \/ Scratch <= g.addr /\ \E b \in taken : HeldBy(g, b)
Held ==
    /\ granted \subseteq Area
    /\ \A g \in granted : g.id < allocs /\ g.size > 0 /\ Lies(g)
    /\ \A g, h \in granted : g # h => Apart(g.addr, g.size, h.addr, h.size)
Sound == Disjoint /\ Whole /\ Held
BuddyInv == buddy /\ Region /\ (~merged => Sound)

\* A step that only moves a block between the lists, the record and the hand.
LEMMA SameBlocks ==
    ASSUME Blocks' = Blocks, AllApart(Blocks), Whole
    PROVE  AllApart(Blocks)' /\ Whole'
<1>1. AllApart(Blocks)'
  BY DEF AllApart, Apart
<1>2. Whole'
  BY DEF Whole, Covered, InitBuddy, Below
<1> QED BY <1>1, <1>2

\* FromBuddies moves one block from its list to the hand.
LEMMA FromBuddiesSound ==
    ASSUME Region, Sound, NEW ask \in [size : Nat \ {0}, align : Nat \ {0}], pc = "ready",
           FromBuddies(ask)
    PROVE  Sound'
<1>1. TypeOK /\ Disjoint /\ Whole /\ Held
  BY DEF Region, Sound
<1>2. /\ block' \in Listed /\ On(free') = Listed \ {block'}
      /\ \A m \in Levels : IsInjective(free'[m])
  BY <1>1, FromBuddiesSteps DEF Disjoint
<1>3. pc' = "split" /\ UNCHANGED <<scratch, taken, granted, allocs>>
  BY DEF FromBuddies, cursors
<1>4. Listed' = Listed \ {block'} /\ InHand = {} /\ InHand' = {block'}
  BY <1>2, <1>3 DEF Listed, InHand
<1>5. Blocks' = Blocks
  BY <1>2, <1>3, <1>4 DEF Blocks
<1>6. AllApart(Blocks)' /\ Whole'
  BY <1>1, <1>5, SameBlocks DEF Disjoint
<1>7. Disjoint'
  BY <1>1, <1>2, <1>3, <1>4, <1>6 DEF Disjoint
<1>8. Held'
  BY <1>1, <1>3 DEF Held, Lies
<1> QED BY <1>6, <1>7, <1>8 DEF Sound

\* The halves of a block take its place among disjoint blocks.
LEMMA SplitSound == Region /\ Sound /\ Split => Sound'
<1> SUFFICES ASSUME Region, Sound, Split PROVE Sound' OBVIOUS
<1> DEFINE l == block.level - 1
           upper == Block(block.addr + Size[l], l)
<1>1. TypeOK /\ Disjoint /\ Whole /\ Held
  BY DEF Region, Sound
<1>2. /\ block \in BlockSet /\ block \in Blocks /\ InPool(block) /\ block.level # 0
      /\ block' = Block(block.addr, l) /\ upper \in BlockSet
      /\ free' \in Lists /\ Listed' = Listed \cup {upper}
      /\ InHand = {block} /\ InHand' = {block'} /\ taken' = taken
      /\ (\A m \in Levels : IsInjective(free[m])) /\ upper \notin Listed =>
            \A m \in Levels : IsInjective(free'[m])
  BY SplitSteps
<1>3. l \in Levels /\ Size[l] \in Nat \ {0} /\ Size[block.level] = 2 * Size[l]
      /\ block' \in BlockSet
  BY <1>2, Halves
<1>4. /\ block'.addr = block.addr /\ block'.level = l
      /\ upper.addr = block.addr + Size[l] /\ upper.level = l
  BY <1>2 DEF Block
<1> HIDE DEF l, upper
<1>5. Blocks \in SUBSET BlockSet /\ block.addr \in Nat
  BY <1>1, <1>2, TheBlocks DEF BlockSet
<1>6. \A b \in Blocks : b.addr \in Nat /\ Size[b.level] \in Nat \ {0}
  <2>1. \A b \in BlockSet : b.addr \in Nat /\ b.level \in Levels
    BY DEF BlockSet
  <2> QED BY <1>5, <2>1, LevelSizes
<1>7. \A b \in Blocks : b # block =>
          /\ Apart(b.addr, Size[b.level], block.addr, Size[block.level])
          /\ b.addr # block'.addr /\ b.addr # upper.addr
  <2>1. \A b \in Blocks : b # block => Apart(b.addr, Size[b.level], block.addr, Size[block.level])
    BY <1>1, <1>2 DEF Disjoint, AllApart
  <2> QED BY <1>3, <1>4, <1>5, <1>6, <2>1 DEF Apart
<1>8. upper # block /\ upper # block' /\ block' # block
  <2>1. Size[l] # Size[block.level] /\ upper.addr # block.addr
    BY <1>3, <1>4, <1>5
  <2> QED BY <1>4, <2>1
<1>9. upper \notin Blocks /\ block' \notin Blocks
  BY <1>7, <1>8
<1>10. Blocks' = (Blocks \ {block}) \cup {block', upper}
  <2>1. block \notin Listed /\ block \notin taken
    BY <1>1, <1>2 DEF Disjoint
  <2> QED BY <1>2, <2>1 DEF Blocks
<1>11. AllApart(Blocks)'
  <2> DEFINE rest == Blocks \ {block}
  <2>1. \A b \in rest : /\ Apart(b.addr, Size[b.level], block'.addr, Size[block'.level])
                        /\ Apart(block'.addr, Size[block'.level], b.addr, Size[b.level])
                        /\ Apart(b.addr, Size[b.level], upper.addr, Size[upper.level])
                        /\ Apart(upper.addr, Size[upper.level], b.addr, Size[b.level])
    BY <1>3, <1>4, <1>5, <1>6, <1>7 DEF Apart
  <2>2. /\ Apart(upper.addr, Size[upper.level], block'.addr, Size[block'.level])
        /\ Apart(block'.addr, Size[block'.level], upper.addr, Size[upper.level])
    BY <1>3, <1>4, <1>5 DEF Apart
  <2>3. \A b, c \in rest : b # c => Apart(b.addr, Size[b.level], c.addr, Size[c.level])
    BY <1>1 DEF Disjoint, AllApart
  <2> HIDE DEF rest
  <2>4. \A b, c \in rest \cup {block', upper} :
           b # c => Apart(b.addr, Size[b.level], c.addr, Size[c.level])
    BY <2>1, <2>2, <2>3
  <2>5. \A b, c \in Blocks' : b # c => Apart(b.addr, Size[b.level], c.addr, Size[c.level])
    BY <1>10, <2>4 DEF rest
  <2> QED BY <2>5 DEF AllApart, Apart
<1>12. Disjoint'
  <2>1. Listed' \cap taken' = {}
    BY <1>1, <1>2, <1>9 DEF Disjoint, Blocks
  <2>2. InHand' \cap (Listed' \cup taken') = {}
    BY <1>2, <1>8, <1>9 DEF Blocks
  <2>3. \A m \in Levels : IsInjective(free'[m])
    BY <1>1, <1>2, <1>9 DEF Disjoint, Blocks
  <2> QED BY <1>11, <2>1, <2>2, <2>3 DEF Disjoint
<1>13. Whole'
  <2>1. ASSUME NEW x \in 0 .. Pool-1 PROVE Covered(x, Blocks') <=> Covered(x, Blocks)
    <3>1. x \in Int
      OBVIOUS
    <3> DEFINE In(b) == b.addr <= x /\ x < b.addr + Size[b.level]
    <3>2. In(block) <=> In(block') \/ In(upper)
      BY <1>3, <1>4, <1>5, <3>1
    <3> HIDE DEF In
    <3>3. (\E b \in Blocks' : In(b)) <=> (\E b \in Blocks : In(b))
      BY <1>2, <1>10, <3>2
    <3> QED BY <3>3 DEF Covered, In
  <2>2. \A x \in 0 .. Pool-1 : Covered(x, Blocks') <=> Covered(x, InitBuddy)
    BY <1>1, <2>1 DEF Whole
  <2> QED BY <2>2 DEF Whole, Covered, InitBuddy, Below
<1>14. Held'
  <2>1. UNCHANGED <<scratch, taken, granted, allocs>>
    BY DEF Split, cursors
  <2> QED BY <1>1, <2>1 DEF Held, Lies
<1> QED BY <1>12, <1>13, <1>14 DEF Sound

\* An area of its own joins what callers hold.
LEMMA GrantHeld ==
    ASSUME Held, allocs \in Nat,
           NEW where \in Nat, NEW ask \in [size : Nat \ {0}, align : Nat], Grant(where, ask),
           \A g \in granted : Apart(g.addr, g.size, where, ask.size) /\ Lies(g)',
           \/ where + ask.size <= scratch'
           \/ Scratch <= where /\ \E b \in taken' : b.addr = where /\ ask.size <= Size[b.level]
    PROVE  Held'
<1>1. PICK new \in Area :
         /\ granted' = granted \cup {new} /\ allocs' = allocs + 1
         /\ new.id = allocs /\ new.addr = where /\ new.size = ask.size /\ new.size > 0
  <2>1. [id |-> allocs, addr |-> where, size |-> ask.size, align |-> ask.align] \in Area
    BY DEF Area
  <2> QED BY <2>1 DEF Grant
<1>2. Lies(new)'
  BY <1>1 DEF Lies, HeldBy
<1>3. granted \subseteq Area /\ \A g \in granted : g.id \in Nat /\ g.id < allocs /\ g.size > 0
  BY DEF Held, Area
<1>4. \A g \in granted' : g.id < allocs' /\ g.size > 0
  BY <1>1, <1>3
<1>5. \A g \in granted' : Lies(g)'
  BY <1>1, <1>2
<1>6. \A g \in granted : Apart(g.addr, g.size, new.addr, new.size)
                          /\ Apart(new.addr, new.size, g.addr, g.size)
  BY <1>1, <1>3 DEF Apart, Area
<1>7. \A g, h \in granted' : g # h => Apart(g.addr, g.size, h.addr, h.size)
  BY <1>1, <1>6 DEF Held
<1> QED BY <1>1, <1>3, <1>4, <1>5, <1>7 DEF Held

\* An area of the scratchpad is above those granted before.
LEMMA ScratchpadSound ==
    ASSUME Region, Sound, NEW ask \in [size : Nat \ {0}, align : Nat \ {0}], FromScratchpad(ask)
    PROVE  Sound'
<1> DEFINE where == AlignUp(scratch, ask.align)
<1>1. TypeOK /\ Disjoint /\ Whole /\ Held /\ scratch \in Nat /\ allocs \in Nat /\ Scratch \in Nat
      /\ scratch <= Scratch
  BY PoolAssumption DEF Region, Sound, TypeOK
<1>2. where \in Nat /\ scratch <= where
  BY <1>1, AlignUpGrows
<1> HIDE DEF where
<1>3. /\ where + ask.size <= Scratch /\ scratch' = where + ask.size /\ Grant(where, ask)
      /\ UNCHANGED <<pc, block, free, taken>>
  BY DEF FromScratchpad, where, loopvars
<1>4. Blocks' = Blocks /\ Listed' = Listed /\ InHand' = InHand
  BY <1>3 DEF Blocks, Listed, InHand
<1>5. AllApart(Blocks)' /\ Whole'
  BY <1>1, <1>4, SameBlocks DEF Disjoint
<1>6. Disjoint'
  BY <1>1, <1>3, <1>4, <1>5 DEF Disjoint
<1>7. Held'
  <2>1. scratch <= scratch' /\ scratch' \in Nat
    BY <1>1, <1>2, <1>3
  <2>2. \A g \in granted : g \in Area /\ Lies(g)
    BY <1>1 DEF Held
  <2>3. \A g \in granted : Lies(g)'
    BY <1>1, <1>3, <2>1, <2>2 DEF Lies, Area
  <2>4. \A g \in granted : Apart(g.addr, g.size, where, ask.size)
    BY <1>1, <1>2, <1>3, <2>2 DEF Lies, Area, Apart
  <2> QED BY <1>1, <1>2, <1>3, <2>3, <2>4, GrantHeld
<1> QED BY <1>5, <1>6, <1>7 DEF Sound

\* The block in hand has an address of its own, so recording it replaces none.
LEMMA TakeSound == Region /\ Sound /\ Take => Sound'
<1> SUFFICES ASSUME Region, Sound, Take PROVE Sound' OBVIOUS
<1>1. TypeOK /\ InRegion /\ InLoop /\ Disjoint /\ Whole /\ Held /\ scratch <= Scratch
  BY DEF Region, Sound
<1>2. pc = "split" /\ pc' = "ready" /\ block' = Block(0, 0) /\ block.level = goal
      /\ taken' = {b \in taken : b.addr # block.addr} \cup {block}
      /\ Grant(block.addr, asked)
      /\ UNCHANGED <<free, scratch>>
  BY DEF Take, cursors
<1>3. /\ block \in BlockSet /\ taken \in SUBSET BlockSet /\ InHand = {block} /\ block \in Blocks
      /\ Blocks \in SUBSET BlockSet
  BY <1>1, <1>2, TheBlocks DEF Blocks, InHand
<1>4. \A b \in BlockSet : b.addr \in Nat /\ b.level \in Levels /\ Size[b.level] \in Nat \ {0}
  BY LevelSizes DEF BlockSet
<1>5. \A b \in taken : b # block /\ Apart(b.addr, Size[b.level], block.addr, Size[block.level])
  BY <1>1, <1>3 DEF Disjoint, AllApart, Blocks
<1>6. \A b \in taken : b.addr # block.addr
  BY <1>3, <1>4, <1>5 DEF Apart
<1>7. taken' = taken \cup {block}
  BY <1>2, <1>6
<1>8. Listed' = Listed /\ InHand' = {} /\ Blocks' = Blocks
  BY <1>2, <1>3, <1>7 DEF Listed, InHand, Blocks
<1>9. AllApart(Blocks)' /\ Whole'
  BY <1>1, <1>8, SameBlocks DEF Disjoint
<1>10. Disjoint'
  BY <1>1, <1>2, <1>3, <1>7, <1>8, <1>9 DEF Disjoint
<1>11. Held'
  <2>1. block.addr \in Nat /\ Size[block.level] \in Nat /\ allocs \in Nat /\ scratch \in Nat
    BY <1>1, <1>3, <1>4 DEF TypeOK
  <2>2. asked \in [size : Nat \ {0}, align : Nat] /\ asked.size <= Size[block.level]
    BY <1>1, <1>2 DEF InLoop, TypeOK
  <2>3. Scratch <= block.addr
    BY <1>1, <1>3 DEF InRegion
  <2>4. \A g \in granted : g \in Area /\ Lies(g)
    BY <1>1 DEF Held
  <2>5. \A g \in granted : Lies(g)'
    BY <1>2, <1>7, <2>4 DEF Lies, HeldBy
  <2>6. ASSUME NEW g \in granted PROVE Apart(g.addr, g.size, block.addr, asked.size)
    <3>1. g.addr \in Nat /\ g.size \in Nat
      BY <2>4 DEF Area
    <3>2. CASE g.addr + g.size <= scratch
      BY <1>1, <2>1, <2>3, <3>1, <3>2, PoolAssumption DEF Apart
    <3>3. CASE \E b \in taken : HeldBy(g, b)
      <4>1. PICK b \in taken : b.addr = g.addr /\ g.size <= Size[b.level]
        BY <3>3 DEF HeldBy
      <4>2. Apart(b.addr, Size[b.level], block.addr, Size[block.level])
            /\ Size[b.level] \in Nat
        BY <1>3, <1>4, <1>5
      <4> QED BY <2>1, <2>2, <3>1, <4>1, <4>2 DEF Apart
    <3> QED BY <2>4, <3>2, <3>3 DEF Lies
  <2>7. block \in taken' /\ asked.size <= Size[block.level]
    BY <1>7, <2>2
  <2> QED BY <1>1, <1>2, <2>1, <2>2, <2>3, <2>5, <2>6, <2>7, GrantHeld
<1> QED BY <1>9, <1>10, <1>11 DEF Sound

\* A block is given back by the only caller it was taken for.
LEMMA FreeSound ==
    ASSUME Region, Sound, NEW g \in granted, Free(g) PROVE Sound'
<1>1. TypeOK /\ Disjoint /\ Whole /\ Held
  BY DEF Region, Sound
<1>2. pc = "ready" /\ granted' = granted \ {g} /\ UNCHANGED <<scratch, allocs>>
  BY DEF Free, cursors
<1>3. \A h \in granted : h \in Area /\ h.size > 0 /\ Lies(h)
  BY <1>1 DEF Held
<1>4. CASE UNCHANGED <<pc, taken, block, free>>
  <2>1. Blocks' = Blocks /\ Listed' = Listed /\ InHand' = InHand
    BY <1>4 DEF Blocks, Listed, InHand
  <2>2. AllApart(Blocks)' /\ Whole'
    BY <1>1, <2>1, SameBlocks DEF Disjoint
  <2>3. Disjoint'
    BY <1>1, <1>4, <2>1, <2>2 DEF Disjoint
  <2>4. Held'
    BY <1>1, <1>2, <1>4 DEF Held, Lies
  <2> QED BY <2>2, <2>3, <2>4 DEF Sound
<1>5. ASSUME NEW b \in taken, b.addr = g.addr, taken' = taken \ {b}, block' = b,
             free' = [free EXCEPT ![b.level] = Append(@, b.addr)],
             pc' = "coalesce"
      PROVE  Sound'
  <2>1. /\ b \in BlockSet /\ Listed' = Listed \cup {b}
        /\ (\A m \in Levels : IsInjective(free[m])) /\ b \notin Listed =>
              \A m \in Levels : IsInjective(free'[m])
    BY <1>1, <1>5, FreeSteps
  <2>2. InHand = {} /\ InHand' = {}
    BY <1>2, <1>5 DEF InHand
  <2>3. b \notin Listed
    BY <1>1 DEF Disjoint
  <2>4. Blocks' = Blocks
    BY <1>5, <2>1, <2>2 DEF Blocks
  <2>5. AllApart(Blocks)' /\ Whole'
    BY <1>1, <2>4, SameBlocks DEF Disjoint
  <2>6. Listed' \cap taken' = {}
    BY <1>1, <1>5, <2>1 DEF Disjoint
  <2>7. Disjoint'
    BY <1>1, <2>1, <2>2, <2>3, <2>5, <2>6 DEF Disjoint
  <2>8. ASSUME NEW h \in granted' PROVE Lies(h)'
    <3>1. h \in granted /\ h # g
      BY <1>2
    <3>2. h.addr # g.addr
      <4>1. Apart(g.addr, g.size, h.addr, h.size)
        BY <1>1, <3>1 DEF Held
      <4>2. g.addr \in Nat /\ h.addr \in Nat /\ g.size \in Nat /\ h.size \in Nat /\ g.size > 0 /\ h.size > 0
        BY <1>3, <3>1 DEF Area
      <4> QED BY <4>1, <4>2 DEF Apart
    <3>3. \A c \in taken : HeldBy(h, c) => c \in taken'
      BY <1>5, <3>2 DEF HeldBy
    <3> QED BY <1>2, <1>3, <3>1, <3>3 DEF Lies, HeldBy
  <2>9. Held'
    BY <1>1, <1>2, <2>8 DEF Held
  <2> QED BY <2>5, <2>7, <2>9 DEF Sound
<1> QED BY <1>4, <1>5 DEF Free

\* The seeds are disjoint and are what has to be covered.
LEMMA SeedsSound ==
    ASSUME buddy' = TRUE, free' = SeededLists(buddy'), taken' = {}, pc' = "ready", granted' = {}
    PROVE  Sound'
<1>1. /\ Listed' = InitBuddy /\ InHand' = {} /\ Blocks' = InitBuddy
      /\ \A l \in Levels : IsInjective(free'[l])
  BY SeedRegion
<1>2. AllApart(Blocks)'
  BY <1>1, Seeds DEF AllApart, Apart
<1>3. Whole'
  BY <1>1 DEF Whole, Covered, InitBuddy, Below
<1>4. Disjoint'
  BY <1>1, <1>2 DEF Disjoint
<1>5. Held'
  BY DEF Held
<1> QED BY <1>3, <1>4, <1>5 DEF Sound

\* At construction the blocks are the seeds.
LEMMA InitSound == Init /\ buddy => Sound
<1> SUFFICES ASSUME Init, buddy PROVE Sound OBVIOUS
<1>1. pc = "ready" /\ free = SeededLists(buddy) /\ taken = {} /\ granted = {} /\ buddy = TRUE
  BY DEF Init
<1>2. /\ \A l \in Levels : IsInjective(free[l])
      /\ Listed = InitBuddy
  BY <1>1, SeedsListed DEF Listed
<1>3. InHand = {} /\ Blocks = InitBuddy
  BY <1>1, <1>2 DEF InHand, Blocks
<1>4. Disjoint
  BY <1>1, <1>2, <1>3, Seeds DEF Disjoint
<1> QED BY <1>1, <1>3, <1>4 DEF Sound, Whole, Held

\* Every step of the buddy system keeps its invariant; a merge ends the claim.
LEMMA BuddyInvNext == BuddyInv /\ [Next]_vars => BuddyInv'
<1> SUFFICES ASSUME BuddyInv, [Next]_vars PROVE BuddyInv' OBVIOUS
<1>1. buddy /\ Region /\ (~merged => Sound) /\ buddy = TRUE
  BY DEF BuddyInv, Region, TypeOK
<1>2. buddy' /\ Region'
  BY <1>1, PolicyStays, RegionNext
<1>3. ASSUME ~merged' PROVE Sound'
  <2>1. CASE Reset
    BY <1>1, <2>1, SeedsSound DEF Reset, loopvars
  <2>2. CASE ~Reset
    <3>1. CASE Alloc
      <4>1. PICK size \in Requests, align \in Aligns :
               FromScratchpad(Asked(size, align)) \/ FromBuddies(Asked(size, align))
        BY <1>1, <3>1 DEF Alloc
      <4>2. Asked(size, align) \in [size : Nat \ {0}, align : Nat \ {0}] /\ pc = "ready"
        BY <3>1, AskedIsPositive DEF Alloc
      <4>3. Sound
        BY <1>1, <1>3, <4>1 DEF FromScratchpad, FromBuddies
      <4> QED BY <1>1, <4>1, <4>2, <4>3, ScratchpadSound, FromBuddiesSound
    <3>2. CASE Split
      BY <1>1, <1>3, <3>2, SplitSound DEF Split
    <3>3. CASE Take
      BY <1>1, <1>3, <3>3, TakeSound DEF Take
    <3>4. CASE \E g \in granted : Free(g)
      <4>1. PICK g \in granted : Free(g)
        BY <3>4
      <4>2. merged' = merged
        BY <4>1 DEF Free
      <4> QED BY <1>1, <1>3, <4>1, <4>2, FreeSound
    <3>5. CASE Merge
      BY <1>3, <3>5 DEF Merge
    <3>6. CASE Settle \/ UNCHANGED vars
      <4>1. UNCHANGED <<free, taken, scratch, granted, allocs, merged>>
            /\ ((pc = "coalesce" /\ pc' = "ready") \/ (pc' = pc /\ block' = block))
        <5>1. CASE Settle
          BY <5>1 DEF Settle, cursors
        <5>2. CASE UNCHANGED vars
          BY <5>2 DEF vars, loopvars, cursors
        <5> QED BY <3>6, <5>1, <5>2
      <4>2. Listed' = Listed /\ InHand' = InHand /\ Blocks' = Blocks
        BY <4>1 DEF Listed, InHand, Blocks
      <4>3. Disjoint /\ Whole /\ Held
        BY <1>1, <1>3, <4>1 DEF Sound
      <4>4. AllApart(Blocks)' /\ Whole'
        BY <4>2, <4>3, SameBlocks DEF Disjoint
      <4>5. Disjoint'
        BY <4>1, <4>2, <4>3, <4>4 DEF Disjoint
      <4>6. Held'
        BY <4>1, <4>3 DEF Held, Lies
      <4> QED BY <4>4, <4>5, <4>6 DEF Sound
    <3> QED BY <2>2, <3>1, <3>2, <3>3, <3>4, <3>5, <3>6 DEF Next
  <2> QED BY <2>1, <2>2
<1> QED BY <1>2, <1>3 DEF BuddyInv

\* What callers hold lies in the pool, byte for byte apart.
LEMMA SoundGrants == Region /\ Sound => GrantsApart
<1> SUFFICES ASSUME Region, Sound, NEW g \in granted PROVE g.addr + g.size <= Pool
  BY DEF GrantsApart, Sound, Held
<1>1. TypeOK /\ InRegion /\ scratch <= Scratch /\ Held
  BY DEF Region, Sound
<1>2. g.addr \in Nat /\ g.size \in Nat /\ Lies(g)
  BY <1>1 DEF Held, Area
<1>3. scratch \in Nat /\ Scratch \in Nat /\ Pool \in Nat /\ Scratch <= Pool
  BY <1>1, PoolAssumption DEF TypeOK
<1>4. CASE g.addr + g.size <= scratch
  BY <1>1, <1>2, <1>3, <1>4
<1>5. ASSUME NEW b \in taken, HeldBy(g, b) PROVE g.addr + g.size <= Pool
  <2>1. b \in BlockSet /\ b \in Blocks
    BY <1>1, TheBlocks DEF Blocks
  <2>2. b.addr \in Nat /\ Size[b.level] \in Nat
    BY <2>1, LevelSizes DEF BlockSet
  <2>3. b.addr + Size[b.level] <= Pool
    BY <1>1, <2>1 DEF InRegion
  <2> QED BY <1>2, <1>3, <1>5, <2>2, <2>3 DEF HeldBy
<1> QED BY <1>2, <1>4, <1>5 DEF Lies

-----------------------------------------------------------------------------
(* By first fit there are no blocks at all.                                *)
NoBlocks == taken = {} /\ free = SeededLists(FALSE)
FirstFitInv == ~buddy /\ CursorInv /\ NoBlocks

\* By first fit no block is listed at construction,
LEMMA FirstFitInvInit == Init /\ ~buddy => FirstFitInv
<1> SUFFICES ASSUME Init, ~buddy PROVE FirstFitInv OBVIOUS
<1>1. buddy = FALSE
  BY DEF Init
<1> QED BY <1>1, CursorInvInit DEF Init, FirstFitInv, NoBlocks

\* nor by any step,
LEMMA FirstFitInvNext == FirstFitInv /\ [Next]_vars => FirstFitInv'
<1> SUFFICES ASSUME FirstFitInv, [Next]_vars PROVE FirstFitInv' OBVIOUS
<1>1. CursorInv /\ ~buddy /\ taken = {} /\ free = SeededLists(FALSE) /\ pc = "ready"
  BY DEF FirstFitInv, NoBlocks, CursorInv
<1>2. CursorInv'
  BY <1>1, CursorInvNext
<1>3. NoBlocks'
  <2>1. CASE Alloc
    BY <1>1, <2>1 DEF Alloc, FromScratchpad, FromCursor, NoBlocks
  <2>2. CASE Split \/ Take \/ Merge \/ Settle
    BY <1>1, <2>2 DEF Split, Take, Merge, Settle
  <2>3. CASE \E g \in granted : Free(g)
    BY <1>1, <2>3 DEF Free, NoBlocks
  <2>4. CASE Reset
    <3>1. SeededLists(buddy) = SeededLists(FALSE)
      BY <1>1 DEF SeededLists
    <3>2. taken' = {} /\ free' = SeededLists(buddy)
      BY <2>4 DEF Reset
    <3> QED BY <3>1, <3>2 DEF NoBlocks, SeededLists
  <2>5. CASE UNCHANGED vars
    BY <1>1, <2>5 DEF vars, NoBlocks
  <2> QED BY <2>1, <2>2, <2>3, <2>4, <2>5 DEF Next
<1> QED BY <1>2, <1>3 DEF FirstFitInv, CursorInv

\* so that only the bump pointers hand out areas.
LEMMA FirstFitIsApart == FirstFitInv => ApartUntilMerged
<1> SUFFICES ASSUME FirstFitInv PROVE ApartUntilMerged OBVIOUS
<1>1. CursorInv /\ taken = {} /\ free = SeededLists(FALSE) /\ pc = "ready"
  BY DEF FirstFitInv, NoBlocks, CursorInv
<1>2. Listed = {} /\ \A l \in Levels : IsInjective(free[l])
  BY <1>1, SeedsListed DEF Listed
<1>3. InHand = {} /\ Blocks = {}
  BY <1>1, <1>2 DEF InHand, Blocks
<1>4. GrantsApart
  BY <1>1, PoolAssumption DEF CursorInv, GrantsApart, UnderPointer, Area
<1> QED BY <1>1, <1>2, <1>3, <1>4 DEF ApartUntilMerged

\* The buddy system's invariant gives both properties.
LEMMA BuddyIsApart == BuddyInv => ApartUntilMerged /\ NothingLost
<1> SUFFICES ASSUME BuddyInv PROVE ApartUntilMerged /\ NothingLost OBVIOUS
<1>1. Region /\ (~merged => Sound)
  BY DEF BuddyInv
<1>2. ApartUntilMerged
  BY <1>1, SoundGrants DEF Sound, Disjoint, AllApart, ApartUntilMerged
<1>3. NothingLost
  BY <1>1 DEF Sound, Whole, NothingLost
<1> QED BY <1>2, <1>3

AllocatorInv == BuddyInv \/ FirstFitInv

\* Each policy's invariant holds throughout.
LEMMA AllocatorInvariance == Spec => []AllocatorInv
<1>1. Init => AllocatorInv
  BY InitRegion, InitSound, FirstFitInvInit DEF AllocatorInv, BuddyInv
<1>2. AllocatorInv /\ [Next]_vars => AllocatorInv'
  BY BuddyInvNext, FirstFitInvNext DEF AllocatorInv
<1> QED BY <1>1, <1>2, PTL DEF Spec

\* By either policy, and until two blocks are merged: no byte is in two blocks, no
\* address listed twice, and no byte held by two callers.
THEOREM BlocksApart == Spec => []ApartUntilMerged
<1>1. AllocatorInv => ApartUntilMerged
  BY BuddyIsApart, FirstFitIsApart DEF AllocatorInv
<1> QED BY <1>1, AllocatorInvariance, PTL

\* Until two blocks are merged, every byte the lists were seeded with is listed,
\* allocated or being split, however blocks are split, freed and handed out again.
THEOREM BlocksKept == Spec => []NothingLost
<1>1. AllocatorInv => NothingLost
  BY BuddyIsApart DEF AllocatorInv, FirstFitInv, NothingLost
<1> QED BY <1>1, AllocatorInvariance, PTL

-----------------------------------------------------------------------------
(***************************************************************************)
(* Whatever the region, the ready list places every instruction once,      *)
(* behind everything it depends on, never runs dry early, and ends in an   *)
(* order that the independent check accepts; and whatever order the check  *)
(* accepts leaves the machine as the original does.                        *)
(***************************************************************************)
(***************************************************************************)
(* build_dag links forward, between places of the region.                  *)
(***************************************************************************)
Forward(dag) == \A e \in dag : e[1] \in DOMAIN region /\ e[2] \in DOMAIN region /\ e[1] < e[2]

(***************************************************************************)
(* What is placed is placed once and behind its predecessors, and          *)
(* remaining counts the predecessors that are not placed.                  *)
(***************************************************************************)
Waiting(n) == Before(edges, n) \ Placed
IInv ==
    /\ Len(region) \in Nat /\ DOMAIN region = 1 .. Len(region)
    /\ Forward(edges)
    /\ placed \in Seq(DOMAIN region)
    /\ remaining \in [DOMAIN region -> Int]
    /\ \A n \in DOMAIN region : remaining[n] = Cardinality(Waiting(n))
    /\ \A j, k \in DOMAIN placed : j # k => placed[j] # placed[k]
    /\ \A k \in DOMAIN placed : \A a \in Before(edges, placed[k]) :
          \E j \in 1 .. k - 1 : placed[j] = a

-----------------------------------------------------------------------------
(***************************************************************************)
(* Every edge that build_dag records points forward.                       *)
(***************************************************************************)
LEMMA EdgesForward ==
    ASSUME Len(region) \in Nat, DOMAIN region = 1 .. Len(region)
    PROVE  Forward(Edges(region))
<1> DEFINE F(dag) == \A e \in dag : e[1] \in DOMAIN region /\ e[2] \in DOMAIN region /\ e[1] < e[2]
<1>1. F(TrueAndOutputEdges(region))
  <2> SUFFICES ASSUME NEW b \in DOMAIN region, NEW reg \in Registers,
                      NEW a \in LastWriter(region, b, reg)
               PROVE  a \in DOMAIN region /\ a < b
      BY DEF TrueAndOutputEdges
  <2> QED BY DEF LastWriter, LastBefore
<1>2. F(AntiEdges(region))
  BY DEF AntiEdges
<1>3. F(EffectEdges(region))
  <2> SUFFICES ASSUME NEW e \in EffectEdges(region)
               PROVE  e[1] \in DOMAIN region /\ e[2] \in DOMAIN region /\ e[1] < e[2]
      OBVIOUS
  <2>1. PICK b \in DOMAIN region :
            \/ \E a \in LastBefore(region, b, Memory) : e = <<a, b, "memory">>
            \/ \E a \in LastBefore(region, b, FpFlags) : e = <<a, b, "fp-effects">>
    BY DEF EffectEdges
  <2>2. PICK a \in LastBefore(region, b, Memory) \cup LastBefore(region, b, FpFlags) : e[1] = a /\ e[2] = b
    BY <2>1
  <2> QED BY <2>2 DEF LastBefore
<1>4. F(ControlEdges(region))
  <2> SUFFICES ASSUME NEW e \in ControlEdges(region)
               PROVE  e[1] \in DOMAIN region /\ e[2] \in DOMAIN region /\ e[1] < e[2]
      OBVIOUS
  <2>1. PICK b \in DOMAIN region :
            \E a \in (1 .. b - 1) \cup LastBefore(region, b, Terminator) : e = <<a, b, "control">>
    BY DEF ControlEdges
  <2>2. PICK a \in (1 .. b - 1) \cup LastBefore(region, b, Terminator) : e[1] = a /\ e[2] = b
    BY <2>1
  <2> QED BY <2>2 DEF LastBefore
<1>5. F(DivisionEdges(region))
  BY DEF DivisionEdges
<1> QED BY <1>1, <1>2, <1>3, <1>4, <1>5 DEF Edges, Forward

(***************************************************************************)
(* The predecessors of a place are finitely many places before it.         *)
(***************************************************************************)
LEMMA PredecessorsBefore ==
    ASSUME IInv, NEW n \in DOMAIN region
    PROVE  /\ Before(edges, n) \subseteq 1 .. n - 1
           /\ Before(edges, n) \subseteq DOMAIN region
           /\ IsFiniteSet(Before(edges, n))
<1>1. Before(edges, n) \subseteq 1 .. n - 1 /\ Before(edges, n) \subseteq DOMAIN region
  BY DEF IInv, Forward, Before
<1>2. IsFiniteSet(1 .. n - 1)
  BY FS_Interval DEF IInv
<1> QED BY <1>1, <1>2, FS_Subset

(***************************************************************************)
(* As long as a place is missing, one can be placed.                       *)
(***************************************************************************)
LEMMA NeverDry ==
    ASSUME IInv, NEW n \in DOMAIN region, n \notin Placed
    PROVE  Ready # {}
<1>1. PICK m \in (DOMAIN region) \ Placed : \A k \in (DOMAIN region) \ Placed : m <= k
  <2> DEFINE S == (DOMAIN region) \ Placed
  <2>1. S \in SUBSET (Nat \ {0}) /\ S # {}
    BY DEF IInv
  <2> QED BY <2>1, LeastNatural
<1>2. Waiting(m) = {}
  BY <1>1, PredecessorsBefore DEF Waiting, IInv
<1>3. remaining[m] = 0
  BY <1>1, <1>2, FS_EmptySet DEF IInv
<1> QED BY <1>1, <1>3 DEF Ready

(***************************************************************************)
(* Two intervals with a bijection between them have one length.            *)
(***************************************************************************)
LEMMA SameLength ==
    ASSUME NEW a \in Nat, NEW b \in Nat, NEW f \in Bijection(1 .. a, 1 .. b)
    PROVE  a = b
<1>1. \A n \in Nat : IsFiniteSet(1 .. n) /\ Cardinality(1 .. n) = n
  BY FS_Interval
<1>2. Cardinality(1 .. b) = Cardinality(1 .. a)
  <2> DEFINE S == 1 .. a
             T == 1 .. b
  <2>1. IsFiniteSet(S) /\ ExistsBijection(S, T)
    BY <1>1 DEF ExistsBijection
  <2> HIDE DEF S, T
  <2>2. Cardinality(T) = Cardinality(S)
    BY <2>1, FS_Bijection
  <2> QED BY <2>2 DEF S, T
<1> QED BY <1>1, <1>2

(***************************************************************************)
(* When all places are placed, once each, the order is as long as the      *)
(* region.                                                                 *)
(***************************************************************************)
LEMMA AllPlaced ==
    ASSUME IInv, DOMAIN region \subseteq Placed
    PROVE  Len(placed) = Len(region)
<1>1. Len(placed) \in Nat /\ DOMAIN placed = 1 .. Len(placed) /\ Len(region) \in Nat
  BY DEF IInv
<1>2. placed \in Bijection(1 .. Len(placed), 1 .. Len(region))
  <2>1. placed \in [1 .. Len(placed) -> 1 .. Len(region)]
    BY <1>1 DEF IInv
  <2>2. \A j, k \in 1 .. Len(placed) : placed[j] = placed[k] => j = k
    BY <1>1 DEF IInv
  <2>3. \A m \in 1 .. Len(region) : \E k \in 1 .. Len(placed) : placed[k] = m
    BY <1>1 DEF IInv, Placed
  <2> QED BY <2>1, <2>2, <2>3 DEF Bijection, Injection, Surjection, IsInjective
<1> QED BY <1>1, <1>2, SameLength

-----------------------------------------------------------------------------
(***************************************************************************)
(* The graph is built and nothing is placed.                               *)
(***************************************************************************)
LEMMA InitIInv == SchedulerInit => IInv
<1> SUFFICES ASSUME SchedulerInit PROVE IInv
    OBVIOUS
<1>1. Len(region) \in Nat /\ DOMAIN region = 1 .. Len(region)
  BY RegionsAssumption DEF SchedulerInit
<1>2. Forward(edges)
  BY <1>1, EdgesForward DEF SchedulerInit
<1>3. Placed = {} /\ placed \in Seq(DOMAIN region) /\ DOMAIN placed = {}
  BY DEF SchedulerInit, Placed
<1>4. ASSUME NEW n \in DOMAIN region
      PROVE  remaining[n] = Cardinality(Waiting(n)) /\ remaining[n] \in Int
  <2>1. remaining[n] = Cardinality(Before(edges, n)) /\ Waiting(n) = Before(edges, n)
    BY <1>3 DEF SchedulerInit, Count, Waiting
  <2>2. Before(edges, n) \subseteq 1 .. Len(region)
    BY <1>1, <1>2 DEF Forward, Before
  <2>3. IsFiniteSet(1 .. Len(region))
    BY <1>1, FS_Interval
  <2>4. IsFiniteSet(Before(edges, n))
    BY <2>2, <2>3, FS_Subset
  <2> QED BY <2>1, <2>4, FS_CardinalityType
<1>5. remaining \in [DOMAIN region -> Int]
  BY <1>4 DEF SchedulerInit
<1> QED BY <1>1, <1>2, <1>3, <1>4, <1>5 DEF IInv

(***************************************************************************)
(* One more is placed.                                                     *)
(***************************************************************************)
LEMMA PickIInv ==
    ASSUME IInv, NEW n \in DOMAIN region, Pick(n)
    PROVE  IInv'
<1>0. Len(placed) \in Nat /\ DOMAIN placed = 1 .. Len(placed) /\ n \notin Placed /\ remaining[n] = 0
  BY DEF IInv, Pick, Ready
<1>1. /\ region' = region /\ edges' = edges
      /\ placed' \in Seq(DOMAIN region) /\ DOMAIN placed' = 1 .. Len(placed) + 1
      /\ placed'[Len(placed) + 1] = n /\ \A k \in DOMAIN placed : placed'[k] = placed[k]
  BY <1>0 DEF Pick, IInv
<1>2. Placed' = Placed \cup {n}
  <2>1. \A k \in 1 .. Len(placed) + 1 : k \in DOMAIN placed \/ k = Len(placed) + 1
    BY <1>0
  <2>2. \A k \in DOMAIN placed : k \in DOMAIN placed'
    BY <1>0, <1>1
  <2>3. Len(placed) + 1 \in DOMAIN placed'
    BY <1>0, <1>1
  <2> QED BY <1>1, <2>1, <2>2, <2>3, Zenon DEF Placed
<1>3. Before(edges, n) \subseteq Placed
  <2>1. IsFiniteSet(Waiting(n))
    BY PredecessorsBefore, FS_Subset DEF Waiting
  <2>2. Waiting(n) = {}
    BY <1>0, <2>1, FS_EmptySet DEF IInv
  <2> QED BY <2>2 DEF Waiting
<1>4. ASSUME NEW m \in DOMAIN region
      PROVE  Waiting(m)' = Waiting(m) \ {n}
  BY <1>1, <1>2 DEF Waiting
<1>5. ASSUME NEW m \in DOMAIN region
      PROVE  remaining'[m] \in Int /\ remaining'[m] = Cardinality(Waiting(m)')
  <2>1. IsFiniteSet(Waiting(m)) /\ remaining[m] = Cardinality(Waiting(m)) /\ remaining[m] \in Int
    BY PredecessorsBefore, FS_Subset DEF Waiting, IInv
  <2>2. m \in Successors(n) <=> n \in Waiting(m)
    BY <1>0 DEF Successors, Before, Waiting
  <2>3. Cardinality(Waiting(m) \ {n}) = IF n \in Waiting(m) THEN Cardinality(Waiting(m)) - 1 ELSE Cardinality(Waiting(m))
    BY <2>1, FS_RemoveElement
  <2>4. remaining'[m] = IF m \in Successors(n) THEN remaining[m] - 1 ELSE remaining[m]
    BY DEF Pick
  <2>5. Cardinality(Waiting(m)') = Cardinality(Waiting(m) \ {n})
    BY <1>4
  <2> HIDE DEF Waiting
  <2> QED BY <2>1, <2>2, <2>3, <2>4, <2>5
<1>6. remaining' \in [DOMAIN region' -> Int]
  BY <1>1, <1>5 DEF Pick
<1>7. ASSUME NEW j \in DOMAIN placed', NEW k \in DOMAIN placed', j # k
      PROVE  placed'[j] # placed'[k]
  <2>1. \A i \in DOMAIN placed : placed[i] # n
    BY <1>0 DEF Placed
  <2>2. (j \in DOMAIN placed \/ j = Len(placed) + 1) /\ (k \in DOMAIN placed \/ k = Len(placed) + 1)
    BY <1>0, <1>1
  <2> QED BY <1>1, <1>7, <2>1, <2>2 DEF IInv
<1>8. ASSUME NEW k \in DOMAIN placed', NEW a \in Before(edges, placed'[k])
      PROVE  \E j \in 1 .. k - 1 : placed'[j] = a
  <2>1. CASE k \in DOMAIN placed
    <3>1. PICK j \in 1 .. k - 1 : placed[j] = a
      BY <1>1, <1>8, <2>1 DEF IInv
    <3> QED BY <3>1, <1>0, <1>1, <2>1
  <2>2. CASE k = Len(placed) + 1
    <3>1. a \in Placed
      BY <1>1, <1>3, <1>8, <2>2
    <3>2. PICK j \in DOMAIN placed : placed[j] = a
      BY <3>1 DEF Placed
    <3> QED BY <3>2, <1>0, <1>1, <2>2
  <2> QED BY <1>0, <1>1, <2>1, <2>2
<1>9. Forward(edges)'
  BY <1>1 DEF Forward, IInv
<1>10. Len(region') \in Nat /\ DOMAIN region' = 1 .. Len(region')
  BY <1>1 DEF IInv
<1> QED BY <1>1, <1>5, <1>6, <1>7, <1>8, <1>9, <1>10 DEF IInv

(***************************************************************************)
(* IInv is inductive.                                                      *)
(***************************************************************************)
LEMMA StepIInv == IInv /\ [SchedulerNext]_schedulerVars => IInv'
<1> SUFFICES ASSUME IInv, [SchedulerNext]_schedulerVars PROVE IInv'
    OBVIOUS
<1>1. CASE SchedulerNext
  BY <1>1, PickIInv DEF SchedulerNext
<1>2. CASE UNCHANGED schedulerVars
  <2>1. region' = region /\ edges' = edges /\ placed' = placed /\ remaining' = remaining
    BY <1>2 DEF schedulerVars
  <2>2. Forward(edges)' /\ Placed' = Placed
    BY <2>1 DEF Forward, Placed, IInv
  <2>3. \A n : Waiting(n)' = Waiting(n)
    BY <2>1, <2>2 DEF Waiting
  <2> QED BY <2>1, <2>2, <2>3 DEF IInv
<1> QED BY <1>1, <1>2

(***************************************************************************)
(* And it is what the ready list promises.                                 *)
(***************************************************************************)
LEMMA IInvRespected == IInv => Respected
<1> SUFFICES ASSUME IInv PROVE Respected
    OBVIOUS
<1>1. ASSUME Ready = {} PROVE Complete
  <2>1. DOMAIN region \subseteq Placed
    BY <1>1, NeverDry
  <2> QED BY <2>1, AllPlaced DEF Complete
<1> QED BY <1>1 DEF Respected, IInv, Predecessors

(***************************************************************************)
(* schedule() places every instruction once, none before one it depends    *)
(* on, and never ends in "Dependency cycle or inconsistent graph".         *)
(***************************************************************************)
THEOREM ScheduleRespects == SchedulerSpec => []Respected
BY InitIInv, StepIInv, IInvRespected, PTL DEF SchedulerSpec

-----------------------------------------------------------------------------
(***************************************************************************)
(* The graph is the one of the region, and everything is placed.           *)
(***************************************************************************)
Built    == region \in Regions /\ edges = Edges(region)
Finished == IInv /\ Built /\ Complete

\* Where an instruction went.
Position(n) == CHOOSE k \in DOMAIN placed : placed[k] = n

\* The instructions with this property keep their order.
InLine(X) == \A a, b \in X : a < b => Position(a) < Position(b)

(***************************************************************************)
(* Then placed is a permutation, and Position its inverse.                 *)
(***************************************************************************)
LEMMA Permuted ==
    ASSUME Finished
    PROVE  /\ Len(region) \in Nat /\ DOMAIN region = 1 .. Len(region)
           /\ DOMAIN placed = 1 .. Len(region) /\ Len(placed) = Len(region)
           /\ \A n \in 1 .. Len(region) : Position(n) \in 1 .. Len(region) /\ placed[Position(n)] = n
           /\ \A k \in 1 .. Len(region) : placed[k] \in 1 .. Len(region) /\ Position(placed[k]) = k
<1> DEFINE N == Len(region)
<1>1. /\ N \in Nat /\ DOMAIN region = 1 .. N /\ Len(placed) = N /\ DOMAIN placed = 1 .. N
      /\ \A k \in 1 .. N : placed[k] \in 1 .. N
      /\ \A j, k \in 1 .. N : placed[j] = placed[k] => j = k
  BY DEF Finished, IInv, Complete
<1>2. placed \in Injection(1 .. N, 1 .. N)
  <2>1. placed \in [1 .. N -> 1 .. N]
    BY <1>1 DEF Finished, IInv
  <2> QED BY <1>1, <2>1 DEF Injection, IsInjective
<1>3. placed \in Surjection(1 .. N, 1 .. N)
  <2> DEFINE S == 1 .. N
  <2>1. IsFiniteSet(S)
    BY <1>1, FS_Interval
  <2>2. placed \in Injection(S, S)
    BY <1>2
  <2> HIDE DEF S
  <2>3. placed \in Surjection(S, S)
    BY <2>1, <2>2, FS_Injection
  <2> QED BY <2>3 DEF S
<1>4. \A n \in 1 .. N : \E k \in 1 .. N : placed[k] = n
  BY <1>3 DEF Surjection
<1>5. ASSUME NEW n \in 1 .. N PROVE Position(n) \in 1 .. N /\ placed[Position(n)] = n
  BY <1>1, <1>4 DEF Position
<1>6. ASSUME NEW k \in 1 .. N PROVE Position(placed[k]) = k
  BY <1>1, <1>5
<1> QED BY <1>1, <1>5, <1>6

(***************************************************************************)
(* An edge keeps its ends in order.                                        *)
(***************************************************************************)
LEMMA EdgeKept ==
    ASSUME Finished, NEW a \in DOMAIN region, NEW b \in DOMAIN region,
           NEW kind, <<a, b, kind>> \in Edges(region)
    PROVE  Position(a) < Position(b)
<1>1. a \in Before(edges, b)
  BY DEF Before, Finished, Built
<1>2. PICK j \in 1 .. Position(b) - 1 : placed[j] = a
  BY <1>1, Permuted DEF Finished, IInv
<1>3. j \in 1 .. Len(region) /\ j < Position(b)
  BY <1>2, Permuted
<1> QED BY <1>2, <1>3, Permuted

(***************************************************************************)
(* A bounded non-empty set of positive numbers has a last one.             *)
(***************************************************************************)
LEMMA LastOne ==
    ASSUME NEW b \in Nat, NEW S \in SUBSET (1 .. b - 1), S # {}
    PROVE  \E n \in S : \A m \in S : m <= n
<1>1. PICK n \in S : n \in 1 .. b - 1
  OBVIOUS
<1>2. b - 1 \in Nat
  BY <1>1
<1> QED BY <1>2, GreatestBelow

(***************************************************************************)
(* Where each links to the next, all keep their order.                     *)
(***************************************************************************)
LEMMA Chain ==
    ASSUME Finished, NEW X \in SUBSET DOMAIN region,
           \A a, b \in X : a < b /\ (\A c \in X : ~(a < c /\ c < b)) => Position(a) < Position(b)
    PROVE  InLine(X)
<1> SUFFICES ASSUME NEW a \in X, NEW z \in X, a < z, ~(Position(a) < Position(z)) PROVE FALSE
    BY DEF InLine
<1>0. X \subseteq Nat \ {0} /\ \A n \in X : Position(n) \in Nat
  <2>1. \A n \in X : n \in 1 .. Len(region) /\ Len(region) \in Nat
    BY Permuted
  <2>2. \A n \in X : Position(n) \in 1 .. Len(region)
    BY <2>1, Permuted
  <2> QED BY <2>1, <2>2
<1> DEFINE S == {b \in X : a < b /\ ~(Position(a) < Position(b))}
<1>1. PICK b \in S : \A m \in S : b <= m
  BY <1>0, LeastNatural
<1> DEFINE T == {c \in X : a < c /\ c < b}
<1>2. T # {}
  BY <1>1
<1>3. PICK c \in T : \A m \in T : m <= c
  <2>1. b \in Nat /\ T \in SUBSET (1 .. b - 1)
    BY <1>0, <1>1
  <2> HIDE DEF T
  <2> QED BY <1>2, <2>1, LastOne
<1>4. Position(a) < Position(c)
  BY <1>0, <1>1, <1>3
<1>5. Position(c) < Position(b)
  BY <1>0, <1>1, <1>3
<1> QED BY <1>0, <1>1, <1>3, <1>4, <1>5

(***************************************************************************)
(* The edges of the last writer, and of the last access and flag effect.   *)
(***************************************************************************)
LEMMA WriterEdges ==
    ASSUME NEW r, NEW b \in DOMAIN r, NEW reg \in Registers, NEW a \in LastWriter(r, b, reg)
    PROVE  /\ reg \in Uses(r[b]) => <<a, b, "RAW">> \in Edges(r)
           /\ reg \in Defs(r[b]) => <<a, b, "WAW">> \in Edges(r)
<1> DEFINE G(c, q) ==
        (IF q \in Uses(r[c]) THEN {<<d, c, "RAW">> : d \in LastWriter(r, c, q)} ELSE {})
        \cup (IF q \in Defs(r[c]) THEN {<<d, c, "WAW">> : d \in LastWriter(r, c, q)} ELSE {})
<1>1. TrueAndOutputEdges(r) = UNION {G(c, q) : c \in DOMAIN r, q \in Registers}
  BY DEF TrueAndOutputEdges
<1>2. /\ reg \in Uses(r[b]) => <<a, b, "RAW">> \in G(b, reg)
      /\ reg \in Defs(r[b]) => <<a, b, "WAW">> \in G(b, reg)
  OBVIOUS
<1> HIDE DEF G
<1>3. G(b, reg) \subseteq TrueAndOutputEdges(r)
  BY <1>1
<1> QED BY <1>2, <1>3 DEF Edges

LEMMA EffectOrder ==
    ASSUME NEW r, NEW b \in DOMAIN r
    PROVE  /\ Memory(r[b]) => \A a \in LastBefore(r, b, Memory) : <<a, b, "memory">> \in Edges(r)
           /\ FpFlags(r[b]) => \A a \in LastBefore(r, b, FpFlags) : <<a, b, "fp-effects">> \in Edges(r)
<1> DEFINE G(c) ==
        (IF Memory(r[c]) THEN {<<d, c, "memory">> : d \in LastBefore(r, c, Memory)} ELSE {})
        \cup (IF FpFlags(r[c]) THEN {<<d, c, "fp-effects">> : d \in LastBefore(r, c, FpFlags)} ELSE {})
<1>1. EffectEdges(r) = UNION {G(c) : c \in DOMAIN r}
  BY DEF EffectEdges
<1>2. /\ Memory(r[b]) => \A a \in LastBefore(r, b, Memory) : <<a, b, "memory">> \in G(b)
      /\ FpFlags(r[b]) => \A a \in LastBefore(r, b, FpFlags) : <<a, b, "fp-effects">> \in G(b)
  OBVIOUS
<1> HIDE DEF G
<1>3. G(b) \subseteq EffectEdges(r)
  BY <1>1
<1> QED BY <1>2, <1>3 DEF Edges

LEMMA ControlOrder ==
    ASSUME NEW r, NEW b \in DOMAIN r, Terminator(r[b]),
           NEW a \in IF LastBefore(r, b, Terminator) = {} THEN 1 .. b - 1 ELSE LastBefore(r, b, Terminator)
    PROVE  <<a, b, "control">> \in Edges(r)
<1> DEFINE G(c) == {<<d, c, "control">> :
        d \in IF LastBefore(r, c, Terminator) = {} THEN 1 .. c - 1 ELSE LastBefore(r, c, Terminator)}
<1>1. ControlEdges(r) = UNION {G(c) : c \in {c \in DOMAIN r : Terminator(r[c])}}
  BY DEF ControlEdges
<1>2. <<a, b, "control">> \in G(b)
  OBVIOUS
<1> HIDE DEF G
<1>3. G(b) \subseteq ControlEdges(r)
  BY <1>1
<1> QED BY <1>2, <1>3 DEF Edges

(***************************************************************************)
(* Neighbours among the places with a property are each other's last.      *)
(***************************************************************************)
LEMMA Neighbour ==
    ASSUME NEW N \in Nat, NEW X \in SUBSET (1 .. N), NEW a \in X, NEW b \in X, a < b,
           \A c \in X : ~(a < c /\ c < b)
    PROVE  a \in 1 .. b - 1 /\ \A c \in a + 1 .. b - 1 : c \in 1 .. N /\ c \notin X
OBVIOUS

(***************************************************************************)
(* build_dag chains the writers of a register, the memory accesses, the    *)
(* flag effects and the terminators.                                       *)
(***************************************************************************)
Writers(reg) == {n \in DOMAIN region : reg \in Defs(region[n])}

LEMMA WritersInLine ==
    ASSUME Finished, NEW reg \in Registers
    PROVE  InLine(Writers(reg))
<1>1. Writers(reg) \in SUBSET DOMAIN region
  BY DEF Writers
<1>2. ASSUME NEW a \in Writers(reg), NEW b \in Writers(reg),
             a < b, \A c \in Writers(reg) : ~(a < c /\ c < b)
      PROVE  Position(a) < Position(b)
  <2>1. a \in DOMAIN region /\ b \in DOMAIN region /\ reg \in Defs(region[a]) /\ reg \in Defs(region[b])
    BY DEF Writers
  <2>2. a \in 1 .. b - 1 /\ \A c \in a + 1 .. b - 1 : c \in DOMAIN region /\ c \notin Writers(reg)
    <3>1. Len(region) \in Nat /\ DOMAIN region = 1 .. Len(region)
      BY Permuted
    <3> QED BY <1>1, <1>2, <3>1, Neighbour
  <2>3. a \in LastWriter(region, b, reg)
    BY <2>1, <2>2 DEF LastWriter, LastBefore, Writers
  <2>4. <<a, b, "WAW">> \in Edges(region)
    BY <2>1, <2>3, WriterEdges
  <2> QED BY <2>1, <2>4, EdgeKept
<1> QED BY <1>1, <1>2, Chain

LEMMA MemoryInLine ==
    ASSUME Finished
    PROVE  InLine({n \in DOMAIN region : Memory(region[n])})
<1> DEFINE X == {n \in DOMAIN region : Memory(region[n])}
<1>1. ASSUME NEW a \in X, NEW b \in X, a < b, \A c \in X : ~(a < c /\ c < b)
      PROVE  Position(a) < Position(b)
  <2>1. a \in 1 .. b - 1 /\ \A c \in a + 1 .. b - 1 : c \in DOMAIN region /\ c \notin X
    <3>1. Len(region) \in Nat /\ DOMAIN region = 1 .. Len(region) /\ X \in SUBSET DOMAIN region
      BY Permuted
    <3> HIDE DEF X
    <3> QED BY <1>1, <3>1, Neighbour
  <2>2. a \in LastBefore(region, b, Memory)
    BY <2>1 DEF LastBefore
  <2>3. <<a, b, "memory">> \in Edges(region)
    BY <2>2, EffectOrder
  <2> QED BY <2>3, EdgeKept
<1> QED BY <1>1, Chain

LEMMA FlagsInLine ==
    ASSUME Finished
    PROVE  InLine({n \in DOMAIN region : FpFlags(region[n])})
<1> DEFINE X == {n \in DOMAIN region : FpFlags(region[n])}
<1>1. ASSUME NEW a \in X, NEW b \in X, a < b, \A c \in X : ~(a < c /\ c < b)
      PROVE  Position(a) < Position(b)
  <2>1. a \in 1 .. b - 1 /\ \A c \in a + 1 .. b - 1 : c \in DOMAIN region /\ c \notin X
    <3>1. Len(region) \in Nat /\ DOMAIN region = 1 .. Len(region) /\ X \in SUBSET DOMAIN region
      BY Permuted
    <3> HIDE DEF X
    <3> QED BY <1>1, <3>1, Neighbour
  <2>2. a \in LastBefore(region, b, FpFlags)
    BY <2>1 DEF LastBefore
  <2>3. <<a, b, "fp-effects">> \in Edges(region)
    BY <2>2, EffectOrder
  <2> QED BY <2>3, EdgeKept
<1> QED BY <1>1, Chain

LEMMA TerminatorsInLine ==
    ASSUME Finished
    PROVE  InLine({n \in DOMAIN region : Terminator(region[n])})
<1> DEFINE X == {n \in DOMAIN region : Terminator(region[n])}
<1>1. ASSUME NEW a \in X, NEW b \in X, a < b, \A c \in X : ~(a < c /\ c < b)
      PROVE  Position(a) < Position(b)
  <2>1. a \in 1 .. b - 1 /\ \A c \in a + 1 .. b - 1 : c \in DOMAIN region /\ c \notin X
    <3>1. Len(region) \in Nat /\ DOMAIN region = 1 .. Len(region) /\ X \in SUBSET DOMAIN region
      BY Permuted
    <3> HIDE DEF X
    <3> QED BY <1>1, <3>1, Neighbour
  <2>2. a \in LastBefore(region, b, Terminator)
    BY <2>1 DEF LastBefore
  <2>3. <<a, b, "control">> \in Edges(region)
    BY <2>2, ControlOrder
  <2> QED BY <2>3, EdgeKept
<1> QED BY <1>1, Chain

(***************************************************************************)
(* A read keeps its side of every other write of the register.             *)
(***************************************************************************)
LEMMA ReadBehindWrite ==
    ASSUME Finished, NEW reg \in Registers, NEW w \in Writers(reg),
           NEW u \in DOMAIN region, reg \in Uses(region[u]), w < u
    PROVE  Position(w) < Position(u)
<1> DEFINE S == {c \in Writers(reg) : c < u}
<1>0. /\ Writers(reg) \subseteq 1 .. Len(region) /\ Len(region) \in Nat /\ u \in 1 .. Len(region)
      /\ DOMAIN region = 1 .. Len(region)
  BY Permuted DEF Writers
<1>1. PICK a \in S : \A m \in S : m <= a
  <2>1. u \in Nat /\ S \in SUBSET (1 .. u - 1) /\ S # {}
    BY <1>0
  <2> HIDE DEF S
  <2> QED BY <2>1, LastOne
<1>2. a \in LastWriter(region, u, reg)
  <2>1. a \in 1 .. u - 1 /\ reg \in Defs(region[a])
    BY <1>0, <1>1 DEF Writers
  <2>2. ASSUME NEW c \in a + 1 .. u - 1 PROVE reg \notin Defs(region[c])
    <3>1. c \in DOMAIN region /\ c < u /\ ~(c <= a)
      BY <1>0, <1>1, <2>2
    <3> QED BY <1>1, <3>1 DEF Writers
  <2> QED BY <2>1, <2>2 DEF LastWriter, LastBefore
<1>3. <<a, u, "RAW">> \in Edges(region)
  BY <1>2, WriterEdges
<1>4. Position(a) < Position(u)
  BY <1>0, <1>1, <1>3, EdgeKept
<1>5. w = a \/ Position(w) < Position(a)
  BY <1>0, <1>1, WritersInLine DEF InLine
<1>6. Position(w) \in Nat /\ Position(a) \in Nat /\ Position(u) \in Nat
  <2>1. w \in 1 .. Len(region) /\ a \in 1 .. Len(region) /\ u \in 1 .. Len(region)
    BY <1>0, <1>1
  <2>2. \A n \in 1 .. Len(region) : Position(n) \in 1 .. Len(region)
    BY Permuted
  <2> HIDE DEF S
  <2> QED BY <2>1, <2>2
<1> HIDE DEF S
<1> QED BY <1>4, <1>5, <1>6

LEMMA WriteBehindRead ==
    ASSUME Finished, NEW reg \in Registers, NEW w \in Writers(reg),
           NEW u \in DOMAIN region, reg \in Uses(region[u]), u < w
    PROVE  Position(u) < Position(w)
<1> DEFINE S == {c \in Writers(reg) : u <= c}
<1>0. /\ Writers(reg) \subseteq 1 .. Len(region) /\ Len(region) \in Nat /\ u \in 1 .. Len(region)
      /\ DOMAIN region = 1 .. Len(region)
  BY Permuted DEF Writers
<1>1. PICK a \in S : \A m \in S : a <= m
  <2>1. S \in SUBSET (Nat \ {0}) /\ S # {}
    BY <1>0
  <2> HIDE DEF S
  <2> QED BY <2>1, LeastNatural
<1>2. u = a \/ Position(u) < Position(a)
  <2>1. CASE u < a
    <3>1. ASSUME NEW c \in u .. a - 1 PROVE reg \notin Defs(region[c])
      <4>1. c \in DOMAIN region /\ u <= c /\ ~(a <= c)
        BY <1>0, <1>1, <3>1
      <4> QED BY <1>1, <4>1 DEF Writers
    <3>2. reg \in Uses(region[u]) \cap Defs(region[a]) /\ a \in DOMAIN region
      BY <1>1 DEF Writers
    <3> DEFINE e == <<u, a>>
    <3>3. e \in (DOMAIN region) \X (DOMAIN region) /\ e[1] = u /\ e[2] = a
      BY <3>2
    <3>4. <<u, a, "WAR">> \in AntiEdges(region)
      BY <2>1, <3>1, <3>2, <3>3 DEF AntiEdges
    <3>5. <<u, a, "WAR">> \in Edges(region)
      BY <3>4 DEF Edges
    <3> QED BY <3>2, <3>5, EdgeKept
  <2> QED BY <1>0, <1>1, <2>1
<1>3. w = a \/ Position(a) < Position(w)
  BY <1>0, <1>1, WritersInLine DEF InLine
<1>4. Position(w) \in Nat /\ Position(a) \in Nat /\ Position(u) \in Nat
  <2>1. w \in 1 .. Len(region) /\ a \in 1 .. Len(region) /\ u \in 1 .. Len(region)
    BY <1>0, <1>1
  <2>2. \A n \in 1 .. Len(region) : Position(n) \in 1 .. Len(region)
    BY Permuted
  <2> HIDE DEF S
  <2> QED BY <2>1, <2>2
<1>5. w \in Nat /\ u \in Nat
  BY <1>0
<1> HIDE DEF S
<1> QED BY <1>2, <1>3, <1>4, <1>5

(***************************************************************************)
(* The terminators stay where they are: everything else goes before them.  *)
(***************************************************************************)
LEMMA TerminatorPinned ==
    ASSUME Finished, NEW n \in DOMAIN region, Terminator(region[n])
    PROVE  placed[n] = n
<1> DEFINE X == {m \in DOMAIN region : Terminator(region[m])}
<1>0. Len(region) \in Nat /\ DOMAIN region = 1 .. Len(region) /\ n \in X
  BY Permuted
<1>1. \A a, b \in DOMAIN region : a < b /\ a \in X => b \in X
  BY TerminatorsAssumption DEF Finished, Built
<1>2. PICK t \in X : \A m \in X : t <= m
  <2>1. X \in SUBSET (Nat \ {0}) /\ X # {}
    BY <1>0
  <2> HIDE DEF X
  <2> QED BY <2>1, LeastNatural
<1>3. \A a, b \in X : a < b => Position(a) < Position(b)
  BY TerminatorsInLine DEF InLine
<1>4. ASSUME NEW m \in DOMAIN region, m < n PROVE Position(m) < Position(n)
  <2>1. CASE m < t
    <3>1. LastBefore(region, t, Terminator) = {}
      <4>1. \A a \in 1 .. t - 1 : a \in DOMAIN region /\ ~(t <= a)
        BY <1>0, <1>2
      <4>2. \A a \in 1 .. t - 1 : ~Terminator(region[a])
        BY <4>1, <1>2
      <4> QED BY <4>2 DEF LastBefore
    <3>2. m \in 1 .. t - 1 /\ t \in DOMAIN region /\ Terminator(region[t])
      BY <1>0, <2>1
    <3>3. <<m, t, "control">> \in Edges(region)
      BY <3>1, <3>2, ControlOrder
    <3>4. Position(m) < Position(t)
      BY <3>2, <3>3, EdgeKept
    <3>5. t = n \/ Position(t) < Position(n)
      BY <1>0, <1>2, <1>3
    <3>6. Position(m) \in Nat /\ Position(t) \in Nat /\ Position(n) \in Nat
      <4>1. \A k \in 1 .. Len(region) : Position(k) \in 1 .. Len(region)
        BY Permuted
      <4>2. m \in 1 .. Len(region) /\ t \in 1 .. Len(region) /\ n \in 1 .. Len(region)
        BY <1>0, <1>2
      <4> HIDE DEF X
      <4> QED BY <4>1, <4>2
    <3> QED BY <3>4, <3>5, <3>6
  <2>2. CASE ~(m < t)
    <3>1. m \in X
      BY <1>0, <1>1, <1>2, <2>2
    <3> QED BY <1>0, <1>3, <1>4, <3>1
  <2> QED BY <2>1, <2>2
<1>5. ASSUME NEW m \in DOMAIN region, n < m PROVE Position(n) < Position(m)
  BY <1>0, <1>1, <1>3, <1>5
<1>6. Position(n) = n
  <2> DEFINE f == [m \in 1 .. n - 1 |-> Position(m)]
  <2>1. Position(n) \in 1 .. Len(region) /\ n \in 1 .. Len(region)
    BY <1>0, Permuted
  <2>2. ASSUME NEW m \in 1 .. n - 1 PROVE m \in DOMAIN region /\ Position(m) \in 1 .. Position(n) - 1
    <3>1. m \in DOMAIN region /\ m < n
      BY <1>0, <2>1
    <3>2. Position(m) \in 1 .. Len(region) /\ Position(m) < Position(n)
      BY <1>0, <1>4, <3>1, Permuted
    <3> QED BY <2>1, <3>1, <3>2
  <2>3. ASSUME NEW a \in 1 .. n - 1, NEW b \in 1 .. n - 1, f[a] = f[b] PROVE a = b
    <3>1. a \in 1 .. Len(region) /\ b \in 1 .. Len(region) /\ Position(a) = Position(b)
      BY <1>0, <2>2, <2>3
    <3> QED BY <3>1, Permuted
  <2>4. ASSUME NEW k \in 1 .. Position(n) - 1 PROVE \E m \in 1 .. n - 1 : f[m] = k
    <3>1. k \in 1 .. Len(region) /\ k < Position(n)
      BY <1>0, <2>1
    <3>2. placed[k] \in DOMAIN region /\ Position(placed[k]) = k
      BY <1>0, <3>1, Permuted
    <3>3. placed[k] # n /\ ~(n < placed[k])
      BY <1>5, <2>1, <3>1, <3>2
    <3>4. placed[k] \in 1 .. n - 1
      BY <1>0, <2>1, <3>2, <3>3
    <3> QED BY <3>2, <3>4
  <2>5. f \in Bijection(1 .. n - 1, 1 .. Position(n) - 1)
    BY <2>2, <2>3, <2>4 DEF Bijection, Injection, Surjection, IsInjective
  <2>6. n - 1 \in Nat /\ Position(n) - 1 \in Nat
    BY <2>1
  <2>7. n - 1 = Position(n) - 1
    BY <2>5, <2>6, SameLength
  <2> QED BY <2>1, <2>7
<1> QED BY <1>0, <1>6, Permuted

(***************************************************************************)
(* What the check looks at: the code in an order, and the last writer in   *)
(* it of a register before a place.                                        *)
(***************************************************************************)
Code(order)             == [k \in DOMAIN order |-> region[order[k]]]
WriterOf(order, k, reg) == {order[a] : a \in LastWriter(Code(order), k, reg)}
Reads(order)            == UNION {{<<order[k], reg, WriterOf(order, k, reg)>> : reg \in Uses(Code(order)[k])} :
                                  k \in DOMAIN order}
Same                    == [n \in DOMAIN region |-> n]

LEMMA SourcesAre ==
    ASSUME NEW order
    PROVE  Sources(region, order) = <<Reads(order), [reg \in Registers |-> WriterOf(order, Len(order) + 1, reg)]>>
BY DEF Sources, Reads, WriterOf, Code

LEMMA InReads ==
    ASSUME NEW order, NEW e
    PROVE  e \in Reads(order) <=> \E k \in DOMAIN order : \E reg \in Uses(Code(order)[k]) :
                                      e = <<order[k], reg, WriterOf(order, k, reg)>>
BY DEF Reads

LEMMA LastWriterIs ==
    ASSUME NEW r, NEW b, NEW reg, NEW a
    PROVE  a \in LastWriter(r, b, reg) <=>
               a \in 1 .. b - 1 /\ reg \in Defs(r[a]) /\ \A c \in a + 1 .. b - 1 : reg \notin Defs(r[c])
BY DEF LastWriter, LastBefore

(***************************************************************************)
(* Two places with the same writers before them have the same last writer. *)
(***************************************************************************)
LEMMA SameWriter ==
    ASSUME Finished, NEW reg \in Registers,
           NEW k \in 1 .. Len(region) + 1, NEW n \in 1 .. Len(region) + 1,
           \A w \in Writers(reg) : w < n <=> Position(w) < k
    PROVE  WriterOf(placed, k, reg) = LastWriter(region, n, reg)
<1> DEFINE N == Len(region)
<1>0. /\ N \in Nat /\ DOMAIN region = 1 .. N /\ DOMAIN placed = 1 .. N
      /\ \A m \in 1 .. N : Position(m) \in 1 .. N /\ placed[Position(m)] = m
      /\ \A j \in 1 .. N : placed[j] \in 1 .. N /\ Position(placed[j]) = j
      /\ \A j \in 1 .. N : Code(placed)[j] = region[placed[j]]
  BY Permuted DEF Code
<1>1. \A j \in 1 .. N : reg \in Defs(Code(placed)[j]) <=> placed[j] \in Writers(reg)
  BY <1>0 DEF Writers
<1>2. \A m \in 1 .. N : reg \in Defs(region[m]) <=> m \in Writers(reg)
  BY <1>0 DEF Writers
<1>3. \A a, b \in Writers(reg) : a < b => Position(a) < Position(b)
  BY WritersInLine DEF InLine
<1>4. ASSUME NEW a \in LastWriter(Code(placed), k, reg) PROVE placed[a] \in LastWriter(region, n, reg)
  <2>1. a \in 1 .. k - 1 /\ reg \in Defs(Code(placed)[a]) /\ \A c \in a + 1 .. k - 1 : reg \notin Defs(Code(placed)[c])
    BY LastWriterIs
  <2>2. a \in 1 .. N /\ a < k /\ placed[a] \in 1 .. N
    BY <1>0, <2>1
  <2>3. placed[a] \in Writers(reg) /\ Position(placed[a]) = a
    BY <1>0, <1>1, <2>1, <2>2
  <2>4. placed[a] \in 1 .. n - 1
    BY <2>2, <2>3
  <2>5. ASSUME NEW c \in placed[a] + 1 .. n - 1, reg \in Defs(region[c]) PROVE FALSE
    <3>1. c \in 1 .. N /\ placed[a] < c /\ c < n
      BY <1>0, <2>2, <2>5
    <3>2. c \in Writers(reg)
      BY <1>2, <2>5, <3>1
    <3>3. a < Position(c) /\ Position(c) < k /\ Position(c) \in 1 .. N
      BY <1>0, <1>3, <2>3, <3>1, <3>2
    <3>4. Position(c) \in a + 1 .. k - 1
      BY <2>2, <3>3
    <3>5. reg \in Defs(Code(placed)[Position(c)])
      BY <1>0, <1>1, <3>1, <3>2, <3>3
    <3> QED BY <2>1, <3>4, <3>5
  <2>6. reg \in Defs(region[placed[a]])
    BY <1>2, <2>2, <2>3
  <2> QED BY <2>4, <2>5, <2>6, LastWriterIs
<1>5. ASSUME NEW m \in LastWriter(region, n, reg) PROVE Position(m) \in LastWriter(Code(placed), k, reg) /\ placed[Position(m)] = m
  <2>1. m \in 1 .. n - 1 /\ reg \in Defs(region[m]) /\ \A c \in m + 1 .. n - 1 : reg \notin Defs(region[c])
    BY LastWriterIs
  <2>2. m \in 1 .. N /\ m < n
    BY <1>0, <2>1
  <2>3. m \in Writers(reg) /\ Position(m) \in 1 .. N /\ placed[Position(m)] = m
    BY <1>0, <1>2, <2>1, <2>2
  <2>4. Position(m) \in 1 .. k - 1
    BY <2>2, <2>3
  <2>5. ASSUME NEW j \in Position(m) + 1 .. k - 1, reg \in Defs(Code(placed)[j]) PROVE FALSE
    <3>1. j \in 1 .. N /\ Position(m) < j /\ j < k
      BY <1>0, <2>3, <2>5
    <3>2. placed[j] \in Writers(reg) /\ Position(placed[j]) = j /\ placed[j] \in 1 .. N
      BY <1>0, <1>1, <2>5, <3>1
    <3>3. placed[j] < n
      BY <3>1, <3>2
    <3>4. ~(placed[j] < m) /\ placed[j] # m
      BY <1>3, <2>3, <3>1, <3>2
    <3>5. placed[j] \in m + 1 .. n - 1
      BY <2>2, <3>2, <3>3, <3>4
    <3>6. reg \in Defs(region[placed[j]])
      BY <1>2, <3>2
    <3> QED BY <2>1, <3>5, <3>6
  <2>6. reg \in Defs(Code(placed)[Position(m)])
    BY <1>1, <2>3
  <2>7. Position(m) \in LastWriter(Code(placed), k, reg)
    BY <2>4, <2>5, <2>6, LastWriterIs
  <2> QED BY <2>3, <2>7
<1> QED BY <1>4, <1>5 DEF WriterOf

(***************************************************************************)
(* In the original order the last writer is the region's.                  *)
(***************************************************************************)
LEMMA OriginalWriter ==
    ASSUME Finished, NEW reg, NEW n \in 1 .. Len(region) + 1
    PROVE  WriterOf(Same, n, reg) = LastWriter(region, n, reg)
<1>0. Len(region) \in Nat /\ DOMAIN region = 1 .. Len(region)
  BY Permuted
<1>1. \A m \in 1 .. n - 1 : m \in DOMAIN region /\ Same[m] = m /\ Code(Same)[m] = region[m]
  BY <1>0 DEF Same, Code
<1>2. ASSUME NEW a PROVE a \in LastWriter(Code(Same), n, reg) <=> a \in LastWriter(region, n, reg)
  <2>1. ASSUME NEW m \in 1 .. n - 1 PROVE
            (\A c \in m + 1 .. n - 1 : reg \notin Defs(Code(Same)[c]))
            <=> \A c \in m + 1 .. n - 1 : reg \notin Defs(region[c])
    <3>1. \A c \in m + 1 .. n - 1 : c \in 1 .. n - 1
      BY <2>1
    <3> QED BY <1>1, <3>1
  <2>2. CASE a \in 1 .. n - 1
    BY <1>1, <2>1, <2>2, LastWriterIs
  <2>3. CASE a \notin 1 .. n - 1
    BY <2>3, LastWriterIs
  <2> QED BY <2>2, <2>3
<1>3. \A a \in LastWriter(region, n, reg) : Same[a] = a
  BY <1>1, LastWriterIs
<1> QED BY <1>2, <1>3 DEF WriterOf

(***************************************************************************)
(* Every read and every register at the end has its writer.                *)
(***************************************************************************)
LEMMA SourcesKept ==
    ASSUME Finished
    PROVE  Sources(region, placed) = Sources(region, Same)
<1> DEFINE N == Len(region)
<1>0. /\ N \in Nat /\ DOMAIN region = 1 .. N /\ DOMAIN placed = 1 .. N /\ Len(placed) = N
      /\ \A m \in 1 .. N : Position(m) \in 1 .. N /\ placed[Position(m)] = m
      /\ \A j \in 1 .. N : placed[j] \in 1 .. N /\ Position(placed[j]) = j
  BY Permuted
<1>1. DOMAIN Same = 1 .. N /\ Len(Same) = N /\ \A m \in 1 .. N : Same[m] = m
  <2>1. Same = [m \in 1 .. N |-> m]
    BY <1>0 DEF Same
  <2>2. Same \in Seq(1 .. N)
    BY <1>0, <2>1
  <2> QED BY <1>0, <2>1, <2>2
<1>2. /\ \A j \in 1 .. N : Code(placed)[j] = region[placed[j]]
      /\ \A m \in 1 .. N : Code(Same)[m] = region[m]
  BY <1>0, <1>1 DEF Code
<1>3. ASSUME NEW m \in 1 .. N, NEW reg \in Uses(region[m])
      PROVE  WriterOf(placed, Position(m), reg) = WriterOf(Same, m, reg)
  <2>1. reg \in Registers
    <3>1. IsInstruction(region[m])
      BY <1>0, <1>3, RegionsAssumption DEF Finished, Built
    <3> QED BY <3>1, <1>3 DEF IsInstruction
  <2>2. m \in 1 .. N + 1 /\ Position(m) \in 1 .. N + 1
    BY <1>0
  <2>3. ASSUME NEW w \in Writers(reg) PROVE w < m <=> Position(w) < Position(m)
    <3>1. w \in 1 .. N
      BY <1>0 DEF Writers
    <3>2. w < m => Position(w) < Position(m)
      BY <1>0, <2>1, ReadBehindWrite
    <3>3. m < w => Position(m) < Position(w)
      BY <1>0, <2>1, WriteBehindRead
    <3> QED BY <1>0, <3>1, <3>2, <3>3
  <2>4. WriterOf(placed, Position(m), reg) = LastWriter(region, m, reg)
    BY <2>1, <2>2, <2>3, SameWriter
  <2> QED BY <2>2, <2>4, OriginalWriter
<1>4. Reads(placed) = Reads(Same)
  <2>1. ASSUME NEW e \in Reads(placed) PROVE e \in Reads(Same)
    <3>0. \E k \in DOMAIN placed : \E reg \in Uses(Code(placed)[k]) : e = <<placed[k], reg, WriterOf(placed, k, reg)>>
      BY InReads, Zenon
    <3>1. PICK k \in 1 .. N : \E reg \in Uses(Code(placed)[k]) : e = <<placed[k], reg, WriterOf(placed, k, reg)>>
      BY <1>0, <3>0, Zenon
    <3>2. PICK reg \in Uses(region[placed[k]]) : e = <<placed[k], reg, WriterOf(placed, k, reg)>>
      BY <1>2, <3>1
    <3>3. placed[k] \in 1 .. N /\ Position(placed[k]) = k
      BY <1>0
    <3>4. e = <<Same[placed[k]], reg, WriterOf(Same, placed[k], reg)>> /\ reg \in Uses(Code(Same)[placed[k]])
      BY <1>1, <1>2, <1>3, <3>2, <3>3
    <3> QED BY <1>1, <3>3, <3>4, InReads
  <2>2. ASSUME NEW e \in Reads(Same) PROVE e \in Reads(placed)
    <3>1. PICK m \in 1 .. N : \E reg \in Uses(Code(Same)[m]) : e = <<Same[m], reg, WriterOf(Same, m, reg)>>
      BY <1>1, InReads
    <3>2. PICK reg \in Uses(region[m]) : e = <<m, reg, WriterOf(Same, m, reg)>>
      BY <1>1, <1>2, <3>1
    <3>3. Position(m) \in 1 .. N /\ placed[Position(m)] = m
      BY <1>0
    <3>4. e = <<placed[Position(m)], reg, WriterOf(placed, Position(m), reg)>> /\ reg \in Uses(Code(placed)[Position(m)])
      BY <1>2, <1>3, <3>2, <3>3
    <3> QED BY <1>0, <3>3, <3>4, InReads
  <2> QED BY <2>1, <2>2
<1>5. ASSUME NEW reg \in Registers PROVE WriterOf(placed, Len(placed) + 1, reg) = WriterOf(Same, Len(Same) + 1, reg)
  <2>1. N + 1 \in 1 .. N + 1
    BY <1>0
  <2>2. \A w \in Writers(reg) : w < N + 1 <=> Position(w) < N + 1
    <3>1. \A w \in Writers(reg) : w \in 1 .. N /\ Position(w) \in 1 .. N
      BY <1>0 DEF Writers
    <3> QED BY <1>0, <3>1
  <2>3. WriterOf(placed, N + 1, reg) = LastWriter(region, N + 1, reg)
    BY <2>1, <2>2, SameWriter
  <2>4. WriterOf(Same, N + 1, reg) = LastWriter(region, N + 1, reg)
    BY <2>1, OriginalWriter
  <2> QED BY <1>0, <1>1, <2>3, <2>4
<1> QED BY <1>4, <1>5, SourcesAre

(***************************************************************************)
(* So the check accepts the order.                                         *)
(***************************************************************************)
LEMMA FinishedVerified ==
    ASSUME Finished
    PROVE  Verified(region, placed)
<1>0. /\ Len(region) \in Nat /\ DOMAIN region = 1 .. Len(region) /\ DOMAIN placed = 1 .. Len(region)
      /\ Len(placed) = Len(region)
      /\ \A m \in 1 .. Len(region) : Position(m) \in 1 .. Len(region) /\ placed[Position(m)] = m
      /\ \A j \in 1 .. Len(region) : placed[j] \in 1 .. Len(region) /\ Position(placed[j]) = j
  BY Permuted
<1>1. {placed[k] : k \in DOMAIN placed} = DOMAIN region
  BY <1>0
<1>2. Sources(region, placed) = Sources(region, [n \in DOMAIN region |-> n])
  BY SourcesKept DEF Same
<1>3. ASSUME NEW X \in SUBSET DOMAIN region, InLine(X) PROVE InOrder(placed, X)
  <2>1. ASSUME NEW j \in DOMAIN placed, NEW k \in DOMAIN placed,
               j < k, placed[j] \in X, placed[k] \in X
        PROVE  placed[j] < placed[k]
    <3>1. placed[k] < placed[j] => k < j
      BY <1>0, <1>3, <2>1 DEF InLine
    <3>2. placed[j] # placed[k]
      BY <1>0, <2>1
    <3> QED BY <1>0, <2>1, <3>1, <3>2
  <2> QED BY <2>1 DEF InOrder
<1>4. InOrder(placed, {n \in DOMAIN region : Memory(region[n])})
  BY <1>3, MemoryInLine
<1>5. InOrder(placed, {n \in DOMAIN region : FpFlags(region[n])})
  BY <1>3, FlagsInLine
<1> QED BY <1>0, <1>1, <1>2, <1>4, <1>5, TerminatorPinned DEF Verified

(***************************************************************************)
(* verify_schedule() never throws a schedule away: the graph orders enough *)
(* for every read to keep its writer, every terminator its place and every *)
(* memory access and flag effect its order.                                *)
(***************************************************************************)
THEOREM CandidateVerified == SchedulerSpec => []CandidateAccepted
<1>1. SchedulerInit => Built
  BY DEF SchedulerInit, Built
<1>2. Built /\ [SchedulerNext]_schedulerVars => Built'
  BY DEF Built, SchedulerNext, Pick, schedulerVars
<1>3. IInv /\ Built => CandidateAccepted
  BY FinishedVerified DEF Finished, CandidateAccepted
<1> QED BY <1>1, <1>2, <1>3, InitIInv, StepIInv, PTL DEF SchedulerSpec

-----------------------------------------------------------------------------
(***************************************************************************)
(* A run of the region, one instruction after the other.                   *)
(***************************************************************************)
Advanced(m, n) == IF Terminator(region[n]) THEN m ELSE Stepped(region, [m EXCEPT !.at = n])
Ran(order, regs, f) ==
    /\ DOMAIN f = 0 .. Len(order) /\ f[0] = Begun(regs)
    /\ \A k \in 1 .. Len(order) : f[k] = Advanced(f[k-1], order[k])

(***************************************************************************)
(* The recursion of RunOf, unfolded.                                       *)
(***************************************************************************)
LEMMA RunIs ==
    ASSUME NEW order, NEW regs, Len(order) \in Nat
    PROVE  \E f : Ran(order, regs, f) /\ RunOf(region, order, regs) = f[Len(order)]
<1> DEFINE N == Len(order)
           At0(f, k) == CASE k = 0 -> Begun(regs)
                        [] k > 0 /\ Terminator(region[order[k]]) -> f[k-1]
                        [] OTHER -> Stepped(region, [f[k-1] EXCEPT !.at = order[k]])
           Described(n, f) == f = [k \in 0 .. n |-> At0(f, k)]
           Undescribed == {n \in Nat : ~ \E f : Described(n, f)}
<1>1. Undescribed = {}
  <2> SUFFICES ASSUME Undescribed # {} PROVE FALSE
    OBVIOUS
  <2>1. PICK n \in Undescribed : \A m \in Undescribed : n <= m
    <3> HIDE DEF Described
    <3> QED BY LeastNatural
  <2>2. CASE n = 0
    <3> DEFINE f == [k \in 0 .. 0 |-> Begun(regs)]
    <3>1. Described(0, f)
      <4>1. \A k \in 0 .. 0 : k = 0
        OBVIOUS
      <4>2. \A k \in 0 .. 0 : At0(f, k) = Begun(regs)
        BY <4>1
      <4> HIDE DEF At0
      <4> QED BY <4>2
    <3> HIDE DEF Described, f
    <3> QED BY <2>1, <2>2, <3>1
  <2>3. CASE n # 0
    <3>1. n - 1 \in Nat /\ n \in Nat /\ ~(n <= n - 1)
      BY <2>1, <2>3
    <3>2. PICK f : Described(n - 1, f)
      BY <2>1, <3>1
    <3> DEFINE h == [k \in 0 .. n |-> IF k = n THEN At0(f, n) ELSE f[k]]
    <3>3. \A k \in 0 .. n : h[k] = At0(h, k)
      <4>1. \A k \in 0 .. n : k # 0 => k - 1 \in 0 .. n /\ k - 1 # n
        BY <3>1
      <4>2. \A k \in 0 .. n : k # 0 => h[k - 1] = f[k - 1]
        BY <4>1
      <4>3. \A k \in 0 .. n : At0(h, k) = At0(f, k)
        <5> HIDE DEF h
        <5> QED BY <4>2
      <4>4. \A k \in 0 .. n : k # n => k \in 0 .. (n - 1)
        BY <3>1
      <4>5. \A k \in 0 .. n : k # n => f[k] = At0(f, k)
        <5> HIDE DEF At0
        <5> QED BY <3>2, <4>4
      <4> HIDE DEF At0
      <4> QED BY <4>3, <4>5
    <3>4. Described(n, h)
      <4>1. h = [k \in 0 .. n |-> h[k]]
        OBVIOUS
      <4> HIDE DEF h, At0
      <4> QED BY <3>3, <4>1
    <3> HIDE DEF Described, h
    <3> QED BY <2>1, <3>4
  <2> QED BY <2>2, <2>3
<1> DEFINE machine == CHOOSE f : Described(N, f)
<1>2. RunOf(region, order, regs) = machine[N]
  BY DEF RunOf
<1>3. Described(N, machine)
  <2>1. \E f : Described(N, f)
    <3> HIDE DEF Described
    <3> QED BY <1>1
  <2> HIDE DEF Described
  <2> QED BY <2>1
<1> HIDE DEF machine
<1>4. Ran(order, regs, machine)
  <2>1. \A k \in 1 .. N : k \in 0 .. N /\ k > 0 /\ k # 0
    OBVIOUS
  <2>2. 0 \in 0 .. N
    OBVIOUS
  <2>3. \A k \in 1 .. N : machine[k] = At0(machine, k)
    <3> HIDE DEF At0
    <3> QED BY <1>3, <2>1
  <2>4. machine[0] = Begun(regs)
    <3>1. At0(machine, 0) = Begun(regs)
      OBVIOUS
    <3> HIDE DEF At0
    <3> QED BY <1>3, <2>2, <3>1
  <2>5. \A k \in 1 .. N : At0(machine, k) = Advanced(machine[k-1], order[k])
    BY <2>1 DEF Advanced
  <2>6. DOMAIN machine = 0 .. N
    <3> HIDE DEF At0
    <3> QED BY <1>3
  <2> HIDE DEF At0
  <2> QED BY <2>3, <2>4, <2>5, <2>6 DEF Ran
<1> QED BY <1>2, <1>4

-----------------------------------------------------------------------------
(***************************************************************************)
(* One instruction changes the registers it writes, memory if it stores,   *)
(* and both by what it reads.                                              *)
(***************************************************************************)
IsMachine(m) ==
    /\ m = [at |-> m.at, regs |-> m.regs, mem |-> m.mem]
    /\ m.regs = [reg \in Registers |-> m.regs[reg]]

(***************************************************************************)
(* An operand reads a register the instruction uses, or zero.              *)
(***************************************************************************)
LEMMA OperandsRead ==
    ASSUME NEW l, NEW one, NEW two, \A reg \in Uses(l) : one[reg] = two[reg], NEW k \in DOMAIN l.rs
    PROVE  Read(one, l.rs[k]) = Read(two, l.rs[k])
BY DEF Uses, Read

(***************************************************************************)
(* A result depends on the registers used, and on memory for a load.       *)
(***************************************************************************)
LEMMA ResultRead ==
    ASSUME NEW l, IsInstruction(l), l.rd # none,
           NEW one, NEW two, \A reg \in Uses(l) : one[reg] = two[reg],
           NEW m1, NEW m2, Memory(l) => m1 = m2
    PROVE  Result(l, one, m1) = Result(l, two, m2)
<1>1. l.op \in {"addi", "mv", "lw", "add", "fadd", "div", "li", "lui"}
  BY DEF IsInstruction, Operands
<1>2. CASE l.op \in {"add", "fadd", "div"}
  <2>1. 1 \in DOMAIN l.rs /\ 2 \in DOMAIN l.rs
    BY <1>2 DEF IsInstruction, Operands
  <2>2. Read(one, l.rs[1]) = Read(two, l.rs[1]) /\ Read(one, l.rs[2]) = Read(two, l.rs[2])
    BY <2>1, OperandsRead
  <2> QED BY <1>2, <2>2 DEF Result
<1>3. CASE l.op \in {"addi", "mv"}
  <2>1. 1 \in DOMAIN l.rs
    BY <1>3 DEF IsInstruction, Operands
  <2>2. Read(one, l.rs[1]) = Read(two, l.rs[1])
    BY <2>1, OperandsRead
  <2> QED BY <1>3, <2>2 DEF Result
<1>4. CASE l.op = "lw"
  <2>1. Len(l.rs) \in DOMAIN l.rs
    BY <1>4 DEF IsInstruction, Operands
  <2>2. Read(one, l.rs[Len(l.rs)]) = Read(two, l.rs[Len(l.rs)])
    BY <2>1, OperandsRead
  <2> QED BY <1>4, <2>2 DEF Result, Address, Memory
<1>5. CASE l.op \in {"li", "lui"}
  BY <1>5 DEF Result
<1> QED BY <1>1, <1>2, <1>3, <1>4, <1>5

Follows(n, m, new) ==
    /\ IsMachine(new)
    /\ \A reg \in Registers \ Defs(region[n]) : new.regs[reg] = m.regs[reg]
    /\ \A reg \in Registers \cap Defs(region[n]) :
          region[n].rd # none /\ new.regs[reg] = Word(Result(region[n], m.regs, m.mem))
    /\ region[n].op # "sw" => new.mem = m.mem
    /\ region[n].op = "sw" =>
          new.mem = [m.mem EXCEPT ![Address(m.regs, region[n])] = Read(m.regs, region[n].rs[1])]

(***************************************************************************)
(* A step is what Follows says.                                            *)
(***************************************************************************)
LEMMA OneInstruction ==
    ASSUME NEW n, IsInstruction(region[n]), NEW m, IsMachine(m)
    PROVE  Follows(n, m, Advanced(m, n))
<1> DEFINE new == Advanced(m, n)
           l == region[n]
           here == [m EXCEPT !.at = n]
<1>1. l.op \in {"addi", "mv", "lw", "add", "fadd", "div", "li", "lui", "sw", "nop", "beq", "j", "ret"}
  BY DEF IsInstruction, Operands
<1>2. here.at = n /\ here.regs = m.regs /\ here.mem = m.mem
  BY DEF IsMachine
<1>3. l.op \in {"sw", "nop", "beq", "j", "ret"} => Defs(l) = {}
  BY DEF IsInstruction, Defs
<1>4. CASE l.op \in {"beq", "j", "ret"}
  <2>1. new = m
    BY <1>4 DEF Advanced, Terminator
  <2> QED BY <1>3, <1>4, <2>1 DEF Follows
<1>5. CASE l.op = "nop"
  <2>1. new = [here EXCEPT !.at = @ + 1]
    BY <1>2, <1>5 DEF Advanced, Terminator, Stepped, Taken
  <2> QED BY <1>2, <1>3, <1>5, <2>1 DEF IsMachine, Follows
<1>6. CASE l.op = "sw"
  <2>1. new = [here EXCEPT !.at = @ + 1,
                           !.mem[Address(here.regs, region[here.at])] = Read(here.regs, region[here.at].rs[1])]
    <3>1. new = Stepped(region, here)
      BY <1>6 DEF Advanced, Terminator
    <3>2. region[here.at].op = "sw" /\ region[here.at] = l
      BY <1>2, <1>6
    <3> HIDE DEF here, l, new
    <3>3. Stepped(region, here) =
            [here EXCEPT !.at = @ + 1,
                         !.mem[Address(here.regs, region[here.at])] = Read(here.regs, region[here.at].rs[1])]
      BY <3>2 DEF Stepped, Taken, none
    <3> QED BY <3>1, <3>3
  <2>2. new.regs = m.regs /\ new.mem = [m.mem EXCEPT ![Address(m.regs, l)] = Read(m.regs, l.rs[1])]
    BY <1>2, <2>1 DEF IsMachine
  <2>3. IsMachine(new)
    BY <1>2, <2>1, <2>2 DEF IsMachine
  <2> QED BY <1>3, <1>6, <2>2, <2>3 DEF Follows
<1>7. CASE l.op \in {"addi", "mv", "lw", "add", "fadd", "div", "li", "lui"}
  <2>1. new = [here EXCEPT !.at = @ + 1, !.regs = Written(l, here.regs, here.mem)]
    BY <1>2, <1>7 DEF Advanced, Terminator, Stepped, Taken, none
  <2>2. new.regs = Written(l, m.regs, m.mem) /\ new.mem = m.mem
    BY <1>2, <2>1 DEF IsMachine
  <2>3. IsMachine(new)
    BY <1>2, <2>1, <2>2 DEF IsMachine, Written
  <2>4. Defs(l) # {} => l.rd # none
    BY DEF Defs
  <2> QED BY <1>7, <2>2, <2>3, <2>4 DEF Written, Follows
<1> QED BY <1>1, <1>4, <1>5, <1>6, <1>7

(***************************************************************************)
(* What is not written stays.                                              *)
(***************************************************************************)
LEMMA Leaves ==
    ASSUME NEW n, IsInstruction(region[n]), NEW m, IsMachine(m)
    PROVE  /\ IsMachine(Advanced(m, n))
           /\ \A reg \in Registers \ Defs(region[n]) : Advanced(m, n).regs[reg] = m.regs[reg]
           /\ ~Memory(region[n]) => Advanced(m, n).mem = m.mem
<1> DEFINE new == Advanced(m, n)
<1>1. Follows(n, m, new)
  BY OneInstruction
<1> HIDE DEF new
<1>2. IsMachine(new) /\ \A reg \in Registers \ Defs(region[n]) : new.regs[reg] = m.regs[reg]
  BY <1>1 DEF Follows
<1>3. ~Memory(region[n]) => new.mem = m.mem
  BY <1>1 DEF Follows, Memory
<1> QED BY <1>2, <1>3 DEF new

(***************************************************************************)
(* Two machines that agree on what an instruction reads agree on what it   *)
(* writes.                                                                 *)
(***************************************************************************)
LEMMA SameEffect ==
    ASSUME NEW n, IsInstruction(region[n]), NEW m1, IsMachine(m1), NEW m2, IsMachine(m2),
           \A reg \in Uses(region[n]) : m1.regs[reg] = m2.regs[reg],
           Memory(region[n]) => m1.mem = m2.mem
    PROVE  /\ \A reg \in Registers \cap Defs(region[n]) : Advanced(m1, n).regs[reg] = Advanced(m2, n).regs[reg]
           /\ Memory(region[n]) => Advanced(m1, n).mem = Advanced(m2, n).mem
<1> DEFINE l == region[n]
<1>1. ASSUME NEW reg \in Registers, reg \in Defs(l)
      PROVE  Advanced(m1, n).regs[reg] = Advanced(m2, n).regs[reg]
  <2>1. l.rd # none /\ Advanced(m1, n).regs[reg] = Word(Result(l, m1.regs, m1.mem))
        /\ Advanced(m2, n).regs[reg] = Word(Result(l, m2.regs, m2.mem))
    <3>1. reg \in Registers \cap Defs(region[n])
      BY <1>1
    <3>2. ASSUME NEW m, IsMachine(m) PROVE l.rd # none /\ Advanced(m, n).regs[reg] = Word(Result(l, m.regs, m.mem))
      <4>1. Follows(n, m, Advanced(m, n))
        BY <3>2, OneInstruction
      <4>2. \A r \in Registers \cap Defs(region[n]) :
              region[n].rd # none /\ Advanced(m, n).regs[r] = Word(Result(region[n], m.regs, m.mem))
        BY <4>1 DEF Follows
      <4> QED BY <3>1, <4>2
    <3> QED BY <3>2
  <2>2. Result(l, m1.regs, m1.mem) = Result(l, m2.regs, m2.mem)
    <3>1. IsInstruction(l) /\ (\A r \in Uses(l) : m1.regs[r] = m2.regs[r]) /\ (Memory(l) => m1.mem = m2.mem)
      OBVIOUS
    <3> HIDE DEF l
    <3> QED BY <2>1, <3>1, ResultRead
  <2> QED BY <2>1, <2>2
<1>2. ASSUME Memory(l) PROVE Advanced(m1, n).mem = Advanced(m2, n).mem
  <2>1. CASE l.op = "sw"
    <3>1. 1 \in DOMAIN l.rs /\ Len(l.rs) \in DOMAIN l.rs
      BY <2>1 DEF IsInstruction, Operands
    <3>2. Read(m1.regs, l.rs[1]) = Read(m2.regs, l.rs[1]) /\ Address(m1.regs, l) = Address(m2.regs, l)
      <4>1. \A k \in DOMAIN l.rs : Read(m1.regs, l.rs[k]) = Read(m2.regs, l.rs[k])
        BY OperandsRead
      <4> QED BY <3>1, <4>1 DEF Address
    <3>3. ASSUME NEW m, IsMachine(m)
          PROVE  Advanced(m, n).mem = [m.mem EXCEPT ![Address(m.regs, l)] = Read(m.regs, l.rs[1])]
      <4>1. Follows(n, m, Advanced(m, n))
        BY <3>3, OneInstruction
      <4> QED BY <2>1, <4>1 DEF Follows
    <3>4. /\ Advanced(m1, n).mem = [m1.mem EXCEPT ![Address(m1.regs, l)] = Read(m1.regs, l.rs[1])]
          /\ Advanced(m2, n).mem = [m2.mem EXCEPT ![Address(m2.regs, l)] = Read(m2.regs, l.rs[1])]
      BY <3>3
    <3>5. m1.mem = m2.mem
      BY <1>2
    <3> HIDE DEF l
    <3> QED BY <3>2, <3>4, <3>5
  <2>2. CASE l.op # "sw"
    <3>1. ASSUME NEW m, IsMachine(m) PROVE Advanced(m, n).mem = m.mem
      <4>1. Follows(n, m, Advanced(m, n))
        BY <3>1, OneInstruction
      <4> QED BY <2>2, <4>1 DEF Follows
    <3> QED BY <1>2, <3>1
  <2> QED BY <2>1, <2>2
<1> QED BY <1>1, <1>2

-----------------------------------------------------------------------------
(***************************************************************************)
(* Registers nobody writes and memory nobody accesses stay.                *)
(***************************************************************************)
Runs(order, regs, f) ==
    /\ region \in Regions /\ regs \in Starts
    /\ Len(order) = Len(region) /\ \A k \in 1 .. Len(region) : order[k] \in 1 .. Len(region)
    /\ Ran(order, regs, f)

(***************************************************************************)
(* All along a run the machine is one.                                     *)
(***************************************************************************)
LEMMA RunningRegion ==
    ASSUME NEW order, NEW regs, NEW f, Runs(order, regs, f)
    PROVE  /\ Len(region) \in Nat /\ DOMAIN region = 1 .. Len(region)
           /\ \A n \in 1 .. Len(region) : IsInstruction(region[n])
           /\ f[0] = Begun(regs)
           /\ \A k \in 1 .. Len(region) : k - 1 \in 0 .. Len(region) /\ f[k] = Advanced(f[k-1], order[k])
           /\ \A k \in 0 .. Len(region) : IsMachine(f[k])
<1> DEFINE N == Len(region)
           Broken == {k \in 0 .. N : ~IsMachine(f[k])}
<1>1. /\ N \in Nat /\ DOMAIN region = 1 .. N
      /\ \A n \in 1 .. N : IsInstruction(region[n])
      /\ f[0] = Begun(regs)
      /\ \A k \in 1 .. N : k - 1 \in 0 .. N /\ f[k] = Advanced(f[k-1], order[k])
  BY RegionsAssumption DEF Runs, Ran
<1>2. Broken = {}
  <2> SUFFICES ASSUME Broken # {} PROVE FALSE
    OBVIOUS
  <2>1. PICK k \in Broken : \A j \in Broken : k <= j
    <3>1. Broken \in SUBSET Nat
      BY <1>1
    <3> HIDE DEF Broken
    <3> QED BY <3>1, LeastNatural
  <2>2. CASE k = 0
    <3>1. regs = [reg \in Registers |-> regs[reg]]
      BY StartsAssumption DEF Runs
    <3>2. IsMachine(f[0])
      BY <1>1, <3>1 DEF IsMachine, Begun
    <3> QED BY <2>1, <2>2, <3>2
  <2>3. CASE k # 0
    <3>1. k \in 1 .. N /\ ~(k <= k - 1)
      BY <1>1, <2>1, <2>3
    <3>2. IsMachine(f[k-1]) /\ f[k] = Advanced(f[k-1], order[k]) /\ IsInstruction(region[order[k]])
      BY <1>1, <2>1, <3>1 DEF Runs
    <3>3. IsMachine(f[k])
      BY <3>2, Leaves
    <3> QED BY <2>1, <3>3
  <2> QED BY <2>2, <2>3
<1> QED BY <1>1, <1>2

(***************************************************************************)
(* Between two places of a run: by the first place that is different.      *)
(***************************************************************************)
LEMMA Stays ==
    ASSUME NEW order, NEW regs, NEW f, Runs(order, regs, f),
           NEW a \in 0 .. Len(region), NEW b \in 0 .. Len(region), a <= b
    PROVE  /\ \A reg \in Registers : (\A c \in a + 1 .. b : reg \notin Defs(region[order[c]])) =>
                                        f[b].regs[reg] = f[a].regs[reg]
           /\ (\A c \in a + 1 .. b : ~Memory(region[order[c]])) => f[b].mem = f[a].mem
<1> DEFINE N == Len(region)
           Quiet(d) == /\ \A reg \in Registers : (\A c \in a + 1 .. d : reg \notin Defs(region[order[c]])) =>
                                                    f[d].regs[reg] = f[a].regs[reg]
                       /\ (\A c \in a + 1 .. d : ~Memory(region[order[c]])) => f[d].mem = f[a].mem
           Loud == {d \in a .. N : ~Quiet(d)}
<1>1. /\ N \in Nat /\ \A n \in 1 .. N : IsInstruction(region[n]) /\ order[n] \in 1 .. N
      /\ \A k \in 1 .. N : f[k] = Advanced(f[k-1], order[k])
      /\ \A k \in 0 .. N : IsMachine(f[k])
  BY RunningRegion DEF Runs
<1>2. Loud = {}
  <2> SUFFICES ASSUME Loud # {} PROVE FALSE
    OBVIOUS
  <2>1. PICK d \in Loud : \A e \in Loud : d <= e
    <3>1. Loud \in SUBSET Nat
      BY <1>1
    <3> HIDE DEF Loud
    <3> QED BY <3>1, LeastNatural
  <2>2. d # a
    BY <2>1
  <2>3. d \in 1 .. N /\ d - 1 \in a .. N /\ d - 1 \in 0 .. N /\ ~(d <= d - 1) /\ d \in a + 1 .. d
    BY <1>1, <2>1, <2>2
  <2>4. Quiet(d - 1)
    <3> HIDE DEF Quiet
    <3> QED BY <2>1, <2>3
  <2>5. a + 1 .. d - 1 \subseteq a + 1 .. d
    BY <2>3
  <2>6. f[d] = Advanced(f[d-1], order[d]) /\ IsMachine(f[d-1]) /\ IsInstruction(region[order[d]])
    BY <1>1, <2>3
  <2>7. /\ \A reg \in Registers \ Defs(region[order[d]]) : f[d].regs[reg] = f[d-1].regs[reg]
        /\ ~Memory(region[order[d]]) => f[d].mem = f[d-1].mem
    BY <2>6, Leaves
  <2>8. ASSUME NEW reg \in Registers, \A c \in a + 1 .. d : reg \notin Defs(region[order[c]])
        PROVE  f[d].regs[reg] = f[a].regs[reg]
    BY <2>3, <2>4, <2>5, <2>7, <2>8
  <2>9. ASSUME \A c \in a + 1 .. d : ~Memory(region[order[c]])
        PROVE  f[d].mem = f[a].mem
    BY <2>3, <2>4, <2>5, <2>7, <2>9
  <2>10. Quiet(d)
    BY <2>8, <2>9
  <2> HIDE DEF Quiet
  <2> QED BY <2>1, <2>10
<1>3. b \in a .. N
  BY <1>1
<1>4. Quiet(b)
  <2> HIDE DEF Quiet
  <2> QED BY <1>2, <1>3
<1> QED BY <1>4

(***************************************************************************)
(* The same of one register,                                               *)
(***************************************************************************)
LEMMA RegisterStays ==
    ASSUME NEW order, NEW regs, NEW f, Runs(order, regs, f),
           NEW a \in 0 .. Len(region), NEW b \in 0 .. Len(region), a <= b, NEW reg \in Registers,
           \A c \in a + 1 .. b : reg \notin Defs(region[order[c]])
    PROVE  f[b].regs[reg] = f[a].regs[reg]
BY Stays

(***************************************************************************)
(* and of memory.                                                          *)
(***************************************************************************)
LEMMA MemoryStays ==
    ASSUME NEW order, NEW regs, NEW f, Runs(order, regs, f),
           NEW a \in 0 .. Len(region), NEW b \in 0 .. Len(region), a <= b,
           \A c \in a + 1 .. b : ~Memory(region[order[c]])
    PROVE  f[b].mem = f[a].mem
BY Stays

(***************************************************************************)
(* There is no writer before a place, or one is the last.                  *)
(***************************************************************************)
LEMMA WriterCases ==
    ASSUME NEW order, NEW N \in Nat, DOMAIN order = 1 .. N, NEW p \in 1 .. N + 1, NEW reg
    PROVE  \/ WriterOf(order, p, reg) = {} /\ \A c \in 1 .. p - 1 : reg \notin Defs(region[order[c]])
           \/ \E a \in 1 .. p - 1 :
                 /\ WriterOf(order, p, reg) = {order[a]} /\ reg \in Defs(region[order[a]])
                 /\ \A c \in a + 1 .. p - 1 : reg \notin Defs(region[order[c]])
<1> DEFINE W == {c \in 1 .. p - 1 : reg \in Defs(region[order[c]])}
<1>1. \A c \in 1 .. p - 1 : c \in DOMAIN order /\ Code(order)[c] = region[order[c]]
  BY DEF Code
<1>2. \A a : a \in LastWriter(Code(order), p, reg) <=>
             a \in W /\ \A c \in a + 1 .. p - 1 : reg \notin Defs(region[order[c]])
  BY <1>1, LastWriterIs
<1>3. CASE W = {}
  BY <1>2, <1>3 DEF WriterOf
<1>4. CASE W # {}
  <2>1. p - 1 \in Nat /\ W \in SUBSET (1 .. p - 1)
    OBVIOUS
  <2>2. PICK a \in W : \A c \in W : c <= a
    <3> HIDE DEF W
    <3> QED BY <1>4, <2>1, GreatestBelow
  <2>3. \A c \in a + 1 .. p - 1 : reg \notin Defs(region[order[c]])
    BY <2>2
  <2>4. \A d \in W : d # a => a \in d + 1 .. p - 1
    BY <2>2
  <2>5. \A d : d \in LastWriter(Code(order), p, reg) <=> d = a
    BY <1>2, <2>2, <2>3, <2>4
  <2>6. WriterOf(order, p, reg) = {order[a]}
    BY <2>5 DEF WriterOf
  <2> QED BY <2>2, <2>3, <2>6
<1> QED BY <1>3, <1>4

-----------------------------------------------------------------------------
(***************************************************************************)
(* The run of an accepted order, beside the original one.                  *)
(***************************************************************************)
Beside(order, regs, f, g) ==
    /\ Runs(order, regs, f) /\ Runs(Same, regs, g)
    /\ DOMAIN order = DOMAIN region
    /\ {order[k] : k \in DOMAIN order} = DOMAIN region

\* The instruction at this place of the order left what it does in the original.
Alike(order, f, g, k) ==
    /\ \A reg \in Registers \cap Defs(region[order[k]]) : f[k].regs[reg] = g[order[k]].regs[reg]
    /\ Memory(region[order[k]]) => f[k].mem = g[order[k]].mem

(***************************************************************************)
(* Two places with one last writer find one value in the register, if what *)
(* came before left what it does in the original.                          *)
(***************************************************************************)
LEMMA SameValue ==
    ASSUME NEW order, NEW regs, NEW f, NEW g, Beside(order, regs, f, g),
           NEW p \in 1 .. Len(region) + 1, NEW q \in 1 .. Len(region) + 1, NEW reg \in Registers,
           WriterOf(order, p, reg) = WriterOf(Same, q, reg),
           \A a \in 1 .. p - 1 : Alike(order, f, g, a)
    PROVE  f[p-1].regs[reg] = g[q-1].regs[reg]
<1> DEFINE N == Len(region)
<1>1. /\ N \in Nat /\ DOMAIN region = 1 .. N /\ DOMAIN order = 1 .. N /\ DOMAIN Same = 1 .. N
      /\ f[0] = g[0] /\ \A n \in 1 .. N : Same[n] = n
      /\ p - 1 \in 0 .. N /\ q - 1 \in 0 .. N /\ 0 \in 0 .. N
      /\ 0 <= p - 1 /\ 0 <= q - 1 /\ 0 + 1 = 1
  BY RunningRegion DEF Beside, Same
<1>2. Runs(order, regs, f) /\ Runs(Same, regs, g)
  BY DEF Beside
<1>5. ASSUME NEW a \in 0 .. N, NEW b \in 0 .. N, a <= b, \A c \in a + 1 .. b : reg \notin Defs(region[order[c]])
      PROVE  f[b].regs[reg] = f[a].regs[reg]
  BY <1>2, <1>5, RegisterStays
<1>6. ASSUME NEW a \in 0 .. N, NEW b \in 0 .. N, a <= b, \A c \in a + 1 .. b : reg \notin Defs(region[Same[c]])
      PROVE  g[b].regs[reg] = g[a].regs[reg]
  BY <1>2, <1>6, RegisterStays
<1>3. CASE WriterOf(order, p, reg) = {}
  <2>1. \A c \in 1 .. p - 1 : reg \notin Defs(region[order[c]])
    <3>1. \/ WriterOf(order, p, reg) = {} /\ \A c \in 1 .. p - 1 : reg \notin Defs(region[order[c]])
          \/ \E a \in 1 .. p - 1 : WriterOf(order, p, reg) = {order[a]}
      BY <1>1, WriterCases
    <3> QED BY <1>3, <3>1
  <2>2. \A c \in 1 .. q - 1 : reg \notin Defs(region[Same[c]])
    <3>1. \/ WriterOf(Same, q, reg) = {} /\ \A c \in 1 .. q - 1 : reg \notin Defs(region[Same[c]])
          \/ \E a \in 1 .. q - 1 : WriterOf(Same, q, reg) = {Same[a]}
      BY <1>1, WriterCases
    <3> QED BY <1>3, <3>1
  <2>3. f[p-1].regs[reg] = f[0].regs[reg]
    BY <1>1, <1>5, <2>1
  <2>4. g[q-1].regs[reg] = g[0].regs[reg]
    BY <1>1, <1>6, <2>2
  <2> QED BY <1>1, <2>3, <2>4
<1>4. CASE WriterOf(order, p, reg) # {}
  <2>1. PICK a \in 1 .. p - 1 : /\ WriterOf(order, p, reg) = {order[a]} /\ reg \in Defs(region[order[a]])
                                /\ \A c \in a + 1 .. p - 1 : reg \notin Defs(region[order[c]])
    BY <1>1, <1>4, WriterCases
  <2>2. PICK b \in 1 .. q - 1 : /\ WriterOf(Same, q, reg) = {Same[b]}
                                /\ \A c \in b + 1 .. q - 1 : reg \notin Defs(region[Same[c]])
    BY <1>1, <1>4, WriterCases
  <2>3. a \in 0 .. N /\ a <= p - 1 /\ b \in 0 .. N /\ b <= q - 1 /\ b \in 1 .. N
    BY <1>1
  <2>4. f[p-1].regs[reg] = f[a].regs[reg]
    BY <1>1, <1>5, <2>1, <2>3
  <2>5. g[q-1].regs[reg] = g[b].regs[reg]
    BY <1>1, <1>6, <2>2, <2>3
  <2>6. order[a] = b
    BY <1>1, <2>1, <2>2, <2>3
  <2>7. f[a].regs[reg] = g[b].regs[reg]
    BY <2>1, <2>6 DEF Alike
  <2> QED BY <2>4, <2>5, <2>7
<1> QED BY <1>3, <1>4

(***************************************************************************)
(* Two places behind the same accesses find one memory.                    *)
(***************************************************************************)
LEMMA SameMemory ==
    ASSUME NEW order, NEW regs, NEW f, NEW g, Beside(order, regs, f, g),
           NEW p \in 1 .. Len(region) + 1, NEW q \in 1 .. Len(region) + 1,
           InOrder(order, {n \in DOMAIN region : Memory(region[n])}),
           \A a \in 1 .. Len(region) : Memory(region[order[a]]) => (a < p <=> order[a] < q),
           \A a \in 1 .. p - 1 : Alike(order, f, g, a)
    PROVE  f[p-1].mem = g[q-1].mem
<1> DEFINE N == Len(region)
           A == {a \in 1 .. p - 1 : Memory(region[order[a]])}
<1>1. /\ N \in Nat /\ DOMAIN region = 1 .. N /\ DOMAIN order = 1 .. N
      /\ f[0] = g[0] /\ \A n \in 1 .. N : Same[n] = n /\ order[n] \in 1 .. N
      /\ p - 1 \in 0 .. N /\ q - 1 \in 0 .. N /\ 0 \in 0 .. N
      /\ 0 <= p - 1 /\ 0 <= q - 1 /\ 0 + 1 = 1
  <2>1. N \in Nat /\ DOMAIN region = 1 .. N /\ f[0] = Begun(regs) /\ g[0] = Begun(regs)
    BY RunningRegion DEF Beside
  <2>2. DOMAIN order = 1 .. N /\ \A n \in 1 .. N : Same[n] = n /\ order[n] \in 1 .. N
    BY <2>1 DEF Beside, Same, Runs
  <2> QED BY <2>1, <2>2
<1>2. Runs(order, regs, f) /\ Runs(Same, regs, g)
  BY DEF Beside
<1>3. \A c \in 1 .. N : \E a \in 1 .. N : c = order[a]
  <2>1. \A c \in DOMAIN region : \E a \in DOMAIN order : c = order[a]
    <3> SUFFICES ASSUME NEW c \in DOMAIN region PROVE \E a \in DOMAIN order : c = order[a]
      OBVIOUS
    <3>1. c \in {order[a] : a \in DOMAIN order}
      BY DEF Beside
    <3> QED BY <3>1
  <2>2. DOMAIN region = 1 .. N /\ DOMAIN order = 1 .. N
    BY <1>1
  <2> HIDE DEF N
  <2> QED BY <2>1, <2>2
<1>6. ASSUME NEW a \in 0 .. N, NEW b \in 0 .. N, a <= b, \A c \in a + 1 .. b : ~Memory(region[order[c]])
      PROVE  f[b].mem = f[a].mem
  BY <1>2, <1>6, MemoryStays
<1>7. ASSUME NEW a \in 0 .. N, NEW b \in 0 .. N, a <= b, \A c \in a + 1 .. b : ~Memory(region[Same[c]])
      PROVE  g[b].mem = g[a].mem
  BY <1>2, <1>7, MemoryStays
<1>4. CASE A = {}
  <2>1. \A c \in 1 .. p - 1 : ~Memory(region[order[c]])
    BY <1>4
  <2>2. ASSUME NEW c \in 1 .. q - 1, Memory(region[Same[c]]) PROVE FALSE
    <3>1. c \in 1 .. N /\ c < q
      BY <1>1
    <3>2. PICK a \in 1 .. N : c = order[a]
      BY <1>3, <3>1
    <3>3. a < p
      BY <1>1, <2>2, <3>1, <3>2
    <3>4. a \in 1 .. p - 1
      BY <3>3
    <3> QED BY <1>1, <2>1, <2>2, <3>1, <3>2, <3>4
  <2>3. f[p-1].mem = f[0].mem
    BY <1>1, <1>6, <2>1
  <2>4. g[q-1].mem = g[0].mem
    BY <1>1, <1>7, <2>2
  <2> QED BY <1>1, <2>3, <2>4
<1>5. CASE A # {}
  <2>1. PICK a \in A : \A d \in A : d <= a
    <3>1. p - 1 \in Nat /\ A \in SUBSET (1 .. p - 1)
      OBVIOUS
    <3> HIDE DEF A
    <3> QED BY <1>5, <3>1, GreatestBelow
  <2>2. a \in 1 .. N /\ a < p /\ order[a] < q /\ order[a] \in 1 .. N /\ Memory(region[order[a]])
    BY <1>1, <2>1
  <2>3. \A c \in a + 1 .. p - 1 : ~Memory(region[order[c]])
    BY <2>1
  <2>4. ASSUME NEW c \in order[a] + 1 .. q - 1, Memory(region[Same[c]]) PROVE FALSE
    <3>1. c \in 1 .. N /\ c < q /\ order[a] < c
      BY <1>1, <2>2
    <3>2. PICK d \in 1 .. N : c = order[d]
      BY <1>3, <3>1
    <3>3. Memory(region[order[d]])
      BY <1>1, <2>4, <3>1, <3>2
    <3>4. d < p
      BY <3>1, <3>2, <3>3
    <3>5. d \in A
      BY <3>3, <3>4
    <3>6. d <= a /\ d # a
      BY <2>1, <3>1, <3>2, <3>5, <2>2
    <3>7. d < a
      BY <2>2, <3>6
    <3>8. order[d] < order[a]
      BY <1>1, <2>2, <3>1, <3>2, <3>3, <3>7 DEF InOrder
    <3> QED BY <2>2, <3>1, <3>2, <3>8
  <2>5. f[p-1].mem = f[a].mem
    <3>1. a \in 0 .. N /\ a <= p - 1
      BY <2>2
    <3> QED BY <1>1, <1>6, <2>3, <3>1
  <2>6. g[q-1].mem = g[order[a]].mem
    <3>1. order[a] \in 0 .. N /\ order[a] <= q - 1
      BY <2>2
    <3> QED BY <1>1, <1>7, <2>4, <3>1
  <2>7. f[a].mem = g[order[a]].mem
    BY <2>1, <2>2 DEF Alike
  <2> QED BY <2>5, <2>6, <2>7
<1> QED BY <1>4, <1>5

(***************************************************************************)
(* An accepted order keeps every read behind its writer.                   *)
(***************************************************************************)
LEMMA SameRead ==
    ASSUME NEW order, NEW k \in DOMAIN order, NEW reg \in Uses(region[order[k]]),
           order[k] \in DOMAIN region, Sources(region, order) = Sources(region, Same)
    PROVE  WriterOf(order, k, reg) = WriterOf(Same, order[k], reg)
<1>1. Reads(order) = Reads(Same)
  BY SourcesAre
<1>2. <<order[k], reg, WriterOf(order, k, reg)>> \in Reads(order)
  BY InReads DEF Code
<1>3. PICK n \in DOMAIN Same : \E r \in Uses(Code(Same)[n]) :
              <<order[k], reg, WriterOf(order, k, reg)>> = <<Same[n], r, WriterOf(Same, n, r)>>
  BY <1>1, <1>2, InReads
<1>4. Same[n] = n
  BY DEF Same
<1> QED BY <1>3, <1>4

(***************************************************************************)
(* The first instruction that left something else would have read          *)
(* something else, and what it reads was left by one before it.            *)
(***************************************************************************)
LEMMA AcceptedRunsAlike ==
    ASSUME NEW order, NEW regs, NEW f, NEW g, Beside(order, regs, f, g), Verified(region, order)
    PROVE  f[Len(region)].regs = g[Len(region)].regs /\ f[Len(region)].mem = g[Len(region)].mem
<1> DEFINE N == Len(region)
           Wrong == {k \in 1 .. N : ~Alike(order, f, g, k)}
<1>1. /\ N \in Nat /\ DOMAIN region = 1 .. N /\ DOMAIN order = 1 .. N /\ Len(order) = N
      /\ \A n \in 1 .. N : /\ Same[n] = n /\ order[n] \in 1 .. N /\ IsInstruction(region[n])
                           /\ Uses(region[n]) \in SUBSET Registers
      /\ \A k \in 1 .. N : f[k] = Advanced(f[k-1], order[k]) /\ g[k] = Advanced(g[k-1], k)
      /\ \A k \in 0 .. N : IsMachine(f[k]) /\ IsMachine(g[k])
  <2>1. /\ N \in Nat /\ DOMAIN region = 1 .. N /\ Len(order) = N
        /\ \A n \in 1 .. N : IsInstruction(region[n])
        /\ \A k \in 1 .. N : f[k] = Advanced(f[k-1], order[k])
        /\ \A k \in 0 .. N : IsMachine(f[k])
    <3>1. Len(order) = N
      BY DEF Beside, Runs
    <3> QED BY <3>1, RunningRegion DEF Beside
  <2>2. /\ \A k \in 1 .. N : g[k] = Advanced(g[k-1], Same[k])
        /\ \A k \in 0 .. N : IsMachine(g[k])
    BY RunningRegion DEF Beside
  <2>3. DOMAIN order = 1 .. N /\ \A n \in 1 .. N : Same[n] = n /\ order[n] \in 1 .. N
    BY <2>1 DEF Beside, Same, Runs
  <2>4. \A n \in 1 .. N : Uses(region[n]) \in SUBSET Registers
    BY <2>1 DEF IsInstruction
  <2> QED BY <2>1, <2>2, <2>3, <2>4
<1>2. Sources(region, order) = Sources(region, Same) /\ InOrder(order, {n \in DOMAIN region : Memory(region[n])})
  BY DEF Verified, Same
<1>3. Wrong = {}
  <2> SUFFICES ASSUME Wrong # {} PROVE FALSE
    OBVIOUS
  <2>1. PICK k \in Wrong : \A j \in Wrong : k <= j
    <3>1. Wrong \in SUBSET Nat
      OBVIOUS
    <3> HIDE DEF Wrong
    <3> QED BY <3>1, LeastNatural
  <2> DEFINE n == order[k]
  <2>2. k \in 1 .. N /\ n \in 1 .. N /\ k - 1 \in 0 .. N /\ n - 1 \in 0 .. N
    BY <1>1, <2>1
  <2>3. \A a \in 1 .. k - 1 : Alike(order, f, g, a)
    <3>0. N \in Nat /\ k \in 1 .. N
      BY <1>1, <2>2
    <3>1. \A a \in 1 .. k - 1 : a \in 1 .. N /\ ~(k <= a)
      BY <3>0
    <3>2. \A a \in 1 .. N : a \notin Wrong => Alike(order, f, g, a)
      OBVIOUS
    <3> HIDE DEF Wrong
    <3> QED BY <2>1, <3>1, <3>2
  <2>4. \A reg \in Uses(region[n]) : f[k-1].regs[reg] = g[n-1].regs[reg]
    <3> SUFFICES ASSUME NEW reg \in Uses(region[n]) PROVE f[k-1].regs[reg] = g[n-1].regs[reg]
      OBVIOUS
    <3>1. WriterOf(order, k, reg) = WriterOf(Same, n, reg)
      <4>1. k \in DOMAIN order /\ order[k] \in DOMAIN region
        BY <1>1, <2>2
      <4> QED BY <1>2, <4>1, SameRead
    <3>2. reg \in Registers /\ k \in 1 .. N + 1 /\ n \in 1 .. N + 1
      BY <1>1, <2>2
    <3> HIDE DEF n
    <3> QED BY <2>3, <3>1, <3>2, SameValue
  <2>5. Memory(region[n]) => f[k-1].mem = g[n-1].mem
    <3> SUFFICES ASSUME Memory(region[n]) PROVE f[k-1].mem = g[n-1].mem
      OBVIOUS
    <3>1. ASSUME NEW a \in 1 .. N, Memory(region[order[a]]) PROVE a < k <=> order[a] < n
      <4>1. order[a] \in 1 .. N
        BY <1>1
      <4>2. a < k => order[a] < n
        BY <1>1, <1>2, <2>2, <3>1, <4>1 DEF InOrder
      <4>3. k < a => n < order[a]
        BY <1>1, <1>2, <2>2, <3>1, <4>1 DEF InOrder
      <4> QED BY <2>2, <4>1, <4>2, <4>3
    <3>2. k \in 1 .. N + 1 /\ n \in 1 .. N + 1
      BY <1>1, <2>2
    <3> HIDE DEF n
    <3> QED BY <1>2, <2>3, <3>1, <3>2, SameMemory
  <2>6. /\ IsInstruction(region[n]) /\ IsMachine(f[k-1]) /\ IsMachine(g[n-1])
        /\ f[k] = Advanced(f[k-1], n) /\ g[n] = Advanced(g[n-1], n)
    BY <1>1, <2>2
  <2>7. Alike(order, f, g, k)
    <3> HIDE DEF n
    <3>1. /\ \A reg \in Registers \cap Defs(region[n]) : f[k].regs[reg] = g[n].regs[reg]
          /\ Memory(region[n]) => f[k].mem = g[n].mem
      BY <2>4, <2>5, <2>6, SameEffect
    <3> QED BY <3>1 DEF Alike, n
  <2> QED BY <2>1, <2>7
<1>4. \A a \in 1 .. (N + 1) - 1 : Alike(order, f, g, a)
  BY <1>1, <1>3
<1>5. N + 1 \in 1 .. N + 1 /\ (N + 1) - 1 = N
  BY <1>1
<1>6. ASSUME NEW reg \in Registers PROVE f[N].regs[reg] = g[N].regs[reg]
  <2>1. [r \in Registers |-> WriterOf(order, Len(order) + 1, r)] = [r \in Registers |-> WriterOf(Same, Len(Same) + 1, r)]
    BY <1>2, SourcesAre
  <2>2. Len(Same) = N
    BY DEF Beside, Runs
  <2>3. WriterOf(order, N + 1, reg) = WriterOf(Same, N + 1, reg)
    <3>1. [r \in Registers |-> WriterOf(order, N + 1, r)][reg] = [r \in Registers |-> WriterOf(Same, N + 1, r)][reg]
      BY <1>1, <2>1, <2>2
    <3> QED BY <3>1
  <2> QED BY <1>4, <1>5, <2>3, SameValue
<1>7. f[N].regs = g[N].regs
  <2>1. N \in 0 .. N
    BY <1>1
  <2>2. IsMachine(f[N]) /\ IsMachine(g[N])
    BY <1>1, <2>1
  <2>3. f[N].regs = [reg \in Registers |-> f[N].regs[reg]] /\ g[N].regs = [reg \in Registers |-> g[N].regs[reg]]
    BY <2>2 DEF IsMachine
  <2> QED BY <1>6, <2>3
<1>8. f[N].mem = g[N].mem
  <2>1. \A a \in 1 .. N : Memory(region[order[a]]) => (a < N + 1 <=> order[a] < N + 1)
    BY <1>1
  <2>2. PICK p \in 1 .. N + 1 : p = N + 1
    BY <1>5
  <2>3. \A a \in 1 .. N : Memory(region[order[a]]) => (a < p <=> order[a] < p)
    BY <2>1, <2>2
  <2>4. \A a \in 1 .. p - 1 : Alike(order, f, g, a)
    BY <1>4, <2>2
  <2>5. f[p - 1].mem = g[p - 1].mem
    BY <1>2, <2>3, <2>4, SameMemory
  <2> QED BY <1>5, <2>2, <2>5
<1> QED BY <1>7, <1>8

\* The region is one of those to schedule.
FromRegions == region \in Regions

(***************************************************************************)
(* An accepted order and the original, from one start.                     *)
(***************************************************************************)
LEMMA AcceptedSame ==
    ASSUME FromRegions, NEW order, DOMAIN order = DOMAIN region, \A k \in DOMAIN order : order[k] \in DOMAIN region,
           NEW regs \in Starts, Verified(region, order)
    PROVE  /\ RunOf(region, order, regs).regs = RunOf(region, Same, regs).regs
           /\ RunOf(region, order, regs).mem = RunOf(region, Same, regs).mem
<1>1. Len(region) \in Nat /\ DOMAIN region = 1 .. Len(region)
  BY RegionsAssumption DEF FromRegions
<1>2. {order[k] : k \in DOMAIN order} = DOMAIN region /\ Len(order) = Len(region)
  BY DEF Verified
<1>3. Len(Same) = Len(region) /\ \A n \in 1 .. Len(region) : Same[n] = n
  <2>1. Same \in Seq(1 .. Len(region)) /\ DOMAIN Same = 1 .. Len(region)
    BY <1>1 DEF Same
  <2> QED BY <1>1, <2>1 DEF Same
<1>4. PICK f : Ran(order, regs, f) /\ RunOf(region, order, regs) = f[Len(region)]
  BY <1>1, <1>2, RunIs
<1>5. PICK g : Ran(Same, regs, g) /\ RunOf(region, Same, regs) = g[Len(region)]
  BY <1>1, <1>3, RunIs
<1>6. Beside(order, regs, f, g)
  BY <1>1, <1>2, <1>3, <1>4, <1>5 DEF Beside, Runs, FromRegions
<1> QED BY <1>4, <1>5, <1>6, AcceptedRunsAlike

(***************************************************************************)
(* Every order that verify_schedule() accepts, whoever proposed it, leaves *)
(* every register and every word of memory as the original order does.     *)
(***************************************************************************)
THEOREM AcceptedIsSound == SchedulerSpec => []VerifierSound
<1>1. FromRegions => VerifierSound
  BY AcceptedSame DEF VerifierSound, Same
<1>2. SchedulerInit => FromRegions
  BY DEF SchedulerInit, FromRegions
<1>3. FromRegions /\ [SchedulerNext]_schedulerVars => FromRegions'
  BY DEF SchedulerNext, Pick, schedulerVars, FromRegions
<1> QED BY <1>1, <1>2, <1>3, PTL DEF SchedulerSpec


(***************************************************************************)
(* So a finished schedule does: what the ready list makes of a region may  *)
(* take its place, whatever its registers hold and wherever it loads from. *)
(***************************************************************************)
RunsAsWritten ==
    Complete => \A regs \in Starts :
        LET m == RunOf(region, placed, regs)
            orig == RunOf(region, Same, regs)
        IN m.regs = orig.regs /\ m.mem = orig.mem

THEOREM ScheduleIsSound == SchedulerSpec => []RunsAsWritten
<1>1. IInv /\ CandidateAccepted /\ FromRegions => RunsAsWritten
  <2> SUFFICES ASSUME IInv, CandidateAccepted, FromRegions, Complete, NEW regs \in Starts
               PROVE  /\ RunOf(region, placed, regs).regs = RunOf(region, Same, regs).regs
                      /\ RunOf(region, placed, regs).mem = RunOf(region, Same, regs).mem
    BY DEF RunsAsWritten
  <2>1. Verified(region, placed)
    BY DEF CandidateAccepted
  <2>2. DOMAIN placed = DOMAIN region /\ \A k \in DOMAIN placed : placed[k] \in DOMAIN region
    BY DEF IInv, Complete
  <2> QED BY <2>1, <2>2, AcceptedSame
<1>2. SchedulerInit => FromRegions
  BY DEF SchedulerInit, FromRegions
<1>3. FromRegions /\ [SchedulerNext]_schedulerVars => FromRegions'
  BY DEF SchedulerNext, Pick, schedulerVars, FromRegions
<1> QED BY <1>1, <1>2, <1>3, InitIInv, StepIInv, CandidateVerified, PTL DEF SchedulerSpec

-----------------------------------------------------------------------------
(***************************************************************************)
(* What the passes over assembly text put in the place of lines.           *)
(***************************************************************************)
(***************************************************************************)
(* Words: what is left of a number when whole words are taken away.        *)
(***************************************************************************)
LEMMA WordsAre == Words \in Nat /\ Words > 0 /\ Low \in Nat /\ Low >= 2 /\ Low % 2 = 0
BY WidthAssumption

LEMMA RemainderIs ==
    ASSUME NEW N \in Nat \ {0}, NEW x \in Int, NEW r, r = x % N
    PROVE  r \in 0 .. N - 1 /\ \E q \in Int : x = q * N + r
<1> DEFINE q == x \div N
<1>1. q \in Int /\ r \in 0 .. (N - 1) /\ x = N * q + r
  OBVIOUS
<1>2. N * q = q * N
  BY <1>1
<1> HIDE DEF q
<1>3. x = q * N + r
  BY <1>1, <1>2
<1> QED BY <1>1, <1>3

\* A positive number times another that is at least one.
LEMMA Times == ASSUME NEW N \in Nat \ {0}, NEW d \in Int, d >= 1 PROVE d * N >= N
<1>1. d - 1 \in Nat
  OBVIOUS
<1>2. (d - 1) * N \in Nat
  BY <1>1
<1>3. d * N = (d - 1) * N + N
  OBVIOUS
<1> QED BY <1>2, <1>3

LEMMA OneRemainder ==
    ASSUME NEW N \in Nat \ {0}, NEW p \in Int, NEW q \in Int, NEW a \in 0 .. N - 1, NEW b \in 0 .. N - 1,
           p * N + a = q * N + b
    PROVE  a = b
<1>1. (p - q) * N = b - a /\ (q - p) * N = a - b
  OBVIOUS
<1>2. CASE p - q >= 1
  <2>1. (p - q) * N >= N
    BY <1>2, Times
  <2> QED BY <1>1, <2>1
<1>3. CASE q - p >= 1
  <2>1. (q - p) * N >= N
    BY <1>3, Times
  <2> QED BY <1>1, <2>1
<1>4. CASE p = q
  BY <1>4
<1> QED BY <1>2, <1>3, <1>4

LEMMA RemainderOf ==
    ASSUME NEW N \in Nat \ {0}, NEW x \in Int, NEW q \in Int, NEW a \in 0 .. N - 1, x = q * N + a
    PROVE  x % N = a
<1>1. PICK b : b = x % N
  OBVIOUS
<1>2. b \in 0 .. N - 1
  BY <1>1, RemainderIs
<1>3. PICK p \in Int : x = p * N + b
  BY <1>1, RemainderIs
<1> QED BY <1>1, <1>2, <1>3, OneRemainder

LEMMA WordIs ==
    ASSUME NEW x \in Int
    PROVE  Word(x) \in 0 .. Words - 1 /\ \E q \in Int : x = q * Words + Word(x)
<1>1. Words \in Nat \ {0}
  BY WordsAre
<1> QED BY <1>1, RemainderIs DEF Word

LEMMA WordOf ==
    ASSUME NEW x \in Int, NEW q \in Int, NEW a \in 0 .. Words - 1, x = q * Words + a
    PROVE  Word(x) = a
BY WordsAre, RemainderOf DEF Word

LEMMA WordOfWord == ASSUME NEW a \in 0 .. Words - 1 PROVE Word(a) = a
<1>1. a = 0 * Words + a /\ a \in Int
  BY WordsAre
<1> QED BY <1>1, WordOf

LEMMA WordsAdd ==
    ASSUME NEW x \in Int, NEW y \in Int
    PROVE  Word(Word(x) + y) = Word(x + y)
<1>1. PICK p \in Int : x = p * Words + Word(x)
  BY WordIs
<1>2. Word(x) \in Int /\ Word(x) + y \in Int /\ x + y \in Int
  BY WordIs
<1>3. PICK q \in Int : Word(x) + y = q * Words + Word(Word(x) + y)
  BY <1>2, WordIs
<1>4. PICK a \in 0 .. Words - 1 : a = Word(Word(x) + y)
  BY <1>2, WordIs
<1>5. x + y = (p + q) * Words + a
  <2>1. Words \in Int /\ p * Words \in Int /\ q * Words \in Int /\ a \in Int
    BY WordsAre
  <2>2. (p + q) * Words = p * Words + q * Words
    BY WordsAre
  <2>3. Word(x) + y = q * Words + a
    BY <1>3, <1>4
  <2> HIDE DEF Word
  <2> QED BY <1>1, <1>2, <2>1, <2>2, <2>3
<1>6. Word(x + y) = a
  BY <1>2, <1>5, WordOf
<1> QED BY <1>4, <1>6

-----------------------------------------------------------------------------
(***************************************************************************)
(* Windows.  What the registers hold behind the lines of a window.         *)
(***************************************************************************)
Behind(w, regs, mem) ==
    CASE Len(w) = 0 -> regs
      [] Len(w) = 1 -> Written(w[1], regs, mem)
      [] OTHER      -> Written(w[2], Written(w[1], regs, mem), mem)

Lines(w) ==
    /\ Len(w) \in Nat /\ DOMAIN w = 1 .. Len(w)
    /\ \A n \in DOMAIN w : IsInstruction(w[n]) /\ w[n].imm \in Int

\* The register that the rule for two moves leaves alone.
GivenUp(rule, w) == IF rule = "mv+mv" THEN {Canon(w[1].rd)} \ {Canon(w[2].rd)} ELSE {}

LEMMA ReadsWord ==
    ASSUME NEW l, IsInstruction(l), NEW n \in DOMAIN l.rs, NEW regs \in [Registers -> 0 .. Words - 1]
    PROVE  Read(regs, l.rs[n]) \in 0 .. Words - 1 /\ (Canon(l.rs[n]) # "x0" => Canon(l.rs[n]) \in Registers)
<1>1. Canon(l.rs[n]) = "x0" \/ Canon(l.rs[n]) \in Uses(l)
  BY DEF Uses
<1>2. Uses(l) \subseteq Registers
  BY DEF IsInstruction
<1> QED BY <1>1, <1>2, WordsAre DEF Read

LEMMA WrittenAt ==
    ASSUME NEW l, NEW regs, NEW mem, NEW r \in Registers
    PROVE  /\ r \in Defs(l) => Written(l, regs, mem)[r] = Word(Result(l, regs, mem))
           /\ r \notin Defs(l) => Written(l, regs, mem)[r] = regs[r]
BY DEF Written

\* One instruction for another that writes the same register with the same value.
LEMMA SameWritten ==
    ASSUME NEW l, NEW other, other.rd = l.rd, NEW regs, NEW mem,
           Defs(l) # {} => Word(Result(l, regs, mem)) = Word(Result(other, regs, mem)),
           NEW r \in Registers
    PROVE  Written(l, regs, mem)[r] = Written(other, regs, mem)[r]
<1>1. Defs(other) = Defs(l)
  BY DEF Defs
<1> QED BY <1>1, WrittenAt

\* The result of each instruction of the rules.
LEMMA Results ==
    ASSUME NEW l, NEW regs, NEW mem
    PROVE  /\ l.op = "addi" => Result(l, regs, mem) = Read(regs, l.rs[1]) + l.imm
           /\ l.op = "mv" => Result(l, regs, mem) = Read(regs, l.rs[1])
           /\ l.op = "li" => Result(l, regs, mem) = l.imm
           /\ l.op = "lui" => Result(l, regs, mem) = l.imm * Low
BY DEF Result

LEMMA Shapes ==
    ASSUME NEW l, IsInstruction(l)
    PROVE  /\ l.op \in {"addi", "mv"} => DOMAIN l.rs = {1}
           /\ l.op = "beq" => DOMAIN l.rs = {1, 2}
           /\ Defs(l) \subseteq Registers \ {"x0"}
           /\ Defs(l) = {} \/ Defs(l) = {Canon(l.rd)}
           /\ l.op = "nop" => Defs(l) = {}
<1>1. l.op \in {"addi", "mv"} => Operands[l.op] = 1
  BY DEF Operands
<1>2. l.op = "beq" => Operands[l.op] = 2
  BY DEF Operands
<1>3. Defs(l) \subseteq Registers /\ DOMAIN l.rs = 1 .. Operands[l.op]
  BY DEF IsInstruction
<1>4. l.op = "nop" => l.rd = none
  BY DEF IsInstruction
<1> QED BY <1>1, <1>2, <1>3, <1>4 DEF Defs

\* An instruction that gives its own register back what it holds.
LEMMA SelfWritten ==
    ASSUME NEW l, IsInstruction(l), l.imm = 0, l.rd = l.rs[1], l.op \in {"addi", "mv"},
           NEW regs \in [Registers -> 0 .. Words - 1], NEW mem, NEW r \in Registers
    PROVE  Written(l, regs, mem)[r] = regs[r]
<1>1. CASE r \notin Defs(l)
  BY <1>1, WrittenAt
<1>2. CASE r \in Defs(l)
  <2>1. r = Canon(l.rd) /\ r # "x0"
    BY <1>2 DEF Defs
  <2>2. Read(regs, l.rs[1]) = regs[r] /\ regs[r] \in 0 .. Words - 1
    BY <2>1 DEF Read
  <2>3. Result(l, regs, mem) = regs[r]
    <3>1. regs[r] + 0 = regs[r]
      BY <2>2, WordsAre
    <3> QED BY <2>2, <3>1, Results
  <2>4. Written(l, regs, mem)[r] = Word(regs[r])
    BY <1>2, <2>3, WrittenAt
  <2> QED BY <2>2, <2>4, WordOfWord
<1> QED BY <1>1, <1>2

Fused(w) == w[1].rd = w[2].rd /\ w[1].rd = w[2].rs[1]
Opcodes(w, one, two) == w[1].op = one /\ (Len(w) = 2 => w[2].op = two)

\* What the rules ask of their windows.
LEMMA WindowAsked ==
    ASSUME NEW rule \in {Rules[k] : k \in DOMAIN Rules}, NEW w, Lines(w), Len(w) = WindowSize(rule), Matches(rule, w)
    PROVE  /\ rule = "addi+addi" => Len(w) = 2 /\ Opcodes(w, "addi", "addi") /\ Fused(w)
           /\ rule = "li+addi" => Len(w) = 2 /\ Opcodes(w, "li", "addi") /\ Fused(w)
           /\ rule = "mv+mv" => Len(w) = 2 /\ Opcodes(w, "mv", "mv") /\ w[1].rd = w[2].rs[1]
           /\ rule = "beq" => /\ Len(w) = 1 /\ Opcodes(w, "beq", "beq")
                              /\ \A n \in 1 .. 2 : w[1].rs[n] \in {"x0", "zero"}
           /\ rule = "addi 0 self" => Len(w) = 1 /\ Opcodes(w, "addi", "") /\ w[1].imm = 0 /\ w[1].rd = w[1].rs[1]
           /\ rule = "addi 0" => Len(w) = 1 /\ Opcodes(w, "addi", "") /\ w[1].imm = 0
           /\ rule = "nop" => Len(w) = 1 /\ Opcodes(w, "nop", "")
           /\ rule = "mv self" => Len(w) = 1 /\ Opcodes(w, "mv", "") /\ w[1].rd = w[1].rs[1]
<1>1. PICK ops : ops = [n \in DOMAIN w |-> w[n].op]
  OBVIOUS
<1>2. DOMAIN w = 1 .. Len(w) /\ Len(w) \in {1, 2}
  BY DEF Lines, WindowSize
<1>3. 1 \in DOMAIN w /\ (Len(w) = 2 => 2 \in DOMAIN w)
  BY <1>2
<1>4. ops[1] = w[1].op /\ (Len(w) = 2 => ops[2] = w[2].op)
  BY <1>1, <1>3
<1>5. Len(w) = IF rule \in {"addi+addi", "li+addi", "mv+mv"} THEN 2 ELSE 1
  BY DEF WindowSize
<1>6. ASSUME NEW a, NEW b PROVE /\ ops = <<a, b>> /\ Len(w) = 2 => Opcodes(w, a, b)
                                /\ ops = <<a>> /\ Len(w) = 1 => Opcodes(w, a, b)
  BY <1>4 DEF Opcodes
<1>7. CASE rule = "addi+addi"
  <2>1. ops = <<"addi", "addi">> /\ w[1].rd = w[2].rd /\ w[1].rd = w[2].rs[1]
    BY <1>1, <1>7 DEF Matches
  <2> QED BY <1>5, <1>6, <1>7, <2>1 DEF Fused
<1>8. CASE rule = "li+addi"
  <2>1. ops = <<"li", "addi">> /\ w[1].rd = w[2].rd /\ w[1].rd = w[2].rs[1]
    BY <1>1, <1>8 DEF Matches
  <2> QED BY <1>5, <1>6, <1>8, <2>1 DEF Fused
<1>9. CASE rule = "mv+mv"
  <2>1. ops = <<"mv", "mv">> /\ w[1].rd = w[2].rs[1]
    BY <1>1, <1>9 DEF Matches
  <2> QED BY <1>5, <1>6, <1>9, <2>1
<1>10. CASE rule = "beq"
  <2>1. ops = <<"beq">> /\ \A n \in 1 .. 2 : w[1].rs[n] \in {"x0", "zero"}
    BY <1>1, <1>10 DEF Matches
  <2> QED BY <1>5, <1>6, <1>10, <2>1
<1>11. CASE rule = "addi 0 self"
  <2>1. ops = <<"addi">> /\ w[1].imm = 0 /\ w[1].rd = w[1].rs[1]
    BY <1>1, <1>11 DEF Matches
  <2> QED BY <1>5, <1>6, <1>11, <2>1
<1>12. CASE rule = "addi 0"
  <2>1. ops = <<"addi">> /\ w[1].imm = 0
    BY <1>1, <1>12 DEF Matches
  <2> QED BY <1>5, <1>6, <1>12, <2>1
<1>13. CASE rule = "nop"
  <2>1. ops = <<"nop">>
    BY <1>1, <1>13 DEF Matches
  <2> QED BY <1>5, <1>6, <1>13, <2>1
<1>14. CASE rule = "mv self"
  <2>1. ops = <<"mv">> /\ w[1].rd = w[1].rs[1]
    BY <1>1, <1>14 DEF Matches
  <2> QED BY <1>5, <1>6, <1>14, <2>1
<1> QED BY <1>7, <1>8, <1>9, <1>10, <1>11, <1>12, <1>13, <1>14 DEF Rules

\* addi and addi, li and addi: one instruction with the sum.
Sums(v, u, l) ==
    /\ IsInstruction(v) /\ v.imm \in Int /\ u.imm \in Int
    /\ v.op \in {"addi", "li"} /\ u.op = "addi" /\ v.rd = u.rd /\ v.rd = u.rs[1]
    /\ l.op = v.op /\ l.rd = v.rd /\ l.imm = v.imm + u.imm /\ (v.op = "addi" => l.rs[1] = v.rs[1])

LEMMA SumWindow ==
    ASSUME NEW v, NEW u, NEW l, Sums(v, u, l),
           NEW regs \in [Registers -> 0 .. Words - 1], NEW mem, NEW r \in Registers
    PROVE  Written(l, regs, mem)[r] = Written(u, Written(v, regs, mem), mem)[r]
<1>0. /\ IsInstruction(v) /\ v.imm \in Int /\ u.imm \in Int
      /\ v.op \in {"addi", "li"} /\ u.op = "addi" /\ v.rd = u.rd /\ v.rd = u.rs[1]
      /\ l.op = v.op /\ l.rd = v.rd /\ l.imm = v.imm + u.imm /\ (v.op = "addi" => l.rs[1] = v.rs[1])
  BY DEF Sums
<1>1. PICK x : x = IF v.op = "addi" THEN Read(regs, v.rs[1]) ELSE 0
  OBVIOUS
<1>2. x \in Int
  <2>1. v.op = "addi" => 1 \in DOMAIN v.rs
    BY <1>0, Shapes
  <2> QED BY <1>0, <1>1, <2>1, ReadsWord, WordsAre
<1>3. PICK y : y = x + v.imm
  OBVIOUS
<1>4. y \in Int /\ x + (v.imm + u.imm) = y + u.imm /\ 0 + v.imm = v.imm /\ 0 + (v.imm + u.imm) = v.imm + u.imm
  BY <1>0, <1>2, <1>3
<1>5. Result(v, regs, mem) = y /\ Result(l, regs, mem) = y + u.imm
  BY <1>0, <1>1, <1>3, <1>4, Results
<1>6. Defs(l) = Defs(v) /\ Defs(u) = Defs(v)
  BY <1>0 DEF Defs
<1>7. PICK one : one = Written(v, regs, mem)
  OBVIOUS
<1>8. CASE r \in Defs(v)
  <2>1. one[r] = Word(y)
    BY <1>5, <1>7, <1>8, WrittenAt
  <2>2. r = Canon(v.rd) /\ r # "x0"
    BY <1>8 DEF Defs
  <2>3. Read(one, u.rs[1]) = one[r]
    BY <1>0, <2>2 DEF Read
  <2>4. Result(u, one, mem) = Word(y) + u.imm
    BY <1>0, <2>1, <2>3, Results
  <2>5. Written(u, one, mem)[r] = Word(Word(y) + u.imm)
    BY <1>6, <1>8, <2>4, WrittenAt
  <2>6. Written(l, regs, mem)[r] = Word(y + u.imm)
    BY <1>5, <1>6, <1>8, WrittenAt
  <2> QED BY <1>0, <1>4, <1>7, <2>5, <2>6, WordsAdd
<1>9. CASE r \notin Defs(v)
  BY <1>6, <1>7, <1>9, WrittenAt
<1> QED BY <1>8, <1>9

\* Two moves: what the second one writes.
LEMMA MoveWindow ==
    ASSUME NEW v, NEW u, IsInstruction(v), IsInstruction(u), v.op = "mv", u.op = "mv", v.rd = u.rs[1],
           Canon(v.rd) # "x0", NEW l, l.op = "mv", l.rd = u.rd, l.rs[1] = v.rs[1],
           NEW regs \in [Registers -> 0 .. Words - 1], NEW mem, NEW r \in Registers, r # Canon(v.rd) \/ r = Canon(u.rd)
    PROVE  Written(l, regs, mem)[r] = Written(u, Written(v, regs, mem), mem)[r]
<1>1. PICK x : x = Read(regs, v.rs[1])
  OBVIOUS
<1>2. 1 \in DOMAIN v.rs /\ 1 \in DOMAIN u.rs
  BY Shapes
<1>3. x \in 0 .. Words - 1
  BY <1>1, <1>2, ReadsWord
<1>4. PICK c : c = Canon(v.rd)
  OBVIOUS
<1>5. c \in Uses(u) /\ Uses(u) \subseteq Registers
  BY <1>2, <1>4 DEF Uses, IsInstruction
<1>6. v.rd # none
  <2>1. Canon(none) \notin Registers
    BY DEF Canon, none, Registers
  <2> QED BY <1>4, <1>5, <2>1
<1>7. Defs(v) = {c} /\ c \in Registers /\ c # "x0"
  BY <1>4, <1>5, <1>6 DEF Defs
<1>8. PICK one : one = Written(v, regs, mem)
  OBVIOUS
<1>9. one[c] = x /\ (r # c => one[r] = regs[r])
  BY <1>1, <1>3, <1>7, <1>8, Results, WrittenAt, WordOfWord
<1>10. Read(one, u.rs[1]) = x
  BY <1>4, <1>7, <1>9 DEF Read
<1>11. Result(u, one, mem) = x /\ Result(l, regs, mem) = x
  BY <1>1, <1>10, Results
<1>12. Defs(l) = Defs(u)
  BY DEF Defs
<1>13. CASE r \in Defs(u)
  BY <1>8, <1>11, <1>12, <1>13, WrittenAt
<1>14. CASE r \notin Defs(u)
  <2>1. r # c
    <3>1. ASSUME r = c PROVE r \in Defs(u)
      <4>1. r = Canon(u.rd) /\ r # "x0"
        BY <1>4, <1>7, <3>1
      <4>2. u.rd # none
        <5>1. Canon(none) \notin Registers
          BY DEF Canon, none, Registers
        <5> QED BY <4>1, <5>1
      <4> QED BY <4>1, <4>2 DEF Defs
    <3> QED BY <1>14, <3>1
  <2> QED BY <1>8, <1>9, <1>12, <1>14, <2>1, WrittenAt
<1> QED BY <1>13, <1>14

\* What stands in the place of a window: a line with the same label, or nothing.
Put(w, l, new) == new = <<l>> /\ l.label = w[1].label

Swap(rule, w, new) ==
    /\ rule = "addi+addi" => \E l : /\ Put(w, l, new) /\ l.op = "addi" /\ l.rd = w[1].rd
                                    /\ l.rs[1] = w[1].rs[1] /\ l.imm = w[1].imm + w[2].imm
    /\ rule = "li+addi" => \E l : Put(w, l, new) /\ l.op = "li" /\ l.rd = w[1].rd /\ l.imm = w[1].imm + w[2].imm
    /\ rule = "beq" => \E l : Put(w, l, new) /\ l.op = "j" /\ l.rd = none /\ l.to = w[1].to
    /\ rule = "mv+mv" => \E l : Put(w, l, new) /\ l.op = "mv" /\ l.rd = w[2].rd /\ l.rs[1] = w[1].rs[1]
    /\ rule = "addi 0" => \E l : Put(w, l, new) /\ l.op = "mv" /\ l.rd = w[1].rd /\ l.rs[1] = w[1].rs[1]
    /\ rule \in {"addi 0 self", "nop", "mv self"} =>
           \/ new = <<>> /\ w[1].label = none
           \/ \E l : Put(w, l, new) /\ l.op = none /\ l.rd = none

LEMMA Replaced == ASSUME NEW rule, NEW w, NEW new, new = Replacement(rule, w) PROVE Swap(rule, w, new)
<1>1. ASSUME NEW op, NEW rd, NEW rs, NEW imm, NEW to, NEW label
      PROVE  LET l == At(label, Line(op, rd, rs, imm, to))
             IN l.op = op /\ l.rd = rd /\ l.rs = rs /\ l.imm = imm /\ l.to = to /\ l.label = label
  BY DEF At, Line
<1>2. ASSUME NEW op, NEW rd, NEW rs, NEW imm, NEW to, Line(op, rd, rs, imm, to) = Comment PROVE op = none
  BY <1>2 DEF Line, Comment
<1>3. ASSUME NEW op, op # none, NEW rd, NEW rs, NEW imm, NEW to,
             new = LET line == Line(op, rd, rs, imm, to)
                   IN IF line = Comment /\ w[1].label = none THEN <<>> ELSE <<At(w[1].label, line)>>
      PROVE  \E l : Put(w, l, new) /\ l.op = op /\ l.rd = rd /\ l.rs = rs /\ l.imm = imm /\ l.to = to
  <2>1. Line(op, rd, rs, imm, to) # Comment
    BY <1>2, <1>3
  <2>2. new = <<At(w[1].label, Line(op, rd, rs, imm, to))>>
    BY <1>3, <2>1
  <2> QED BY <1>1, <2>2 DEF Put, Swap
<1>4. "addi" # none /\ "li" # none /\ "j" # none /\ "mv" # none
  BY DEF none
<1>5. CASE rule = "addi+addi"
  <2>1. new = LET line == Line("addi", w[1].rd, <<w[1].rs[1]>>, w[1].imm + w[2].imm, none)
              IN IF line = Comment /\ w[1].label = none THEN <<>> ELSE <<At(w[1].label, line)>>
    BY <1>5 DEF Replacement, Addi
  <2>2. PICK l : Put(w, l, new) /\ l.op = "addi" /\ l.rd = w[1].rd /\ l.rs = <<w[1].rs[1]>> /\ l.imm = w[1].imm + w[2].imm
    BY <1>3, <1>4, <2>1
  <2> QED BY <1>5, <2>2 DEF Swap
<1>6. CASE rule = "li+addi"
  <2>1. new = LET line == Line("li", w[1].rd, <<>>, w[1].imm + w[2].imm, none)
              IN IF line = Comment /\ w[1].label = none THEN <<>> ELSE <<At(w[1].label, line)>>
    BY <1>6 DEF Replacement, Li
  <2> QED BY <1>3, <1>4, <1>6, <2>1 DEF Swap
<1>7. CASE rule = "beq"
  <2>1. new = LET line == Line("j", none, <<>>, 0, w[1].to)
              IN IF line = Comment /\ w[1].label = none THEN <<>> ELSE <<At(w[1].label, line)>>
    BY <1>7 DEF Replacement, Jmp
  <2> QED BY <1>3, <1>4, <1>7, <2>1 DEF Swap
<1>8. CASE rule = "mv+mv"
  <2>1. new = LET line == Line("mv", w[2].rd, <<w[1].rs[1]>>, 0, none)
              IN IF line = Comment /\ w[1].label = none THEN <<>> ELSE <<At(w[1].label, line)>>
    BY <1>8 DEF Replacement, Mv
  <2>2. PICK l : Put(w, l, new) /\ l.op = "mv" /\ l.rd = w[2].rd /\ l.rs = <<w[1].rs[1]>>
    BY <1>3, <1>4, <2>1
  <2> QED BY <1>8, <2>2 DEF Swap
<1>9. CASE rule = "addi 0"
  <2>1. new = LET line == Line("mv", w[1].rd, <<w[1].rs[1]>>, 0, none)
              IN IF line = Comment /\ w[1].label = none THEN <<>> ELSE <<At(w[1].label, line)>>
    BY <1>9 DEF Replacement, Mv
  <2>2. PICK l : Put(w, l, new) /\ l.op = "mv" /\ l.rd = w[1].rd /\ l.rs = <<w[1].rs[1]>>
    BY <1>3, <1>4, <2>1
  <2>3. l.rs[1] = w[1].rs[1]
    BY <2>2
  <2>4. \E other : Put(w, other, new) /\ other.op = "mv" /\ other.rd = w[1].rd /\ other.rs[1] = w[1].rs[1]
    BY <2>2, <2>3
  <2> QED BY <1>9, <2>4 DEF Swap
<1>10. CASE rule \in {"addi 0 self", "nop", "mv self"}
  <2>1. new = IF w[1].label = none THEN <<>> ELSE <<At(w[1].label, Comment)>>
    BY <1>10 DEF Replacement
  <2>2. At(w[1].label, Comment).op = none /\ At(w[1].label, Comment).rd = none /\ At(w[1].label, Comment).label = w[1].label
    BY <1>1 DEF Comment
  <2> QED BY <1>10, <2>1, <2>2 DEF Put, Swap
<1>11. CASE rule \notin {"addi+addi", "li+addi", "beq", "mv+mv", "addi 0", "addi 0 self", "nop", "mv self"}
  BY <1>11 DEF Swap
<1> QED BY <1>5, <1>6, <1>7, <1>8, <1>9, <1>10, <1>11

\* What shows of an instruction that is no store, call or return.
LEMMA Shown ==
    ASSUME NEW l, NEW regs
    PROVE  /\ l.op \in {"addi", "mv", "li", "nop", none} => Event(l, regs) = <<>>
           /\ l.op = "j" => Event(l, regs) = <<"goto", l.to>>
           /\ l.op = "beq" /\ Read(regs, l.rs[1]) = Read(regs, l.rs[2]) => Event(l, regs) = <<"goto", l.to>>
BY DEF Event, Taken, none

\* A line that writes nothing leaves every register.
LEMMA Unwritten ==
    ASSUME NEW l, l.rd = none \/ Defs(l) = {}, NEW regs, NEW mem, NEW r \in Registers
    PROVE  Written(l, regs, mem)[r] = regs[r]
BY WrittenAt DEF Defs

\* What others see of a window, line by line: where the rule's branch goes, or nothing.
Showing(rule, w) == IF rule = "beq" THEN <<"goto", w[1].to>> ELSE <<>>

LEMMA RuleNames ==
    \A rule \in {Rules[k] : k \in DOMAIN Rules} :
        rule \in {"addi+addi", "li+addi", "beq", "mv+mv", "addi 0 self", "addi 0", "nop", "mv self"}
<1>1. DOMAIN Rules = 1 .. 8
  BY DEF Rules
<1>2. /\ Rules[1] = "addi+addi" /\ Rules[2] = "li+addi" /\ Rules[3] = "beq" /\ Rules[4] = "mv+mv"
      /\ Rules[5] = "addi 0 self" /\ Rules[6] = "addi 0" /\ Rules[7] = "nop" /\ Rules[8] = "mv self"
  BY DEF Rules
<1>3. ASSUME NEW k \in DOMAIN Rules PROVE k \in {1, 2, 3, 4, 5, 6, 7, 8}
  BY <1>1
<1> QED BY <1>2, <1>3

LEMMA OneLine ==
    ASSUME NEW w, NEW l, w = <<l>>, NEW regs, NEW mem
    PROVE  Behind(w, regs, mem) = Written(l, regs, mem) /\ Len(w) = 1 /\ DOMAIN w = {1} /\ w[1] = l
<1>1. Len(w) = 1 /\ w[1] = l /\ DOMAIN w = {1}
  OBVIOUS
<1> QED BY <1>1 DEF Behind

LEMMA TwoLines ==
    ASSUME NEW w, Lines(w), NEW regs, NEW mem
    PROVE  /\ Len(w) = 1 => Behind(w, regs, mem) = Written(w[1], regs, mem) /\ DOMAIN w = {1}
           /\ Len(w) = 2 => Behind(w, regs, mem) = Written(w[2], Written(w[1], regs, mem), mem) /\ DOMAIN w = {1, 2}
BY DEF Lines, Behind

(***************************************************************************)
(* Every rule of asm_peephole.py puts in the place of a window lines       *)
(* behind which each register holds what it held behind the window, from   *)
(* any registers and memory, and which show others the same: the branch    *)
(* on x0 is always taken, nothing else shows.  Two things are not          *)
(* promised: the register that the rule for two moves leaves alone, and    *)
(* two moves by way of x0, which forgets.  The label of the window stays.  *)
(***************************************************************************)
THEOREM WindowsKeepRegisters ==
    ASSUME NEW rule \in {Rules[k] : k \in DOMAIN Rules}, NEW w, Lines(w), Len(w) = WindowSize(rule), Matches(rule, w),
           NEW regs \in [Registers -> 0 .. Words - 1], NEW mem,
           rule = "mv+mv" => Canon(w[1].rd) # "x0"
    PROVE  LET new == Replacement(rule, w)
           IN /\ \A r \in Registers \ GivenUp(rule, w) : Behind(new, regs, mem)[r] = Behind(w, regs, mem)[r]
              /\ \A n \in DOMAIN w : Event(w[n], regs) = Showing(rule, w)
              /\ \A n \in DOMAIN new : Event(new[n], regs) = Showing(rule, w)
              /\ IF new = <<>> THEN w[1].label = none ELSE new[1].label = w[1].label
<1>1. PICK new : new = Replacement(rule, w)
  OBVIOUS
<1>0. Swap(rule, w, new)
  BY <1>1, Replaced
<1>2. \A n \in DOMAIN w : IsInstruction(w[n]) /\ w[n].imm \in Int
  BY DEF Lines
<1>3. /\ Len(w) = 1 => Behind(w, regs, mem) = Written(w[1], regs, mem) /\ DOMAIN w = {1}
      /\ Len(w) = 2 => Behind(w, regs, mem) = Written(w[2], Written(w[1], regs, mem), mem) /\ DOMAIN w = {1, 2}
  BY TwoLines
<1> DEFINE Unchanged == \A r \in Registers \ GivenUp(rule, w) : Behind(new, regs, mem)[r] = Behind(w, regs, mem)[r]
           Quiet == /\ \A n \in DOMAIN w : Event(w[n], regs) = Showing(rule, w)
                    /\ \A n \in DOMAIN new : Event(new[n], regs) = Showing(rule, w)
           Labelled == IF new = <<>> THEN w[1].label = none ELSE new[1].label = w[1].label
           Kept == Unchanged /\ Quiet /\ Labelled
<1>4. ASSUME rule \in {"addi+addi", "li+addi"} PROVE Kept
  <2>1. /\ Len(w) = 2 /\ w[1].op \in {"addi", "li"} /\ w[2].op = "addi" /\ Fused(w)
    BY <1>4, WindowAsked DEF Opcodes
  <2>2. PICK l : /\ Put(w, l, new) /\ l.op = w[1].op /\ l.rd = w[1].rd /\ l.imm = w[1].imm + w[2].imm
                 /\ w[1].op = "addi" => l.rs[1] = w[1].rs[1]
    <3>1. CASE rule = "addi+addi"
      <4>1. w[1].op = "addi"
        BY <2>1, <3>1, WindowAsked DEF Opcodes
      <4> QED BY <1>0, <3>1, <4>1 DEF Swap
    <3>2. CASE rule = "li+addi"
      <4>1. w[1].op = "li"
        BY <2>1, <3>2, WindowAsked DEF Opcodes
      <4> QED BY <1>0, <3>2, <4>1 DEF Swap
    <3> QED BY <1>4, <3>1, <3>2
  <2>3. new = <<l>> /\ l.label = w[1].label
    BY <2>2 DEF Put
  <2>4. Behind(new, regs, mem) = Written(l, regs, mem) /\ DOMAIN new = {1} /\ new[1] = l /\ new # <<>>
    BY <2>3, OneLine
  <2>5. Unchanged
    <3>1. IsInstruction(w[1]) /\ IsInstruction(w[2]) /\ w[1].imm \in Int /\ w[2].imm \in Int
      BY <1>2, <1>3, <2>1
    <3>2. PICK v, u : v = w[1] /\ u = w[2]
      OBVIOUS
    <3>3. /\ v.op \in {"addi", "li"} /\ u.op = "addi" /\ v.rd = u.rd /\ v.rd = u.rs[1]
          /\ l.op = v.op /\ l.rd = v.rd /\ l.imm = v.imm + u.imm /\ (v.op = "addi" => l.rs[1] = v.rs[1])
          /\ IsInstruction(v) /\ IsInstruction(u) /\ v.imm \in Int /\ u.imm \in Int
      BY <2>1, <2>2, <3>1, <3>2 DEF Fused
    <3>4. Sums(v, u, l)
      BY <3>3 DEF Sums
    <3>5. \A r \in Registers : Written(l, regs, mem)[r] = Written(u, Written(v, regs, mem), mem)[r]
      BY <3>4, SumWindow
    <3> QED BY <1>3, <2>1, <2>4, <3>2, <3>5
  <2>6. Showing(rule, w) = <<>>
    BY <1>4 DEF Showing
  <2>7. Quiet
    BY <1>3, <2>1, <2>2, <2>4, <2>6, Shown
  <2> QED BY <1>1, <2>3, <2>4, <2>5, <2>7
<1>5. ASSUME rule = "beq" PROVE Kept
  <2>1. /\ Len(w) = 1 /\ w[1].op = "beq" /\ \A n \in 1 .. 2 : w[1].rs[n] \in {"x0", "zero"}
    BY <1>5, WindowAsked DEF Opcodes
  <2>2. PICK l : Put(w, l, new) /\ l.op = "j" /\ l.rd = none /\ l.to = w[1].to
    BY <1>0, <1>5 DEF Swap
  <2>3. new = <<l>> /\ l.label = w[1].label
    BY <2>2 DEF Put
  <2>4. Behind(new, regs, mem) = Written(l, regs, mem) /\ DOMAIN new = {1} /\ new[1] = l /\ new # <<>>
    BY <2>3, OneLine
  <2>5. w[1].rd = none
    BY <1>2, <1>3, <2>1 DEF IsInstruction
  <2>6. Unchanged
    BY <1>3, <2>1, <2>2, <2>4, <2>5, Unwritten
  <2>7. Read(regs, w[1].rs[1]) = 0 /\ Read(regs, w[1].rs[2]) = 0
    BY <2>1 DEF Read, Canon
  <2>8. Event(w[1], regs) = <<"goto", w[1].to>> /\ Event(l, regs) = <<"goto", w[1].to>>
    BY <2>1, <2>2, <2>7, Shown
  <2>9. Quiet
    BY <1>3, <1>5, <2>1, <2>4, <2>8 DEF Showing
  <2> QED BY <1>1, <2>3, <2>4, <2>6, <2>9
<1>6. ASSUME rule = "mv+mv" PROVE Kept
  <2>1. Len(w) = 2 /\ w[1].op = "mv" /\ w[2].op = "mv" /\ w[1].rd = w[2].rs[1]
    BY <1>6, WindowAsked DEF Opcodes
  <2>2. PICK l : Put(w, l, new) /\ l.op = "mv" /\ l.rd = w[2].rd /\ l.rs[1] = w[1].rs[1]
    BY <1>0, <1>6 DEF Swap
  <2>3. new = <<l>> /\ l.label = w[1].label
    BY <2>2 DEF Put
  <2>4. Behind(new, regs, mem) = Written(l, regs, mem) /\ DOMAIN new = {1} /\ new[1] = l /\ new # <<>>
    BY <2>3, OneLine
  <2>5. Unchanged
    <3>1. IsInstruction(w[1]) /\ IsInstruction(w[2])
      BY <1>2, <1>3, <2>1
    <3>2. PICK v, u : v = w[1] /\ u = w[2]
      OBVIOUS
    <3>3. /\ v.op = "mv" /\ u.op = "mv" /\ v.rd = u.rs[1] /\ Canon(v.rd) # "x0"
          /\ l.op = "mv" /\ l.rd = u.rd /\ l.rs[1] = v.rs[1] /\ IsInstruction(v) /\ IsInstruction(u)
      BY <1>6, <2>1, <2>2, <3>1, <3>2
    <3>4. \A r \in Registers : r # Canon(v.rd) \/ r = Canon(u.rd) =>
              Written(l, regs, mem)[r] = Written(u, Written(v, regs, mem), mem)[r]
      BY <3>3, MoveWindow
    <3>5. \A r \in Registers \ GivenUp(rule, w) : r # Canon(v.rd) \/ r = Canon(u.rd)
      BY <1>6, <3>2 DEF GivenUp
    <3> QED BY <1>3, <2>1, <2>4, <3>2, <3>4, <3>5
  <2>6. Showing(rule, w) = <<>>
    BY <1>6 DEF Showing
  <2>7. Quiet
    BY <1>3, <2>1, <2>2, <2>4, <2>6, Shown
  <2> QED BY <1>1, <2>3, <2>4, <2>5, <2>7
<1>7. ASSUME rule = "addi 0" PROVE Kept
  <2>1. Len(w) = 1 /\ w[1].op = "addi" /\ w[1].imm = 0
    BY <1>7, WindowAsked DEF Opcodes
  <2>2. PICK l : Put(w, l, new) /\ l.op = "mv" /\ l.rd = w[1].rd /\ l.rs[1] = w[1].rs[1]
    BY <1>0, <1>7 DEF Swap
  <2>3. new = <<l>> /\ l.label = w[1].label
    BY <2>2 DEF Put
  <2>4. Behind(new, regs, mem) = Written(l, regs, mem) /\ DOMAIN new = {1} /\ new[1] = l /\ new # <<>>
    BY <2>3, OneLine
  <2>5. Unchanged
    <3>1. PICK v : v = w[1]
      OBVIOUS
    <3>2. IsInstruction(v) /\ v.op = "addi"
      BY <1>2, <1>3, <2>1, <3>1
    <3>3. PICK x : x = Read(regs, v.rs[1])
      OBVIOUS
    <3>4. x \in Int
      BY <3>2, <3>3, Shapes, ReadsWord, WordsAre
    <3>5. Result(v, regs, mem) = x + 0 /\ Result(l, regs, mem) = x
      BY <2>1, <2>2, <3>1, <3>2, <3>3, Results
    <3>6. x + 0 = x
      BY <3>4
    <3>7. \A r \in Registers : Written(v, regs, mem)[r] = Written(l, regs, mem)[r]
      BY <2>2, <3>1, <3>5, <3>6, SameWritten
    <3> QED BY <1>3, <2>1, <2>4, <3>1, <3>7
  <2>6. Showing(rule, w) = <<>>
    BY <1>7 DEF Showing
  <2>7. Quiet
    BY <1>3, <2>1, <2>2, <2>4, <2>6, Shown
  <2> QED BY <1>1, <2>3, <2>4, <2>5, <2>7
<1>8. ASSUME rule \in {"addi 0 self", "nop", "mv self"} PROVE Kept
  <2>1. /\ Len(w) = 1 /\ w[1].op \in {"addi", "nop", "mv"}
        /\ w[1].op = "addi" => w[1].imm = 0
        /\ w[1].op # "nop" => w[1].rd = w[1].rs[1]
    BY <1>8, WindowAsked DEF Opcodes
  <2>2. \A r \in Registers : Written(w[1], regs, mem)[r] = regs[r]
    <3>1. PICK v : v = w[1]
      OBVIOUS
    <3>2. IsInstruction(v)
      BY <1>2, <1>3, <2>1, <3>1
    <3>3. CASE v.op = "nop"
      BY <3>1, <3>2, <3>3, Shapes, Unwritten
    <3>4. CASE v.op = "addi"
      <4>1. v.imm = 0 /\ v.rd = v.rs[1]
        BY <2>1, <3>1, <3>4
      <4> QED BY <3>1, <3>2, <3>4, <4>1, SelfWritten
    <3>5. CASE v.op = "mv"
      <4>1. \A r \in Registers : r \in Defs(v) => Written(v, regs, mem)[r] = regs[r]
        <5> SUFFICES ASSUME NEW r \in Registers, r \in Defs(v) PROVE Written(v, regs, mem)[r] = regs[r]
          OBVIOUS
        <5>1. r = Canon(v.rd) /\ r # "x0" /\ v.rd = v.rs[1]
          BY <2>1, <3>1, <3>5 DEF Defs
        <5>2. Read(regs, v.rs[1]) = regs[r] /\ regs[r] \in 0 .. Words - 1
          BY <5>1 DEF Read
        <5>3. Written(v, regs, mem)[r] = Word(regs[r])
          BY <3>5, <5>2, Results, WrittenAt
        <5> QED BY <5>2, <5>3, WordOfWord
      <4> QED BY <3>1, <4>1, WrittenAt
    <3> QED BY <2>1, <3>1, <3>3, <3>4, <3>5
  <2>3. Showing(rule, w) = <<>>
    BY <1>8 DEF Showing
  <2>4. \/ new = <<>> /\ w[1].label = none
        \/ \E l : Put(w, l, new) /\ l.op = none /\ l.rd = none
    BY <1>0, <1>8 DEF Swap
  <2>5. CASE new = <<>> /\ w[1].label = none
    <3>1. Len(new) = 0 /\ DOMAIN new = {}
      BY <2>5
    <3>2. Behind(new, regs, mem) = regs
      BY <3>1 DEF Behind
    <3>3. Unchanged
      BY <1>3, <2>1, <2>2, <3>2
    <3>4. Quiet
      BY <1>3, <2>1, <2>3, <3>1, Shown
    <3> QED BY <1>1, <2>5, <3>3, <3>4
  <2>6. ASSUME NEW l, Put(w, l, new), l.op = none, l.rd = none PROVE Unchanged /\ Quiet /\ Labelled
    <3>1. new = <<l>> /\ l.label = w[1].label
      BY <2>6 DEF Put
    <3>2. Behind(new, regs, mem) = Written(l, regs, mem) /\ DOMAIN new = {1} /\ new[1] = l /\ new # <<>>
      BY <3>1, OneLine
    <3>3. Unchanged
      BY <1>3, <2>1, <2>2, <2>6, <3>2, Unwritten
    <3>4. Quiet
      BY <1>3, <2>1, <2>3, <2>6, <3>2, Shown
    <3> QED BY <3>1, <3>2, <3>3, <3>4
  <2> QED BY <1>1, <2>4, <2>5, <2>6
<1>9. rule \in {"addi+addi", "li+addi", "beq", "mv+mv", "addi 0 self", "addi 0", "nop", "mv self"}
  BY RuleNames
<1>10. Kept
  <2> HIDE DEF Kept
  <2> QED BY <1>4, <1>5, <1>6, <1>7, <1>8, <1>9
<1> QED BY <1>1, <1>10

-----------------------------------------------------------------------------
(***************************************************************************)
(* lui and addi.                                                           *)
(***************************************************************************)
LEMMA Extended == ASSUME NEW n, Signed12(n) PROVE SignExtend(n) = n /\ n \in Int
<1>1. Low \in Nat \ {0} /\ Low % 2 = 0
  BY WordsAre
<1>2. PICK h : h = Low \div 2
  OBVIOUS
<1>3. h \in Int /\ Low = 2 * h
  BY <1>1, <1>2
<1>4. n \in Int /\ -h <= n /\ n <= h - 1 /\ h >= 1
  BY <1>1, <1>2, <1>3 DEF Signed12
<1>5. CASE n >= 0
  <2>1. n = 0 * Low + n /\ n \in 0 .. Low - 1 /\ ~(n >= h)
    BY <1>1, <1>3, <1>4, <1>5
  <2>2. n % Low = n
    BY <1>1, <1>4, <2>1, RemainderOf
  <2> QED BY <1>2, <1>4, <2>1, <2>2 DEF SignExtend
<1>6. CASE n < 0
  <2>1. n = (-1) * Low + (n + Low) /\ n + Low \in 0 .. Low - 1 /\ n + Low >= h /\ (n + Low) - Low = n /\ -1 \in Int
    BY <1>1, <1>3, <1>4, <1>6
  <2>2. n % Low = n + Low
    BY <1>1, <1>4, <2>1, RemainderOf
  <2> QED BY <1>2, <1>4, <2>1, <2>2 DEF SignExtend
<1> QED BY <1>4, <1>5, <1>6

LEMMA SignedIs == ASSUME NEW x \in Int PROVE SignedWord(x) \in Int /\ Word(SignedWord(x)) = Word(x)
<1>1. PICK a \in 0 .. Words - 1 : a = Word(x)
  BY WordIs
<1>2. SignedWord(x) \in {a, a - Words}
  BY <1>1 DEF SignedWord, Word
<1>3. a = 0 * Words + a /\ a - Words = (-1) * Words + a /\ a \in Int /\ a - Words \in Int /\ -1 \in Int
  BY WordsAre
<1>4. Word(a) = a
  BY WordOfWord
<1>5. Word(a - Words) = a
  BY <1>3, WordOf
<1> QED BY <1>1, <1>2, <1>3, <1>4, <1>5

\* Lines of a text: instructions, calls and what is none.
TextLine(l) ==
    /\ l.op \in {none, "call"} => l.rd = none
    /\ l.op \notin {none, "call"} => IsInstruction(l)
    /\ l.imm \in Int
Text(t) == Len(t) \in Nat /\ DOMAIN t = 1 .. Len(t) /\ \A n \in DOMAIN t : TextLine(t[n])

LEMMA PartnerIs ==
    ASSUME NEW t, Text(t), NEW i \in DOMAIN t, NEW j, j = Partner(t, i), j # 0
    PROVE  /\ j \in i + 1 .. Len(t) /\ \A k \in i + 1 .. j - 1 : IsSeparator(t[k])
           /\ t[i].op = "lui" /\ t[j].op = "addi" /\ t[j].label = none
           /\ Canon(t[i].rd) = Canon(t[j].rd) /\ Canon(t[i].rd) = Canon(t[j].rs[1])
<1> DEFINE later == {n \in i + 1 .. Len(t) : ~IsSeparator(t[n])}
           first == CHOOSE n \in later : \A k \in later : n <= k
<1>1. /\ t[i].op = "lui" /\ later # {} /\ j = first
      /\ t[first].op = "addi" /\ t[first].label = none
      /\ Canon(t[i].rd) = Canon(t[first].rd) /\ Canon(t[i].rd) = Canon(t[first].rs[1])
  BY DEF Partner
<1>2. later \subseteq Nat
  BY DEF Text
<1>3. \E n \in later : \A k \in later : n <= k
  BY <1>1, <1>2, LeastNatural
<1>4. first \in later /\ \A k \in later : first <= k
  <2> HIDE DEF later
  <2> QED BY <1>3
<1>5. \A k \in i + 1 .. j - 1 : IsSeparator(t[k])
  <2> SUFFICES ASSUME NEW k \in i + 1 .. j - 1, ~IsSeparator(t[k]) PROVE FALSE
    OBVIOUS
  <2>1. i \in Nat /\ Len(t) \in Nat /\ j \in i + 1 .. Len(t)
    BY <1>1, <1>4 DEF Text
  <2>2. k \in later /\ ~(j <= k)
    BY <2>1
  <2> QED BY <1>1, <1>4, <2>2
<1> QED BY <1>1, <1>4, <1>5

(***************************************************************************)
(* _merge_lui_addi_once(): the li that it writes in the place of a lui and *)
(* of the addi behind it leaves in every register what the two left, from  *)
(* any registers and memory; between them stood nothing, and the label of  *)
(* the lui stays.                                                          *)
(***************************************************************************)
THEOREM MergedKeepsRegisters ==
    ASSUME NEW t, Text(t), NEW i \in DOMAIN t, NEW j, j = Partner(t, i), j # 0, Signed12(t[j].imm),
           NEW regs \in [Registers -> 0 .. Words - 1], NEW mem
    PROVE  /\ \A k \in i + 1 .. j - 1 : IsSeparator(t[k])
           /\ t[j].label = none /\ Merged(t, i).label = t[i].label
           /\ \A r \in Registers :
                  Written(Merged(t, i), regs, mem)[r] = Written(t[j], Written(t[i], regs, mem), mem)[r]
<1>1. /\ j \in i + 1 .. Len(t) /\ \A k \in i + 1 .. j - 1 : IsSeparator(t[k])
      /\ t[i].op = "lui" /\ t[j].op = "addi" /\ t[j].label = none
      /\ Canon(t[i].rd) = Canon(t[j].rd) /\ Canon(t[i].rd) = Canon(t[j].rs[1])
  BY PartnerIs
<1>2. PICK v, u, l : v = t[i] /\ u = t[j] /\ l = Merged(t, i)
  OBVIOUS
<1>3. v.imm \in Int /\ u.imm \in Int /\ IsInstruction(v) /\ IsInstruction(u) /\ v.op = "lui" /\ u.op = "addi"
  <2>1. j \in DOMAIN t
    BY <1>1 DEF Text
  <2> QED BY <1>1, <1>2, <2>1 DEF Text, TextLine, none
<1>4. l.op = "li" /\ l.rd = v.rd /\ l.label = v.label /\ l.imm = SignedWord(v.imm * Low + u.imm)
  <2>1. SignExtend(u.imm) = u.imm
    BY <1>2, Extended
  <2> QED BY <1>2, <2>1 DEF Merged, At, Li, Line
<1>5. PICK x \in Int : x = v.imm * Low
  BY <1>3, WordsAre
<1>6. Result(v, regs, mem) = x /\ Word(Result(l, regs, mem)) = Word(x + u.imm)
  <2>1. x + u.imm \in Int
    BY <1>3
  <2>2. Result(l, regs, mem) = SignedWord(x + u.imm)
    BY <1>4, <1>5, Results
  <2> QED BY <1>3, <1>5, <2>1, <2>2, Results, SignedIs
<1>7. Defs(l) = Defs(v) /\ (v.rd # none /\ u.rd # none => Defs(u) = Defs(v))
  BY <1>1, <1>2, <1>4 DEF Defs
<1>8. PICK one : one = Written(v, regs, mem)
  OBVIOUS
<1>9. ASSUME NEW r \in Registers PROVE Written(l, regs, mem)[r] = Written(u, one, mem)[r]
  <2>1. Canon(none) \notin Registers
    BY DEF Canon, none, Registers
  <2>2. Defs(v) \subseteq Registers /\ Defs(u) \subseteq Registers
    BY <1>3, Shapes
  <2>3. r \in Defs(v) <=> r \in Defs(u)
    BY <1>1, <1>2, <2>1 DEF Defs
  <2>4. CASE r \in Defs(v)
    <3>1. one[r] = Word(x)
      BY <1>6, <1>8, <2>4, WrittenAt
    <3>2. r = Canon(v.rd) /\ r # "x0"
      BY <2>4 DEF Defs
    <3>3. Read(one, u.rs[1]) = one[r]
      BY <1>1, <1>2, <3>2 DEF Read
    <3>4. Result(u, one, mem) = Word(x) + u.imm
      BY <1>3, <3>1, <3>3, Results
    <3>5. Written(u, one, mem)[r] = Word(Word(x) + u.imm)
      BY <2>3, <2>4, <3>4, WrittenAt
    <3>6. Written(l, regs, mem)[r] = Word(x + u.imm)
      BY <1>6, <1>7, <2>4, WrittenAt
    <3> QED BY <1>3, <3>5, <3>6, WordsAdd
  <2>5. CASE r \notin Defs(v)
    BY <1>7, <1>8, <2>3, <2>5, WrittenAt
  <2> QED BY <2>4, <2>5
<1> QED BY <1>1, <1>2, <1>4, <1>8, <1>9

-----------------------------------------------------------------------------
(***************************************************************************)
(* Removing lui: what is known behind each line of a text, and the text    *)
(* without what that makes redundant.                                      *)
(***************************************************************************)
Knowledge(t, known) ==
    known[0] = {} /\ \A n \in DOMAIN t : known[n] = KnownAfter(t[n], known[n - 1])
Redundant(t, known, n) ==
    t[n].op = "lui" /\ t[n].label = none /\ <<Canon(t[n].rd), t[n].imm>> \in known[n - 1]
Cleaned(t, known) == [n \in DOMAIN t |-> IF Redundant(t, known, n) THEN Comment ELSE t[n]]

\* The function known of the pass has such values, line by line.
LEMMA KnowledgeUnfolds ==
    ASSUME NEW t, Text(t)
    PROVE  \E known : Knowledge(t, known) /\ RemoveRedundantLui(t) = Cleaned(t, known)
<1> DEFINE N == Len(t)
           Next0(f, n) == IF n = 0 THEN {} ELSE KnownAfter(t[n], f[n - 1])
           Described(m, f) == f = [n \in 0 .. m |-> Next0(f, n)]
           Undescribed == {m \in Nat : ~ \E f : Described(m, f)}
<1>0. N \in Nat /\ DOMAIN t = 1 .. N
  BY DEF Text
<1>1. Undescribed = {}
  <2> SUFFICES ASSUME Undescribed # {} PROVE FALSE
    OBVIOUS
  <2>1. PICK m \in Undescribed : \A n \in Undescribed : m <= n
    <3> HIDE DEF Described
    <3> QED BY LeastNatural
  <2>2. CASE m = 0
    <3> DEFINE f == [n \in 0 .. 0 |-> {}]
    <3>1. Described(0, f)
      <4>1. \A n \in 0 .. 0 : n = 0
        OBVIOUS
      <4>2. \A n \in 0 .. 0 : Next0(f, n) = {}
        BY <4>1
      <4> HIDE DEF Next0
      <4> QED BY <4>2
    <3> HIDE DEF Described, f
    <3> QED BY <2>1, <2>2, <3>1
  <2>3. CASE m # 0
    <3>1. m - 1 \in Nat /\ m \in Nat /\ ~(m <= m - 1)
      BY <2>1, <2>3
    <3>2. PICK f : Described(m - 1, f)
      BY <2>1, <3>1
    <3> DEFINE h == [n \in 0 .. m |-> IF n = m THEN Next0(f, m) ELSE f[n]]
    <3>3. \A n \in 0 .. m : h[n] = Next0(h, n)
      <4>1. \A n \in 0 .. m : n # 0 => n - 1 \in 0 .. m /\ n - 1 # m
        BY <3>1
      <4>2. \A n \in 0 .. m : n # 0 => h[n - 1] = f[n - 1]
        BY <4>1
      <4>3. \A n \in 0 .. m : Next0(h, n) = Next0(f, n)
        <5> HIDE DEF h
        <5> QED BY <4>2
      <4>4. \A n \in 0 .. m : n # m => n \in 0 .. (m - 1)
        BY <3>1
      <4>5. \A n \in 0 .. m : n # m => f[n] = Next0(f, n)
        <5> HIDE DEF Next0
        <5> QED BY <3>2, <4>4
      <4> HIDE DEF Next0
      <4> QED BY <4>3, <4>5
    <3>4. Described(m, h)
      <4>1. h = [n \in 0 .. m |-> h[n]]
        OBVIOUS
      <4> HIDE DEF h, Next0
      <4> QED BY <3>3, <4>1
    <3> HIDE DEF Described, h
    <3> QED BY <2>1, <3>4
  <2> QED BY <2>2, <2>3
<1> DEFINE known == CHOOSE f : Described(N, f)
<1>2. Described(N, known)
  <2> HIDE DEF Described
  <2>1. \E f : Described(N, f)
    BY <1>0, <1>1
  <2> QED BY <2>1
<1>3. RemoveRedundantLui(t) = Cleaned(t, known)
  BY DEF RemoveRedundantLui, Cleaned, Redundant
<1>4. known[0] = {}
  <2> HIDE DEF known
  <2>1. 0 \in 0 .. N
    BY <1>0
  <2>2. known[0] = Next0(known, 0)
    <3> HIDE DEF Next0
    <3> QED BY <1>2, <2>1
  <2> QED BY <2>2
<1>5. ASSUME NEW n \in DOMAIN t PROVE known[n] = KnownAfter(t[n], known[n - 1])
  <2> HIDE DEF known
  <2>1. n \in 0 .. N /\ n # 0
    BY <1>0
  <2>2. known[n] = Next0(known, n)
    <3> HIDE DEF Next0
    <3> QED BY <1>2, <2>1
  <2> QED BY <2>1, <2>2
<1> HIDE DEF known
<1> QED BY <1>3, <1>4, <1>5 DEF Knowledge

\* What is known in front of the line at n.
KnownAt(t, known, n) == IF t[n].label # none THEN {} ELSE known[n - 1]

\* Where a thing known in front of the next line comes from.
LEMMA KnowledgeIs ==
    ASSUME NEW t, Text(t), NEW known, Knowledge(t, known), NEW n \in DOMAIN t, n + 1 \in DOMAIN t
    PROVE  LET here == KnownAt(t, known, n)
               line == t[n]
           IN \A k \in KnownAt(t, known, n + 1) :
                 /\ line.op \notin {"beq", "j", "call", "ret"}
                 /\ line.op = none => k \in here
                 /\ line.op \in {"sw", "nop"} => k \in here
                 /\ line.op = "lui" => k = <<Canon(line.rd), line.imm>> \/ (k \in here /\ k[1] # Canon(line.rd))
                 /\ line.op \notin {none, "lui", "sw", "nop"} => k \in here /\ (line.rd = none \/ k[1] # Canon(line.rd))
<1> DEFINE here == KnownAt(t, known, n)
           line == t[n]
<1> SUFFICES ASSUME NEW k \in KnownAt(t, known, n + 1)
             PROVE  /\ line.op \notin {"beq", "j", "call", "ret"}
                    /\ line.op = none => k \in here
                    /\ line.op \in {"sw", "nop"} => k \in here
                    /\ line.op = "lui" => k = <<Canon(line.rd), line.imm>> \/ (k \in here /\ k[1] # Canon(line.rd))
                    /\ line.op \notin {none, "lui", "sw", "nop"} => k \in here /\ (line.rd = none \/ k[1] # Canon(line.rd))
  OBVIOUS
<1>1. n \in Nat /\ n + 1 - 1 = n
  BY DEF Text
<1>2. k \in known[n]
  BY <1>1 DEF KnownAt
<1>3. k \in KnownAfter(line, known[n - 1])
  BY <1>2 DEF Knowledge
<1>4. CASE line.op = none
  BY <1>3, <1>4 DEF KnownAfter, KnownAt, none
<1>5. CASE line.op = "lui"
  BY <1>3, <1>5 DEF KnownAfter, KnownAt, none
<1>6. CASE line.op \notin {none, "lui"}
  <2>1. line.op \notin ControlFlow /\ k \in {x \in here : line.rd = none \/ x[1] # Canon(line.rd)}
    BY <1>3, <1>6 DEF KnownAfter, KnownAt
  <2> QED BY <2>1, <1>6 DEF ControlFlow
<1> QED BY <1>4, <1>5, <1>6 DEF none

(***************************************************************************)
(* What is known is of the registers of a machine.                         *)
(***************************************************************************)
Holds(t, known, m) ==
    \A k \in KnownAt(t, known, m.at) : k[1] \in Registers \ {"x0"} => m.regs[k[1]] = Word(k[2] * Low)

LabelsResolve(t) ==
    \A n \in DOMAIN t : t[n].op \in {"j", "beq"} => t[n].to # none /\ \E k \in DOMAIN t : t[k].label = t[n].to

\* Where a step leads, and what it writes.
LEMMA StepIs ==
    ASSUME NEW t, Text(t), NEW m, IsMachine(m), m.at \in DOMAIN t
    PROVE  LET line == t[m.at]
               next == Stepped(t, m)
           IN /\ IsMachine(next)
              /\ line.op = "ret" => next = m
              /\ line.op = "call" => next.at = m.at + 1
              /\ line.op \in {"beq", "j"} => next.regs = m.regs /\ next.at \in {m.at + 1, Place(t, line.to)}
              /\ line.op \in {"sw", "nop", none} => next.regs = m.regs /\ next.at = m.at + 1
              /\ line.op \notin {"ret", "call", "beq", "j", "sw", "nop", none} =>
                    next = [m EXCEPT !.at = @ + 1, !.regs = Written(line, m.regs, m.mem)]
<1> DEFINE line == t[m.at]
           next == Stepped(t, m)
<1>1. CASE line.op = "sw"
  <2>1. next = [m EXCEPT !.at = @ + 1, !.mem[Address(m.regs, line)] = Read(m.regs, line.rs[1])]
    BY <1>1 DEF Stepped, Taken, none
  <2>2. next.at = m.at + 1 /\ next.regs = m.regs /\ next = [at |-> next.at, regs |-> next.regs, mem |-> next.mem]
    BY <2>1 DEF IsMachine
  <2>3. IsMachine(next)
    BY <2>2 DEF IsMachine
  <2> QED BY <1>1, <2>2, <2>3 DEF none
<1>2. CASE line.op = "call"
  <2>1. next = [m EXCEPT !.at = @ + 1, !.regs = AfterCall(@)]
    BY <1>2 DEF Stepped, Taken, none
  <2>2. next.at = m.at + 1 /\ next.regs = AfterCall(m.regs) /\ next = [at |-> next.at, regs |-> next.regs, mem |-> next.mem]
    BY <2>1 DEF IsMachine
  <2>3. IsMachine(next)
    BY <2>2 DEF IsMachine, AfterCall
  <2> QED BY <1>2, <2>2, <2>3 DEF none
<1>3. CASE line.op = "ret"
  <2>1. next = m
    BY <1>3 DEF Stepped, Taken, none
  <2> QED BY <1>3, <2>1 DEF none
<1>4. CASE line.op \in {"beq", "j"} /\ Taken(line, m.regs)
  <2>1. next = [m EXCEPT !.at = Place(t, line.to)]
    BY <1>4 DEF Stepped, Taken, none
  <2>2. next.at = Place(t, line.to) /\ next.regs = m.regs /\ next = [at |-> next.at, regs |-> next.regs, mem |-> next.mem]
    BY <2>1 DEF IsMachine
  <2>3. IsMachine(next)
    BY <2>2 DEF IsMachine
  <2> QED BY <1>4, <2>2, <2>3 DEF none
<1>5. CASE line.op \in {"beq", "nop", none} /\ ~Taken(line, m.regs)
  <2>1. next = [m EXCEPT !.at = @ + 1]
    BY <1>5 DEF Stepped, none
  <2>2. next.at = m.at + 1 /\ next.regs = m.regs /\ next = [at |-> next.at, regs |-> next.regs, mem |-> next.mem]
    BY <2>1 DEF IsMachine
  <2>3. IsMachine(next)
    BY <2>2 DEF IsMachine
  <2> QED BY <1>5, <2>2, <2>3 DEF none
<1>6. CASE line.op \notin {"ret", "call", "beq", "j", "sw", "nop", none}
  <2>1. ~Taken(line, m.regs)
    BY <1>6 DEF Taken
  <2>2. next = [m EXCEPT !.at = @ + 1, !.regs = Written(line, m.regs, m.mem)]
    BY <1>6, <2>1 DEF Stepped
  <2>3. next.regs = Written(line, m.regs, m.mem) /\ next = [at |-> next.at, regs |-> next.regs, mem |-> next.mem]
    BY <2>2 DEF IsMachine
  <2>4. IsMachine(next)
    BY <2>3 DEF IsMachine, Written
  <2> QED BY <1>6, <2>2, <2>4
<1>7. line.op = "j" => Taken(line, m.regs)
  BY DEF Taken
<1>8. line.op \in {"nop", none} => ~Taken(line, m.regs)
  BY DEF Taken, none
<1> HIDE DEF line, next
<1>9. /\ line.op = "sw" => next.regs = m.regs /\ next.at = m.at + 1
  BY <1>1 DEF line, next
<1> QED BY <1>1, <1>2, <1>3, <1>4, <1>5, <1>6, <1>7, <1>8 DEF line, next

\* What is known is true of the machine, wherever it steps.
LEMMA KnowledgeHolds ==
    ASSUME NEW t, Text(t), LabelsResolve(t), NEW known, Knowledge(t, known),
           NEW m, IsMachine(m), m.at \in DOMAIN t, Holds(t, known, m), Stepped(t, m).at \in DOMAIN t
    PROVE  Holds(t, known, Stepped(t, m))
<1> DEFINE line == t[m.at]
<1>1. PICK next : next = Stepped(t, m)
  OBVIOUS
<1>2. /\ line.op = "ret" => next = m
      /\ line.op = "call" => next.at = m.at + 1
      /\ line.op \in {"beq", "j"} => next.regs = m.regs /\ next.at \in {m.at + 1, Place(t, line.to)}
      /\ line.op \in {"sw", "nop", none} => next.regs = m.regs /\ next.at = m.at + 1
      /\ line.op \notin {"ret", "call", "beq", "j", "sw", "nop", none} =>
            next = [m EXCEPT !.at = @ + 1, !.regs = Written(line, m.regs, m.mem)]
  BY <1>1, StepIs
<1>3. CASE line.op = "ret"
  BY <1>1, <1>2, <1>3
<1>4. CASE line.op \in {"beq", "j"} /\ next.at = Place(t, line.to)
  <2>1. line.to # none /\ \E k \in DOMAIN t : t[k].label = line.to
    BY <1>4 DEF LabelsResolve
  <2>2. t[Place(t, line.to)].label = line.to
    BY <2>1 DEF Place
  <2>3. KnownAt(t, known, next.at) = {}
    BY <1>4, <2>1, <2>2 DEF KnownAt
  <2> QED BY <1>1, <2>3 DEF Holds
<1>5. CASE next.at = m.at + 1
  <2>1. /\ m.at \in DOMAIN t /\ m.at + 1 \in DOMAIN t
    BY <1>1, <1>5
  <2> SUFFICES ASSUME NEW k \in KnownAt(t, known, m.at + 1), k[1] \in Registers \ {"x0"}
               PROVE  next.regs[k[1]] = Word(k[2] * Low)
    BY <1>1, <1>5 DEF Holds
  <2>2. /\ line.op \notin {"beq", "j", "call", "ret"}
        /\ line.op = none => k \in KnownAt(t, known, m.at)
        /\ line.op \in {"sw", "nop"} => k \in KnownAt(t, known, m.at)
        /\ line.op = "lui" => k = <<Canon(line.rd), line.imm>> \/ (k \in KnownAt(t, known, m.at) /\ k[1] # Canon(line.rd))
        /\ line.op \notin {none, "lui", "sw", "nop"} => k \in KnownAt(t, known, m.at) /\ (line.rd = none \/ k[1] # Canon(line.rd))
    BY <2>1, KnowledgeIs
  <2>3. k \in KnownAt(t, known, m.at) => m.regs[k[1]] = Word(k[2] * Low)
    BY DEF Holds
  <2>4. CASE line.op \in {none, "sw", "nop"}
    BY <1>2, <2>2, <2>3, <2>4
  <2>5. CASE line.op \notin {none, "sw", "nop"}
    <3>1. next.regs = Written(line, m.regs, m.mem)
      BY <1>2, <2>2, <2>5 DEF IsMachine
    <3>2. CASE k[1] # Canon(line.rd) \/ line.rd = none
      <4>1. k[1] \notin Defs(line)
        BY <3>2 DEF Defs
      <4>2. next.regs[k[1]] = m.regs[k[1]]
        BY <3>1, <4>1 DEF Written
      <4>3. k \in KnownAt(t, known, m.at) \/ (line.op = "lui" /\ k = <<Canon(line.rd), line.imm>>)
        BY <2>2, <2>5
      <4>4. CASE k \in KnownAt(t, known, m.at)
        BY <2>3, <4>2, <4>4
      <4>5. CASE line.op = "lui" /\ k = <<Canon(line.rd), line.imm>>
        <5>1. k[1] = Canon(line.rd) /\ line.rd = none
          BY <4>5, <3>2
        <5>2. k[1] = "none"
          BY <5>1 DEF Canon, none
        <5> QED BY <5>2 DEF Registers
      <4> QED BY <4>3, <4>4, <4>5
    <3>3. CASE k[1] = Canon(line.rd) /\ line.rd # none
      <4>1. line.op = "lui" /\ (k = <<Canon(line.rd), line.imm>> \/ (k \in KnownAt(t, known, m.at) /\ k[1] # Canon(line.rd)))
        BY <2>2, <2>5, <3>3
      <4>2. k = <<Canon(line.rd), line.imm>> /\ k[2] = line.imm
        BY <4>1, <3>3
      <4>3. k[1] \in Defs(line) /\ k[1] \in Registers
        BY <3>3 DEF Defs
      <4>4. next.regs[k[1]] = Word(Result(line, m.regs, m.mem))
        BY <3>1, <4>3 DEF Written
      <4>5. Result(line, m.regs, m.mem) = line.imm * Low
        BY <4>1 DEF Result
      <4> QED BY <4>2, <4>4, <4>5
    <3> QED BY <3>2, <3>3
  <2> QED BY <2>4, <2>5
<1>6. line.op \in {"ret", "call", "beq", "j", "sw", "nop", none} \/ next.at = m.at + 1
  BY <1>2 DEF IsMachine
<1> HIDE DEF line
<1> QED BY <1>2, <1>3, <1>4, <1>5, <1>6

\* No label is lost, so jumps go where they went.
LEMMA SamePlaces ==
    ASSUME NEW t, NEW known, NEW l
    PROVE  Place(Cleaned(t, known), l) = Place(t, l)
<1> DEFINE c == Cleaned(t, known)
<1>1. DOMAIN c = DOMAIN t
  BY DEF Cleaned
<1>2. \A n \in DOMAIN t : c[n].label = t[n].label
  BY DEF Cleaned, Redundant, Comment, Line, none
<1> HIDE DEF c
<1>3. \A n : (n \in DOMAIN c /\ c[n].label = l) <=> (n \in DOMAIN t /\ t[n].label = l)
  BY <1>1, <1>2
<1>4. (CHOOSE n \in DOMAIN c : c[n].label = l) = (CHOOSE n \in DOMAIN t : t[n].label = l)
  BY <1>3, Zenon
<1> QED BY <1>4 DEF Place, c

\* One step of either text.
LEMMA StepUnnoticed ==
    ASSUME NEW t, Text(t), NEW known, Knowledge(t, known),
           NEW m, IsMachine(m), m.at \in DOMAIN t, Holds(t, known, m)
    PROVE  LET c == Cleaned(t, known)
           IN Stepped(c, m) = Stepped(t, m) /\ Shows(c, m) = Shows(t, m)
<1> DEFINE c == Cleaned(t, known)
           line == t[m.at]
<1>1. CASE ~Redundant(t, known, m.at)
  <2>1. c[m.at] = line
    BY <1>1 DEF Cleaned
  <2>2. Place(c, line.to) = Place(t, line.to)
    BY SamePlaces
  <2> HIDE DEF c
  <2>3. Shows(c, m) = Shows(t, m)
    BY <2>1 DEF Shows
  <2>4. Stepped(c, m) = Stepped(t, m)
    BY <2>1, <2>2 DEF Stepped
  <2> QED BY <2>3, <2>4 DEF c
<1>2. CASE Redundant(t, known, m.at)
  <2>1. /\ c[m.at] = Comment /\ line.op = "lui" /\ line.label = none
        /\ <<Canon(line.rd), line.imm>> \in known[m.at - 1]
    BY <1>2 DEF Cleaned, Redundant
  <2>2. <<Canon(line.rd), line.imm>> \in KnownAt(t, known, m.at)
    BY <2>1 DEF KnownAt
  <2>3. Defs(line) \subseteq Registers \ {"x0"} /\ Defs(line) \subseteq {Canon(line.rd)}
    <3>1. TextLine(line)
      BY DEF Text
    <3>2. IsInstruction(line)
      BY <2>1, <3>1 DEF TextLine, none
    <3> QED BY <3>2 DEF IsInstruction, Defs
  <2>4. \A r \in Defs(line) : m.regs[r] = Word(line.imm * Low)
    BY <2>2, <2>3 DEF Holds
  <2>5. Result(line, m.regs, m.mem) = line.imm * Low
    BY <2>1 DEF Result
  <2>6. Written(line, m.regs, m.mem) = m.regs
    <3>1. \A r \in Registers : (IF r \in Defs(line) THEN Word(Result(line, m.regs, m.mem)) ELSE m.regs[r]) = m.regs[r]
      BY <2>4, <2>5
    <3>2. m.regs = [r \in Registers |-> m.regs[r]]
      BY DEF IsMachine
    <3>3. Written(line, m.regs, m.mem) = [r \in Registers |-> m.regs[r]]
      BY <3>1, Zenon DEF Written
    <3> QED BY <3>2, <3>3
  <2>7. Stepped(t, m) = [m EXCEPT !.at = @ + 1, !.regs = Written(line, m.regs, m.mem)]
    BY <2>1, StepIs DEF none
  <2>8. Stepped(t, m) = [m EXCEPT !.at = @ + 1]
    BY <2>6, <2>7 DEF IsMachine
  <2>9. Comment.op = "none"
    BY DEF Comment, Line, none
  <2>10. ~Taken(Comment, m.regs) /\ ~Taken(line, m.regs)
    BY <2>1, <2>9 DEF Taken
  <2> HIDE DEF c
  <2>11. Stepped(c, m) = [m EXCEPT !.at = @ + 1]
    BY <2>1, <2>9, <2>10 DEF Stepped, none
  <2>12. Shows(c, m) = <<>> /\ Shows(t, m) = <<>>
    BY <2>1, <2>9, <2>10 DEF Shows, Event
  <2> QED BY <2>8, <2>11, <2>12 DEF c
<1> QED BY <1>1, <1>2

(***************************************************************************)
(* _remove_redundant_lui_once(): a machine that runs through a text, from  *)
(* its first line or from any label and round any loop, runs through the   *)
(* text without the redundant lui in the same states, and shows the same,  *)
(* step for step and for any number of steps.                              *)
(***************************************************************************)
THEOREM LuiRemovalUnnoticed ==
    ASSUME NEW t, Text(t), LabelsResolve(t), NEW N \in Nat, NEW run,
           IsMachine(run[0]), run[0].at = 1 \/ t[run[0].at].label # none,
           \A n \in 0 .. N : run[n].at \in DOMAIN t /\ run[n + 1] = Stepped(t, run[n])
    PROVE  \A n \in 0 .. N : /\ run[n + 1] = Stepped(RemoveRedundantLui(t), run[n])
                             /\ Shows(RemoveRedundantLui(t), run[n]) = Shows(t, run[n])
<1>1. PICK known : Knowledge(t, known) /\ RemoveRedundantLui(t) = Cleaned(t, known)
  BY KnowledgeUnfolds
<1> DEFINE Good(n) == IsMachine(run[n]) /\ Holds(t, known, run[n])
           Bad == {n \in Nat : n <= N /\ ~Good(n)}
<1>2. Good(0)
  <2>1. 0 \in 0 .. N
    OBVIOUS
  <2>2. KnownAt(t, known, run[0].at) = {}
    BY <1>1 DEF KnownAt, Knowledge
  <2> QED BY <2>2 DEF Holds
<1>3. Bad = {}
  <2> SUFFICES ASSUME Bad # {} PROVE FALSE
    OBVIOUS
  <2>1. PICK n \in Bad : \A k \in Bad : n <= k
    <3> HIDE DEF Good
    <3> QED BY LeastNatural
  <2>2. n # 0
    BY <1>2, <2>1
  <2> DEFINE p == n - 1
  <2>3. p \in Nat /\ p + 1 = n /\ p \in 0 .. N /\ n \in 0 .. N
    BY <2>1, <2>2
  <2>4. Good(p)
    <3> HIDE DEF Good
    <3> QED BY <2>1, <2>3
  <2> HIDE DEF p
  <2>5. run[n] = Stepped(t, run[p]) /\ run[p].at \in DOMAIN t /\ run[n].at \in DOMAIN t
    BY <2>3
  <2>6. IsMachine(run[n])
    <3>1. PICK m : m = run[p] /\ IsMachine(m) /\ m.at \in DOMAIN t
      BY <2>4, <2>5
    <3>2. IsMachine(Stepped(t, m))
      BY <3>1, StepIs
    <3> QED BY <2>5, <3>1, <3>2
  <2>7. Holds(t, known, run[n])
    BY <1>1, <2>4, <2>5, KnowledgeHolds
  <2> QED BY <2>1, <2>6, <2>7
<1>4. ASSUME NEW n \in 0 .. N
      PROVE  /\ run[n + 1] = Stepped(RemoveRedundantLui(t), run[n])
             /\ Shows(RemoveRedundantLui(t), run[n]) = Shows(t, run[n])
  <2>1. Good(n)
    BY <1>3
  <2>2. run[n].at \in DOMAIN t /\ run[n + 1] = Stepped(t, run[n])
    OBVIOUS
  <2> QED BY <1>1, <2>1, <2>2, StepUnnoticed
<1> QED BY <1>4
=============================================================================
