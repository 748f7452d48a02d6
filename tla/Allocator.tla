------------------------------- MODULE Allocator -------------------------------
(***************************************************************************)
(* scratchv_dag/allocator.py, MemoryAllocator: offsets of a fixed pool, a  *)
(* scratchpad handed out by a bump pointer in front and a general region   *)
(* behind it, managed by buddy lists or by another bump pointer.  The      *)
(* buddy system's loops take one step per iteration.                       *)
(*                                                                         *)
(* A block's size is a power of two; Size[l] is the l-th of them and       *)
(* Size[0] the cache line, the smallest ever handed out.  The counters of  *)
(* AllocStats and the metadata queries are left out.                       *)
(***************************************************************************)
EXTENDS Integers, SequencesExt

CONSTANTS
    Pool,        \* pool_size
    Scratch,     \* scratchpad.size, aligned to the cache line
    Top,         \* the largest level
    Size,        \* [0..Top -> powers of two]
    Requests,    \* sizes asked for
    Aligns,      \* alignments asked for; 0 stands for the cache line
    MaxAllocs    \* bound: successful allocations, over all resets

Levels == 0 .. Top
ASSUME TopAssumption == Top \in Nat
ASSUME SizeAssumption ==
    /\ Size \in [Levels -> Nat \ {0}]
    /\ \A l \in Levels \ {0} : Size[l] = 2 * Size[l-1]
ASSUME PoolAssumption ==
    /\ Pool \in Nat /\ Scratch \in 0 .. Pool
    /\ Size[0] <= Pool - Scratch /\ 2 * Size[Top] > Pool
ASSUME RequestAssumption == Requests \subseteq Nat \ {0} /\ Aligns \subseteq Nat
ASSUME BoundAssumption == MaxAllocs \in Nat

VARIABLES
    buddy,     \* policy = AllocationPolicy.BUDDY, chosen at construction
    pc,        \* "ready", "split" or "coalesce": the loop the allocator is in
    free,      \* _buddy_free: level -> sequence of addresses
    taken,     \* _buddy_allocated: set of [addr, level], one per address
    block,     \* the loop's [addr, level]
    goal,      \* the level _buddy_alloc splits down to
    asked,     \* the running allocation's [size, align]
    cursor,    \* _general_cursor
    scratch,   \* _scratchpad_cursor
    granted,   \* what callers hold: set of [id, addr, size, align]
    recognised,\* what the last free returned
    merged,    \* ghost: some free has coalesced two blocks since the last reset
    allocs     \* successful allocations, over all resets

loopvars == <<pc, block, goal, asked>>
cursors  == <<cursor, scratch, buddy>>
vars == <<loopvars, cursors, free, taken, granted, recognised, merged, allocs>>

Block(a, l) == [addr |-> a, level |-> l]

\* _align_up, for an alignment that is a power of two.
AlignUp(a, n) == ((a + n - 1) \div n) * n

\* What a request becomes: an alignment, and a size rounded up to it.
Asked(size, align) ==
    LET n == IF align = 0 THEN Size[0] ELSE align IN
    [size |-> AlignUp(size, n), align |-> n]

\* alloc returns addr: the area is the caller's.
Grant(addr, ask) ==
    /\ granted' = granted \cup
          {[id |-> allocs, addr |-> addr, size |-> ask.size, align |-> ask.align]}
    /\ allocs' = allocs + 1

-----------------------------------------------------------------------------
(* alloc.                                                                  *)

\* Mutation of FromScratchpad: the bytes skipped for the alignment are not counted.
FromScratchpadUncounted(ask) ==
    LET at == AlignUp(scratch, ask.align) IN
    /\ at + ask.size <= Scratch
    /\ scratch' = scratch + ask.size
    /\ Grant(at, ask)
    /\ UNCHANGED <<loopvars, free, taken, buddy, cursor, recognised, merged>>

\* With prefer_scratchpad, if it still fits.
FromScratchpad(ask) ==
    LET at == AlignUp(scratch, ask.align) IN
    /\ at + ask.size <= Scratch
    /\ scratch' = at + ask.size
    /\ Grant(at, ask)
    /\ UNCHANGED <<loopvars, free, taken, buddy, cursor, recognised, merged>>

\* First-fit: the general region's bump pointer.
FromCursor(ask) ==
    LET at == AlignUp(cursor, ask.align) IN
    /\ at + ask.size <= Pool
    /\ cursor' = at + ask.size
    /\ Grant(at, ask)
    /\ UNCHANGED <<loopvars, free, taken, buddy, scratch, recognised, merged>>

\* _buddy_alloc: the smallest power of two that is large enough; the first
\* block of the smallest list that is not empty and holds blocks of that size.
Fitting(ask) == {l \in Levels : Size[l] >= ask.size}
Smallest(S)  == CHOOSE l \in S : \A m \in S : l <= m
FromBuddies(ask) ==
    /\ Fitting(ask) # {}
    /\ goal' = Smallest(Fitting(ask))
    /\ LET candidates == {l \in Levels : l >= goal' /\ free[l] # <<>>}
           l          == Smallest(candidates) IN
       /\ candidates # {}
       /\ block' = Block(Head(free[l]), l)
       /\ free' = [free EXCEPT ![l] = Tail(@)]
    /\ pc' = "split" /\ asked' = ask
    /\ UNCHANGED <<cursors, taken, granted, recognised, merged, allocs>>

\* An allocation that returns -1 changes nothing.
Alloc ==
    /\ pc = "ready" /\ allocs < MaxAllocs
    /\ \E size \in Requests, align \in Aligns, prefer \in BOOLEAN :
          LET ask == Asked(size, align) IN
          \/ prefer /\ FromScratchpad(ask)
          \/ /\ prefer => AlignUp(scratch, ask.align) + ask.size > Scratch
             /\ IF buddy THEN FromBuddies(ask) ELSE FromCursor(ask)

\* Mutation of Split: the lower half is put on the list and kept.
SplitKeepsListed ==
    /\ pc = "split" /\ block.level > goal
    /\ LET l == block.level - 1 IN
       /\ block' = Block(block.addr, l)
       /\ free' = [free EXCEPT ![l] = Append(@, block.addr)]
    /\ UNCHANGED <<pc, goal, asked, cursors, taken, granted, recognised, merged, allocs>>

\* Mutation of Split: only the last upper half is put on its list.
SplitDropsHalves ==
    /\ pc = "split" /\ block.level > goal
    /\ LET l == block.level - 1 IN
       /\ block' = Block(block.addr, l)
       /\ free' = IF l = goal THEN [free EXCEPT ![l] = Append(@, block.addr + Size[l])] ELSE free
    /\ UNCHANGED <<pc, goal, asked, cursors, taken, granted, recognised, merged, allocs>>

\* Halve, and put the upper half on its list, until the goal is reached.
Split ==
    /\ pc = "split" /\ block.level > goal
    /\ LET l == block.level - 1 IN
       /\ block' = Block(block.addr, l)
       /\ free' = [free EXCEPT ![l] = Append(@, block.addr + Size[l])]
    /\ UNCHANGED <<pc, goal, asked, cursors, taken, granted, recognised, merged, allocs>>

\* _buddy_allocated[addr] is assigned, whatever it was.
Take ==
    /\ pc = "split" /\ block.level = goal
    /\ taken' = {b \in taken : b.addr # block.addr} \cup {block}
    /\ Grant(block.addr, asked)
    /\ pc' = "ready" /\ block' = Block(0, 0)
    /\ UNCHANGED <<goal, asked, free, cursors, recognised, merged>>

-----------------------------------------------------------------------------
(* free.  Callers free what they hold, once.                               *)

\* addr ^ block_size.
BuddyOf(b) ==
    Block(IF (b.addr \div Size[b.level]) % 2 = 0 THEN b.addr + Size[b.level]
                                                 ELSE b.addr - Size[b.level], b.level)

\* In the scratchpad nothing happens; by first fit no region is ever marked
\* used, so none is found; a buddy block goes to its list at once.
Free(g) ==
    LET known == {b \in taken : b.addr = g.addr} IN
    /\ pc = "ready" /\ g \in granted
    /\ granted' = granted \ {g}
    /\ \/ /\ g.addr < Scratch
          /\ recognised' = TRUE /\ UNCHANGED <<pc, taken, block, free>>
       \/ /\ g.addr >= Scratch /\ (~buddy \/ known = {})
          /\ recognised' = FALSE /\ UNCHANGED <<pc, taken, block, free>>
       \/ /\ g.addr >= Scratch /\ buddy
          /\ \E b \in known :
                /\ taken' = taken \ {b} /\ block' = b
                /\ free' = [free EXCEPT ![b.level] = Append(@, b.addr)]
          /\ pc' = "coalesce" /\ recognised' = TRUE
    /\ UNCHANGED <<goal, asked, cursors, merged, allocs>>

BuddyIsFree == BuddyOf(block).addr \in Range(free[block.level])

\* The buddy leaves the list and a block of twice the size joins its own; the
\* block itself stays where free or the last iteration has put it.
Merge ==
    /\ pc = "coalesce" /\ BuddyIsFree
    /\ LET other == BuddyOf(block)
           both  == Block(Min({block.addr, other.addr}), block.level + 1) IN
       /\ block' = both
       /\ free' = [free EXCEPT ![block.level] = RemoveFirst(@, other.addr),
                               ![both.level]  = Append(@, both.addr)]
    /\ merged' = TRUE
    /\ UNCHANGED <<pc, goal, asked, taken, cursors, granted, recognised, allocs>>

Settle ==
    /\ pc = "coalesce" /\ ~BuddyIsFree
    /\ pc' = "ready" /\ block' = Block(0, 0)
    /\ UNCHANGED <<goal, asked, free, taken, cursors, granted, recognised, merged, allocs>>

-----------------------------------------------------------------------------
(* Construction and reset.                                                 *)

\* _init_buddy: the largest power of two, and the largest in what remains.
Below(n) == {l \in Levels : Size[l] <= n}
Largest(S) == CHOOSE l \in S : \A m \in S : m <= l
InitBuddy ==
    LET general == Pool - Scratch
        top     == Largest(Below(general))
        rest    == general - Size[top] IN
    {Block(Scratch, top)} \cup
    (IF Below(rest) = {} THEN {} ELSE {Block(Scratch + Size[top], Largest(Below(rest)))})

\* By buddies, the two seeds, of different sizes, each alone on its list.
SeededLists(policy) ==
    [l \in Levels |->
        IF policy THEN SetToSeq({b.addr : b \in {c \in InitBuddy : c.level = l}}) ELSE <<>>]

Init ==
    /\ buddy \in BOOLEAN
    /\ pc = "ready" /\ block = Block(0, 0) /\ goal = 0
    /\ asked = [size |-> 0, align |-> 1]
    /\ free = SeededLists(buddy) /\ taken = {}
    /\ cursor = Scratch /\ scratch = 0
    /\ granted = {} /\ recognised = TRUE /\ merged = FALSE
    /\ allocs = 0

\* After reset whatever callers held is void.
Reset ==
    /\ pc = "ready"
    /\ free' = SeededLists(buddy) /\ taken' = {}
    /\ cursor' = Scratch /\ scratch' = 0
    /\ granted' = {} /\ merged' = FALSE
    /\ UNCHANGED <<loopvars, buddy, recognised, allocs>>

Next == Alloc \/ Split \/ Take \/ (\E g \in granted : Free(g)) \/ Merge \/ Settle \/ Reset
Spec == Init /\ [][Next]_vars

-----------------------------------------------------------------------------
(* Properties.                                                             *)

\* [a, a+m) and [b, b+n) have no byte in common.
Apart(a, m, b, n) == a + m <= b \/ b + n <= a

\* Blocks listed free, and those recorded allocated or being split.
On(lists) == {b \in [addr : UNION {Range(lists[l]) : l \in Levels}, level : Levels] :
                b.addr \in Range(lists[b.level])}
Listed  == On(free)
InHand  == IF pc = "split" THEN {block} ELSE {}
Blocks  == Listed \cup taken \cup InHand

TypeOK ==
    /\ pc \in {"ready", "split", "coalesce"}
    /\ free \in [Levels -> Seq(Nat)]
    /\ taken \subseteq [addr : Nat, level : Levels]
    /\ block \in [addr : Nat, level : Levels] /\ goal \in Levels
    /\ asked \in [size : Nat, align : Nat]
    /\ granted \subseteq [id : Nat, addr : Nat, size : Nat, align : Nat]
    /\ cursor \in Nat /\ scratch \in Nat
    /\ buddy \in BOOLEAN /\ recognised \in BOOLEAN /\ merged \in BOOLEAN /\ allocs \in Nat

\* However blocks are split and merged, all of them lie in the general region,
\* although a merge looks for its buddy at an address computed from zero.
InRegion == \A b \in Blocks : b.addr >= Scratch /\ b.addr + Size[b.level] <= Pool

\* No two callers hold a common byte, and all they hold is in the pool.
GrantsApart ==
    /\ \A g \in granted : g.addr + g.size <= Pool
    /\ \A g, h \in granted : g # h => Apart(g.addr, g.size, h.addr, h.size)

\* Until two blocks are merged none is lost: what the lists were seeded with is free,
\* allocated or being split, byte by byte.
Covered(x, S) == \E b \in S : b.addr <= x /\ x < b.addr + Size[b.level]
NothingLost ==
    buddy /\ ~merged => \A x \in 0 .. Pool-1 : Covered(x, Blocks) <=> Covered(x, InitBuddy)

\* By first fit no two callers ever hold a common byte.
FirstFitApart == ~buddy => GrantsApart

\* Until two blocks are merged no byte is in two blocks, no address is listed
\* twice, and no two callers hold a common byte.
ApartUntilMerged ==
    ~merged =>
      /\ \A b, c \in Blocks : b # c => Apart(b.addr, Size[b.level], c.addr, Size[c.level])
      /\ \A l \in Levels : IsInjective(free[l])
      /\ Listed \cap taken = {} /\ InHand \cap (Listed \cup taken) = {}
      /\ GrantsApart

=============================================================================
