----------------------------- MODULE LinearProofs -----------------------------
(***************************************************************************)
(* For any code, any liveness, any bank and any caller-saved registers,    *)
(* the plan of linear scan keeps overlapping intervals apart, its          *)
(* rewriting refuses only an instruction with more operands than there are *)
(* registers, and the code it emits computes what the program says.        *)
(***************************************************************************)
EXTENDS BackendProofs

-----------------------------------------------------------------------------
(***************************************************************************)
(* Linear scan.  The interval of a variable goes from its first write, or  *)
(* from where a block expects it, to its last use, or to where a block     *)
(* leaves it behind.                                                       *)
(***************************************************************************)
LEMMA LeastIs == ASSUME NEW S \in SUBSET Nat, S # {} PROVE Min(S) \in S /\ \A n \in S : Min(S) <= n
<1>1. \E n \in S : \A m \in S : n <= m
  BY LeastNatural
<1> QED BY <1>1 DEF Min

LEMMA GreatestIs ==
    ASSUME NEW n \in Nat, NEW S \in SUBSET (1 .. n), S # {}
    PROVE  Max(S) \in S /\ \A m \in S : m <= Max(S)
<1>1. \E m \in S : \A k \in S : k <= m
  BY GreatestBelow
<1> QED BY <1>1 DEF Max

Interval(p, after, v, h) ==
    /\ h.vreg = v /\ h.start \in Nat /\ h.end \in Nat
    /\ \A i \in DOMAIN p : (v \in p[i].def => h.start <= i) /\ (v \in UsesOf(p, i) => i < h.end)
    /\ \A b \in Leaders(p) : /\ v \in BlockIn(p, after, b) => h.start <= b
                             /\ v \in after[LastOf(p, b)] => LastOf(p, b) < h.end

LEMMA HullIs == ASSUME NEW p, WellFormed(p), NEW after, NEW v PROVE Interval(p, after, v, Hull(p, after, v))
<1>0. PICK n, h, defs, uses, into, outof :
          /\ n = Len(p) /\ h = Hull(p, after, v)
          /\ defs = {i \in DOMAIN p : v \in p[i].def}
          /\ uses = {i \in DOMAIN p : v \in UsesOf(p, i)}
          /\ into = {b \in Leaders(p) : v \in BlockIn(p, after, b)}
          /\ outof = {b \in Leaders(p) : v \in after[LastOf(p, b)]}
  OBVIOUS
<1>1. PICK start, end :
          /\ start = IF defs = {} THEN 1 ELSE Min(defs)
          /\ end = IF uses = {} THEN start + 1 ELSE Max(uses) + 1
  OBVIOUS
<1>2. PICK starts, behind, ends :
          starts = {start} \cup into /\ behind = {LastOf(p, b) + 1 : b \in outof} /\ ends = {end} \cup behind
  OBVIOUS
<1>3. h.vreg = v /\ h.start = Min(starts) /\ h.end = Max(ends)
  BY <1>0, <1>1, <1>2 DEF Hull
<1>4. /\ DOMAIN p = 1 .. n /\ n \in Nat
      /\ into \subseteq 1 .. n /\ defs \subseteq 1 .. n /\ uses \subseteq 1 .. n /\ outof \subseteq 1 .. n
  BY <1>0 DEF WellFormed, Leaders
<1>5. start \in 1 .. (n + 1) /\ \A i \in defs : start <= i
  <2>1. defs # {} => Min(defs) \in defs /\ \A i \in defs : Min(defs) <= i
    BY <1>4, LeastIs
  <2> QED BY <1>1, <1>4, <2>1
<1>6. end \in 1 .. (n + 2) /\ \A i \in uses : i < end
  <2>1. uses # {} => Max(uses) \in uses /\ \A i \in uses : i <= Max(uses)
    BY <1>4, GreatestIs
  <2>2. CASE uses = {}
    BY <1>1, <1>4, <1>5, <2>2
  <2>3. CASE uses # {}
    <3>1. PICK m : m = Max(uses)
      OBVIOUS
    <3>2. end = m + 1
      BY <1>1, <2>3, <3>1
    <3>3. m \in uses /\ \A i \in uses : i <= m
      BY <2>1, <2>3, <3>1
    <3> QED BY <1>4, <3>2, <3>3
  <2> QED BY <2>2, <2>3
<1>7. h.start \in Nat /\ h.start <= start /\ \A b \in into : h.start <= b
  <2>1. starts \in SUBSET Nat /\ starts # {} /\ start \in starts /\ into \subseteq starts
    BY <1>2, <1>4, <1>5
  <2>2. Min(starts) \in starts /\ \A k \in starts : Min(starts) <= k
    BY <2>1, LeastIs
  <2> QED BY <1>3, <2>1, <2>2
<1>8. h.end \in Nat /\ end <= h.end /\ \A b \in outof : LastOf(p, b) + 1 <= h.end
  <2>1. \A b \in outof : LastOf(p, b) \in 1 .. n
    BY <1>4, LastIs
  <2>2. behind \subseteq 1 .. (n + 2)
    BY <1>2, <1>4, <2>1
  <2>3. ends \in SUBSET (1 .. (n + 2)) /\ end \in ends /\ behind \subseteq ends /\ n + 2 \in Nat
    BY <1>2, <1>4, <1>6, <2>2
  <2>4. Max(ends) \in ends /\ \A k \in ends : k <= Max(ends)
    BY <2>3, GreatestIs
  <2>5. \A b \in outof : LastOf(p, b) + 1 \in ends
    BY <1>2, <2>3
  <2>6. PICK m : m = Max(ends)
    OBVIOUS
  <2>7. m \in 1 .. (n + 2) /\ end <= m /\ \A b \in outof : LastOf(p, b) + 1 <= m
    BY <2>3, <2>4, <2>5, <2>6
  <2> QED BY <1>3, <1>4, <2>6, <2>7
<1>9. ASSUME NEW i \in DOMAIN p PROVE (v \in p[i].def => h.start <= i) /\ (v \in UsesOf(p, i) => i < h.end)
  <2>1. i \in Nat /\ (v \in p[i].def => start <= i) /\ (v \in UsesOf(p, i) => i < end)
    BY <1>0, <1>4, <1>5, <1>6
  <2>2. start \in Nat /\ end \in Nat
    BY <1>4, <1>5, <1>6
  <2> QED BY <1>7, <1>8, <2>1, <2>2
<1>10. ASSUME NEW b \in Leaders(p)
       PROVE  /\ v \in BlockIn(p, after, b) => h.start <= b
              /\ v \in after[LastOf(p, b)] => LastOf(p, b) < h.end
  <2>1. b \in DOMAIN p
    BY DEF Leaders
  <2>2. LastOf(p, b) \in Nat
    BY <1>4, <2>1, LastIs
  <2>3. (v \in BlockIn(p, after, b) => b \in into) /\ (v \in after[LastOf(p, b)] => b \in outof)
    BY <1>0
  <2> QED BY <1>7, <1>8, <2>2, <2>3
<1> QED BY <1>0, <1>3, <1>7, <1>8, <1>9, <1>10 DEF Interval

\* Behind what starts a value's life, and before what ends it.
LEMMA StartsBefore ==
    ASSUME NEW p, WellFormed(p), NEW after, NEW across, Flows(p, after, across), NEW i \in DOMAIN p,
           NEW v \in BlockIn(p, after, i)
    PROVE  Hull(p, after, v).start <= i
<1>0. PICK h, b : h = Hull(p, after, v) /\ b = BlockOf(p, i)
  OBVIOUS
<1>1. Interval(p, after, v, h)
  BY <1>0, HullIs
<1>2. DOMAIN p = 1 .. Len(p) /\ Len(p) \in Nat
  BY DEF WellFormed
<1>3. b \in Leaders(p) /\ b \in 1 .. i /\ \A k \in b + 1 .. i : ~Leads(p, k)
  BY <1>0, BlockIs
<1> DEFINE S == {j \in b .. i : v \in BlockIn(p, after, j)}
<1>4. S \in SUBSET Nat /\ S # {}
  <2>1. i \in S
    BY <1>2, <1>3
  <2> QED BY <1>2, <1>3, <2>1
<1>5. PICK j \in S : \A k \in S : j <= k
  <2> HIDE DEF S
  <2> QED BY <1>4, LeastNatural
<1>6. CASE j = b
  BY <1>0, <1>1, <1>2, <1>3, <1>5, <1>6 DEF Interval
<1>7. CASE j # b
  <2>0. PICK k : k = j - 1
    OBVIOUS
  <2>1. k \in b .. i /\ k \in DOMAIN p /\ k + 1 = j /\ k + 1 \in DOMAIN p /\ k < j /\ k <= i /\ k \in Nat
    BY <1>2, <1>3, <1>5, <1>7, <2>0
  <2>2. ~Leads(p, k + 1)
    BY <1>2, <1>3, <1>5, <1>7, <2>1
  <2>3. v \in after[k]
    BY <1>5, <2>1, <2>2 DEF Flows
  <2>4. v \notin BlockIn(p, after, k)
    <3>1. k \in S => j <= k
      BY <1>5
    <3>2. ~(j <= k)
      BY <1>2, <1>3, <1>5, <2>1
    <3> QED BY <2>1, <3>1, <3>2
  <2>5. v \in p[k].def
    BY <2>3, <2>4 DEF BlockIn
  <2>6. h.start <= k
    BY <1>1, <2>1, <2>5 DEF Interval
  <2> QED BY <1>0, <1>1, <1>2, <2>1, <2>6 DEF Interval
<1> QED BY <1>6, <1>7

LEMMA LivesOn ==
    ASSUME WellFormed(program), NEW across, Flows(program, live_after, across), NEW i \in DOMAIN program,
           NEW v \in live_after[i]
    PROVE  HasLaterUse(v, i)
<1>0. PICK b, l, n : b = BlockOf(program, i) /\ l = LastOf(program, b) /\ n = Len(program)
  OBVIOUS
<1>1. DOMAIN program = 1 .. n /\ n \in Nat /\ i \in Nat
  BY <1>0 DEF WellFormed
<1>2. b \in Leaders(program) /\ i \in b .. l /\ b \in DOMAIN program
  BY <1>0, BlockIs, InBlock DEF Leaders
<1>3. l \in DOMAIN program /\ \A k \in b + 1 .. l : ~Leads(program, k)
  BY <1>0, <1>2, LastIs
<1> SUFFICES ASSUME v \notin live_after[l] PROVE LaterUses(v, i) # {}
  BY <1>0 DEF HasLaterUse, LiveOut
<1> DEFINE S == {j \in 1 .. l : i <= j /\ v \in live_after[j]}
<1>4. S \in SUBSET (1 .. l) /\ S # {} /\ l \in Nat
  BY <1>1, <1>2, <1>3
<1>5. PICK j \in S : \A k \in S : k <= j
  <2> HIDE DEF S
  <2> QED BY <1>4, GreatestBelow
<1>6. j # l /\ j \in DOMAIN program /\ j + 1 \in DOMAIN program /\ j + 1 \in 1 .. l /\ i <= j + 1 /\ i < j + 1
      /\ ~Leads(program, j + 1) /\ ~(j + 1 <= j)
  <2>1. j # l
    BY <1>5
  <2>2. j \in 1 .. l /\ i <= j
    BY <1>5
  <2>3. b + 1 <= j + 1 /\ b \in Nat
    BY <1>1, <1>2, <2>2
  <2> QED BY <1>1, <1>2, <1>3, <2>1, <2>2, <2>3
<1>7. v \notin live_after[j + 1]
  BY <1>5, <1>6
<1>8. v \in BlockIn(program, live_after, j + 1)
  BY <1>5, <1>6 DEF Flows
<1>9. v \in UsesOf(program, j + 1)
  BY <1>6, <1>7, <1>8 DEF BlockIn, Leads
<1>10. j + 1 \in (i + 1) .. Len(program)
  BY <1>0, <1>1, <1>6
<1> QED BY <1>9, <1>10 DEF LaterUses

LEMMA EndsBehind ==
    ASSUME WellFormed(program), NEW i \in DOMAIN program, NEW v, HasLaterUse(v, i)
    PROVE  i < Hull(program, live_after, v).end
<1>0. PICK h, b : h = Hull(program, live_after, v) /\ b = BlockOf(program, i)
  OBVIOUS
<1>1. Interval(program, live_after, v, h)
  BY <1>0, HullIs
<1>2. DOMAIN program = 1 .. Len(program) /\ Len(program) \in Nat
  BY DEF WellFormed
<1>3. CASE LaterUses(v, i) # {}
  <2>1. PICK j : j \in (i + 1) .. Len(program) /\ v \in UsesOf(program, j)
    BY <1>3 DEF LaterUses
  <2>2. j \in DOMAIN program /\ i < j /\ j \in Nat /\ i \in Nat
    BY <1>2, <2>1
  <2>3. j < h.end /\ h.end \in Nat
    BY <1>1, <2>1, <2>2 DEF Interval
  <2> QED BY <1>0, <2>2, <2>3
<1>4. CASE v \in LiveOut(i)
  <2>1. b \in Leaders(program) /\ i \in b .. LastOf(program, b)
    BY <1>0, BlockIs, InBlock
  <2>2. LastOf(program, b) < h.end /\ h.end \in Nat
    BY <1>0, <1>1, <1>4, <2>1 DEF Interval, LiveOut
  <2>3. LastOf(program, b) \in Nat /\ i \in Nat
    BY <1>2, <2>1, LastIs DEF Leaders
  <2> QED BY <1>0, <2>1, <2>2, <2>3
<1> QED BY <1>3, <1>4 DEF HasLaterUse


-----------------------------------------------------------------------------
(***************************************************************************)
(* The scan: as long as nobody has been spilled, intervals that overlap    *)
(* have different registers.                                               *)
(***************************************************************************)
Lives(I) ==
    \A x \in I : /\ x.vreg \in Vreg /\ x.start \in Nat /\ x.end \in Nat
                 /\ \A y \in I : x.vreg = y.vreg => x = y
Entries(I) == {[interval |-> x, reg |-> r] : x \in I, r \in Reg}
Apart(active, free) ==
    /\ \A j, k \in 1 .. Len(active) : active[j].reg = active[k].reg => j = k
    /\ \A j, k \in 1 .. Len(free) : free[j] = free[k] => j = k
    /\ \A j \in 1 .. Len(active), k \in 1 .. Len(free) : active[j].reg # free[k]

LEMMA IntervalsLive ==
    ASSUME Sound, NEW p, WellFormed(p), Selected(p), NEW after
    PROVE  Lives(Intervals(p, after)) /\ \A v \in Named(p) : Hull(p, after, v) \in Intervals(p, after)
<1>1. Named(p) \subseteq Vreg
  BY DEF Named, Defined, Selected
<1>2. \A v : Interval(p, after, v, Hull(p, after, v))
  BY HullIs
<1>3. \A x \in Intervals(p, after) : \E v \in Vreg : x = Hull(p, after, v)
  BY <1>1 DEF Intervals
<1>4. ASSUME NEW x \in Intervals(p, after)
      PROVE  /\ x.vreg \in Vreg /\ x.start \in Nat /\ x.end \in Nat
             /\ \A y \in Intervals(p, after) : x.vreg = y.vreg => x = y
  BY <1>2, <1>3 DEF Interval
<1> QED BY <1>4 DEF Lives, Intervals

\* The earliest is there.
LEMMA EarliestIs ==
    ASSUME Sound, NEW I, Lives(I), NEW T \in SUBSET I, T # {},
           NEW a, a = Earliest(T)
    PROVE  a \in T /\ \A b \in T : a.start <= b.start
<1>1. \A x \in T : x.vreg \in Vreg /\ x.start \in Nat /\ x.end \in Nat /\ \A y \in T : x.vreg = y.vreg => x = y
  BY DEF Lives
<1>2. \A v \in Vreg : Rank(v) \in Nat /\ Names[Rank(v)] = v
  <2> SUFFICES ASSUME NEW v \in Vreg PROVE Rank(v) \in Nat /\ Names[Rank(v)] = v
    OBVIOUS
  <2>1. \E k \in DOMAIN Names : Names[k] = v
    BY DEF Sound
  <2>2. Rank(v) \in DOMAIN Names /\ Names[Rank(v)] = v
    BY <2>1 DEF Rank
  <2> QED BY <2>2 DEF Sound
<1>3. PICK s \in {x.start : x \in T} : \A n \in {x.start : x \in T} : s <= n
  <2>1. {x.start : x \in T} \in SUBSET Nat /\ {x.start : x \in T} # {}
    BY <1>1
  <2> QED BY <2>1, LeastNatural
<1>4. PICK T1 : T1 = {x \in T : x.start = s}
  OBVIOUS
<1>5. PICK e \in {x.end : x \in T1} : \A n \in {x.end : x \in T1} : e <= n
  <2>1. {x.end : x \in T1} \in SUBSET Nat /\ {x.end : x \in T1} # {}
    BY <1>1, <1>3, <1>4
  <2> QED BY <2>1, LeastNatural
<1>6. PICK T2 : T2 = {x \in T1 : x.end = e}
  OBVIOUS
<1>7. PICK r \in {Rank(x.vreg) : x \in T2} : \A n \in {Rank(x.vreg) : x \in T2} : r <= n
  <2>1. {Rank(x.vreg) : x \in T2} \in SUBSET Nat /\ {Rank(x.vreg) : x \in T2} # {}
    BY <1>1, <1>2, <1>4, <1>5, <1>6
  <2> QED BY <2>1, LeastNatural
<1>8. PICK c \in T2 : Rank(c.vreg) = r
  BY <1>7
<1>9. ASSUME NEW b \in T PROVE b = c \/ Earlier(c, b)
  <2>1. c \in T /\ c.start = s /\ c.end = e /\ s <= b.start /\ s \in Nat /\ e \in Nat
    BY <1>1, <1>3, <1>4, <1>6, <1>8
  <2>2. CASE b.start # s
    BY <1>1, <2>1, <2>2 DEF Earlier
  <2>3. CASE b.start = s /\ b.end # e
    <3>1. e <= b.end
      BY <1>4, <1>5, <2>3
    <3> QED BY <1>1, <2>1, <2>3, <3>1 DEF Earlier
  <2>4. CASE b.start = s /\ b.end = e
    <3>1. b \in T2
      BY <1>4, <1>6, <2>4
    <3>2. r <= Rank(b.vreg)
      BY <1>7, <3>1
    <3>3. Rank(b.vreg) \in Nat /\ r \in Nat
      BY <1>1, <1>2, <1>8, <2>1
    <3>4. Rank(b.vreg) = Rank(c.vreg) => b = c
      BY <1>1, <1>2, <2>1
    <3>5. b = c \/ Rank(c.vreg) < Rank(b.vreg)
      BY <1>8, <3>2, <3>3, <3>4
    <3> QED BY <2>1, <2>4, <3>5 DEF Earlier
  <2> QED BY <2>2, <2>3, <2>4
<1>10. a \in T /\ \A b \in T : b = a \/ Earlier(a, b)
  <2>1. c \in T
    BY <1>4, <1>6, <1>8
  <2>2. \E x \in T : \A b \in T : b = x \/ Earlier(x, b)
    BY <1>9, <2>1
  <2> QED BY <2>2 DEF Earliest
<1>11. ASSUME NEW b \in T PROVE a.start <= b.start
  <2>1. a.start \in Nat /\ b.start \in Nat
    BY <1>1, <1>10
  <2>2. a.start < b.start \/ a.start = b.start
    BY <1>10 DEF Earlier
  <2> QED BY <2>1, <2>2
<1> QED BY <1>10, <1>11

LEMMA ExpireUnfolded ==
    ASSUME NEW position, Len(scan.active) \in Nat
    PROVE  \E f : /\ Rounds([over |-> "expire", at |-> position], [active |-> <<>>, free |-> scan.free],
                             Len(scan.active), f)
                  /\ Expire(position) = f[Len(scan.active)]
<1> DEFINE N == Len(scan.active)
           start == [active |-> <<>>, free |-> scan.free]
           loop == [over |-> "expire", at |-> position]
           Described(f) == f = [n \in 0 .. N |-> IF n = 0 THEN start ELSE ExpireOne(f[n - 1], scan.active[n], position)]
           after == CHOOSE f : Described(f)
<1>2. \A x, n : LoopPass(loop, x, n) = ExpireOne(x, scan.active[n], position)
  BY DEF LoopPass, LinearPass
<1>3. \A f : Unfolded(loop, start, N, f) <=> Described(f)
  <2> HIDE DEF loop
  <2> QED BY <1>2 DEF Unfolded
<1>4. Described(after)
  <2> HIDE DEF Described, loop, start, N
  <2>1. N \in Nat
    BY DEF N
  <2>2. \E f : Described(f)
    BY <1>3, <2>1, LoopsUnfold
  <2> QED BY <2>2
<1>5. Expire(position) = after[N]
  BY DEF Expire
<1>6. Rounds(loop, start, N, after)
  <2> HIDE DEF Described, loop, start, after
  <2> QED BY <1>3, <1>4, UnfoldedRounds
<1> HIDE DEF after
<1> QED BY <1>5, <1>6

Split(I, A, position, n, x) ==
    /\ x = [active |-> x.active, free |-> x.free]
    /\ x.active \in Seq(Entries(I)) /\ x.free \in Seq(Reg) /\ Apart(x.active, x.free)
    /\ \A k \in (n + 1) .. Len(A) : /\ \A j \in 1 .. Len(x.active) : x.active[j].reg # A[k].reg
                                    /\ \A j \in 1 .. Len(x.free) : x.free[j] # A[k].reg
    /\ \A k \in 1 .. n : A[k].interval.end <= position \/ \E j \in 1 .. Len(x.active) : x.active[j] = A[k]

LEMMA SplitFreed ==
    ASSUME NEW I, NEW A \in Seq(Entries(I)), \A j, k \in 1 .. Len(A) : A[j].reg = A[k].reg => j = k,
           NEW position, NEW n \in 1 .. Len(A), NEW x, Split(I, A, position, n - 1, x),
           A[n].interval.end <= position, NEW y, y = [x EXCEPT !.free = Append(@, A[n].reg)]
    PROVE  Split(I, A, position, n, y)
<1>1. PICK a, f, g, r : a = x.active /\ f = x.free /\ r = A[n].reg /\ g = Append(f, r)
  OBVIOUS
<1>2. y = [active |-> a, free |-> g]
  BY <1>1 DEF Split
<1>3. a \in Seq(Entries(I)) /\ f \in Seq(Reg) /\ r \in Reg
  BY <1>1 DEF Split, Entries
<1>4. /\ g \in Seq(Reg) /\ Len(g) = Len(f) + 1 /\ Len(f) \in Nat /\ Len(a) \in Nat /\ Len(A) \in Nat
      /\ \A j \in 1 .. Len(f) : g[j] = f[j]
      /\ g[Len(f) + 1] = r
  BY <1>1, <1>3
<1>5. \A j \in 1 .. Len(g) : j \in 1 .. Len(f) \/ j = Len(f) + 1
  BY <1>4
<1>6. n \in ((n - 1) + 1) .. Len(A)
  BY <1>4
<1>7. /\ \A j \in 1 .. Len(a) : a[j].reg # r
      /\ \A j \in 1 .. Len(f) : f[j] # r
  BY <1>1, <1>6 DEF Split
<1>8. Apart(a, f)
  BY <1>1 DEF Split
<1>9. Apart(a, g)
  <2>1. \A j, k \in 1 .. Len(g) : g[j] = g[k] => j = k
    BY <1>4, <1>5, <1>7, <1>8 DEF Apart
  <2>2. \A j \in 1 .. Len(a), k \in 1 .. Len(g) : a[j].reg # g[k]
    BY <1>4, <1>5, <1>7, <1>8 DEF Apart
  <2> QED BY <1>8, <2>1, <2>2 DEF Apart
<1>10. ASSUME NEW k \in (n + 1) .. Len(A)
       PROVE  (\A j \in 1 .. Len(a) : a[j].reg # A[k].reg) /\ (\A j \in 1 .. Len(g) : g[j] # A[k].reg)
  <2>1. k \in ((n - 1) + 1) .. Len(A) /\ k \in 1 .. Len(A) /\ k # n /\ n \in 1 .. Len(A)
    BY <1>4
  <2>2. (\A j \in 1 .. Len(a) : a[j].reg # A[k].reg) /\ (\A j \in 1 .. Len(f) : f[j] # A[k].reg)
    BY <1>1, <2>1 DEF Split
  <2>3. A[k].reg # r
    BY <1>1, <2>1
  <2> QED BY <1>4, <1>5, <2>2, <2>3
<1>11. ASSUME NEW k \in 1 .. n
       PROVE  A[k].interval.end <= position \/ \E j \in 1 .. Len(a) : a[j] = A[k]
  <2>1. k = n \/ k \in 1 .. (n - 1)
    BY <1>4
  <2> QED BY <1>1, <2>1 DEF Split
<1>12. y.active = a /\ y.free = g
  BY <1>2
<1> QED BY <1>2, <1>3, <1>4, <1>9, <1>10, <1>11, <1>12 DEF Split

LEMMA SplitKept ==
    ASSUME NEW I, NEW A \in Seq(Entries(I)), \A j, k \in 1 .. Len(A) : A[j].reg = A[k].reg => j = k,
           NEW position, NEW n \in 1 .. Len(A), NEW x, Split(I, A, position, n - 1, x),
           NEW y, y = [x EXCEPT !.active = Append(@, A[n])]
    PROVE  Split(I, A, position, n, y)
<1>1. PICK a, f, b, e : a = x.active /\ f = x.free /\ e = A[n] /\ b = Append(a, e)
  OBVIOUS
<1>2. y = [active |-> b, free |-> f]
  BY <1>1 DEF Split
<1>3. a \in Seq(Entries(I)) /\ f \in Seq(Reg) /\ e \in Entries(I)
  BY <1>1 DEF Split
<1>4. /\ b \in Seq(Entries(I)) /\ Len(b) = Len(a) + 1 /\ Len(f) \in Nat /\ Len(a) \in Nat /\ Len(A) \in Nat
      /\ \A j \in 1 .. Len(a) : b[j] = a[j]
      /\ b[Len(a) + 1] = e /\ Len(a) + 1 \in 1 .. Len(b)
  BY <1>1, <1>3
<1>5. \A j \in 1 .. Len(b) : j \in 1 .. Len(a) \/ j = Len(a) + 1
  BY <1>4
<1>6. n \in ((n - 1) + 1) .. Len(A)
  BY <1>4
<1>7. /\ \A j \in 1 .. Len(a) : a[j].reg # e.reg
      /\ \A j \in 1 .. Len(f) : f[j] # e.reg
  BY <1>1, <1>6 DEF Split
<1>8. Apart(a, f)
  BY <1>1 DEF Split
<1>9. Apart(b, f)
  <2>1. \A j, k \in 1 .. Len(b) : b[j].reg = b[k].reg => j = k
    BY <1>4, <1>5, <1>7, <1>8 DEF Apart
  <2>2. \A j \in 1 .. Len(b), k \in 1 .. Len(f) : b[j].reg # f[k]
    BY <1>4, <1>5, <1>7, <1>8 DEF Apart
  <2> QED BY <1>8, <2>1, <2>2 DEF Apart
<1>10. ASSUME NEW k \in (n + 1) .. Len(A)
       PROVE  (\A j \in 1 .. Len(b) : b[j].reg # A[k].reg) /\ (\A j \in 1 .. Len(f) : f[j] # A[k].reg)
  <2>1. k \in ((n - 1) + 1) .. Len(A) /\ k \in 1 .. Len(A) /\ k # n /\ n \in 1 .. Len(A)
    BY <1>4
  <2>2. (\A j \in 1 .. Len(a) : a[j].reg # A[k].reg) /\ (\A j \in 1 .. Len(f) : f[j] # A[k].reg)
    BY <1>1, <2>1 DEF Split
  <2>3. A[k].reg # e.reg
    BY <1>1, <2>1
  <2> QED BY <1>4, <1>5, <2>2, <2>3
<1>11. ASSUME NEW k \in 1 .. n
       PROVE  A[k].interval.end <= position \/ \E j \in 1 .. Len(b) : b[j] = A[k]
  <2>1. CASE k = n
    BY <1>1, <1>4, <2>1
  <2>2. CASE k # n
    <3>1. k \in 1 .. (n - 1)
      BY <1>4, <2>2
    <3>2. A[k].interval.end <= position \/ \E j \in 1 .. Len(a) : a[j] = A[k]
      BY <1>1, <3>1 DEF Split
    <3>3. \A j \in 1 .. Len(a) : j \in 1 .. Len(b)
      BY <1>4
    <3> QED BY <1>4, <3>2, <3>3
  <2> QED BY <2>1, <2>2
<1>12. y.active = b /\ y.free = f
  BY <1>2
<1> QED BY <1>2, <1>3, <1>4, <1>9, <1>10, <1>11, <1>12 DEF Split

LEMMA ExpireSplits ==
    ASSUME NEW I, scan.active \in Seq(Entries(I)), scan.free \in Seq(Reg), Apart(scan.active, scan.free), NEW position
    PROVE  Split(I, scan.active, position, Len(scan.active), Expire(position))
<1>1. PICK A, N : A = scan.active /\ N = Len(A)
  OBVIOUS
<1>2. A \in Seq(Entries(I)) /\ N \in Nat /\ \A j, k \in 1 .. Len(A) : A[j].reg = A[k].reg => j = k
  BY <1>1 DEF Apart
<1>3. PICK f : /\ Rounds([over |-> "expire", at |-> position], [active |-> <<>>, free |-> scan.free], N, f)
               /\ Expire(position) = f[N]
  BY <1>1, <1>2, ExpireUnfolded
<1> DEFINE S == {n \in 0 .. N : ~Split(I, A, position, n, f[n])}
<1>4. ASSUME NEW n \in 1 .. N PROVE f[n] = ExpireOne(f[n - 1], A[n], position)
  <2>1. \A x : LoopPass([over |-> "expire", at |-> position], x, n) = ExpireOne(x, A[n], position)
    BY <1>1 DEF LoopPass, LinearPass
  <2> QED BY <1>3, <2>1 DEF Rounds
<1>5. Split(I, A, position, 0, f[0])
  <2>1. f[0] = [active |-> <<>>, free |-> scan.free]
    BY <1>3 DEF Rounds
  <2>2. f[0].active = <<>> /\ f[0].free = scan.free /\ Len(f[0].active) = 0
    BY <2>1
  <2>3. <<>> \in Seq(Entries(I))
    OBVIOUS
  <2>4. \A k \in 1 .. Len(A) : \A j \in 1 .. Len(scan.free) : scan.free[j] # A[k].reg
    BY <1>1 DEF Apart
  <2>5. Apart(<<>>, scan.free)
    BY DEF Apart
  <2> QED BY <2>1, <2>2, <2>3, <2>4, <2>5 DEF Split
<1>6. ASSUME S # {} PROVE FALSE
  <2>1. PICK n \in S : \A m \in S : n <= m
    <3>1. S \in SUBSET Nat
      BY <1>2
    <3> HIDE DEF S
    <3> QED BY <1>6, <3>1, LeastNatural
  <2>2. n # 0
    BY <1>5, <2>1
  <2>3. n \in 1 .. N /\ n - 1 \in 0 .. N /\ ~(n <= n - 1)
    BY <1>2, <2>1, <2>2
  <2>4. Split(I, A, position, n - 1, f[n - 1])
    BY <2>1, <2>3
  <2>5. f[n] = ExpireOne(f[n - 1], A[n], position)
    BY <1>4, <2>3
  <2>6. Split(I, A, position, n, f[n])
    <3>1. PICK x, y : x = f[n - 1] /\ y = f[n]
      OBVIOUS
    <3>2. \/ A[n].interval.end <= position /\ y = [x EXCEPT !.free = Append(@, A[n].reg)]
          \/ y = [x EXCEPT !.active = Append(@, A[n])]
      BY <2>5, <3>1 DEF ExpireOne
    <3>3. Split(I, A, position, n - 1, x) /\ n \in 1 .. Len(A)
      BY <1>1, <2>3, <2>4, <3>1
    <3>4. CASE A[n].interval.end <= position /\ y = [x EXCEPT !.free = Append(@, A[n].reg)]
      BY <1>2, <3>1, <3>3, <3>4, SplitFreed
    <3>5. CASE y = [x EXCEPT !.active = Append(@, A[n])]
      BY <1>2, <3>1, <3>3, <3>5, SplitKept
    <3> QED BY <3>2, <3>4, <3>5
  <2> QED BY <2>1, <2>6
<1>7. N \in 0 .. N
  BY <1>2
<1> QED BY <1>1, <1>3, <1>6, <1>7

(***************************************************************************)
(* Of the intervals that are done, those whose registers are the same do   *)
(* not overlap, and those that go on beyond the last one's start are among *)
(* the active ones.                                                        *)
(***************************************************************************)
Homes(done, at) ==
    /\ \A x \in done : at[x.vreg] \in Reg
    /\ \A x, y \in done : x # y /\ at[x.vreg] = at[y.vreg] => x.end <= y.start \/ y.end <= x.start

Reached(I, s, position) ==
    /\ \A x \in s.todo : position <= x.start
    /\ \A x \in I \ s.todo : x.end <= position \/ \E k \in 1 .. Len(s.active) :
                                 s.active[k].interval = x /\ s.active[k].reg = s.at[x.vreg]

Undisturbed(I, s) ==
    /\ s.todo \subseteq I /\ s.active \in Seq(Entries(I)) /\ s.free \in Seq(Reg) /\ Apart(s.active, s.free)
    /\ Homes(I \ s.todo, s.at)
    /\ \E position \in Nat : Reached(I, s, position)

ScanState(I, s) ==
    /\ s = [todo |-> s.todo, active |-> s.active, free |-> s.free, at |-> s.at, spilled |-> s.spilled]
    /\ s.at = [v \in Vreg |-> s.at[v]]
    /\ s.spilled = {} => Undisturbed(I, s)

LEMMA ScanFields ==
    ASSUME NEW t, NEW left, NEW active, NEW free, NEW at, NEW spilled,
           t = [todo |-> left, active |-> active, free |-> free, at |-> at, spilled |-> spilled]
    PROVE  t.todo = left /\ t.active = active /\ t.free = free /\ t.at = at /\ t.spilled = spilled
OBVIOUS

\* A free register is taken.
TakesFree(s, c, kept, t) ==
    t = [s EXCEPT !.todo = @ \ {c}, !.free = Tail(kept.free),
                  !.active = Append(kept.active, [interval |-> c, reg |-> Head(kept.free)]),
                  !.at[c.vreg] = Head(kept.free)]

LEMMA FreeGiven ==
    ASSUME NEW I, Lives(I), NEW s, ScanState(I, s), s.spilled = {}, NEW c \in s.todo, \A x \in s.todo : c.start <= x.start,
           NEW kept, Split(I, s.active, c.start, Len(s.active), kept), kept.free # <<>>,
           NEW t, TakesFree(s, c, kept, t)
    PROVE  ScanState(I, t)
<1>1. PICK a, f, r, e, b, g, at, done, left :
          /\ a = kept.active /\ f = kept.free /\ r = Head(f) /\ e = [interval |-> c, reg |-> r]
          /\ b = Append(a, e) /\ g = Tail(f) /\ at = [s.at EXCEPT ![c.vreg] = r] /\ done = I \ s.todo
          /\ left = s.todo \ {c}
  OBVIOUS
<1>2. PICK none : /\ none = {} /\ t = [todo |-> left, active |-> b, free |-> g, at |-> at, spilled |-> none]
                  /\ t.todo = left /\ t.active = b /\ t.free = g /\ t.at = at /\ t.spilled = none
  <2>1. PICK T, A, F, M, S : /\ T = s.todo /\ A = s.active /\ F = s.free /\ M = s.at /\ S = s.spilled
                              /\ s = [todo |-> T, active |-> A, free |-> F, at |-> M, spilled |-> S]
    BY DEF ScanState
  <2>2. t = [s EXCEPT !.todo = left, !.free = g, !.active = b, !.at = at]
    BY <1>1, <2>1 DEF TakesFree
  <2>3. t = [todo |-> left, active |-> b, free |-> g, at |-> at, spilled |-> S]
    BY <2>1, <2>2
  <2>4. t.todo = left /\ t.active = b /\ t.free = g /\ t.at = at /\ t.spilled = S
    BY <2>3, ScanFields, Zenon
  <2>5. S = {}
    BY <2>1
  <2> QED BY <2>3, <2>4, <2>5
<1>3. /\ a \in Seq(Entries(I)) /\ f \in Seq(Reg) /\ Apart(a, f) /\ f # <<>>
      /\ \A k \in 1 .. Len(s.active) : s.active[k].interval.end <= c.start \/ \E j \in 1 .. Len(a) : a[j] = s.active[k]
  BY <1>1 DEF Split
<1>4. /\ Len(f) \in Nat /\ Len(f) # 0 /\ r \in Reg /\ r = f[1] /\ g \in Seq(Reg) /\ Len(g) = Len(f) - 1
      /\ \A k \in 1 .. Len(g) : g[k] = f[k + 1]
  BY <1>1, <1>3
<1>5. Undisturbed(I, s) /\ s.todo \subseteq I /\ c \in I /\ c.vreg \in Vreg /\ c.start \in Nat /\ c.end \in Nat
  BY DEF ScanState, Undisturbed, Lives
<1>6. e \in Entries(I) /\ e.interval = c /\ e.reg = r
  BY <1>1, <1>4, <1>5 DEF Entries
<1>7. /\ b \in Seq(Entries(I)) /\ Len(b) = Len(a) + 1 /\ Len(a) \in Nat
      /\ \A j \in 1 .. Len(a) : b[j] = a[j] /\ j \in 1 .. Len(b)
      /\ b[Len(a) + 1] = e /\ Len(a) + 1 \in 1 .. Len(b)
      /\ \A j \in 1 .. Len(b) : j \in 1 .. Len(a) \/ j = Len(a) + 1
  BY <1>1, <1>3, <1>6
<1>8. Apart(b, g)
  <2>1. \A k \in 1 .. Len(g) : k + 1 \in 1 .. Len(f) /\ k + 1 # 1
    BY <1>4
  <2>2. 1 \in 1 .. Len(f)
    BY <1>4
  <2>3. \A j, k \in 1 .. Len(g) : g[j] = g[k] => j = k
    <3>1. \A j, k \in 1 .. Len(g) : g[j] = g[k] => j + 1 = k + 1
      BY <1>3, <1>4, <2>1 DEF Apart
    <3> QED BY <3>1
  <2>4. \A j, k \in 1 .. Len(b) : b[j].reg = b[k].reg => j = k
    <3>1. \A j \in 1 .. Len(a) : a[j].reg # r
      BY <1>3, <1>4, <2>2 DEF Apart
    <3> QED BY <1>3, <1>6, <1>7, <3>1 DEF Apart
  <2>5. \A j \in 1 .. Len(b), k \in 1 .. Len(g) : b[j].reg # g[k]
    <3>1. \A k \in 1 .. Len(g) : g[k] # r
      BY <1>3, <1>4, <2>1, <2>2 DEF Apart
    <3>2. \A j \in 1 .. Len(a), k \in 1 .. Len(g) : a[j].reg # g[k]
      BY <1>3, <1>4, <2>1 DEF Apart
    <3> QED BY <1>6, <1>7, <3>1, <3>2
  <2> QED BY <2>3, <2>4, <2>5 DEF Apart
<1>9. /\ at = [v \in Vreg |-> at[v]] /\ at[c.vreg] = r
      /\ \A x \in done : x \in I /\ x # c /\ x.vreg # c.vreg /\ at[x.vreg] = s.at[x.vreg]
      /\ I \ t.todo = done \cup {c}
  <2>1. at = [v \in Vreg |-> at[v]] /\ at[c.vreg] = r
    BY <1>1, <1>5 DEF ScanState
  <2>2. \A x \in done : x \in I /\ x # c /\ x.vreg # c.vreg
    BY <1>1, <1>5 DEF Lives
  <2>3. \A x \in done : at[x.vreg] = s.at[x.vreg]
    BY <1>1, <2>2 DEF Lives, ScanState
  <2> QED BY <1>1, <1>2, <1>5, <2>1, <2>2, <2>3
<1>10. ASSUME NEW x \in done
       PROVE  x.end <= c.start \/ \E j \in 1 .. Len(a) : a[j].interval = x /\ a[j].reg = s.at[x.vreg]
  <2>1. PICK position \in Nat : Reached(I, s, position)
    BY <1>5 DEF Undisturbed
  <2>2. position <= c.start
    BY <2>1 DEF Reached
  <2>3. CASE x.end <= position
    <3>1. x.end \in Nat
      BY <1>9 DEF Lives
    <3> QED BY <1>5, <2>2, <2>3, <3>1
  <2>4. CASE ~(x.end <= position)
    <3>1. PICK k \in 1 .. Len(s.active) : s.active[k].interval = x /\ s.active[k].reg = s.at[x.vreg]
      BY <1>1, <2>1, <2>4 DEF Reached
    <3> QED BY <1>3, <3>1
  <2> QED BY <2>3, <2>4
<1>11. Homes(done \cup {c}, at)
  <2>1. Homes(done, s.at)
    BY <1>1, <1>5 DEF Undisturbed
  <2>2. \A x \in done : at[x.vreg] = r => x.end <= c.start
    <3>1. 1 \in 1 .. Len(f)
      BY <1>4
    <3>2. \A j \in 1 .. Len(a) : a[j].reg # r
      BY <1>3, <1>4, <3>1 DEF Apart
    <3> QED BY <1>9, <1>10, <3>2
  <2> QED BY <1>4, <1>9, <2>1, <2>2 DEF Homes
<1>12. Reached(I, t, c.start)
  <2>1. \A x \in t.todo : c.start <= x.start
    BY <1>1, <1>2
  <2>2. ASSUME NEW x \in I \ t.todo
        PROVE  x.end <= c.start \/ \E k \in 1 .. Len(b) : b[k].interval = x /\ b[k].reg = at[x.vreg]
    <3>1. CASE x = c
      BY <1>6, <1>7, <1>9, <3>1
    <3>2. CASE x # c
      <4>1. x \in done
        BY <1>9, <3>2
      <4> QED BY <1>7, <1>9, <1>10, <4>1
    <3> QED BY <3>1, <3>2
  <2> QED BY <1>2, <2>1, <2>2 DEF Reached
<1>13. Undisturbed(I, t)
  <2>1. t.todo \subseteq I
    BY <1>1, <1>2, <1>5
  <2>2. Homes(I \ t.todo, t.at)
    BY <1>2, <1>9, <1>11
  <2> QED BY <1>2, <1>4, <1>5, <1>7, <1>8, <1>12, <2>1, <2>2 DEF Undisturbed
<1> QED BY <1>2, <1>9, <1>13 DEF ScanState

LEMMA ScanGoesOn ==
    ASSUME Sound, NEW I, Lives(I), ScanState(I, scan), scan.spilled = {} => scan.todo \subseteq I, scan.todo # {}, Place
    PROVE  ScanState(I, scan')
<1> DEFINE c == Earliest(scan.todo)
           kept == Expire(c.start)
           k == LastToEnd(kept.active)
           v == kept.active[k].interval
           q == kept.active[k].reg
           more == Append(RemoveAt(kept.active, k), [interval |-> c, reg |-> q])
           given == [scan EXCEPT !.todo = @ \ {c}, !.free = Tail(kept.free),
                                 !.active = Append(kept.active, [interval |-> c, reg |-> Head(kept.free)]),
                                 !.at[c.vreg] = Head(kept.free)]
           taken == [scan EXCEPT !.todo = @ \ {c}, !.active = more,
                                 !.at = [@ EXCEPT ![v.vreg] = None, ![c.vreg] = q], !.spilled = @ \cup {v.vreg}]
           passed == [scan EXCEPT !.todo = @ \ {c}, !.active = kept.active, !.at[c.vreg] = Bank[1],
                                  !.spilled = @ \cup {c.vreg}]
<1>1. \/ kept.free # <<>> /\ scan' = given
      \/ kept.free = <<>> /\ (scan' = taken \/ scan' = passed)
  BY DEF Place
<1>2. CASE scan.spilled = {} /\ kept.free # <<>>
  <2>1. TakesFree(scan, c, kept, scan')
    BY <1>1, <1>2 DEF TakesFree
  <2>2. c \in scan.todo /\ \A x \in scan.todo : c.start <= x.start
    BY <1>2, EarliestIs
  <2>3. Split(I, scan.active, c.start, Len(scan.active), kept)
    BY <1>2, ExpireSplits DEF ScanState, Undisturbed
  <2> HIDE DEF c, kept
  <2> QED BY <1>2, <2>1, <2>2, <2>3, FreeGiven
<1>3. CASE scan.spilled # {} \/ kept.free = <<>>
  <2> HIDE DEF c, kept, k, v, q, more
  <2>1. PICK M, T, F, A, S : /\ M = scan.at /\ M = [z \in Vreg |-> M[z]]
                              /\ T = scan.todo /\ F = scan.free /\ A = scan.active /\ S = scan.spilled
                              /\ scan = [todo |-> T, active |-> A, free |-> F, at |-> M, spilled |-> S]
    BY DEF ScanState
  <2>2. \A m, t, f, a, x : /\ scan' = [scan EXCEPT !.todo = t, !.free = f, !.active = a, !.at = m, !.spilled = x]
                            /\ x # {} /\ m = [z \in Vreg |-> m[z]]
                            => ScanState(I, scan')
    <3>1. SUFFICES ASSUME NEW m, NEW t, NEW f, NEW a, NEW x, x # {}, m = [z \in Vreg |-> m[z]],
                          scan' = [scan EXCEPT !.todo = t, !.free = f, !.active = a, !.at = m, !.spilled = x]
                   PROVE  ScanState(I, scan')
      OBVIOUS
    <3>2. scan' = [todo |-> t, active |-> a, free |-> f, at |-> m, spilled |-> x]
      BY <2>1, <3>1
    <3>3. scan'.todo = t /\ scan'.active = a /\ scan'.free = f /\ scan'.at = m /\ scan'.spilled = x
      BY <3>2
    <3>4. scan' = [todo |-> scan'.todo, active |-> scan'.active, free |-> scan'.free, at |-> scan'.at,
                   spilled |-> scan'.spilled]
      BY <3>2, <3>3
    <3> QED BY <3>1, <3>3, <3>4 DEF ScanState
  <2>3. \A w, r : [M EXCEPT ![w] = r] = [z \in Vreg |-> [M EXCEPT ![w] = r][z]]
    BY <2>1
  <2>4. \A w, r, y, p : [M EXCEPT ![w] = r, ![y] = p] = [z \in Vreg |-> [M EXCEPT ![w] = r, ![y] = p][z]]
    BY <2>1
  <2>5. CASE kept.free # <<>>
    <3>1. scan' = given
      BY <1>1, <2>5
    <3>2. PICK t, f, a, m : t = T \ {c} /\ f = Tail(kept.free) /\ m = [M EXCEPT ![c.vreg] = Head(kept.free)]
                            /\ a = Append(kept.active, [interval |-> c, reg |-> Head(kept.free)])
      OBVIOUS
    <3>3. scan' = [scan EXCEPT !.todo = t, !.free = f, !.active = a, !.at = m, !.spilled = S]
      BY <2>1, <3>1, <3>2
    <3>4. S # {} /\ m = [z \in Vreg |-> m[z]]
      BY <1>3, <2>1, <2>3, <2>5, <3>2
    <3> QED BY <2>2, <3>3, <3>4
  <2>6. CASE kept.free = <<>>
    <3>3. scan' = taken \/ scan' = passed
      BY <1>1, <2>6
    <3>4. PICK t, m, n, x, y : /\ t = T \ {c} /\ m = [M EXCEPT ![v.vreg] = None, ![c.vreg] = q] /\ n = [M EXCEPT ![c.vreg] = Bank[1]]
                               /\ x = S \cup {v.vreg} /\ y = S \cup {c.vreg}
      OBVIOUS
    <3>5. \/ scan' = [scan EXCEPT !.todo = t, !.active = more, !.at = m, !.spilled = x]
          \/ scan' = [scan EXCEPT !.todo = t, !.active = kept.active, !.at = n, !.spilled = y]
      BY <2>1, <3>3, <3>4
    <3>6. \/ scan' = [scan EXCEPT !.todo = t, !.free = F, !.active = more, !.at = m, !.spilled = x]
          \/ scan' = [scan EXCEPT !.todo = t, !.free = F, !.active = kept.active, !.at = n, !.spilled = y]
      BY <2>1, <3>5
    <3>7. /\ x # {} /\ m = [w \in Vreg |-> m[w]] /\ y # {} /\ n = [w \in Vreg |-> n[w]]
      BY <2>3, <2>4, <3>4
    <3> QED BY <2>2, <3>6, <3>7
  <2> QED BY <2>5, <2>6
<1> QED BY <1>2, <1>3

(***************************************************************************)
(* Every register of the bank is in use or free, so whoever finds none     *)
(* free finds an interval to take one from.                                *)
(***************************************************************************)
Manned(I, s) ==
    /\ s.active \in Seq(Entries(I)) /\ s.free \in Seq(Reg) /\ Len(s.active) + Len(s.free) = Len(Bank)
    /\ \A v \in Vreg : s.at[v] \in Reg \cup {None}

Counted(I, least, total, x) ==
    /\ x = [active |-> x.active, free |-> x.free]
    /\ x.active \in Seq(Entries(I)) /\ x.free \in Seq(Reg) /\ Len(x.active) + Len(x.free) = total
    /\ least <= Len(x.free)

LEMMA OneCounted ==
    ASSUME NEW I, NEW least \in Nat, NEW total \in Nat, NEW x, Counted(I, least, total, x), NEW a \in Entries(I), NEW position
    PROVE  Counted(I, least, total + 1, ExpireOne(x, a, position))
<1>1. PICK A, F, b, g : A = x.active /\ F = x.free /\ b = Append(A, a) /\ g = Append(F, a.reg)
  OBVIOUS
<1>2. x = [active |-> A, free |-> F] /\ A \in Seq(Entries(I)) /\ F \in Seq(Reg) /\ Len(A) + Len(F) = total /\ least <= Len(F)
  BY <1>1 DEF Counted
<1>3. a.reg \in Reg
  BY DEF Entries
<1>4. /\ b \in Seq(Entries(I)) /\ g \in Seq(Reg) /\ Len(b) = Len(A) + 1 /\ Len(g) = Len(F) + 1
      /\ Len(A) \in Nat /\ Len(F) \in Nat
  BY <1>1, <1>2, <1>3
<1>5. PICK y : y = ExpireOne(x, a, position)
  OBVIOUS
<1>6. y = [active |-> A, free |-> g] \/ y = [active |-> b, free |-> F]
  BY <1>1, <1>2, <1>5 DEF ExpireOne
<1>7. Counted(I, least, total + 1, y)
  <2>1. CASE y = [active |-> A, free |-> g]
    <3>1. y.active = A /\ y.free = g
      BY <2>1
    <3>2. Len(A) + Len(g) = total + 1 /\ least <= Len(g)
      BY <1>2, <1>4
    <3> QED BY <3>2, <1>2, <1>4, <2>1, <3>1 DEF Counted
  <2>2. CASE y = [active |-> b, free |-> F]
    <3>1. y.active = b /\ y.free = F
      BY <2>2
    <3>2. Len(b) + Len(F) = total + 1 /\ least <= Len(F)
      <4>1. \A m, n \in Nat : m + n = total => (m + 1) + n = total + 1
        OBVIOUS
      <4> QED BY <1>2, <1>4, <4>1
    <3> QED BY <3>2, <1>2, <1>4, <2>2, <3>1 DEF Counted
  <2> QED BY <1>6, <2>1, <2>2
<1> QED BY <1>5, <1>7

LEMMA ExpireCounts ==
    ASSUME NEW I, scan.active \in Seq(Entries(I)), scan.free \in Seq(Reg), NEW position
    PROVE  Counted(I, Len(scan.free), Len(scan.active) + Len(scan.free), Expire(position))
<1>1. PICK A, N, M : A = scan.active /\ N = Len(A) /\ M = Len(scan.free)
  OBVIOUS
<1>2. A \in Seq(Entries(I)) /\ N \in Nat /\ M \in Nat
  BY <1>1
<1>3. PICK f : /\ Rounds([over |-> "expire", at |-> position], [active |-> <<>>, free |-> scan.free], N, f)
               /\ Expire(position) = f[N]
  BY <1>1, <1>2, ExpireUnfolded
<1> DEFINE S == {n \in 0 .. N : ~Counted(I, M, n + M, f[n])}
<1>4. ASSUME NEW n \in 1 .. N PROVE f[n] = ExpireOne(f[n - 1], A[n], position)
  <2>1. \A x : LoopPass([over |-> "expire", at |-> position], x, n) = ExpireOne(x, A[n], position)
    BY <1>1 DEF LoopPass, LinearPass
  <2> QED BY <1>3, <2>1 DEF Rounds
<1>5. Counted(I, M, 0 + M, f[0])
  <2>1. f[0] = [active |-> <<>>, free |-> scan.free]
    BY <1>3 DEF Rounds
  <2>2. f[0].active = <<>> /\ f[0].free = scan.free /\ Len(f[0].active) = 0 /\ <<>> \in Seq(Entries(I))
    BY <2>1
  <2> QED BY <1>1, <1>2, <2>1, <2>2 DEF Counted
<1>6. ASSUME S # {} PROVE FALSE
  <2>1. PICK n \in S : \A m \in S : n <= m
    <3>1. S \in SUBSET Nat
      BY <1>2
    <3> HIDE DEF S
    <3> QED BY <1>6, <3>1, LeastNatural
  <2>2. n # 0
    BY <1>5, <2>1
  <2>3. n \in 1 .. N /\ n - 1 \in 0 .. N /\ ~(n <= n - 1) /\ (n - 1 + M) \in Nat /\ (n - 1 + M) + 1 = n + M
    BY <1>2, <2>1, <2>2
  <2>4. Counted(I, M, n - 1 + M, f[n - 1])
    BY <2>1, <2>3
  <2>5. A[n] \in Entries(I)
    BY <1>1, <1>2, <2>3
  <2>6. Counted(I, M, n + M, f[n])
    <3>1. PICK total \in Nat : total = n - 1 + M
      BY <2>3
    <3>2. Counted(I, M, total + 1, f[n])
      BY <1>2, <1>4, <2>3, <2>4, <2>5, <3>1, OneCounted
    <3> QED BY <2>3, <3>1, <3>2
  <2> QED BY <2>1, <2>6
<1>7. N \in 0 .. N
  BY <1>2
<1> QED BY <1>1, <1>3, <1>6, <1>7

LEMMA FirstGreatest ==
    ASSUME NEW N \in Nat \ {0}, NEW E \in [1 .. N -> Nat]
    PROVE  \E k \in 1 .. N : \A j \in 1 .. N : E[j] < E[k] \/ (E[j] = E[k] /\ k <= j)
<1>1. PICK S : S = {n \in 1 .. N : ~\E m \in 1 .. n : \A j \in 1 .. n : E[j] <= E[m]}
  OBVIOUS
<1>2. S = {}
  <2> SUFFICES ASSUME S # {} PROVE FALSE
    OBVIOUS
  <2>1. PICK n \in S : \A m \in S : n <= m
    <3>1. S \in SUBSET Nat
      BY <1>1
    <3> QED BY <3>1, LeastNatural
  <2>2. n \in 1 .. N /\ ~\E m \in 1 .. n : \A j \in 1 .. n : E[j] <= E[m]
    BY <1>1, <2>1
  <2>3. n # 1
    BY <2>2
  <2>4. n - 1 \in 1 .. N /\ ~(n <= n - 1)
    BY <2>2, <2>3
  <2>5. PICK m \in 1 .. (n - 1) : \A j \in 1 .. (n - 1) : E[j] <= E[m]
    BY <1>1, <2>1, <2>4
  <2>6. E[n] \in Nat /\ E[m] \in Nat /\ m \in 1 .. n /\ n \in 1 .. n
    BY <2>2, <2>4
  <2>7. \A j \in 1 .. n : E[j] \in Nat /\ (j = n \/ j \in 1 .. (n - 1))
    BY <2>2
  <2>8. CASE E[n] <= E[m]
    BY <2>2, <2>5, <2>6, <2>7, <2>8
  <2>9. CASE E[m] <= E[n]
    BY <2>2, <2>5, <2>6, <2>7, <2>9
  <2> QED BY <2>6, <2>8, <2>9
<1>3. PICK m \in 1 .. N : \A j \in 1 .. N : E[j] <= E[m]
  <2>1. N \in 1 .. N /\ N \notin S
    BY <1>2
  <2> QED BY <1>1, <2>1
<1>4. PICK K : K = {k \in 1 .. N : E[k] = E[m]}
  OBVIOUS
<1>5. PICK k \in K : \A j \in K : k <= j
  <2>1. K \in SUBSET Nat /\ K # {}
    BY <1>3, <1>4
  <2> QED BY <2>1, LeastNatural
<1>6. ASSUME NEW j \in 1 .. N PROVE E[j] < E[k] \/ (E[j] = E[k] /\ k <= j)
  <2>1. E[j] <= E[m] /\ E[j] \in Nat /\ E[m] \in Nat /\ E[k] = E[m]
    BY <1>3, <1>4, <1>5
  <2>2. E[j] = E[m] => k <= j
    BY <1>4, <1>5
  <2> QED BY <2>1, <2>2
<1> QED BY <1>4, <1>5, <1>6

LEMMA LastIsThere ==
    ASSUME NEW I, Lives(I), NEW A \in Seq(Entries(I)), A # <<>>
    PROVE  LastToEnd(A) \in 1 .. Len(A)
<1>1. PICK E : E = [k \in 1 .. Len(A) |-> A[k].interval.end]
  OBVIOUS
<1>2. Len(A) \in Nat \ {0} /\ DOMAIN A = 1 .. Len(A)
  OBVIOUS
<1>3. E \in [1 .. Len(A) -> Nat]
  <2>1. \A k \in 1 .. Len(A) : A[k].interval.end \in Nat
    BY DEF Entries, Lives
  <2> QED BY <1>1, <2>1
<1>4. \E k \in DOMAIN A : \A j \in DOMAIN A : E[j] < E[k] \/ (E[j] = E[k] /\ k <= j)
  BY <1>2, <1>3, FirstGreatest
<1>5. \E k \in DOMAIN A : \A j \in DOMAIN A : \/ A[j].interval.end < A[k].interval.end
                                              \/ A[j].interval.end = A[k].interval.end /\ k <= j
  BY <1>1, <1>2, <1>4
<1> QED BY <1>2, <1>5 DEF LastToEnd

LEMMA OneRemoved ==
    ASSUME NEW T, NEW A \in Seq(T), NEW k \in 1 .. Len(A)
    PROVE  RemoveAt(A, k) \in Seq(T) /\ Len(RemoveAt(A, k)) = Len(A) - 1
<1>1. PICK b, c : b = SubSeq(A, 1, k - 1) /\ c = SubSeq(A, k + 1, Len(A))
  OBVIOUS
<1>2. b \in Seq(T) /\ Len(b) = k - 1
  BY <1>1
<1>3. c \in Seq(T) /\ Len(c) = Len(A) - k
  BY <1>1
<1>4. b \o c \in Seq(T) /\ Len(b \o c) = Len(b) + Len(c)
  BY <1>2, <1>3
<1>5. Len(b \o c) = Len(A) - 1
  BY <1>2, <1>3, <1>4
<1> QED BY <1>1, <1>4, <1>5 DEF RemoveAt

LEMMA ManGoesOn ==
    ASSUME Sound, NEW I, Lives(I), ScanState(I, scan), scan.todo \subseteq I, Manned(I, scan), scan.todo # {}, Place
    PROVE  Manned(I, scan') /\ scan'.todo \subseteq I
<1> DEFINE c == Earliest(scan.todo)
           kept == Expire(c.start)
           k == LastToEnd(kept.active)
<1>1. c \in I /\ c.vreg \in Vreg
  BY EarliestIs DEF Lives
<1>2. PICK A, F, cur, last : A = kept.active /\ F = kept.free /\ cur = c /\ last = k /\ last = LastToEnd(A)
  OBVIOUS
<1>3. /\ A \in Seq(Entries(I)) /\ F \in Seq(Reg) /\ Len(A) + Len(F) = Len(Bank) /\ Len(Bank) \in Nat \ {0}
      /\ Len(scan.free) <= Len(F)
  BY <1>2, ExpireCounts DEF Counted, Manned, Sound
<1>4. PICK M, T, S, D : M = scan.at /\ T = scan.todo /\ S = scan.spilled /\ D = T \ {cur}
                        /\ M = [v \in Vreg |-> M[v]] /\ (\A v \in Vreg : M[v] \in Reg \cup {None})
                        /\ scan = [todo |-> T, active |-> scan.active, free |-> scan.free, at |-> M, spilled |-> S]
  BY DEF ScanState, Manned
<1>5. \A r \in Reg : [interval |-> cur, reg |-> r] \in Entries(I)
  BY <1>1, <1>2 DEF Entries
<1>6. \/ /\ F # <<>>
         /\ scan' = [scan EXCEPT !.todo = D, !.free = Tail(F), !.active = Append(A, [interval |-> cur, reg |-> Head(F)]),
                                 !.at = [M EXCEPT ![cur.vreg] = Head(F)]]
      \/ /\ F = <<>>
         /\ scan' = [scan EXCEPT !.todo = D, !.active = Append(RemoveAt(A, last), [interval |-> cur, reg |-> A[last].reg]),
                                 !.at = [M EXCEPT ![A[last].interval.vreg] = None, ![cur.vreg] = A[last].reg],
                                 !.spilled = S \cup {A[last].interval.vreg}]
      \/ /\ F = <<>>
         /\ scan' = [scan EXCEPT !.todo = D, !.active = A, !.at = [M EXCEPT ![cur.vreg] = Bank[1]],
                                 !.spilled = S \cup {cur.vreg}]
  BY <1>2, <1>4 DEF Place
<1>7. \A m, t, f, a, x : /\ scan' = [scan EXCEPT !.todo = t, !.free = f, !.active = a, !.at = m, !.spilled = x]
                         /\ t \subseteq I /\ a \in Seq(Entries(I)) /\ f \in Seq(Reg) /\ Len(a) + Len(f) = Len(Bank)
                         /\ \A v \in Vreg : m[v] \in Reg \cup {None}
                         => Manned(I, scan') /\ scan'.todo \subseteq I
  <2>1. SUFFICES ASSUME NEW m, NEW t, NEW f, NEW a, NEW x,
                        t \subseteq I, a \in Seq(Entries(I)), f \in Seq(Reg), Len(a) + Len(f) = Len(Bank),
                        \A v \in Vreg : m[v] \in Reg \cup {None},
                        scan' = [scan EXCEPT !.todo = t, !.free = f, !.active = a, !.at = m, !.spilled = x]
                 PROVE  Manned(I, scan') /\ scan'.todo \subseteq I
    OBVIOUS
  <2>2. scan'.todo = t /\ scan'.active = a /\ scan'.free = f /\ scan'.at = m
    BY <1>4, <2>1
  <2> QED BY <2>1, <2>2 DEF Manned
<1>8. D \subseteq I
  BY <1>4
<1> HIDE DEF c, kept, k
<1>9. CASE F # <<>>
  <2>1. PICK r, f, a, m : r = Head(F) /\ f = Tail(F) /\ a = Append(A, [interval |-> cur, reg |-> r]) /\ m = [M EXCEPT ![cur.vreg] = r]
    OBVIOUS
  <2>2. r \in Reg /\ f \in Seq(Reg) /\ Len(f) = Len(F) - 1 /\ Len(F) \in Nat /\ Len(A) \in Nat
    BY <1>3, <1>9, <2>1
  <2>3. a \in Seq(Entries(I)) /\ Len(a) = Len(A) + 1
    BY <1>3, <1>5, <2>1, <2>2
  <2>4. Len(a) + Len(f) = Len(Bank)
    <3>1. \A x, y \in Nat : (x + 1) + (y - 1) = x + y
      OBVIOUS
    <3> QED BY <1>3, <2>2, <2>3, <3>1
  <2>5. \A v \in Vreg : m[v] \in Reg \cup {None}
    BY <1>4, <2>1, <2>2
  <2>6. scan' = [scan EXCEPT !.todo = D, !.free = f, !.active = a, !.at = m, !.spilled = S]
    BY <1>4, <1>6, <1>9, <2>1
  <2> QED BY <1>7, <1>8, <2>2, <2>3, <2>4, <2>5, <2>6
<1>10. CASE F = <<>>
  <2>1. Len(F) = 0 /\ A # <<>> /\ F \in Seq(Reg) /\ scan.free \in Seq(Reg)
    BY <1>3, <1>10 DEF Manned
  <2>2. last \in 1 .. Len(A) /\ Len(A) \in Nat
    BY <1>2, <1>3, <2>1, LastIsThere
  <2>3. PICK e, less, r : e = A[last] /\ less = RemoveAt(A, last) /\ r = e.reg
    OBVIOUS
  <2>4. r \in Reg /\ less \in Seq(Entries(I)) /\ Len(less) = Len(A) - 1
    BY <1>3, <2>2, <2>3, OneRemoved DEF Entries
  <2>5. PICK a, m, n : /\ a = Append(less, [interval |-> cur, reg |-> r])
                       /\ m = [M EXCEPT ![e.interval.vreg] = None, ![cur.vreg] = r] /\ n = [M EXCEPT ![cur.vreg] = Bank[1]]
    OBVIOUS
  <2>6. a \in Seq(Entries(I)) /\ Len(a) = Len(A)
    BY <1>5, <2>2, <2>4, <2>5
  <2>7. Bank[1] \in Reg
    BY <1>3 DEF Sound, Reg
  <2>8. \A v \in Vreg : m[v] \in Reg \cup {None} /\ n[v] \in Reg \cup {None}
    BY <1>4, <2>4, <2>5, <2>7
  <2>9. PICK x, y : x = S \cup {e.interval.vreg} /\ y = S \cup {cur.vreg}
    OBVIOUS
  <2>10. \/ scan' = [scan EXCEPT !.todo = D, !.active = a, !.at = m, !.spilled = x]
         \/ scan' = [scan EXCEPT !.todo = D, !.active = A, !.at = n, !.spilled = y]
    BY <1>6, <1>10, <2>3, <2>5, <2>9
  <2>11. PICK f : f = scan.free /\ Len(f) = 0
    <3>1. Len(scan.free) \in Nat /\ Len(scan.free) <= 0
      BY <1>3, <2>1
    <3> QED BY <3>1
  <2>12. \/ scan' = [scan EXCEPT !.todo = D, !.free = f, !.active = a, !.at = m, !.spilled = x]
         \/ scan' = [scan EXCEPT !.todo = D, !.free = f, !.active = A, !.at = n, !.spilled = y]
    BY <1>4, <2>10, <2>11
  <2>13. f \in Seq(Reg) /\ Len(a) + Len(f) = Len(Bank) /\ Len(A) + Len(f) = Len(Bank)
    BY <1>3, <2>1, <2>2, <2>6, <2>11
  <2> QED BY <1>3, <1>7, <1>8, <2>6, <2>8, <2>12, <2>13
<1> QED BY <1>9, <1>10

\* The analysis has come to its end.
LEMMA AnalysisSolved ==
    ASSUME graph = FlowGraph(program), Analysed
    PROVE  Solved(program, graph, live_in)
<1>1. live_in = [b \in Block |-> NewIn(graph, live_in, b)]
  BY DEF Analysed, Round
<1>2. \A b \in Block : NewIn(graph, live_in, b) \in SUBSET Value
  BY DEF NewIn, NewOut, Uses
<1>3. \A b \in Block : live_in[b] = NewIn(graph, live_in, b)
  BY <1>1
<1>4. live_in \in [Block -> SUBSET Value]
  BY <1>1, <1>2, <1>3
<1> QED BY <1>3, <1>4 DEF Solved

LEMMA AnalysisFlows ==
    ASSUME Sound, WellFormed(program), Selected(program), graph = FlowGraph(program), Analysed
    PROVE  Flows(program, live_after', Value)
<1>1. PICK after, across : after = live_after' /\ across = LiveOnEdges(program, graph, live_in)
  OBVIOUS
<1>2. Flows(program, after, across)
  BY <1>1, AnalysisSolved, AnswerFlows DEF Analysed
<1>3. \A e \in Edges(program) : LastOf(program, e.from) \in DOMAIN program
  BY EdgeIs
<1>4. Flows(program, after, Value)
  BY <1>2, <1>3 DEF Flows
<1> QED BY <1>1, <1>4

(***************************************************************************)
(* The planning of linear scan: the intervals are those of the program,    *)
(* and the rewriting begins when all of them are done.                     *)
(***************************************************************************)
Planned(I, s) == ScanState(I, s) /\ Manned(I, s) /\ s.todo \subseteq I
Uncoded == DOMAIN code = DOMAIN program /\ \A i \in DOMAIN program : code[i] = <<>>
Planning ==
    allocator = "linear" =>
        /\ next = 0 => graph = FlowGraph(program)
        /\ next < 2 => Uncoded /\ rw = NoRewriting
        /\ next > 0 => Flows(program, live_after, Value) /\ Planned(Intervals(program, live_after), scan)
        /\ next > 1 => scan.todo = {}

FirstScan(I) == [NoScan EXCEPT !.todo = I, !.free = Bank]

LEMMA PlanStarts ==
    ASSUME Sound, NEW I, Lives(I)
    PROVE  Planned(I, FirstScan(I))
<1>0. PICK s : s = FirstScan(I)
  OBVIOUS
<1>1. PICK at, none, empty : at = [v \in Vreg |-> None] /\ none = {} /\ empty = <<>>
  OBVIOUS
<1>2. s = [todo |-> I, active |-> empty, free |-> Bank, at |-> at, spilled |-> none]
  BY <1>0, <1>1 DEF NoScan, FirstScan
<1>3. s.todo = I /\ s.active = empty /\ s.free = Bank /\ s.at = at /\ s.spilled = none
  BY <1>2, ScanFields, Zenon
<1>4. s = [todo |-> s.todo, active |-> s.active, free |-> s.free, at |-> s.at, spilled |-> s.spilled]
  BY <1>2, <1>3
<1>5. empty \in Seq(Entries(I)) /\ Len(empty) = 0 /\ Bank \in Seq(Reg) /\ Len(Bank) \in Nat
  BY <1>1 DEF Sound
<1>6. Apart(empty, Bank)
  BY <1>5 DEF Apart, Sound
<1>7. Homes(I \ s.todo, s.at)
  BY <1>3 DEF Homes
<1>8. Reached(I, s, 0)
  BY <1>3 DEF Reached, Lives
<1>9. Undisturbed(I, s)
  <2>1. \E position \in Nat : Reached(I, s, position)
    BY <1>8
  <2> QED BY <1>3, <1>5, <1>6, <1>7, <2>1 DEF Undisturbed
<1>10. ScanState(I, s)
  BY <1>1, <1>3, <1>4, <1>9 DEF ScanState
<1>11. Manned(I, s)
  <2>1. \A v \in Vreg : s.at[v] = None
    BY <1>1, <1>3
  <2> QED BY <1>3, <1>5, <2>1 DEF Manned
<1> QED BY <1>0, <1>3, <1>10, <1>11 DEF Planned

LEMMA StartPlans ==
    ASSUME Sound, GreedyInv, Planning, LinearStart, allocator = "linear", UNCHANGED allocator
    PROVE  Planning'
<1>1. /\ program' = program /\ code' = code /\ next' = 1 /\ next = 0 /\ rw' = rw
      /\ live_after' = LiveAfterItems(program, graph, live_in) /\ Analysed
  BY DEF LinearStart, Analysed
<1>2. WellFormed(program) /\ Selected(program) /\ graph = FlowGraph(program) /\ Uncoded /\ rw = NoRewriting
  BY <1>1 DEF GreedyInv, Sound, Planning
<1>3. PICK after : after = live_after'
  OBVIOUS
<1>4. Flows(program, after, Value)
  BY <1>1, <1>2, <1>3, AnalysisFlows
<1>5. PICK I : I = Intervals(program, after)
  OBVIOUS
<1>6. Lives(I)
  BY <1>2, <1>5, IntervalsLive
<1>7. scan' = FirstScan(I)
  BY <1>1, <1>3, <1>5 DEF LinearStart, FirstScan
<1>8. Planned(I, scan')
  BY <1>6, <1>7, PlanStarts
<1>9. (Flows(program, live_after, Value) /\ Planned(Intervals(program, live_after), scan))'
  BY <1>1, <1>3, <1>4, <1>5, <1>8
<1>10. (Uncoded /\ rw = NoRewriting)'
  BY <1>1, <1>2 DEF Uncoded
<1> QED BY <1>1, <1>9, <1>10 DEF Planning

LEMMA ScanPlans ==
    ASSUME Sound, GreedyInv, Planning, Scan, allocator = "linear", UNCHANGED allocator
    PROVE  Planning'
<1>1. /\ program' = program /\ live_after' = live_after /\ code' = code /\ next' = next /\ next = 1 /\ rw' = rw
      /\ scan.todo # {} /\ Place
  BY DEF Scan, Scanning, sharedVars, analysisVars
<1>2. PICK I : I = Intervals(program, live_after) /\ I = Intervals(program, live_after)'
  BY <1>1
<1>3. Flows(program, live_after, Value) /\ Planned(I, scan) /\ Uncoded /\ rw = NoRewriting
  BY <1>1, <1>2 DEF Planning
<1>4. Lives(I)
  <2>1. WellFormed(program) /\ Selected(program)
    BY DEF GreedyInv, Sound
  <2> QED BY <1>2, <2>1, IntervalsLive
<1>5. ScanState(I, scan')
  BY <1>1, <1>3, <1>4, ScanGoesOn DEF Planned
<1>6. Manned(I, scan') /\ scan'.todo \subseteq I
  BY <1>1, <1>3, <1>4, ManGoesOn DEF Planned
<1>7. (Planned(Intervals(program, live_after), scan))'
  BY <1>2, <1>5, <1>6 DEF Planned
<1>8. (Flows(program, live_after, Value) /\ Uncoded /\ rw = NoRewriting)'
  BY <1>1, <1>3 DEF Uncoded
<1> QED BY <1>1, <1>7, <1>8 DEF Planning

LEMMA PlanningInductive == ASSUME Sound PROVE Spec => []Planning
<1>1. Init => Planning
  BY DEF Init, InitOf, SharedInit, LinearInit, Planning, Uncoded
<1>2. GreedyInv /\ Planning /\ [Next]_vars => Planning'
  <2> SUFFICES ASSUME GreedyInv, Planning, [Next]_vars PROVE Planning'
    OBVIOUS
  <2>1. CASE Greedy
    BY <2>1 DEF Greedy, Planning
  <2>2. CASE Linear
    <3>1. CASE Analyse /\ UNCHANGED linearVars
      BY <2>2, <3>1 DEF Linear, Analyse, linearVars, Planning, Uncoded
    <3>2. CASE LinearStart
      BY <2>2, <3>2, StartPlans DEF Linear
    <3>3. CASE Scan
      BY <2>2, <3>3, ScanPlans DEF Linear
    <3>4. CASE Rewrite
      <4>1. /\ program' = program /\ live_after' = live_after /\ scan' = scan /\ scan.todo = {}
            /\ next \in Nat \ {0} /\ next' = next + 1 /\ allocator' = allocator
        BY <2>2, <3>4 DEF Linear, Rewrite, analysisVars, GreedyInv
      <4>2. (Flows(program, live_after, Value) /\ Planned(Intervals(program, live_after), scan))' \/ allocator # "linear"
        BY <4>1 DEF Planning
      <4> QED BY <4>1, <4>2 DEF Planning
    <3> QED BY <2>2, <3>1, <3>2, <3>3, <3>4 DEF Linear
  <2>3. CASE Machine \/ UNCHANGED vars
    <3>1. UNCHANGED allocVars
      BY <2>3 DEF Machine, Enter, Spill, Reload, Compute, Jumped, NotTaken, Called, vars
    <3> QED BY <3>1 DEF allocVars, sharedVars, analysisVars, linearVars, Planning, Uncoded
  <2> QED BY <2>1, <2>2, <2>3 DEF Next, Machine
<1> QED BY <1>1, <1>2, GreedyInductive, PTL DEF Spec

(***************************************************************************)
(* The scan's promise to the rewriting: where nobody had to be spilled,    *)
(* every variable has a register, and two that have the same one are never *)
(* alive in the same place of the text.                                    *)
(***************************************************************************)
HomesApart ==
    allocator = "linear" /\ next > 0 /\ scan.todo = {} /\ scan.spilled = {} =>
        \A v, w \in Named(program) :
            LET x == Hull(program, live_after, v)
                y == Hull(program, live_after, w)
            IN /\ scan.at[v] \in Reg
               /\ v # w /\ scan.at[v] = scan.at[w] => x.end <= y.start \/ y.end <= x.start
LEMMA PlannedApart == ASSUME Sound, GreedyInv, Planning PROVE HomesApart
<1> SUFFICES ASSUME allocator = "linear", next > 0, scan.todo = {}, scan.spilled = {},
                    NEW v \in Named(program), NEW w \in Named(program)
             PROVE  /\ scan.at[v] \in Reg
                    /\ v # w /\ scan.at[v] = scan.at[w] =>
                           \/ Hull(program, live_after, v).end <= Hull(program, live_after, w).start
                           \/ Hull(program, live_after, w).end <= Hull(program, live_after, v).start
  BY DEF HomesApart
<1>1. PICK I, x, y : I = Intervals(program, live_after) /\ x = Hull(program, live_after, v) /\ y = Hull(program, live_after, w)
  OBVIOUS
<1>2. WellFormed(program) /\ Selected(program)
  BY DEF GreedyInv, Sound
<1>3. x \in I /\ y \in I
  BY <1>1, <1>2, IntervalsLive
<1>4. x.vreg = v /\ y.vreg = w
  BY <1>1, <1>2, HullIs DEF Interval
<1>5. Homes(I, scan.at)
  BY <1>1 DEF Planning, Planned, ScanState, Undisturbed
<1> QED BY <1>1, <1>3, <1>4, <1>5 DEF Homes

(***************************************************************************)
(* allocate() gives two variables whose intervals overlap two registers:   *)
(* as long as it has spilled nobody, variables at one home register have   *)
(* intervals that lie one behind the other, as compute_live_intervals()    *)
(* and apply_cfg_liveness() made them.                                     *)
(***************************************************************************)
THEOREM LinearHomes == ASSUME Sound PROVE Spec => []HomesApart
<1>1. GreedyInv /\ Planning => HomesApart
  BY PlannedApart
<1> QED BY <1>1, GreedyInductive, PlanningInductive, PTL

(***************************************************************************)
(* The rewriting's state, seen as the greedy allocator's: who is stored in *)
(* his slot is clean and has one.                                          *)
(***************************************************************************)
Is(s, pool, stacked, spilled, out, refused) ==
    s = [pool |-> pool, stacked |-> stacked, spilled |-> spilled, out |-> out, refused |-> refused]
As(s) == [pool |-> s.pool, clean |-> s.stacked, slots |-> s.stacked, out |-> s.out, refused |-> s.refused]
Whole(s) ==
    /\ Is(s, s.pool, s.stacked, s.spilled, s.out, s.refused) /\ State(As(s))
    /\ \A r \in Reg : s.pool[r] \in Vreg \cup {None}

LEMMA IsFields ==
    ASSUME NEW s, NEW P, NEW K, NEW X, NEW O, NEW F, Is(s, P, K, X, O, F)
    PROVE  s.pool = P /\ s.stacked = K /\ s.spilled = X /\ s.out = O /\ s.refused = F
BY DEF Is

LEMMA IsAs ==
    ASSUME NEW s, NEW P, NEW K, NEW X, NEW O, NEW F, Is(s, P, K, X, O, F)
    PROVE  As(s) = [pool |-> P, clean |-> K, slots |-> K, out |-> O, refused |-> F]
BY IsFields DEF As

LEMMA AsFields ==
    ASSUME NEW s
    PROVE  /\ As(s).pool = s.pool /\ As(s).clean = s.stacked /\ As(s).slots = s.stacked
           /\ As(s).out = s.out /\ As(s).refused = s.refused
BY DEF As

LEMMA IsWhole ==
    ASSUME NEW s, NEW P, NEW K, NEW X, NEW O, NEW F, Is(s, P, K, X, O, F),
           P = [r \in Reg |-> P[r]], F \in BOOLEAN, Distinct(P), \A r \in Reg : P[r] \in Vreg \cup {None}
    PROVE  Whole(s)
<1>1. s.pool = P /\ s.stacked = K /\ s.spilled = X /\ s.out = O /\ s.refused = F
  BY IsFields
<1>2. Is(s, s.pool, s.stacked, s.spilled, s.out, s.refused)
  BY <1>1
<1>3. PICK a : a = As(s)
  OBVIOUS
<1>4. a = [pool |-> P, clean |-> K, slots |-> K, out |-> O, refused |-> F]
  BY <1>3, IsAs
<1>5. a.pool = P /\ a.clean = K /\ a.slots = K /\ a.out = O /\ a.refused = F
  BY <1>4
<1>6. State(a)
  BY <1>4, <1>5 DEF State
<1> QED BY <1>1, <1>2, <1>3, <1>6 DEF Whole

LEMMA WholeIs ==
    ASSUME NEW s, Whole(s)
    PROVE  \E P, K, X, O, F :
              /\ Is(s, P, K, X, O, F) /\ P = [r \in Reg |-> P[r]] /\ F \in BOOLEAN /\ Distinct(P)
              /\ \A r \in Reg : P[r] \in Vreg \cup {None}
              /\ s.pool = P /\ s.stacked = K /\ s.spilled = X /\ s.out = O /\ s.refused = F
<1>1. PICK P, K, X, O, F : P = s.pool /\ K = s.stacked /\ X = s.spilled /\ O = s.out /\ F = s.refused
  OBVIOUS
<1>2. State(As(s)) /\ As(s).pool = P /\ As(s).refused = F
  BY <1>1, AsFields DEF Whole
<1>3. P = [r \in Reg |-> P[r]] /\ F \in BOOLEAN /\ Distinct(P)
  BY <1>2 DEF State
<1>4. Is(s, P, K, X, O, F) /\ \A r \in Reg : P[r] \in Vreg \cup {None}
  BY <1>1 DEF Whole
<1> QED BY <1>1, <1>3, <1>4

\* A value is stored.
LEMMA StoreWhole ==
    ASSUME NEW s, Whole(s), NEW v, NEW r
    PROVE  /\ Whole(Store(s, v, r)) /\ As(Store(s, v, r)) = EmitSpill(As(s), v, r)
           /\ Store(s, v, r).pool = s.pool /\ Store(s, v, r).stacked = s.stacked \cup {v}
           /\ Store(s, v, r).refused = s.refused
<1>1. PICK P, K, X, O, F :
              /\ Is(s, P, K, X, O, F) /\ P = [q \in Reg |-> P[q]] /\ F \in BOOLEAN /\ Distinct(P)
              /\ \A q \in Reg : P[q] \in Vreg \cup {None}
              /\ s.pool = P /\ s.stacked = K /\ s.spilled = X /\ s.out = O /\ s.refused = F
  BY WholeIs
<1>2. PICK k, x, o, t, a, e : /\ k = K \cup {v} /\ x = X \cup {v} /\ o = Append(O, SpillTo(v, r))
                              /\ t = Store(s, v, r) /\ a = As(s) /\ e = EmitSpill(a, v, r)
  OBVIOUS
<1>3. t = [s EXCEPT !.out = o, !.stacked = k, !.spilled = x]
  BY <1>1, <1>2 DEF Store
<1>4. Is(t, P, k, x, o, F)
  BY <1>1, <1>3 DEF Is
<1>5. t.pool = P /\ t.stacked = k /\ t.refused = F
  BY <1>4, IsFields
<1>6. a = [pool |-> P, clean |-> K, slots |-> K, out |-> O, refused |-> F]
  BY <1>1, <1>2, IsAs
<1>7. a.clean = K /\ a.slots = K /\ a.out = O
  BY <1>6
<1>8. e = [a EXCEPT !.out = o, !.clean = k, !.slots = k]
  BY <1>2, <1>7 DEF EmitSpill
<1>9. e = [pool |-> P, clean |-> k, slots |-> k, out |-> o, refused |-> F]
  BY <1>6, <1>8
<1>10. As(t) = [pool |-> P, clean |-> k, slots |-> k, out |-> o, refused |-> F]
  BY <1>4, IsAs
<1>11. As(t) = e
  BY <1>9, <1>10
<1>12. Whole(t)
  BY <1>1, <1>4, IsWhole
<1> QED BY <1>1, <1>2, <1>5, <1>11, <1>12

\* Registers change hands, and nothing else happens.
LEMMA PoolWhole ==
    ASSUME NEW s, Whole(s), NEW pool, pool = [q \in Reg |-> pool[q]], Distinct(pool),
           \A q \in Reg : pool[q] \in Vreg \cup {None}
    PROVE  /\ Whole([s EXCEPT !.pool = pool]) /\ As([s EXCEPT !.pool = pool]) = [As(s) EXCEPT !.pool = pool]
           /\ [s EXCEPT !.pool = pool].pool = pool /\ [s EXCEPT !.pool = pool].stacked = s.stacked
           /\ [s EXCEPT !.pool = pool].spilled = s.spilled /\ [s EXCEPT !.pool = pool].refused = s.refused
           /\ [s EXCEPT !.pool = pool].out = s.out
<1>1. PICK P, K, X, O, F :
              /\ Is(s, P, K, X, O, F) /\ P = [q \in Reg |-> P[q]] /\ F \in BOOLEAN /\ Distinct(P)
              /\ \A q \in Reg : P[q] \in Vreg \cup {None}
              /\ s.pool = P /\ s.stacked = K /\ s.spilled = X /\ s.out = O /\ s.refused = F
  BY WholeIs
<1>2. PICK t, a, e : t = [s EXCEPT !.pool = pool] /\ a = As(s) /\ e = [a EXCEPT !.pool = pool]
  OBVIOUS
<1>3. Is(t, pool, K, X, O, F)
  BY <1>1, <1>2 DEF Is
<1>4. t.pool = pool /\ t.stacked = K /\ t.spilled = X /\ t.refused = F /\ t.out = O
  BY <1>3, IsFields
<1>5. a = [pool |-> P, clean |-> K, slots |-> K, out |-> O, refused |-> F]
  BY <1>1, <1>2, IsAs
<1>6. e = [pool |-> pool, clean |-> K, slots |-> K, out |-> O, refused |-> F]
  BY <1>2, <1>5
<1>7. As(t) = [pool |-> pool, clean |-> K, slots |-> K, out |-> O, refused |-> F]
  BY <1>3, IsAs
<1>8. As(t) = e
  BY <1>6, <1>7
<1>9. Whole(t)
  BY <1>1, <1>3, IsWhole
<1> QED BY <1>1, <1>2, <1>4, <1>8, <1>9

LEMMA VacateWhole ==
    ASSUME Sound, NEW s, Whole(s), NEW r \in Reg
    PROVE  /\ Whole(Vacate(s, r)) /\ As(Vacate(s, r)) = [As(s) EXCEPT !.pool[r] = None]
           /\ Vacate(s, r).pool[r] = None /\ \A q \in Reg : q # r => Vacate(s, r).pool[q] = s.pool[q]
           /\ Vacate(s, r).stacked = s.stacked /\ Vacate(s, r).spilled = s.spilled
           /\ Vacate(s, r).refused = s.refused /\ Vacate(s, r).out = s.out
<1>1. PICK P, pool, t, a : P = s.pool /\ pool = [P EXCEPT ![r] = None] /\ t = [s EXCEPT !.pool = pool] /\ a = As(s)
  OBVIOUS
<1>2. P = [q \in Reg |-> P[q]] /\ Distinct(P) /\ \A q \in Reg : P[q] \in Vreg \cup {None}
  BY <1>1, WholeIs
<1>3. /\ pool = [q \in Reg |-> pool[q]] /\ pool[r] = None /\ \A q \in Reg : q # r => pool[q] = P[q]
  BY <1>1, <1>2
<1>4. Distinct(pool) /\ \A q \in Reg : pool[q] \in Vreg \cup {None}
  BY <1>2, <1>3 DEF Distinct
<1>5. Vacate(s, r) = t
  BY <1>1 DEF Vacate
<1>6. a.pool = P
  BY <1>1, AsFields
<1>7. [a EXCEPT !.pool[r] = None] = [a EXCEPT !.pool = pool]
  BY <1>1, <1>6
<1>8. /\ Whole(t) /\ As(t) = [a EXCEPT !.pool = pool] /\ t.pool = pool /\ t.stacked = s.stacked /\ t.spilled = s.spilled
      /\ t.refused = s.refused /\ t.out = s.out
  BY <1>1, <1>3, <1>4, PoolWhole
<1> QED BY <1>1, <1>3, <1>5, <1>7, <1>8

\* Nobody else has it.
LEMMA ClaimWhole ==
    ASSUME Sound, NEW s, Whole(s), NEW r \in Reg, NEW v \in Vreg, \A q \in Reg : s.pool[q] # v
    PROVE  /\ Whole(ClaimRegister(s, v, r)) /\ As(ClaimRegister(s, v, r)) = [As(s) EXCEPT !.pool[r] = v]
           /\ ClaimRegister(s, v, r).pool[r] = v
           /\ \A q \in Reg : q # r => ClaimRegister(s, v, r).pool[q] = s.pool[q]
           /\ ClaimRegister(s, v, r).stacked = s.stacked /\ ClaimRegister(s, v, r).spilled = s.spilled
           /\ ClaimRegister(s, v, r).refused = s.refused /\ ClaimRegister(s, v, r).out = s.out
<1>1. PICK P, pool, t, a : P = s.pool /\ pool = [P EXCEPT ![r] = v] /\ t = [s EXCEPT !.pool = pool] /\ a = As(s)
  OBVIOUS
<1>2. P = [q \in Reg |-> P[q]] /\ Distinct(P) /\ \A q \in Reg : P[q] \in Vreg \cup {None}
  BY <1>1, WholeIs
<1>3. /\ pool = [q \in Reg |-> pool[q]] /\ pool[r] = v /\ \A q \in Reg : q # r => pool[q] = P[q]
  BY <1>1, <1>2
<1>4. Distinct(pool) /\ \A q \in Reg : pool[q] \in Vreg \cup {None}
  BY <1>1, <1>2, <1>3 DEF Distinct
<1>5. ClaimRegister(s, v, r) = t
  <2>1. pool = [q \in Reg |-> IF q = r THEN v ELSE IF P[q] = v THEN None ELSE P[q]]
    BY <1>1, <1>2
  <2> QED BY <1>1, <2>1 DEF ClaimRegister
<1>6. a.pool = P
  BY <1>1, AsFields
<1>7. [a EXCEPT !.pool[r] = v] = [a EXCEPT !.pool = pool]
  BY <1>1, <1>6
<1>8. /\ Whole(t) /\ As(t) = [a EXCEPT !.pool = pool] /\ t.pool = pool /\ t.stacked = s.stacked /\ t.spilled = s.spilled
      /\ t.refused = s.refused /\ t.out = s.out
  BY <1>1, <1>3, <1>4, PoolWhole
<1> QED BY <1>1, <1>3, <1>5, <1>7, <1>8

\* Who has it keeps it.
LEMMA ClaimedAgain ==
    ASSUME Sound, NEW s, Whole(s), NEW v \in Vreg, NEW r \in Holder(s, v)
    PROVE  ClaimRegister(s, v, r) = s /\ r \in Reg /\ s.pool[r] = v /\ \A q \in Holder(s, v) : q = r
<1>1. PICK P, K, X, O, F :
              /\ Is(s, P, K, X, O, F) /\ P = [q \in Reg |-> P[q]] /\ F \in BOOLEAN /\ Distinct(P)
              /\ \A q \in Reg : P[q] \in Vreg \cup {None}
              /\ s.pool = P /\ s.stacked = K /\ s.spilled = X /\ s.out = O /\ s.refused = F
  BY WholeIs
<1>2. r \in Reg /\ P[r] = v /\ v # None
  BY <1>1 DEF Holder, Sound
<1>3. \A q \in Reg : P[q] = v => q = r
  BY <1>1, <1>2 DEF Distinct
<1>4. PICK pool, t : pool = [q \in Reg |-> IF q = r THEN v ELSE IF P[q] = v THEN None ELSE P[q]] /\ t = ClaimRegister(s, v, r)
  OBVIOUS
<1>5. pool = P
  <2>1. pool = [q \in Reg |-> P[q]]
    BY <1>2, <1>3, <1>4
  <2> QED BY <1>1, <2>1
<1>6. t = [s EXCEPT !.pool = P]
  BY <1>1, <1>4, <1>5 DEF ClaimRegister
<1>7. t = s
  BY <1>1, <1>6 DEF Is
<1> QED BY <1>1, <1>2, <1>3, <1>4, <1>7 DEF Holder

(***************************************************************************)
(* A register is cleared: its owner is stored first if he is still needed. *)
(***************************************************************************)
Later(i) == {v \in Vreg : HasLaterUse(v, i)}

LEMMA OwnerStored ==
    ASSUME Sound, NEW s, Whole(s), NEW i, NEW r \in Reg
    PROVE  /\ Whole(StoreOwner(s, r, i)) /\ As(StoreOwner(s, r, i)) = SpillIfStale(As(s), s.pool[r], r, Later(i))
           /\ StoreOwner(s, r, i).pool = s.pool /\ s.stacked \subseteq StoreOwner(s, r, i).stacked
           /\ StoreOwner(s, r, i).refused = s.refused
           /\ s.pool[r] \in Later(i) \/ StoreOwner(s, r, i) = s
           /\ s.pool[r] \in Later(i) => s.pool[r] \in StoreOwner(s, r, i).stacked
<1>1. PICK v, t : v = s.pool[r] /\ t = StoreOwner(s, r, i)
  OBVIOUS
<1>2. v \in Vreg \cup {None} /\ None \notin Vreg
  BY <1>1 DEF Whole, Sound
<1>3. v \in Later(i) <=> v # None /\ HasLaterUse(v, i)
  BY <1>2 DEF Later
<1>4. CASE v \in Later(i) /\ v \notin s.stacked
  <2>1. t = Store(s, v, r)
    BY <1>1, <1>3, <1>4 DEF StoreOwner
  <2>2. SpillIfStale(As(s), v, r, Later(i)) = EmitSpill(As(s), v, r)
    BY <1>4, AsFields DEF SpillIfStale
  <2> QED BY <1>1, <1>4, <2>1, <2>2, StoreWhole
<1>5. CASE ~(v \in Later(i) /\ v \notin s.stacked)
  <2>1. t = s
    BY <1>1, <1>3, <1>5 DEF StoreOwner
  <2>2. SpillIfStale(As(s), v, r, Later(i)) = As(s)
    BY <1>5, AsFields DEF SpillIfStale
  <2> QED BY <1>1, <1>5, <2>1, <2>2
<1> QED BY <1>4, <1>5

Cleared(s, r, i) == Vacate(StoreOwner(s, r, i), r)

LEMMA ClearedSecured ==
    ASSUME Sound, NEW s, Whole(s), NEW c, NEW need, NEW pins, Secured(c, As(s), need, pins), None \notin need,
           NEW i, NEW r \in Reg, s.pool[r] \in need => s.pool[r] \in Later(i)
    PROVE  /\ Whole(Cleared(s, r, i)) /\ Secured(c, As(Cleared(s, r, i)), need, pins)
           /\ Cleared(s, r, i).pool[r] = None /\ \A q \in Reg : q # r => Cleared(s, r, i).pool[q] = s.pool[q]
           /\ Cleared(s, r, i).refused = s.refused /\ s.stacked \subseteq Cleared(s, r, i).stacked
<1>1. PICK t, a, b, live, d : t = StoreOwner(s, r, i) /\ a = As(s) /\ b = As(t) /\ live = Later(i) /\ d = Cleared(s, r, i)
  OBVIOUS
<1>2. a.pool = s.pool /\ live \in SUBSET Vreg /\ d = Vacate(t, r)
  BY <1>1, AsFields DEF Later, Cleared
<1>3. /\ Whole(t) /\ b = SpillIfStale(a, a.pool[r], r, live) /\ t.pool = s.pool /\ t.refused = s.refused
      /\ s.stacked \subseteq t.stacked
  BY <1>1, <1>2, OwnerStored
<1>4. Secured(c, b, need, pins) /\ (a.pool[r] \in live => a.pool[r] \in b.clean)
  BY <1>1, <1>2, <1>3, SavedIfStale
<1>5. /\ Whole(d) /\ As(d) = [b EXCEPT !.pool[r] = None]
      /\ d.pool[r] = None /\ (\A q \in Reg : q # r => d.pool[q] = t.pool[q]) /\ d.stacked = t.stacked
      /\ d.refused = t.refused
  <2>1. PICK x : x = Vacate(t, r)
    OBVIOUS
  <2>2. /\ Whole(x) /\ As(x) = [As(t) EXCEPT !.pool[r] = None]
        /\ x.pool[r] = None /\ (\A q \in Reg : q # r => x.pool[q] = t.pool[q]) /\ x.stacked = t.stacked
        /\ x.refused = t.refused
    BY <1>3, <2>1, VacateWhole
  <2>3. x = d /\ As(t) = b
    BY <1>1, <1>2, <2>1
  <2> QED BY <2>2, <2>3, Zenon
<1>6. b.pool = s.pool
  BY <1>1, <1>3, AsFields
<1>7. b.pool[r] \in need => b.pool[r] \in b.clean
  BY <1>1, <1>2, <1>4, <1>6
<1>8. Secured(c, As(d), need, pins)
  BY <1>4, <1>5, <1>7, GivenAway
<1> QED BY <1>1, <1>3, <1>5, <1>8

\* Where nobody is needed nothing is stored.
LEMMA ClearedIdle ==
    ASSUME Sound, NEW s, Whole(s), NEW i, NEW r \in Reg, s.pool[r] \notin Later(i)
    PROVE  Cleared(s, r, i).stacked = s.stacked /\ Cleared(s, r, i).spilled = s.spilled /\ Cleared(s, r, i).out = s.out
<1>1. StoreOwner(s, r, i) = s
  BY OwnerStored
<1> QED BY <1>1, VacateWhole DEF Cleared

(***************************************************************************)
(* choose_register finds one that is not protected, if there is one, and   *)
(* clears it.                                                              *)
(***************************************************************************)
LEMMA NextUseIs ==
    ASSUME Len(program) \in Nat, NEW s, NEW r, NEW i \in Nat
    PROVE  NextUse(s, r, i) \in Nat
<1>1. PICK later : later = LaterUses(s.pool[r], i)
  OBVIOUS
<1>2. later \in SUBSET Nat
  BY <1>1 DEF LaterUses
<1>3. later # {} => Min(later) \in Nat
  BY <1>2, LeastIs
<1> QED BY <1>1, <1>3 DEF NextUse

LEMMA RegisterChosen ==
    ASSUME Sound, Len(program) \in Nat, NEW s, NEW v, scan.at[v] \in Reg \cup {None}, NEW i \in Nat, NEW protected
    PROVE  /\ Reg \subseteq protected => ChooseRegister(s, v, i, protected).s = [s EXCEPT !.refused = TRUE]
           /\ ~(Reg \subseteq protected) =>
                 \E r \in Reg \ protected :
                     /\ ChooseRegister(s, v, i, protected) = [s |-> Cleared(s, r, i), reg |-> r]
                     /\ scan.at[v] \notin protected \cup {None} => r = scan.at[v]
<1>1. PICK open : open = {k \in DOMAIN Bank : Bank[k] \notin protected}
  OBVIOUS
<1>2. PICK idle : idle = {k \in open : s.pool[Bank[k]] = None \/ ~HasLaterUse(s.pool[Bank[k]], i)}
  OBVIOUS
<1> DEFINE Farthest(k) == \A j \in open : LET mine == NextUse(s, Bank[k], i)
                                              its == NextUse(s, Bank[j], i)
                                          IN its < mine \/ (its = mine /\ k <= j)
<1>3. PICK farthest : farthest = CHOOSE k \in open : Farthest(k)
  OBVIOUS
<1>4. PICK r : r = IF scan.at[v] \notin protected \cup {None} THEN scan.at[v]
                   ELSE IF idle # {} THEN Bank[Min(idle)] ELSE Bank[farthest]
  OBVIOUS
<1>5. ChooseRegister(s, v, i, protected) =
          IF open = {} THEN [s |-> [s EXCEPT !.refused = TRUE], reg |-> None] ELSE [s |-> Cleared(s, r, i), reg |-> r]
  BY <1>1, <1>2, <1>3, <1>4 DEF ChooseRegister, Cleared
<1>6. open = {} <=> Reg \subseteq protected
  BY <1>1 DEF Reg
<1>7. ASSUME open # {} PROVE r \in Reg \ protected
  <2>1. \A k \in open : Bank[k] \in Reg \ protected
    BY <1>1 DEF Reg
  <2>2. idle # {} => Min(idle) \in idle
    <3>1. idle \in SUBSET DOMAIN Bank
      BY <1>1, <1>2
    <3> QED BY <3>1, FirstPlace
  <2>3. farthest \in open
    <3>1. PICK N \in Nat \ {0} : N = Len(Bank) /\ DOMAIN Bank = 1 .. N
      BY DEF Sound
    <3>2. PICK E : E = [k \in 1 .. N |-> IF k \in open THEN NextUse(s, Bank[k], i) + 1 ELSE 0]
      OBVIOUS
    <3>3. \A k \in 1 .. N : NextUse(s, Bank[k], i) \in Nat
      BY NextUseIs
    <3>4. E \in [1 .. N -> Nat]
      BY <3>2, <3>3
    <3>5. PICK k \in 1 .. N : \A j \in 1 .. N : E[j] < E[k] \/ (E[j] = E[k] /\ k <= j)
      BY <3>4, FirstGreatest
    <3>6. open \subseteq 1 .. N
      BY <1>1, <3>1
    <3>7. k \in open
      <4>1. PICK j \in open : TRUE
        BY <1>7
      <4>2. E[j] = NextUse(s, Bank[j], i) + 1 /\ E[j] \in Nat /\ E[j] # 0 /\ E[k] \in Nat
        BY <3>2, <3>3, <3>4, <3>6
      <4>3. E[k] # 0
        BY <3>5, <3>6, <4>2
      <4> QED BY <3>2, <4>3
    <3>8. Farthest(k)
      <4> SUFFICES ASSUME NEW j \in open
                   PROVE  \/ NextUse(s, Bank[j], i) < NextUse(s, Bank[k], i)
                          \/ NextUse(s, Bank[j], i) = NextUse(s, Bank[k], i) /\ k <= j
        OBVIOUS
      <4>1. PICK m, n \in Nat : m = NextUse(s, Bank[k], i) /\ n = NextUse(s, Bank[j], i)
        BY <3>3, <3>6
      <4>2. E[k] = m + 1 /\ E[j] = n + 1
        BY <3>2, <3>6, <3>7, <4>1
      <4>3. m \in Nat /\ n \in Nat
        BY <3>3, <3>6, <4>1
      <4> QED BY <3>5, <3>6, <4>1, <4>2, <4>3
    <3> HIDE DEF Farthest
    <3> QED BY <1>3, <3>7, <3>8
  <2> QED BY <1>2, <1>4, <2>1, <2>2, <2>3
<1>8. scan.at[v] \notin protected \cup {None} => r = scan.at[v]
  BY <1>4
<1>9. ASSUME open = {} PROVE ChooseRegister(s, v, i, protected).s = [s EXCEPT !.refused = TRUE]
  BY <1>5, <1>9
<1> QED BY <1>5, <1>6, <1>7, <1>8, <1>9

\* Emitting does not change who is where.
LEMMA OutWhole ==
    ASSUME NEW s, Whole(s), NEW out
    PROVE  /\ Whole([s EXCEPT !.out = out]) /\ As([s EXCEPT !.out = out]) = [As(s) EXCEPT !.out = out]
           /\ [s EXCEPT !.out = out].pool = s.pool /\ [s EXCEPT !.out = out].stacked = s.stacked
           /\ [s EXCEPT !.out = out].spilled = s.spilled /\ [s EXCEPT !.out = out].refused = s.refused
           /\ [s EXCEPT !.out = out].out = out
<1>1. PICK P, K, X, O, F :
              /\ Is(s, P, K, X, O, F) /\ P = [r \in Reg |-> P[r]] /\ F \in BOOLEAN /\ Distinct(P)
              /\ \A r \in Reg : P[r] \in Vreg \cup {None}
              /\ s.pool = P /\ s.stacked = K /\ s.spilled = X /\ s.out = O /\ s.refused = F
  BY WholeIs
<1>2. PICK t : t = [s EXCEPT !.out = out]
  OBVIOUS
<1>3. Is(t, P, K, X, out, F)
  BY <1>1, <1>2 DEF Is
<1>4. Whole(t)
  BY <1>1, <1>3, IsWhole
<1>5. t.pool = P /\ t.stacked = K /\ t.spilled = X /\ t.out = out /\ t.refused = F
  BY <1>3, IsFields
<1>6. As(t) = [As(s) EXCEPT !.out = out]
  <2>1. As(t) = [pool |-> P, clean |-> K, slots |-> K, out |-> out, refused |-> F]
    BY <1>3, IsAs
  <2>2. As(s) = [pool |-> P, clean |-> K, slots |-> K, out |-> O, refused |-> F]
    BY <1>1, IsAs
  <2> QED BY <2>1, <2>2
<1> QED BY <1>1, <1>2, <1>4, <1>5, <1>6

(***************************************************************************)
(* A stored value is loaded into a register that is free.                  *)
(***************************************************************************)
Reloaded(u, v, r) == ClaimRegister([u EXCEPT !.out = Append(@, ReloadFrom(v, r))], v, r)

LEMMA ReloadedSecured ==
    ASSUME Sound, NEW u, Whole(u), NEW c, NEW need, NEW pins, Secured(c, As(u), need, pins),
           NEW r \in Reg, u.pool[r] = None, None \notin need, NEW v \in Vreg, v \in need, v \in u.stacked,
           \A q \in Reg : u.pool[q] # v, \A n \in 1 .. Len(pins) : pins[n] # r
    PROVE  /\ Whole(Reloaded(u, v, r)) /\ Secured(c, As(Reloaded(u, v, r)), need, pins)
           /\ Reloaded(u, v, r).pool[r] = v /\ \A q \in Reg : q # r => Reloaded(u, v, r).pool[q] = u.pool[q]
           /\ Reloaded(u, v, r).refused = u.refused /\ Reloaded(u, v, r).stacked = u.stacked
<1>1. PICK t, w, a, b, d, ins, out :
          /\ ins = ReloadFrom(v, r) /\ out = Append(u.out, ins) /\ t = [u EXCEPT !.out = out] /\ w = Reloaded(u, v, r)
          /\ a = As(u) /\ b = As(t) /\ d = As(w)
  OBVIOUS
<1>2. /\ Whole(t) /\ b = [a EXCEPT !.out = out] /\ t.pool = u.pool /\ t.stacked = u.stacked
      /\ t.refused = u.refused /\ t.out = out
  <2>1. /\ Whole([u EXCEPT !.out = out]) /\ As([u EXCEPT !.out = out]) = [As(u) EXCEPT !.out = out]
        /\ [u EXCEPT !.out = out].pool = u.pool /\ [u EXCEPT !.out = out].stacked = u.stacked
        /\ [u EXCEPT !.out = out].refused = u.refused /\ [u EXCEPT !.out = out].out = out
    BY OutWhole
  <2> QED BY <1>1, <2>1, Zenon
<1>3. w = ClaimRegister(t, v, r)
  BY <1>1 DEF Reloaded
<1>4. /\ Whole(w) /\ d = [b EXCEPT !.pool[r] = v] /\ w.pool[r] = v
      /\ (\A q \in Reg : q # r => w.pool[q] = t.pool[q])
      /\ w.stacked = t.stacked /\ w.refused = t.refused /\ w.out = t.out
  <2>1. PICK x : x = ClaimRegister(t, v, r)
    OBVIOUS
  <2>2. \A q \in Reg : t.pool[q] # v
    BY <1>2
  <2>3. /\ Whole(x) /\ As(x) = [As(t) EXCEPT !.pool[r] = v] /\ x.pool[r] = v
        /\ (\A q \in Reg : q # r => x.pool[q] = t.pool[q])
        /\ x.stacked = t.stacked /\ x.refused = t.refused /\ x.out = t.out
    BY <1>2, <2>1, <2>2, ClaimWhole
  <2>4. x = w
    BY <1>3, <2>1
  <2> QED BY <1>1, <2>3, <2>4, Zenon
<1>5. PICK p : p = [a EXCEPT !.pool[r] = v]
  OBVIOUS
<1>6. State(a) /\ a.pool = u.pool /\ a.clean = u.stacked /\ a.slots = u.stacked /\ a.out = u.out /\ a.refused = u.refused
  BY <1>1, AsFields DEF Whole
<1>7. Placed(a, r, v, p)
  BY <1>5, <1>6, PlaceFields
<1>8. SavedTo(p, v, ins, d)
  <2>1. State(d) /\ d.pool = w.pool /\ d.clean = w.stacked /\ d.slots = w.stacked /\ d.out = w.out /\ d.refused = w.refused
    <3>1. As(w).pool = w.pool /\ As(w).clean = w.stacked /\ As(w).slots = w.stacked /\ As(w).out = w.out /\ As(w).refused = w.refused
      BY AsFields
    <3>2. State(As(w))
      BY <1>4 DEF Whole
    <3> QED BY <1>1, <3>1, <3>2, Zenon
  <2>2. /\ State(p) /\ p.pool[r] = v /\ (\A q \in Reg : q # r => p.pool[q] = u.pool[q])
        /\ p.clean = u.stacked /\ p.slots = u.stacked /\ p.out = u.out /\ p.refused = u.refused
    BY <1>6, <1>7 DEF Placed
  <2>3. d.pool = p.pool
    <3>1. ASSUME NEW q \in Reg PROVE d.pool[q] = p.pool[q]
      <4>1. CASE q = r
        BY <1>4, <2>1, <2>2, <4>1, Zenon
      <4>2. CASE q # r
        <5>1. w.pool[q] = t.pool[q] /\ p.pool[q] = u.pool[q] /\ d.pool[q] = w.pool[q]
          BY <1>4, <2>1, <2>2, <4>2, Zenon
        <5>2. t.pool[q] = u.pool[q]
          BY <1>2, Zenon
        <5> QED BY <5>1, <5>2
      <4> QED BY <4>1, <4>2
    <3>2. d.pool = [q \in Reg |-> d.pool[q]] /\ p.pool = [q \in Reg |-> p.pool[q]]
      BY <2>1, <2>2 DEF State
    <3> QED BY <3>1, <3>2
  <2>4. u.stacked = u.stacked \cup {v}
    OBVIOUS
  <2> QED BY <1>1, <1>2, <1>4, <2>1, <2>2, <2>3, <2>4 DEF SavedTo
<1>9. ~Mapped(a, v) /\ v # None /\ (a.pool[r] \in need => a.pool[r] \in a.clean)
  BY <1>6 DEF Mapped, Sound
<1>10. Secured(c, d, need, pins)
  BY <1>1, <1>7, <1>8, <1>9, LoadSecured
<1> QED BY <1>1, <1>2, <1>4, <1>10

(***************************************************************************)
(* An item whose operands are being placed.                                *)
(***************************************************************************)
Placing(i) ==
    /\ Sound /\ WellFormed(program) /\ Selected(program) /\ i \in DOMAIN program
    /\ Flows(program, live_after, Value) /\ \A v \in Vreg : scan.at[v] \in Reg \cup {None}

Surely(c, s, need, pins) == Whole(s) /\ Secured(c, As(s), need, pins)

PlacedUses(c, need, s0, n, sofar) ==
    LET s == sofar.s
    IN /\ sofar = [s |-> s, protected |-> sofar.protected, regs |-> sofar.regs] /\ s.refused \in BOOLEAN
       /\ s.refused => Crowded(Sources(c.item))
       /\ ~s.refused =>
             /\ Surely(c, s, need, sofar.regs) /\ Len(sofar.regs) = n
             /\ \A r \in Reg : s.pool[r] \in Sources(c.item) => r \in sofar.protected
             /\ \A r \in sofar.protected : r \in Reg /\ s.pool[r] \in Sources(c.item)
             /\ \A k \in 1 .. n : sofar.regs[k] \in sofar.protected
             /\ s0.stacked = {} => s = s0

\* The next one has a register already, or is loaded into one, or there is none.
UseDone(s, v, i, protected, regs_, done) ==
    \/ \E r \in Reg : /\ s.pool[r] = v
                      /\ done = [s |-> s, protected |-> protected \cup {r}, regs |-> Append(regs_, r)]
    \/ /\ v \in s.stacked /\ (\A q \in Reg : s.pool[q] # v) /\ Reg \subseteq protected
       /\ \E t : t.refused = TRUE /\ done = [s |-> t, protected |-> protected, regs |-> regs_]
    \/ /\ v \in s.stacked /\ \A q \in Reg : s.pool[q] # v
       /\ \E r \in Reg \ protected :
              done = [s |-> Reloaded(Cleared(s, r, i), v, r), protected |-> protected \cup {r}, regs |-> Append(regs_, r)]

LEMMA UsePlaced ==
    ASSUME NEW i, Placing(i), NEW s, Whole(s), ~s.refused, NEW v \in Vreg, NEW protected,
           NEW need, v \in need, NEW c, NEW pins, Secured(c, As(s), need, pins), NEW regs_
    PROVE  UseDone(s, v, i, protected, regs_, PlaceUse([s |-> s, protected |-> protected, regs |-> regs_], v, i))
<1>0. PICK sofar : sofar = [s |-> s, protected |-> protected, regs |-> regs_]
  OBVIOUS
<1>1. Sound /\ Len(program) \in Nat /\ i \in Nat /\ scan.at[v] \in Reg \cup {None} /\ None \notin Vreg
  BY DEF Placing, WellFormed, Sound
<1>2. PICK holder, chosen : holder = Holder(s, v) /\ chosen = ChooseRegister(s, v, i, protected)
  OBVIOUS
<1>3. PICK r : r = IF holder # {} THEN CHOOSE q \in holder : TRUE ELSE chosen.reg
  OBVIOUS
<1>4. PICK out : out = Append(chosen.s.out, ReloadFrom(v, r))
  OBVIOUS
<1>5. PICK t : t = IF holder # {} THEN s
                   ELSE IF v \in s.stacked THEN [chosen.s EXCEPT !.out = out]
                   ELSE IF v \notin Defined(program) THEN chosen.s
                   ELSE [s EXCEPT !.refused = TRUE]
  OBVIOUS
<1>6. sofar.s = s /\ sofar.protected = protected /\ sofar.regs = regs_
  BY <1>0
<1>7. PlaceUse(sofar, v, i) =
          IF t.refused THEN [sofar EXCEPT !.s = t]
          ELSE [s |-> ClaimRegister(t, v, r), protected |-> protected \cup {r}, regs |-> Append(regs_, r)]
  <2>1. t = IF holder # {} THEN s
            ELSE IF v \in s.stacked THEN [chosen.s EXCEPT !.out = Append(@, ReloadFrom(v, r))]
            ELSE IF v \notin Defined(program) THEN chosen.s
            ELSE [s EXCEPT !.refused = TRUE]
    BY <1>4, <1>5
  <2> QED BY <1>2, <1>3, <1>6, <2>1 DEF PlaceUse
<1>8. ASSUME holder # {}
      PROVE  \E q \in Reg : /\ s.pool[q] = v
                            /\ PlaceUse(sofar, v, i) = [s |-> s, protected |-> protected \cup {q}, regs |-> Append(regs_, q)]
  <2>1. r \in Holder(s, v) /\ t = s
    BY <1>2, <1>3, <1>5, <1>8
  <2>2. ClaimRegister(s, v, r) = s /\ r \in Reg /\ s.pool[r] = v
    BY <1>1, <2>1, ClaimedAgain
  <2> QED BY <1>7, <2>1, <2>2
<1>9. ASSUME holder = {}
      PROVE  v \in s.stacked /\ \A q \in Reg : s.pool[q] # v
  <2>1. \A q \in Reg : s.pool[q] # v
    BY <1>2, <1>9 DEF Holder
  <2>2. As(s).pool = s.pool /\ As(s).slots = s.stacked
    BY AsFields
  <2>3. Mapped(As(s), v) \/ v \in As(s).slots
    BY DEF Secured, Ready
  <2> QED BY <2>1, <2>2, <2>3 DEF Mapped
<1>10. ASSUME holder = {}, Reg \subseteq protected
       PROVE  \E x : x.refused = TRUE /\ PlaceUse(sofar, v, i) = [s |-> x, protected |-> protected, regs |-> regs_]
  <2>1. chosen.s = [s EXCEPT !.refused = TRUE]
    BY <1>1, <1>2, <1>10, RegisterChosen
  <2>2. t = [chosen.s EXCEPT !.out = out]
    BY <1>5, <1>9, <1>10
  <2>3. t.refused = TRUE
    <3>1. PICK P, K, X, O, F : Is(s, P, K, X, O, F)
      BY WholeIs
    <3>2. chosen.s = [pool |-> P, stacked |-> K, spilled |-> X, out |-> O, refused |-> TRUE]
      BY <2>1, <3>1 DEF Is
    <3> QED BY <2>2, <3>2
  <2>4. PlaceUse(sofar, v, i) = [sofar EXCEPT !.s = t]
    BY <1>7, <2>3
  <2>5. [sofar EXCEPT !.s = t] = [s |-> t, protected |-> protected, regs |-> regs_]
    BY <1>0
  <2> QED BY <2>3, <2>4, <2>5
<1>11. ASSUME holder = {}, ~(Reg \subseteq protected)
       PROVE  \E q \in Reg \ protected :
                    PlaceUse(sofar, v, i) = [s |-> Reloaded(Cleared(s, q, i), v, q), protected |-> protected \cup {q},
                                             regs |-> Append(regs_, q)]
  <2>1. PICK q \in Reg \ protected : chosen = [s |-> Cleared(s, q, i), reg |-> q]
    <3>1. /\ Reg \subseteq protected => ChooseRegister(s, v, i, protected).s = [s EXCEPT !.refused = TRUE]
          /\ ~(Reg \subseteq protected) =>
                 \E q \in Reg \ protected :
                     /\ ChooseRegister(s, v, i, protected) = [s |-> Cleared(s, q, i), reg |-> q]
                     /\ scan.at[v] \notin protected \cup {None} => q = scan.at[v]
      BY <1>1, RegisterChosen
    <3>2. \E q \in Reg \ protected : ChooseRegister(s, v, i, protected) = [s |-> Cleared(s, q, i), reg |-> q]
      BY <1>11, <3>1, Zenon
    <3> QED BY <1>2, <3>2
  <2>2. r = q /\ chosen.s = Cleared(s, q, i)
    BY <1>3, <1>11, <2>1
  <2>3. t = [Cleared(s, q, i) EXCEPT !.out = Append(@, ReloadFrom(v, q))]
    BY <1>4, <1>5, <1>9, <1>11, <2>2
  <2>4. Cleared(s, q, i).refused = s.refused /\ Whole(Cleared(s, q, i))
    <3>1. Whole(StoreOwner(s, q, i)) /\ StoreOwner(s, q, i).refused = s.refused
      BY <1>1, OwnerStored
    <3> QED BY <1>1, <3>1, VacateWhole DEF Cleared
  <2>5. t.refused = s.refused
    <3>1. PICK u, o : u = Cleared(s, q, i) /\ o = Append(u.out, ReloadFrom(v, q))
      OBVIOUS
    <3>2. [u EXCEPT !.out = o].refused = u.refused
      BY <2>4, <3>1, OutWhole
    <3> QED BY <2>3, <2>4, <3>1, <3>2
  <2>6. ClaimRegister(t, v, r) = Reloaded(Cleared(s, q, i), v, q)
    BY <2>2, <2>3 DEF Reloaded
  <2> QED BY <1>7, <2>2, <2>5, <2>6
<1>12. UseDone(s, v, i, protected, regs_, PlaceUse(sofar, v, i))
  BY <1>8, <1>9, <1>10, <1>11 DEF UseDone
<1> QED BY <1>0, <1>12

LEMMA CountsUp ==
    ASSUME NEW N \in Nat, NEW Good, 0 \in Good, \A n \in 1 .. N : n - 1 \in Good => n \in Good
    PROVE  N \in Good
<1> DEFINE Bad == {n \in 0 .. N : n \notin Good}
<1> SUFFICES ASSUME Bad # {} PROVE FALSE
  OBVIOUS
<1>1. PICK n \in Bad : \A m \in Bad : n <= m
  <2>1. Bad \in SUBSET Nat
    OBVIOUS
  <2> HIDE DEF Bad
  <2> QED BY <2>1, LeastNatural
<1>2. n \in 1 .. N /\ n - 1 \in 0 .. N /\ ~(n <= n - 1)
  <2>1. n # 0
    BY <1>1
  <2> QED BY <1>1, <2>1
<1> QED BY <1>1, <1>2

LEMMA OneUsePlaced ==
    ASSUME NEW i, Placing(i), NEW c, c.item = i, NEW need, Needs(i, need), NEW s0,
           NEW n \in Nat, n + 1 \in DOMAIN program[i].uses, NEW sofar, PlacedUses(c, need, s0, n, sofar)
    PROVE  PlacedUses(c, need, s0, n + 1, PlaceUse(sofar, program[i].uses[n + 1], i))
<1>1. PICK v, s, protected, pins, done :
          /\ v = program[i].uses[n + 1] /\ s = sofar.s /\ protected = sofar.protected /\ pins = sofar.regs
          /\ done = PlaceUse(sofar, v, i)
  OBVIOUS
<1>2. sofar = [s |-> s, protected |-> protected, regs |-> pins] /\ s.refused \in BOOLEAN
  BY <1>1 DEF PlacedUses
<1>3. CASE s.refused
  <2>1. done = sofar
    BY <1>1, <1>3 DEF PlaceUse
  <2>2. PlacedUses(c, need, s0, n + 1, sofar)
    BY <1>1, <1>3 DEF PlacedUses
  <2> QED BY <1>1, <2>1, <2>2
<1>4. CASE ~s.refused
  <2>1. /\ Whole(s) /\ Secured(c, As(s), need, pins) /\ Len(pins) = n
        /\ \A r \in Reg : s.pool[r] \in Sources(i) => r \in protected
        /\ \A r \in protected : r \in Reg /\ s.pool[r] \in Sources(i)
        /\ \A k \in 1 .. n : pins[k] \in protected
        /\ s0.stacked = {} => s = s0
    BY <1>1, <1>4 DEF PlacedUses, Surely
  <2>2. v \in Sources(i) /\ v \in need /\ v \in Vreg /\ need \in SUBSET Vreg
    BY <1>1 DEF Sources, UsesOf, Needs
  <2>3. Sound /\ WellFormed(program) /\ i \in DOMAIN program /\ None \notin Vreg
    BY DEF Placing, Sound
  <2>4. ASSUME NEW t, t.refused = TRUE, done = [s |-> t, protected |-> protected, regs |-> pins], Crowded(Sources(i))
        PROVE  PlacedUses(c, need, s0, n + 1, done)
    <3>1. done.s = t /\ done.protected = protected /\ done.regs = pins
      BY <2>4
    <3> QED BY <2>4, <3>1 DEF PlacedUses
  <2> DEFINE Grown(t, r) ==
                 /\ Whole(t) /\ ~t.refused /\ Secured(c, As(t), need, pins) /\ t.pool[r] = v
                 /\ \A q \in Reg : q # r => t.pool[q] = s.pool[q]
                 /\ s0.stacked = {} => t = s0
                 /\ done = [s |-> t, protected |-> protected \cup {r}, regs |-> Append(pins, r)]
  <2>5. ASSUME NEW t, NEW r \in Reg, Grown(t, r)
        PROVE  PlacedUses(c, need, s0, n + 1, done)
    <3>1. PICK more, both : more = Append(pins, r) /\ both = protected \cup {r}
      OBVIOUS
    <3>2. done = [s |-> t, protected |-> both, regs |-> more]
      BY <2>5, <3>1
    <3>3. done.s = t /\ done.protected = both /\ done.regs = more
      BY <3>2
    <3>4. Secured(c, As(t), need, more)
      <4>1. As(t).pool[r] = v
        BY <2>5, AsFields
      <4> QED BY <1>1, <2>1, <2>2, <2>5, <3>1, <4>1, OneMorePinned
    <3>5. Len(more) = n + 1 /\ more[n + 1] = r /\ \A k \in 1 .. n : more[k] = pins[k]
      BY <2>1, <3>1
    <3>6. \A k \in 1 .. n + 1 : k = n + 1 \/ k \in 1 .. n
      OBVIOUS
    <3>7. \A k \in 1 .. n + 1 : more[k] \in both
      BY <2>1, <3>1, <3>5, <3>6
    <3>8. \A q \in Reg : t.pool[q] \in Sources(i) => q \in both
      BY <2>1, <2>5, <3>1
    <3>9. ASSUME NEW q \in both PROVE q \in Reg /\ t.pool[q] \in Sources(i)
      <4>1. CASE q = r
        BY <2>2, <2>5, <4>1
      <4>2. CASE q # r
        BY <2>1, <2>5, <3>1, <4>2
      <4> QED BY <4>1, <4>2
    <3>10. t.refused \in BOOLEAN
      BY <2>5 DEF Whole, State, As
    <3> QED BY <2>5, <3>2, <3>3, <3>4, <3>5, <3>7, <3>8, <3>9, <3>10 DEF PlacedUses, Surely
  <2>6. UseDone(s, v, i, protected, pins, done)
    <3>1. UseDone(s, v, i, protected, pins, PlaceUse([s |-> s, protected |-> protected, regs |-> pins], v, i))
      BY <1>4, <2>1, <2>2, UsePlaced
    <3> QED BY <1>1, <1>2, <3>1
  <2>7. CASE \E r \in Reg : s.pool[r] = v /\ done = [s |-> s, protected |-> protected \cup {r}, regs |-> Append(pins, r)]
    <3>1. PICK r \in Reg : s.pool[r] = v /\ done = [s |-> s, protected |-> protected \cup {r}, regs |-> Append(pins, r)]
      BY <2>7
    <3>2. Grown(s, r)
      BY <1>4, <2>1, <3>1
    <3> HIDE DEF Grown
    <3> QED BY <1>1, <2>5, <3>2
  <2>8. CASE /\ v \in s.stacked /\ (\A q \in Reg : s.pool[q] # v) /\ Reg \subseteq protected
             /\ \E t : t.refused = TRUE /\ done = [s |-> t, protected |-> protected, regs |-> pins]
    <3>1. Crowded(Sources(i))
      <4>1. IsFiniteSet(Sources(i)) /\ None \notin Sources(i)
        BY <2>3, SourcesFinite
      <4>2. Distinct(s.pool)
        BY <2>1 DEF Whole, State, As
      <4> QED BY <2>1, <2>2, <2>3, <2>8, <4>1, <4>2, Crowding
    <3>2. PICK t : t.refused = TRUE /\ done = [s |-> t, protected |-> protected, regs |-> pins]
      BY <2>8
    <3> QED BY <1>1, <2>4, <3>1, <3>2
  <2>9. CASE /\ v \in s.stacked /\ \A q \in Reg : s.pool[q] # v
             /\ \E r \in Reg \ protected :
                 done = [s |-> Reloaded(Cleared(s, r, i), v, r), protected |-> protected \cup {r}, regs |-> Append(pins, r)]
    <3>1. PICK r \in Reg \ protected :
              done = [s |-> Reloaded(Cleared(s, r, i), v, r), protected |-> protected \cup {r}, regs |-> Append(pins, r)]
      BY <2>9
    <3>2. PICK u, t : u = Cleared(s, r, i) /\ t = Reloaded(u, v, r)
      OBVIOUS
    <3>3. s.pool[r] \in need => s.pool[r] \in Later(i)
      <4> SUFFICES ASSUME s.pool[r] \in need PROVE s.pool[r] \in Later(i)
        OBVIOUS
      <4>1. s.pool[r] \in live_after[i] /\ s.pool[r] \in Vreg
        BY <2>1, <2>2, <3>1 DEF Needs
      <4>2. HasLaterUse(s.pool[r], i)
        BY <4>1, LivesOn DEF Placing
      <4> QED BY <4>1, <4>2 DEF Later
    <3>4. /\ Whole(u) /\ Secured(c, As(u), need, pins) /\ u.pool[r] = None
          /\ (\A q \in Reg : q # r => u.pool[q] = s.pool[q]) /\ u.refused = s.refused /\ s.stacked \subseteq u.stacked
      <4>1. None \notin need
        BY <2>2, <2>3
      <4> QED BY <2>1, <2>3, <3>2, <3>3, <4>1, ClearedSecured
    <3>5. /\ Whole(t) /\ Secured(c, As(t), need, pins) /\ t.pool[r] = v
          /\ (\A q \in Reg : q # r => t.pool[q] = u.pool[q]) /\ t.refused = u.refused
      <4>1. \A q \in Reg : u.pool[q] # v
        BY <2>2, <2>3, <2>9, <3>4
      <4>2. \A k \in 1 .. Len(pins) : pins[k] # r
        BY <2>1, <3>1
      <4>3. None \notin need /\ v \in u.stacked
        BY <2>2, <2>3, <2>9, <3>4
      <4> QED BY <2>2, <2>3, <3>2, <3>4, <4>1, <4>2, <4>3, ReloadedSecured
    <3>6. s0.stacked # {}
      BY <2>1, <2>9
    <3>7. \A q \in Reg : q # r => t.pool[q] = s.pool[q]
      BY <3>4, <3>5
    <3>8. s.pool[r] \notin Sources(i) /\ r \notin protected
      BY <2>1, <3>1
    <3>9. done = [s |-> t, protected |-> protected \cup {r}, regs |-> Append(pins, r)] /\ ~t.refused
      BY <1>4, <3>1, <3>2, <3>4, <3>5
    <3>10. Grown(t, r)
      BY <3>5, <3>6, <3>7, <3>9
    <3> HIDE DEF Grown
    <3> QED BY <1>1, <2>5, <3>10
  <2> QED BY <2>6, <2>7, <2>8, <2>9 DEF UseDone
<1> QED BY <1>2, <1>3, <1>4

LEMMA PlacesUnfolded ==
    ASSUME NEW s, NEW i, Len(program[i].uses) \in Nat
    PROVE  \E f : /\ Rounds([over |-> "place", item |-> i],
                            [s |-> s, protected |-> UNION {Holder(s, v) : v \in UsesOf(program, i)}, regs |-> <<>>],
                            Len(program[i].uses), f)
                  /\ PlaceUses(s, i) = f[Len(program[i].uses)]
<1> DEFINE N == Len(program[i].uses)
           loop == [over |-> "place", item |-> i]
           start == [s |-> s, protected |-> UNION {Holder(s, v) : v \in UsesOf(program, i)}, regs |-> <<>>]
           Described(f) == f = [n \in 0 .. N |-> IF n = 0 THEN start ELSE PlaceUse(f[n - 1], program[i].uses[n], i)]
           after == CHOOSE f : Described(f)
<1>1. \A x, n : LoopPass(loop, x, n) = PlaceUse(x, program[i].uses[n], i)
  BY DEF LoopPass, LinearPass
<1>2. \A f : Unfolded(loop, start, N, f) <=> Described(f)
  <2> HIDE DEF loop, start
  <2> QED BY <1>1 DEF Unfolded
<1>3. Described(after)
  <2> HIDE DEF Described, loop, N, start
  <2>1. \E f : Described(f)
    <3>1. N \in Nat
      BY DEF N
    <3> QED BY <3>1, <1>2, LoopsUnfold
  <2> QED BY <2>1
<1>4. PlaceUses(s, i) = after[N]
  BY DEF PlaceUses
<1>5. Rounds(loop, start, N, after)
  <2>1. N \in Nat
    OBVIOUS
  <2> HIDE DEF Described, loop, N, after, start
  <2> QED BY <2>1, <1>2, <1>3, UnfoldedRounds
<1> HIDE DEF after
<1> QED BY <1>4, <1>5

LEMMA UsesPlaced ==
    ASSUME NEW i, Placing(i), NEW c, c.item = i, NEW need, Needs(i, need), NEW s, ~s.refused, Surely(c, s, need, <<>>)
    PROVE  PlacedUses(c, need, s, Len(program[i].uses), PlaceUses(s, i))
<1>0. PICK N, uses : N = Len(program[i].uses) /\ uses = program[i].uses
  OBVIOUS
<1> DEFINE loop == [over |-> "place", item |-> i]
           start == [s |-> s, protected |-> UNION {Holder(s, v) : v \in UsesOf(program, i)}, regs |-> <<>>]
<1>1. N \in Nat /\ DOMAIN uses = 1 .. N
  BY <1>0 DEF Placing, WellFormed
<1>2. PICK f : Rounds(loop, start, N, f) /\ PlaceUses(s, i) = f[N]
  BY <1>0, <1>1, PlacesUnfolded
<1>3. \A x, n : LoopPass(loop, x, n) = PlaceUse(x, uses[n], i)
  BY <1>0 DEF LoopPass, LinearPass
<1>4. PlacedUses(c, need, s, 0, start)
  <2>1. Len(<<>>) = 0 /\ 1 .. 0 = {}
    OBVIOUS
  <2>2. PICK given : given = UNION {Holder(s, v) : v \in UsesOf(program, i)}
    OBVIOUS
  <2>3. \A r : r \in given <=> r \in Reg /\ s.pool[r] \in Sources(i)
    BY <2>2 DEF Holder, Sources
  <2>4. start = [s |-> s, protected |-> given, regs |-> <<>>]
    BY <2>2
  <2>5. start.s = s /\ start.protected = given /\ start.regs = <<>>
    BY <2>4
  <2>6. s.refused \in BOOLEAN
    BY DEF Surely, Whole, State, As
  <2> HIDE DEF start
  <2> QED BY <2>1, <2>3, <2>4, <2>5, <2>6 DEF PlacedUses
<1> HIDE DEF loop, start
<1> DEFINE Good == {n \in 0 .. N : PlacedUses(c, need, s, n, f[n])}
<1>5. 0 \in Good
  BY <1>1, <1>2, <1>4 DEF Rounds
<1>6. ASSUME NEW n \in 1 .. N, n - 1 \in Good PROVE n \in Good
  <2>1. PICK m : m = n - 1
    OBVIOUS
  <2>2. m \in Nat /\ m + 1 = n /\ n \in 0 .. N
    BY <1>1, <2>1
  <2>3. PlacedUses(c, need, s, m, f[m])
    BY <1>6, <2>1
  <2>4. f[n] = PlaceUse(f[m], uses[n], i)
    BY <1>2, <1>3, <2>1 DEF Rounds
  <2>5. PlacedUses(c, need, s, m + 1, PlaceUse(f[m], program[i].uses[m + 1], i))
    BY <1>0, <1>1, <2>2, <2>3, OneUsePlaced
  <2>6. PlacedUses(c, need, s, n, f[n])
    BY <1>0, <2>2, <2>4, <2>5
  <2> QED BY <2>2, <2>6
<1>7. N \in Good
  <2> HIDE DEF Good
  <2> QED BY <1>1, <1>5, <1>6, CountsUp
<1> QED BY <1>0, <1>2, <1>7

(***************************************************************************)
(* The destination.                                                        *)
(***************************************************************************)
Taken(s, v, r, i) == ClaimRegister(Cleared(s, r, i), v, r)

LEMMA DefDone ==
    ASSUME NEW i, Placing(i), NEW s, ~s.refused
    PROVE  \/ PlaceDef(s, i) = s /\ \A v \in program[i].def : \E r \in Reg : s.pool[r] = v
           \/ \E v \in program[i].def : \E r \in Reg :
                 /\ \A q \in Reg : s.pool[q] # v
                 /\ PlaceDef(s, i) = Taken(s, v, r, i)
                 /\ scan.at[v] # None => r = scan.at[v]
<1>1. Sound /\ Len(program) \in Nat /\ i \in Nat
  BY DEF Placing, WellFormed
<1>2. PICK def : def = program[i].def
  OBVIOUS
<1>3. /\ def \subseteq Vreg /\ (\A v, w \in def : v = w) /\ \A v \in def : scan.at[v] \in Reg \cup {None}
  BY <1>2 DEF Placing, WellFormed, Selected
<1>4. CASE def = {}
  BY <1>2, <1>4 DEF PlaceDef
<1>5. CASE def # {}
  <2>1. PICK v, chosen : v = (CHOOSE w \in def : TRUE) /\ chosen = ChooseRegister(s, v, i, {})
    OBVIOUS
  <2>2. v \in def /\ \A w \in def : w = v
    BY <1>3, <1>5, <2>1
  <2>3. PlaceDef(s, i) = IF Holder(s, v) # {} THEN s ELSE ClaimRegister(chosen.s, v, chosen.reg)
    BY <1>2, <1>5, <2>1 DEF PlaceDef
  <2>4. CASE Holder(s, v) # {}
    <3>1. \E r \in Reg : s.pool[r] = v
      BY <2>4 DEF Holder
    <3> QED BY <1>2, <2>2, <2>3, <2>4, <3>1
  <2>5. CASE Holder(s, v) = {}
    <3>1. \A q \in Reg : s.pool[q] # v
      BY <2>5 DEF Holder
    <3>2. ~(Reg \subseteq {})
      <4>1. 1 \in DOMAIN Bank
        BY <1>1 DEF Sound
      <4> QED BY <4>1 DEF Reg
    <3>3. \E r \in Reg \ {} :
              /\ ChooseRegister(s, v, i, {}) = [s |-> Cleared(s, r, i), reg |-> r]
              /\ scan.at[v] \notin {} \cup {None} => r = scan.at[v]
      <4>1. Sound /\ Len(program) \in Nat /\ i \in Nat /\ scan.at[v] \in Reg \cup {None}
        BY <1>1, <1>3, <2>2
      <4>2. PICK protected : protected = {}
        OBVIOUS
      <4>3. /\ Reg \subseteq protected => ChooseRegister(s, v, i, protected).s = [s EXCEPT !.refused = TRUE]
            /\ ~(Reg \subseteq protected) =>
                   \E r \in Reg \ protected :
                       /\ ChooseRegister(s, v, i, protected) = [s |-> Cleared(s, r, i), reg |-> r]
                       /\ scan.at[v] \notin protected \cup {None} => r = scan.at[v]
        BY <4>1, RegisterChosen
      <4>4. \E r \in Reg \ protected :
              /\ ChooseRegister(s, v, i, protected) = [s |-> Cleared(s, r, i), reg |-> r]
              /\ scan.at[v] \notin protected \cup {None} => r = scan.at[v]
        BY <3>2, <4>2, <4>3, Zenon
      <4> QED BY <4>2, <4>4
    <3>4. PICK r \in Reg : /\ chosen = [s |-> Cleared(s, r, i), reg |-> r]
                           /\ scan.at[v] # None => r = scan.at[v]
      BY <2>1, <3>3
    <3>5. PlaceDef(s, i) = Taken(s, v, r, i)
      BY <2>3, <2>5, <3>4 DEF Taken
    <3> QED BY <1>2, <2>2, <3>1, <3>4, <3>5
  <2> QED BY <2>4, <2>5
<1> QED BY <1>4, <1>5

TakenFor(c, s, pins, v, r, i, t) ==
    /\ Surely(c, t, live_after[i] \ program[i].def, pins) /\ ~t.refused
    /\ t.pool[r] = v /\ \A q \in Reg : q # r => t.pool[q] = s.pool[q]
    /\ t.stacked = Cleared(s, r, i).stacked /\ t.spilled = Cleared(s, r, i).spilled

LEMMA TakenSecured ==
    ASSUME NEW i, Placing(i), NEW c, NEW s, NEW pins, ~s.refused,
           Surely(c, s, live_after[i] \ program[i].def, pins), live_after[i] \subseteq Vreg,
           NEW v \in program[i].def, NEW r \in Reg, \A q \in Reg : s.pool[q] # v
    PROVE  TakenFor(c, s, pins, v, r, i, Taken(s, v, r, i))
<1>1. PICK need, u, t, a : need = live_after[i] \ program[i].def /\ u = Cleared(s, r, i) /\ t = ClaimRegister(u, v, r) /\ a = As(u)
  OBVIOUS
<1>2. Sound /\ v \in Vreg /\ None \notin Vreg /\ need \subseteq Vreg /\ v \notin need
  BY <1>1 DEF Placing, Selected, Sound
<1>3. Whole(s) /\ Secured(c, As(s), need, pins)
  BY <1>1 DEF Surely
<1>4. s.pool[r] \in need => s.pool[r] \in Later(i)
  <2> SUFFICES ASSUME s.pool[r] \in need PROVE s.pool[r] \in Later(i)
    OBVIOUS
  <2>1. s.pool[r] \in live_after[i] /\ s.pool[r] \in Vreg
    BY <1>1
  <2>2. HasLaterUse(s.pool[r], i)
    BY <2>1, LivesOn DEF Placing
  <2> QED BY <2>1, <2>2 DEF Later
<1>5. /\ Whole(u) /\ Secured(c, a, need, pins) /\ u.pool[r] = None
      /\ (\A q \in Reg : q # r => u.pool[q] = s.pool[q]) /\ u.refused = s.refused
  <2>1. None \notin need
    BY <1>2
  <2> QED BY <1>1, <1>2, <1>3, <1>4, <2>1, ClearedSecured
<1>6. \A q \in Reg : u.pool[q] # v
  BY <1>2, <1>5
<1>7. /\ Whole(t) /\ As(t) = [a EXCEPT !.pool[r] = v] /\ t.pool[r] = v
      /\ (\A q \in Reg : q # r => t.pool[q] = u.pool[q]) /\ t.refused = u.refused
      /\ t.stacked = u.stacked /\ t.spilled = u.spilled
  <2>1. PICK x : x = ClaimRegister(u, v, r)
    OBVIOUS
  <2>2. /\ Whole(x) /\ As(x) = [As(u) EXCEPT !.pool[r] = v] /\ x.pool[r] = v
        /\ (\A q \in Reg : q # r => x.pool[q] = u.pool[q]) /\ x.refused = u.refused
        /\ x.stacked = u.stacked /\ x.spilled = u.spilled
    BY <1>2, <1>5, <1>6, <2>1, ClaimWhole
  <2> QED BY <1>1, <2>1, <2>2, Zenon
<1>8. a.pool = u.pool
  BY <1>1, AsFields
<1>9. Secured(c, As(t), need, pins)
  <2>1. PICK b : b = [a EXCEPT !.pool[r] = v]
    OBVIOUS
  <2>2. a.pool[r] \in need => a.pool[r] \in a.clean
    BY <1>2, <1>5, <1>8
  <2>3. \A q \in Reg : a.pool[q] = v => v = None
    BY <1>6, <1>8
  <2>4. Secured(c, b, need, pins)
    BY <1>2, <1>5, <2>1, <2>2, <2>3, GivenAway
  <2> QED BY <1>7, <2>1, <2>4
<1>10. \A q \in Reg : q # r => t.pool[q] = s.pool[q]
  BY <1>5, <1>7
<1>11. t = Taken(s, v, r, i)
  BY <1>1 DEF Taken
<1> QED BY <1>1, <1>5, <1>7, <1>9, <1>10, <1>11 DEF Surely, TakenFor

Destined(c, i, pins, t) ==
    /\ Surely(c, t, live_after[i] \ program[i].def, pins) /\ ~t.refused
    /\ \A v \in program[i].def : \E r \in Reg : t.pool[r] = v

LEMMA DefPlaced ==
    ASSUME NEW i, Placing(i), NEW c, NEW s, NEW pins, ~s.refused,
           Surely(c, s, live_after[i] \ program[i].def, pins), live_after[i] \subseteq Vreg
    PROVE  Destined(c, i, pins, PlaceDef(s, i))
<1>1. CASE PlaceDef(s, i) = s /\ \A v \in program[i].def : \E r \in Reg : s.pool[r] = v
  BY <1>1 DEF Destined
<1>2. CASE \E v \in program[i].def : \E r \in Reg :
                 /\ \A q \in Reg : s.pool[q] # v
                 /\ PlaceDef(s, i) = Taken(s, v, r, i)
                 /\ scan.at[v] # None => r = scan.at[v]
  <2>1. PICK v \in program[i].def, r \in Reg : (\A q \in Reg : s.pool[q] # v) /\ PlaceDef(s, i) = Taken(s, v, r, i)
    BY <1>2
  <2>2. PICK t : t = Taken(s, v, r, i)
    OBVIOUS
  <2>3. Surely(c, t, live_after[i] \ program[i].def, pins) /\ ~t.refused /\ t.pool[r] = v
    <3>1. TakenFor(c, s, pins, v, r, i, Taken(s, v, r, i))
      BY <2>1, TakenSecured
    <3> QED BY <2>2, <3>1 DEF TakenFor
  <2>4. \A w \in program[i].def : w = v
    BY DEF Placing, WellFormed
  <2>5. Destined(c, i, pins, t)
    BY <2>3, <2>4 DEF Destined
  <2> QED BY <2>1, <2>2, <2>5
<1> QED BY <1>1, <1>2, DefDone

(***************************************************************************)
(* Where nobody has to leave his register everybody is at home, and whose  *)
(* home a destination is given does not need it any more.                  *)
(***************************************************************************)
Settled ==
    /\ scan.spilled = {} /\ Covered(program, live_after)
    /\ \A v, w \in Named(program) :
          LET x == Hull(program, live_after, v)
              y == Hull(program, live_after, w)
          IN /\ scan.at[v] \in Reg
             /\ v # w /\ scan.at[v] = scan.at[w] => x.end <= y.start \/ y.end <= x.start

AtHome(s, i) ==
    /\ s.stacked = {} /\ s.spilled = {}
    /\ \A r \in Reg : s.pool[r] # None =>
          /\ s.pool[r] \in Named(program) /\ scan.at[s.pool[r]] = r
          /\ Hull(program, live_after, s.pool[r]).start <= i

LEMMA DefAtHome ==
    ASSUME NEW i, Placing(i), Settled, NEW c, NEW s, NEW pins, ~s.refused, AtHome(s, i),
           Surely(c, s, live_after[i] \ program[i].def, pins), live_after[i] \subseteq Vreg
    PROVE  AtHome(PlaceDef(s, i), i)
<1>1. CASE PlaceDef(s, i) = s
  BY <1>1
<1>2. ASSUME NEW v \in program[i].def, NEW r \in Reg, \A q \in Reg : s.pool[q] # v,
             PlaceDef(s, i) = Taken(s, v, r, i), scan.at[v] # None => r = scan.at[v]
      PROVE  AtHome(PlaceDef(s, i), i)
  <2>1. PICK h, t, w : h = Hull(program, live_after, v) /\ t = Taken(s, v, r, i) /\ w = s.pool[r]
    OBVIOUS
  <2>2. /\ t.pool[r] = v /\ \A q \in Reg : q # r => t.pool[q] = s.pool[q]
        /\ t.stacked = Cleared(s, r, i).stacked /\ t.spilled = Cleared(s, r, i).spilled
    <3>1. TakenFor(c, s, pins, v, r, i, Taken(s, v, r, i))
      BY <1>2, TakenSecured
    <3> QED BY <2>1, <3>1 DEF TakenFor
  <2>3. v \in Named(program) /\ scan.at[v] \in Reg /\ i \in Nat /\ None \notin Reg
    BY DEF Named, Defined, Settled, Placing, WellFormed, Sound
  <2>4. r = scan.at[v]
    BY <1>2, <2>3
  <2>5. h.start \in Nat /\ h.end \in Nat /\ h.start <= i /\ i < h.end
    <3>1. Interval(program, live_after, v, h)
      BY <2>1, HullIs DEF Placing
    <3>2. h.start \in Nat /\ h.end \in Nat /\ h.start <= i
      BY <3>1 DEF Interval, Placing
    <3> QED BY <2>1, <3>2 DEF Settled, Covered, Placing
  <2>6. w \notin Later(i)
    <3> SUFFICES ASSUME w \in Later(i) PROVE FALSE
      OBVIOUS
    <3>1. w \in Vreg /\ HasLaterUse(w, i) /\ w # None /\ w # v
      BY <1>2, <2>1 DEF Later, Placing, Sound
    <3>2. w \in Named(program) /\ scan.at[w] = r /\ Hull(program, live_after, w).start <= i
      BY <2>1, <3>1 DEF AtHome
    <3>3. PICK g : g = Hull(program, live_after, w)
      OBVIOUS
    <3>4. i < g.end
      BY <3>1, <3>3, EndsBehind DEF Placing
    <3>5. Interval(program, live_after, w, g)
      BY <3>3, HullIs DEF Placing
    <3>6. g.start \in Nat /\ g.end \in Nat
      BY <3>5 DEF Interval
    <3>7. h.end <= g.start \/ g.end <= h.start
      BY <2>1, <2>3, <2>4, <3>1, <3>2, <3>3 DEF Settled
    <3>8. g.start <= i
      BY <3>2, <3>3
    <3> QED BY <2>3, <2>5, <3>4, <3>6, <3>7, <3>8
  <2>7. Cleared(s, r, i).stacked = s.stacked /\ Cleared(s, r, i).spilled = s.spilled
    <3>1. Sound /\ Whole(s) /\ s.pool[r] \notin Later(i)
      BY <2>1, <2>6 DEF Placing, Surely
    <3> QED BY <3>1, ClearedIdle
  <2>8. ASSUME NEW q \in Reg, t.pool[q] # None
        PROVE  /\ t.pool[q] \in Named(program) /\ scan.at[t.pool[q]] = q
               /\ Hull(program, live_after, t.pool[q]).start <= i
    <3>1. CASE q = r
      BY <2>1, <2>2, <2>3, <2>4, <2>5, <3>1
    <3>2. CASE q # r
      BY <2>2, <2>8, <3>2 DEF AtHome
    <3> QED BY <3>1, <3>2
  <2>9. t.stacked = {} /\ t.spilled = {}
    BY <2>2, <2>7 DEF AtHome
  <2>10. AtHome(t, i)
    BY <2>8, <2>9 DEF AtHome
  <2> QED BY <1>2, <2>1, <2>10
<1> QED BY <1>1, <1>2, DefDone

(***************************************************************************)
(* Values are stored before a block is left, or before a call.             *)
(***************************************************************************)
\* Nobody moves, and who was stored stays so.
Stays(c, need, pins, s, t) ==
    /\ Surely(c, t, need, pins) /\ t.pool = s.pool /\ t.refused = s.refused /\ s.stacked \subseteq t.stacked

LEMMA StoreStays ==
    ASSUME NEW c, NEW need, NEW pins, NEW s, Surely(c, s, need, pins), NEW r \in Reg, NEW v \in Vreg, s.pool[r] = v
    PROVE  Stays(c, need, pins, s, Store(s, v, r)) /\ v \in Store(s, v, r).stacked
<1>1. PICK t, a, b : t = Store(s, v, r) /\ a = As(s) /\ b = EmitSpill(a, v, r)
  OBVIOUS
<1>2. Whole(s) /\ Secured(c, a, need, pins) /\ a.pool[r] = v
  BY <1>1, AsFields DEF Surely
<1>3. Secured(c, b, need, pins)
  BY <1>1, <1>2, SpillSecured
<1>4. Whole(t) /\ As(t) = b /\ t.pool = s.pool /\ t.stacked = s.stacked \cup {v} /\ t.refused = s.refused
  <2>1. /\ Whole(Store(s, v, r)) /\ As(Store(s, v, r)) = EmitSpill(As(s), v, r)
        /\ Store(s, v, r).pool = s.pool /\ Store(s, v, r).stacked = s.stacked \cup {v}
        /\ Store(s, v, r).refused = s.refused
    BY <1>2, StoreWhole
  <2> QED BY <1>1, <2>1, Zenon
<1> QED BY <1>1, <1>3, <1>4 DEF Stays, Surely

LEMMA StaysTwice ==
    ASSUME NEW c, NEW need, NEW pins, NEW s, NEW t, NEW u, Stays(c, need, pins, s, t), Stays(c, need, pins, t, u)
    PROVE  Stays(c, need, pins, s, u)
BY DEF Stays

OutStored(c, need, pins, s0, i, n, s) ==
    /\ Stays(c, need, pins, s0, s)
    /\ \A k \in 1 .. n : Names[k] \in LiveOut(i) \cap Canonical =>
          Names[k] \in s.stacked \/ \A r \in Reg : s0.pool[r] # Names[k]
    /\ scan.spilled = {} /\ Canonical = {} /\ AtHome(s0, i) => s = s0

LEMMA OneOutStored ==
    ASSUME Sound, NEW c, NEW need, NEW pins, NEW s0, NEW i, NEW n \in Nat, n + 1 \in DOMAIN Names,
           NEW s, OutStored(c, need, pins, s0, i, n, s)
    PROVE  OutStored(c, need, pins, s0, i, n + 1, StoreOut(s, Names[n + 1], i))
<1>1. PICK v, t : v = Names[n + 1] /\ t = StoreOut(s, v, i)
  OBVIOUS
<1>2. v \in Vreg /\ None \notin Vreg /\ None \notin Reg
  BY <1>1 DEF Sound
<1>3. Stays(c, need, pins, s0, s) /\ s.pool = s0.pool /\ Surely(c, s, need, pins)
  BY DEF OutStored, Stays
<1>4. CASE v \notin LiveOut(i) \/ HandedInRegister(s, v) \/ Holder(s, v) = {} \/ v \in s.stacked
  <2>1. t = s
    BY <1>1, <1>4 DEF StoreOut
  <2>2. v \in LiveOut(i) \cap Canonical => v \in s.stacked \/ \A r \in Reg : s0.pool[r] # v
    BY <1>3, <1>4 DEF HandedInRegister, Holder
  <2>3. \A k \in 1 .. n + 1 : k = n + 1 \/ k \in 1 .. n
    OBVIOUS
  <2> QED BY <1>1, <2>1, <2>2, <2>3 DEF OutStored
<1>5. CASE ~(v \notin LiveOut(i) \/ HandedInRegister(s, v) \/ Holder(s, v) = {} \/ v \in s.stacked)
  <2>1. PICK r : r = CHOOSE q \in Holder(s, v) : TRUE
    OBVIOUS
  <2>2. r \in Reg /\ s.pool[r] = v
    BY <1>5, <2>1 DEF Holder
  <2>3. t = Store(s, v, r)
    BY <1>1, <1>5, <2>1 DEF StoreOut
  <2>4. Stays(c, need, pins, s, t) /\ v \in t.stacked
    <3>1. Stays(c, need, pins, s, Store(s, v, r)) /\ v \in Store(s, v, r).stacked
      BY <1>2, <1>3, <2>2, StoreStays
    <3> QED BY <2>3, <3>1
  <2>5. Stays(c, need, pins, s0, t) /\ s.stacked \subseteq t.stacked
    BY <1>3, <2>4, StaysTwice DEF Stays
  <2>6. ASSUME scan.spilled = {}, Canonical = {}, AtHome(s0, i) PROVE FALSE
    <3>1. s = s0
      BY <2>6 DEF OutStored
    <3>2. s.spilled = {} /\ scan.at[v] = r
      BY <1>2, <2>2, <2>6, <3>1 DEF AtHome
    <3>3. HandedInRegister(s, v)
      BY <1>2, <2>2, <2>6, <3>2 DEF HandedInRegister
    <3> QED BY <1>5, <3>3
  <2>7. \A k \in 1 .. n + 1 : k = n + 1 \/ k \in 1 .. n
    OBVIOUS
  <2>8. \A k \in 1 .. n + 1 : Names[k] \in LiveOut(i) \cap Canonical =>
            Names[k] \in t.stacked \/ \A q \in Reg : s0.pool[q] # Names[k]
    BY <1>1, <2>4, <2>5, <2>7 DEF OutStored
  <2> QED BY <1>1, <2>5, <2>6, <2>8 DEF OutStored
<1> QED BY <1>4, <1>5

LEMMA OutUnfolded ==
    ASSUME NEW s, NEW i, Len(Names) \in Nat
    PROVE  \E f : Rounds([over |-> "out", item |-> i], s, Len(Names), f) /\ StoreLiveOut(s, i) = f[Len(Names)]
<1> DEFINE N == Len(Names)
           loop == [over |-> "out", item |-> i]
           Described(f) == f = [n \in 0 .. N |-> IF n = 0 THEN s ELSE StoreOut(f[n - 1], Names[n], i)]
           after == CHOOSE f : Described(f)
<1>1. \A x, n : LoopPass(loop, x, n) = StoreOut(x, Names[n], i)
  BY DEF LoopPass, LinearPass
<1>2. \A f : Unfolded(loop, s, N, f) <=> Described(f)
  <2> HIDE DEF loop
  <2> QED BY <1>1 DEF Unfolded
<1>3. Described(after)
  <2> HIDE DEF Described, loop, N
  <2>1. \E f : Described(f)
    <3>1. N \in Nat
      BY DEF N
    <3> QED BY <3>1, <1>2, LoopsUnfold
  <2> QED BY <2>1
<1>4. StoreLiveOut(s, i) = after[N]
  BY DEF StoreLiveOut
<1>5. Rounds(loop, s, N, after)
  <2>1. N \in Nat
    OBVIOUS
  <2> HIDE DEF Described, loop, N, after
  <2> QED BY <2>1, <1>2, <1>3, UnfoldedRounds
<1> HIDE DEF after
<1> QED BY <1>4, <1>5

LEMMA LiveOutStored ==
    ASSUME Sound, NEW c, NEW need, NEW pins, NEW s, Surely(c, s, need, pins), NEW i
    PROVE  /\ Stays(c, need, pins, s, StoreLiveOut(s, i))
           /\ \A v \in LiveOut(i) \cap Canonical \cap Vreg :
                 v \in StoreLiveOut(s, i).stacked \/ \A r \in Reg : s.pool[r] # v
           /\ scan.spilled = {} /\ Canonical = {} /\ AtHome(s, i) => StoreLiveOut(s, i) = s
<1>0. PICK N : N = Len(Names)
  OBVIOUS
<1> DEFINE loop == [over |-> "out", item |-> i]
<1>1. N \in Nat /\ DOMAIN Names = 1 .. N /\ {Names[k] : k \in 1 .. N} = Vreg
  BY <1>0 DEF Sound
<1>2. PICK f : Rounds(loop, s, N, f) /\ StoreLiveOut(s, i) = f[N]
  BY <1>0, <1>1, OutUnfolded
<1>3. \A x, n : LoopPass(loop, x, n) = StoreOut(x, Names[n], i)
  BY DEF LoopPass, LinearPass
<1> HIDE DEF loop
<1> DEFINE Good == {n \in 0 .. N : OutStored(c, need, pins, s, i, n, f[n])}
<1>4. 0 \in Good
  <2>1. Stays(c, need, pins, s, s)
    BY DEF Stays
  <2>2. OutStored(c, need, pins, s, i, 0, s)
    BY <2>1 DEF OutStored
  <2> QED BY <1>1, <1>2, <2>2 DEF Rounds
<1>5. ASSUME NEW n \in 1 .. N, n - 1 \in Good PROVE n \in Good
  <2>1. PICK m : m = n - 1
    OBVIOUS
  <2>2. m \in Nat /\ m + 1 = n /\ n \in 0 .. N
    BY <1>1, <2>1
  <2>3. OutStored(c, need, pins, s, i, m, f[m])
    BY <1>5, <2>1
  <2>4. f[n] = StoreOut(f[m], Names[n], i)
    BY <1>2, <1>3, <2>1 DEF Rounds
  <2>5. OutStored(c, need, pins, s, i, m + 1, StoreOut(f[m], Names[m + 1], i))
    BY <1>1, <2>2, <2>3, OneOutStored
  <2> QED BY <2>2, <2>4, <2>5
<1>6. N \in Good
  <2> HIDE DEF Good
  <2> QED BY <1>1, <1>4, <1>5, CountsUp
<1>7. OutStored(c, need, pins, s, i, N, f[N])
  BY <1>6
<1> HIDE DEF Good
<1>8. \A v \in Vreg : \E k \in 1 .. N : Names[k] = v
  BY <1>1
<1> QED BY <1>2, <1>7, <1>8 DEF OutStored

(***************************************************************************)
(* Before a call.                                                          *)
(***************************************************************************)
LostStored(c, need, pins, s0, n, s) ==
    /\ Stays(c, need, pins, s0, s)
    /\ \A k \in 1 .. n : Bank[k] \in CallerSaved /\ s0.pool[Bank[k]] \in need => s0.pool[Bank[k]] \in s.stacked

LEMMA OneLostStored ==
    ASSUME Sound, NEW i, NEW c, NEW need \in SUBSET Later(i), NEW pins, NEW s0, NEW n \in Nat, n + 1 \in DOMAIN Bank,
           NEW s, LostStored(c, need, pins, s0, n, s)
    PROVE  LostStored(c, need, pins, s0, n + 1, StoreLost(s, Bank[n + 1], i))
<1>1. PICK r, t, v : r = Bank[n + 1] /\ t = StoreLost(s, r, i) /\ v = s.pool[r]
  OBVIOUS
<1>2. r \in Reg /\ None \notin Vreg /\ need \subseteq Vreg
  BY <1>1 DEF Sound, Reg, Later
<1>3. Stays(c, need, pins, s0, s) /\ s.pool = s0.pool /\ Surely(c, s, need, pins) /\ Whole(s)
  BY DEF LostStored, Stays, Surely
<1>4. \A k \in 1 .. n + 1 : k = n + 1 \/ k \in 1 .. n
  OBVIOUS
<1>5. CASE r \notin CallerSaved \/ v = None \/ v \in s.stacked \/ ~HasLaterUse(v, i)
  <2>1. t = s
    BY <1>1, <1>5 DEF StoreLost, StoreOwner
  <2>2. r \in CallerSaved /\ v \in need => v \in s.stacked
    BY <1>2, <1>5 DEF Later
  <2> QED BY <1>1, <1>3, <1>4, <2>1, <2>2 DEF LostStored
<1>6. CASE ~(r \notin CallerSaved \/ v = None \/ v \in s.stacked \/ ~HasLaterUse(v, i))
  <2>1. t = Store(s, v, r)
    BY <1>1, <1>6 DEF StoreLost, StoreOwner
  <2>2. v \in Vreg
    BY <1>1, <1>2, <1>3, <1>6 DEF Whole
  <2>3. Stays(c, need, pins, s, t) /\ v \in t.stacked
    <3>1. Stays(c, need, pins, s, Store(s, v, r)) /\ v \in Store(s, v, r).stacked
      BY <1>1, <1>2, <1>3, <2>2, StoreStays
    <3> QED BY <2>1, <3>1
  <2>4. Stays(c, need, pins, s0, t) /\ s.stacked \subseteq t.stacked
    BY <1>3, <2>3, StaysTwice DEF Stays
  <2> QED BY <1>1, <1>3, <1>4, <2>3, <2>4 DEF LostStored
<1> QED BY <1>5, <1>6

LEMMA LostUnfolded ==
    ASSUME NEW s, NEW i, Len(Bank) \in Nat
    PROVE  \E f : Rounds([over |-> "lost", item |-> i], s, Len(Bank), f) /\ BeforeCall(s, i) = f[Len(Bank)]
<1> DEFINE N == Len(Bank)
           loop == [over |-> "lost", item |-> i]
           Described(f) == f = [n \in 0 .. N |-> IF n = 0 THEN s ELSE StoreLost(f[n - 1], Bank[n], i)]
           after == CHOOSE f : Described(f)
<1>1. \A x, n : LoopPass(loop, x, n) = StoreLost(x, Bank[n], i)
  BY DEF LoopPass, LinearPass
<1>2. \A f : Unfolded(loop, s, N, f) <=> Described(f)
  <2> HIDE DEF loop
  <2> QED BY <1>1 DEF Unfolded
<1>3. Described(after)
  <2> HIDE DEF Described, loop, N
  <2>1. \E f : Described(f)
    <3>1. N \in Nat
      BY DEF N
    <3> QED BY <3>1, <1>2, LoopsUnfold
  <2> QED BY <2>1
<1>4. BeforeCall(s, i) = after[N]
  BY DEF BeforeCall
<1>5. Rounds(loop, s, N, after)
  <2>1. N \in Nat
    OBVIOUS
  <2> HIDE DEF Described, loop, N, after
  <2> QED BY <2>1, <1>2, <1>3, UnfoldedRounds
<1> HIDE DEF after
<1> QED BY <1>4, <1>5

LEMMA CallStored ==
    ASSUME Sound, NEW i, NEW c, NEW need \in SUBSET Later(i), NEW pins, NEW s, Surely(c, s, need, pins)
    PROVE  /\ Stays(c, need, pins, s, BeforeCall(s, i))
           /\ \A r \in Reg \cap CallerSaved : s.pool[r] \in need => s.pool[r] \in BeforeCall(s, i).stacked
<1>0. PICK N : N = Len(Bank)
  OBVIOUS
<1> DEFINE loop == [over |-> "lost", item |-> i]
<1>1. N \in Nat /\ DOMAIN Bank = 1 .. N
  BY <1>0 DEF Sound
<1>2. PICK f : Rounds(loop, s, N, f) /\ BeforeCall(s, i) = f[N]
  BY <1>0, <1>1, LostUnfolded
<1>3. \A x, n : LoopPass(loop, x, n) = StoreLost(x, Bank[n], i)
  BY DEF LoopPass, LinearPass
<1> HIDE DEF loop
<1> DEFINE Good == {n \in 0 .. N : LostStored(c, need, pins, s, n, f[n])}
<1>4. 0 \in Good
  <2>1. Stays(c, need, pins, s, s)
    BY DEF Stays
  <2>2. LostStored(c, need, pins, s, 0, s)
    BY <2>1 DEF LostStored
  <2> QED BY <1>1, <1>2, <2>2 DEF Rounds
<1>5. ASSUME NEW n \in 1 .. N, n - 1 \in Good PROVE n \in Good
  <2>1. PICK m : m = n - 1
    OBVIOUS
  <2>2. m \in Nat /\ m + 1 = n /\ n \in 0 .. N
    BY <1>1, <2>1
  <2>3. LostStored(c, need, pins, s, m, f[m])
    BY <1>5, <2>1
  <2>4. f[n] = StoreLost(f[m], Bank[n], i)
    BY <1>2, <1>3, <2>1 DEF Rounds
  <2>5. LostStored(c, need, pins, s, m + 1, StoreLost(f[m], Bank[m + 1], i))
    BY <1>1, <2>2, <2>3, OneLostStored
  <2> QED BY <2>2, <2>4, <2>5
<1>6. N \in Good
  <2> HIDE DEF Good
  <2> QED BY <1>1, <1>4, <1>5, CountsUp
<1>7. LostStored(c, need, pins, s, N, f[N])
  BY <1>6
<1> HIDE DEF Good
<1>8. \A r \in Reg : \E k \in 1 .. N : Bank[k] = r
  BY <1>1 DEF Reg
<1> QED BY <1>2, <1>7, <1>8 DEF LostStored

(***************************************************************************)
(* The item itself is emitted.                                             *)
(***************************************************************************)
Context(i, A, besides) == [item |-> i, from |-> A, kept |-> {}, besides |-> besides]

LEMMA ContextIs ==
    ASSUME NEW i, NEW A, NEW besides
    PROVE  /\ Context(i, A, besides).item = i /\ Context(i, A, besides).from = A
           /\ Context(i, A, besides).kept = {} /\ Context(i, A, besides).besides = besides
BY DEF Context

LEMMA LiveLater ==
    ASSUME NEW i, Placing(i), live_after[i] \subseteq Vreg
    PROVE  live_after[i] \subseteq Later(i)
BY LivesOn DEF Placing, Later

\* What the call destroys is forgotten.
CallerSavedStored(s, need) == \A r \in Reg \cap CallerSaved : s.pool[r] \in need => s.pool[r] \in s.stacked
Forgotten(c, need, pins, s, t) ==
    /\ Surely(c, t, need, pins) /\ t.refused = s.refused
    /\ \A r \in Reg \cap CallerSaved : t.pool[r] = None

LEMMA CallForgets ==
    ASSUME Sound, NEW c, NEW need, None \notin need, NEW pins, NEW s, Surely(c, s, need, pins), CallerSavedStored(s, need)
    PROVE  Forgotten(c, need, pins, s, BehindCall(s))
<1>1. PICK pool, t, a, b : /\ pool = [r \in Reg |-> IF r \in CallerSaved THEN None ELSE s.pool[r]]
                           /\ t = [s EXCEPT !.pool = pool] /\ a = As(s) /\ b = As(t)
  OBVIOUS
<1>2. Whole(s) /\ Secured(c, a, need, pins) /\ Distinct(s.pool) /\ \A r \in Reg : s.pool[r] \in Vreg \cup {None}
  BY <1>1 DEF Surely, Whole, State, As
<1>3. /\ pool = [r \in Reg |-> pool[r]] /\ (\A r \in Reg : pool[r] \in Vreg \cup {None})
      /\ \A r \in Reg : pool[r] = IF r \in CallerSaved THEN None ELSE s.pool[r]
  BY <1>1, <1>2
<1>4. Distinct(pool)
  BY <1>2, <1>3 DEF Distinct
<1>5. /\ Whole(t) /\ b = [a EXCEPT !.pool = pool] /\ t.pool = pool /\ t.stacked = s.stacked
      /\ t.refused = s.refused /\ t.out = s.out
  <2>1. /\ Whole([s EXCEPT !.pool = pool]) /\ As([s EXCEPT !.pool = pool]) = [As(s) EXCEPT !.pool = pool]
        /\ [s EXCEPT !.pool = pool].pool = pool /\ [s EXCEPT !.pool = pool].stacked = s.stacked
        /\ [s EXCEPT !.pool = pool].refused = s.refused /\ [s EXCEPT !.pool = pool].out = s.out
    BY <1>2, <1>3, <1>4, PoolWhole
  <2> QED BY <1>1, <2>1, Zenon
<1>6. /\ a.pool = s.pool /\ a.clean = s.stacked /\ a.slots = s.stacked /\ a.out = s.out
      /\ b.pool = pool /\ b.clean = s.stacked /\ b.slots = s.stacked /\ b.out = s.out
  <2>1. /\ As(s).pool = s.pool /\ As(s).clean = s.stacked /\ As(s).slots = s.stacked /\ As(s).out = s.out
    BY AsFields
  <2>2. /\ As(t).pool = t.pool /\ As(t).clean = t.stacked /\ As(t).slots = t.stacked /\ As(t).out = t.out
    BY AsFields
  <2> QED BY <1>1, <1>5, <2>1, <2>2
<1>7. PICK B : Reaches(c.item, c.from, a.out, B) /\ Ready(a, need, B) /\ Pinned(c.item, pins, B)
  BY <1>2 DEF Secured
<1>8. Ready(b, need, B)
  <2>1. ASSUME NEW v \in need, ~Mapped(b, v) \/ v \in b.clean PROVE v \in B.stored
    <3>1. CASE v \in s.stacked
      BY <1>6, <1>7, <3>1 DEF Ready
    <3>2. CASE v \notin s.stacked
      <4>1. \A r \in Reg : s.pool[r] # v
        BY <1>3, <1>6, <2>1, <3>2 DEF Mapped, CallerSavedStored
      <4> QED BY <1>6, <1>7, <4>1 DEF Ready, Mapped
    <3> QED BY <3>1, <3>2
  <2>2. ASSUME NEW v \in need, v \notin b.slots PROVE Mapped(b, v)
    <3>1. PICK r \in Reg : s.pool[r] = v
      BY <1>6, <1>7, <2>2 DEF Ready, Mapped
    <3>2. r \notin CallerSaved
      BY <1>6, <2>2, <3>1 DEF CallerSavedStored
    <3> QED BY <1>3, <1>6, <3>1, <3>2 DEF Mapped
  <2>3. \A r \in Reg : b.pool[r] \in need => b.pool[r] \in B.held[r]
    BY <1>3, <1>6, <1>7 DEF Ready
  <2> QED BY <1>6, <2>1, <2>2, <2>3 DEF Ready
<1>9. State(b)
  BY <1>1, <1>5 DEF Whole
<1>10. Secured(c, b, need, pins)
  BY <1>2, <1>6, <1>7, <1>8, <1>9 DEF Secured
<1>11. t = BehindCall(s)
  BY <1>1 DEF BehindCall
<1> QED BY <1>1, <1>3, <1>5, <1>10, <1>11 DEF Surely, Forgotten

\* What the item writes is no longer what its slot holds.
Fresh(s, i, ins) == [s EXCEPT !.out = Append(@, ins), !.stacked = @ \ program[i].def]

LEMMA FreshFields ==
    ASSUME NEW s, Whole(s), NEW i, NEW ins
    PROVE  /\ Whole(Fresh(s, i, ins)) /\ Fresh(s, i, ins).pool = s.pool /\ Fresh(s, i, ins).refused = s.refused
           /\ Fresh(s, i, ins).stacked = s.stacked \ program[i].def /\ Fresh(s, i, ins).spilled = s.spilled
           /\ Fresh(s, i, ins).out = Append(s.out, ins)
<1>1. PICK P, K, X, O, F :
              /\ Is(s, P, K, X, O, F) /\ P = [r \in Reg |-> P[r]] /\ F \in BOOLEAN /\ Distinct(P)
              /\ \A r \in Reg : P[r] \in Vreg \cup {None}
              /\ s.pool = P /\ s.stacked = K /\ s.spilled = X /\ s.out = O /\ s.refused = F
  BY WholeIs
<1>2. PICK t, L, Q : t = Fresh(s, i, ins) /\ L = K \ program[i].def /\ Q = Append(O, ins)
  OBVIOUS
<1>3. t = [s EXCEPT !.out = Q, !.stacked = L]
  BY <1>1, <1>2 DEF Fresh
<1>4. Is(t, P, L, X, Q, F)
  BY <1>1, <1>3 DEF Is
<1>5. Whole(t) /\ t.pool = P /\ t.stacked = L /\ t.spilled = X /\ t.out = Q /\ t.refused = F
  BY <1>1, <1>4, IsWhole, IsFields
<1> QED BY <1>1, <1>2, <1>5

LEMMA FreshSecured ==
    ASSUME NEW i, Placing(i), live_after[i] \subseteq Vreg, NEW A, NEW pins, Len(pins) = Len(program[i].uses),
           NEW s, Surely(Context(i, A, {}), s, live_after[i] \ program[i].def, pins),
           \A v \in program[i].def : \E r \in Reg : s.pool[r] = v,
           program[i].does = "call" => \A r \in Reg \cap CallerSaved : s.pool[r] = None,
           NEW ins, ins.does = program[i].does, ins.uses = pins, ins.def = UNION {Holder(s, v) : v \in program[i].def}
    PROVE  Surely(Context(i, A, {program[i].does}), Fresh(s, i, ins), live_after[i], <<>>)
<1>1. PICK def, live, a, t, b, c, d :
          /\ def = program[i].def /\ live = live_after[i] /\ a = As(s) /\ t = Fresh(s, i, ins) /\ b = As(t)
          /\ c = Context(i, A, {}) /\ d = Context(i, A, {program[i].does})
  OBVIOUS
<1>2. /\ c.item = i /\ c.from = A /\ c.kept = {} /\ c.besides = {}
      /\ d.item = i /\ d.from = A /\ d.kept = {} /\ d.besides = {program[i].does}
  BY <1>1, ContextIs
<1>3. Sound /\ WellFormed(program) /\ Selected(program) /\ i \in DOMAIN program /\ live \in SUBSET Vreg /\ None \notin Vreg
      /\ def \subseteq Vreg
  BY <1>1 DEF Placing, Selected, Sound
<1>4. Whole(s) /\ Secured(c, a, live \ def, pins) /\ State(a)
  BY <1>1 DEF Surely, Whole
<1>5. /\ a.pool = s.pool /\ a.clean = s.stacked /\ a.slots = s.stacked /\ a.out = s.out
  BY <1>1, AsFields
<1>6. /\ Whole(t) /\ t.pool = s.pool /\ t.stacked = s.stacked \ def /\ t.out = Append(s.out, ins)
  BY <1>1, <1>4, FreshFields
<1>7. b.pool = s.pool /\ b.clean = s.stacked \ def /\ b.slots = s.stacked \ def /\ b.out = Append(s.out, ins) /\ State(b)
  <2>1. /\ As(t).pool = t.pool /\ As(t).clean = t.stacked /\ As(t).slots = t.stacked /\ As(t).out = t.out
    BY AsFields
  <2>2. State(As(t))
    BY <1>6 DEF Whole
  <2> QED BY <1>1, <1>6, <2>1, <2>2
<1>8. Written(i, a, pins, ins)
  <2>1. ASSUME NEW v \in def PROVE Holder(s, v) = {RegOf(a, v)}
    <3>1. PICK r \in Reg : s.pool[r] = v
      BY <1>1, <2>1
    <3>2. v # None /\ Distinct(s.pool)
      BY <1>3, <1>4, <1>5 DEF State
    <3>3. \A q \in Reg : s.pool[q] = v <=> q = r
      BY <3>1, <3>2 DEF Distinct
    <3>4. RegOf(a, v) = r
      BY <1>5, <3>1, <3>3 DEF RegOf
    <3> QED BY <3>1, <3>3, <3>4 DEF Holder
  <2>2. UNION {Holder(s, v) : v \in def} = {RegOf(a, v) : v \in def}
    BY <2>1
  <2> QED BY <1>1, <2>2 DEF Written
<1>9. PICK e : e = [pool |-> s.pool, clean |-> s.stacked \ def, slots |-> s.stacked, out |-> b.out, refused |-> b.refused]
  OBVIOUS
<1>10. /\ e.pool = s.pool /\ e.clean = s.stacked \ def /\ e.slots = s.stacked /\ e.out = b.out /\ e.refused = b.refused
       /\ e = [pool |-> e.pool, clean |-> e.clean, slots |-> e.slots, out |-> e.out, refused |-> e.refused]
  BY <1>9
<1>11. State(e)
  BY <1>7, <1>10 DEF State
<1>12. RanAt(i, a, ins, e)
  BY <1>1, <1>5, <1>7, <1>10, <1>11 DEF RanAt
<1>13. \A v \in def : Mapped(a, v)
  BY <1>1, <1>5 DEF Mapped
<1>14. d.besides = c.besides \cup {program[i].does}
  BY <1>2
<1>15. program[i].does = "call" => \A r \in Reg \cap CallerSaved : a.pool[r] = None
  BY <1>5
<1>16. Secured(d, e, live, <<>>)
  <2>1. def = program[i].def /\ d.from = c.from /\ d.kept = c.kept
    BY <1>1, <1>2
  <2> HIDE <1>1
  <2> QED BY <1>2, <1>3, <1>4, <1>8, <1>12, <1>13, <1>14, <1>15, <2>1, ItemSecured
<1>17. PICK B : Reaches(d.item, d.from, e.out, B) /\ Ready(e, live, B) /\ Pinned(d.item, <<>>, B)
  BY <1>16 DEF Secured
<1>18. Ready(b, live, B)
  <2>1. \A v \in live : Mapped(b, v) \/ v \in b.slots
    BY <1>7, <1>10, <1>13, <1>5, <1>17 DEF Ready, Mapped
  <2> QED BY <1>7, <1>10, <1>17, <2>1 DEF Ready, Mapped
<1>19. Secured(d, b, live, <<>>)
  BY <1>2, <1>7, <1>10, <1>16, <1>17, <1>18 DEF Secured
<1> QED BY <1>1, <1>6, <1>19 DEF Surely

\* Who is in his slot leaves his register.
LEMMA VacateSurely ==
    ASSUME Sound, NEW c, NEW need, None \notin need, NEW pins, NEW s, Surely(c, s, need, pins), NEW r \in Reg,
           s.pool[r] \in need => s.pool[r] \in s.stacked
    PROVE  Surely(c, Vacate(s, r), need, pins) /\ Vacate(s, r).refused = s.refused
<1>1. PICK a, t : a = As(s) /\ t = Vacate(s, r)
  OBVIOUS
<1>2. Whole(s) /\ Secured(c, a, need, pins) /\ a.pool = s.pool /\ a.clean = s.stacked
  BY <1>1, AsFields DEF Surely
<1>3. Whole(t) /\ As(t) = [a EXCEPT !.pool[r] = None] /\ t.refused = s.refused
  <2>1. /\ Whole(Vacate(s, r)) /\ As(Vacate(s, r)) = [As(s) EXCEPT !.pool[r] = None]
        /\ Vacate(s, r).refused = s.refused
    BY <1>2, VacateWhole
  <2> QED BY <1>1, <2>1, Zenon
<1>4. PICK b : b = [a EXCEPT !.pool[r] = None]
  OBVIOUS
<1>5. Secured(c, b, need, pins)
  BY <1>2, <1>4, GivenAway
<1> QED BY <1>1, <1>3, <1>4, <1>5 DEF Surely

LEMMA RanFresh ==
    ASSUME NEW i, ~IsLabel(program, i), NEW s, Whole(s), NEW ins
    PROVE  /\ program[i].def = {} => Ran(s, i, ins) = Fresh(s, i, ins)
           /\ \A v : program[i].def = {v} => [Ran(s, i, ins) EXCEPT !.stacked = @ \ {v}] = Fresh(s, i, ins)
           /\ Ran(s, i, ins).pool = s.pool /\ Ran(s, i, ins).spilled = s.spilled
<1>1. PICK P, K, X, O, F, Q : Is(s, P, K, X, O, F) /\ Q = Append(O, ins)
  BY WholeIs
<1>2. s.pool = P /\ s.stacked = K /\ s.spilled = X /\ s.out = O /\ s.refused = F
  BY <1>1, IsFields
<1>3. PICK t, u : t = Ran(s, i, ins) /\ u = Fresh(s, i, ins)
  OBVIOUS
<1>4. t = [s EXCEPT !.out = Q] /\ u = [s EXCEPT !.out = Q, !.stacked = K \ program[i].def]
  BY <1>1, <1>2, <1>3 DEF Ran, Fresh
<1>5. Is(t, P, K, X, Q, F) /\ Is(u, P, K \ program[i].def, X, Q, F)
  BY <1>1, <1>4 DEF Is
<1>6. t.pool = P /\ t.spilled = X /\ t.stacked = K
  BY <1>5, IsFields
<1>7. program[i].def = {} => t = u
  <2>1. K \ {} = K
    OBVIOUS
  <2> QED BY <1>5, <2>1 DEF Is
<1>8. ASSUME NEW v, program[i].def = {v} PROVE [t EXCEPT !.stacked = @ \ {v}] = u
  BY <1>5, <1>6, <1>8 DEF Is
<1> QED BY <1>2, <1>3, <1>6, <1>7, <1>8

LEMMA WrittenThrough ==
    ASSUME NEW i, Placing(i), ~IsLabel(program, i), live_after[i] \subseteq Vreg, NEW s, Whole(s), NEW ins,
           \A v \in program[i].def : \E r \in Reg : s.pool[r] = v,
           NEW d, NEW pins, Surely(d, Fresh(s, i, ins), live_after[i], pins)
    PROVE  /\ Surely(d, WriteThrough(Ran(s, i, ins), i), live_after[i], pins)
           /\ WriteThrough(Ran(s, i, ins), i).refused = s.refused
           /\ program[i].def = {} => WriteThrough(Ran(s, i, ins), i) = Fresh(s, i, ins)
           /\ scan.spilled = {} /\ AtHome(s, i) => AtHome(WriteThrough(Ran(s, i, ins), i), i)
<1>1. PICK def, f, ran, x : /\ def = program[i].def /\ f = Fresh(s, i, ins) /\ ran = Ran(s, i, ins)
                            /\ x = WriteThrough(ran, i)
  OBVIOUS
<1>2. Sound /\ def \subseteq Vreg /\ (\A v, w \in def : v = w) /\ None \notin live_after[i]
  BY <1>1 DEF Placing, WellFormed, Selected, Sound
<1>3. Surely(d, f, live_after[i], pins)
  BY <1>1
<1>4. f.pool = s.pool /\ f.refused = s.refused /\ f.stacked = s.stacked \ def /\ f.spilled = s.spilled
  BY <1>1, FreshFields
<1>5. AtHome(s, i) => AtHome(f, i)
  BY <1>4 DEF AtHome
<1>6. CASE def = {}
  <2>1. x = ran
    BY <1>1, <1>6 DEF WriteThrough
  <2>2. ran = f
    <3>1. program[i].def = {} => Ran(s, i, ins) = Fresh(s, i, ins)
      BY RanFresh
    <3> QED BY <1>1, <1>6, <3>1, Zenon
  <2> QED BY <1>1, <1>3, <1>4, <1>5, <2>1, <2>2
<1>7. CASE def # {}
  <2>1. PICK v : v = CHOOSE w \in def : TRUE
    OBVIOUS
  <2>2. v \in Vreg /\ v \in def /\ def = {v}
    BY <1>2, <1>7, <2>1
  <2>3. PICK r : r = CHOOSE q \in Holder(ran, v) : TRUE
    OBVIOUS
  <2>4. ran.pool = s.pool /\ ran.spilled = s.spilled /\ [ran EXCEPT !.stacked = @ \ {v}] = f
    <3>1. /\ \A w : program[i].def = {w} => [Ran(s, i, ins) EXCEPT !.stacked = @ \ {w}] = Fresh(s, i, ins)
          /\ Ran(s, i, ins).pool = s.pool /\ Ran(s, i, ins).spilled = s.spilled
      BY RanFresh
    <3> QED BY <1>1, <2>2, <3>1, Zenon
  <2>5. r \in Reg /\ f.pool[r] = v
    <3>1. Holder(ran, v) # {}
      BY <1>1, <2>2, <2>4 DEF Holder
    <3>2. r \in Holder(ran, v)
      BY <2>3, <3>1
    <3> QED BY <1>4, <2>4, <3>2 DEF Holder
  <2>6. x = IF v \in scan.spilled \cup ran.spilled /\ HasLaterUse(v, i) THEN Vacate(Store(f, v, r), r) ELSE f
    BY <1>1, <1>7, <2>1, <2>3, <2>4 DEF WriteThrough
  <2>7. CASE x = f
    BY <1>1, <1>3, <1>4, <1>5, <1>7, <2>7
  <2>8. CASE v \in scan.spilled \cup ran.spilled /\ x = Vacate(Store(f, v, r), r)
    <3>1. PICK y : y = Store(f, v, r)
      OBVIOUS
    <3>2. Stays(d, live_after[i], pins, f, y) /\ v \in y.stacked
      <4>1. Stays(d, live_after[i], pins, f, Store(f, v, r)) /\ v \in Store(f, v, r).stacked
        BY <1>3, <2>2, <2>5, StoreStays
      <4> QED BY <3>1, <4>1
    <3>3. Surely(d, y, live_after[i], pins) /\ y.pool = f.pool /\ y.refused = f.refused
      BY <3>2 DEF Stays
    <3>4. Surely(d, x, live_after[i], pins) /\ x.refused = y.refused
      <4>1. Surely(d, Vacate(y, r), live_after[i], pins) /\ Vacate(y, r).refused = y.refused
        BY <1>2, <2>5, <3>2, <3>3, VacateSurely
      <4> QED BY <2>8, <3>1, <4>1
    <3>5. ~(scan.spilled = {} /\ AtHome(s, i))
      BY <2>4, <2>8 DEF AtHome
    <3> QED BY <1>1, <1>4, <1>7, <3>3, <3>4, <3>5
  <2> QED BY <2>6, <2>7, <2>8
<1> QED BY <1>6, <1>7

\* At the end of a block everybody who lives on is in his slot, or at home.
LEMMA OutSafe ==
    ASSUME NEW i, Placing(i), IsLast(i), live_after[i] \subseteq Vreg,
           NEW c, NEW pins, NEW s, Surely(c, s, live_after[i], pins)
    PROVE  /\ Stays(c, live_after[i], pins, s, StoreLiveOut(s, i))
           /\ InSlots => live_after[i] \subseteq StoreLiveOut(s, i).stacked
           /\ ~InSlots /\ AtHome(s, i) => StoreLiveOut(s, i) = s
<1>1. PICK t, live : t = StoreLiveOut(s, i) /\ live = live_after[i]
  OBVIOUS
<1>2. Sound /\ WellFormed(program) /\ i \in DOMAIN program
  BY DEF Placing
<1>3. LiveOut(i) = live
  BY <1>1 DEF IsLast, LiveOut
<1>4. /\ Stays(c, live, pins, s, t)
      /\ \A v \in LiveOut(i) \cap Canonical \cap Vreg : v \in t.stacked \/ \A r \in Reg : s.pool[r] # v
      /\ scan.spilled = {} /\ Canonical = {} /\ AtHome(s, i) => t = s
  BY <1>1, <1>2, LiveOutStored
<1>5. ASSUME InSlots PROVE live \subseteq t.stacked
  <2>1. live \subseteq Canonical
    <3>1. BlockOf(program, i) \in Leaders(program) /\ LastOf(program, BlockOf(program, i)) = i
      BY <1>2, BlockIs DEF IsLast
    <3> QED BY <1>1, <1>5, <3>1 DEF Canonical
  <2>2. ASSUME NEW v \in live PROVE v \in t.stacked
    <3>1. v \in t.stacked \/ \A r \in Reg : s.pool[r] # v
      BY <1>1, <1>3, <1>4, <2>1
    <3>2. Secured(c, As(t), live, pins) /\ t.pool = s.pool
      BY <1>4 DEF Stays, Surely
    <3>3. Mapped(As(t), v) \/ v \in As(t).slots
      BY <3>2 DEF Secured, Ready
    <3>4. As(t).pool = t.pool /\ As(t).slots = t.stacked
      BY AsFields
    <3> QED BY <3>1, <3>2, <3>3, <3>4 DEF Mapped
  <2> QED BY <2>2
<1>6. ~InSlots => scan.spilled = {} /\ Canonical = {}
  BY DEF InSlots, Canonical
<1> QED BY <1>1, <1>4, <1>5, <1>6

LEMMA LeftSurely ==
    ASSUME NEW i, Placing(i), live_after[i] \subseteq Vreg,
           NEW c, NEW pins, NEW s, Surely(c, s, live_after[i], pins)
    PROVE  /\ Surely(c, Left(s, i), live_after[i], pins) /\ Left(s, i).refused = s.refused
           /\ IsLast(i) /\ ~IsTerminator(program, i) /\ InSlots => live_after[i] \subseteq Left(s, i).stacked
           /\ IsTerminator(program, i) => Left(s, i) = s
           /\ ~InSlots /\ AtHome(s, i) => AtHome(Left(s, i), i)
<1>1. CASE IsLast(i) /\ ~IsTerminator(program, i)
  <2>1. Left(s, i) = StoreLiveOut(s, i)
    BY <1>1 DEF Left
  <2>2. /\ Stays(c, live_after[i], pins, s, StoreLiveOut(s, i))
        /\ InSlots => live_after[i] \subseteq StoreLiveOut(s, i).stacked
        /\ ~InSlots /\ AtHome(s, i) => StoreLiveOut(s, i) = s
    BY <1>1, OutSafe
  <2> QED BY <1>1, <2>1, <2>2 DEF Stays
<1>2. CASE ~(IsLast(i) /\ ~IsTerminator(program, i))
  <2>1. Left(s, i) = s
    BY <1>2 DEF Left
  <2> QED BY <1>2, <2>1
<1> QED BY <1>1, <1>2

Coded(i, out) ==
    /\ Len(out) \in Nat /\ (Len(out) = 0 => out = <<>> /\ IsLabel(program, i))
    /\ \A k \in 1 .. Len(out) : out[k].does \in Saves \cup {program[i].does}
    /\ IsTerminator(program, i) => /\ out[Len(out)].does = program[i].does
                                   /\ \A k \in 1 .. (Len(out) - 1) : out[k].does \in Saves

Made(i, A, s, done) ==
    /\ Whole(done) /\ ~done.refused /\ Coded(i, done.out)
    /\ \E B : Reaches(i, A, done.out, B) /\ Ready(As(done), live_after[i], B)
    /\ InSlots /\ IsLast(i) => live_after[i] \subseteq done.stacked
    /\ ~InSlots /\ AtHome(s, i) => AtHome(done, i)

LEMMA SurelyMade ==
    ASSUME NEW i, NEW A, NEW besides, NEW done, NEW pins, Surely(Context(i, A, besides), done, live_after[i], pins)
    PROVE  /\ Whole(done) /\ OnlySaves(Context(i, A, besides), done.out)
           /\ \E B : Reaches(i, A, done.out, B) /\ Ready(As(done), live_after[i], B)
<1>1. Whole(done) /\ Secured(Context(i, A, besides), As(done), live_after[i], pins)
  BY DEF Surely
<1>2. As(done).out = done.out
  BY AsFields
<1>3. Context(i, A, besides).item = i /\ Context(i, A, besides).from = A
  BY ContextIs
<1> QED BY <1>1, <1>2, <1>3 DEF Secured

\* A label.
LEMMA LabelMade ==
    ASSUME NEW i, Placing(i), IsLabel(program, i), live_after[i] \subseteq Vreg, NEW A, NEW s, ~s.refused, NEW pins,
           Surely(Context(i, A, {}), s, live_after[i], pins)
    PROVE  Made(i, A, s, Left(s, i))
<1>1. PICK t : t = Left(s, i)
  OBVIOUS
<1>2. ~IsTerminator(program, i)
  BY DEF IsLabel, IsTerminator
<1>3. /\ Surely(Context(i, A, {}), t, live_after[i], pins) /\ t.refused = s.refused
      /\ IsLast(i) /\ InSlots => live_after[i] \subseteq t.stacked
      /\ ~InSlots /\ AtHome(s, i) => AtHome(t, i)
  BY <1>1, <1>2, LeftSurely
<1>4. /\ Whole(t) /\ OnlySaves(Context(i, A, {}), t.out)
      /\ \E B : Reaches(i, A, t.out, B) /\ Ready(As(t), live_after[i], B)
  BY <1>3, SurelyMade
<1>5. Coded(i, t.out)
  <2>1. Context(i, A, {}).besides = {}
    BY ContextIs
  <2> QED BY <1>2, <1>4, <2>1 DEF Coded, OnlySaves
<1> QED BY <1>1, <1>3, <1>4, <1>5 DEF Made

LEMMA InstructionMade ==
    ASSUME NEW i, Placing(i), ~IsLabel(program, i), live_after[i] \subseteq Vreg, NEW A, NEW s, ~s.refused,
           NEW pins, Len(pins) = Len(program[i].uses),
           Surely(Context(i, A, {}), s, live_after[i] \ program[i].def, pins),
           \A v \in program[i].def : \E r \in Reg : s.pool[r] = v,
           NEW ins, ins.does = program[i].does, ins.uses = pins, ins.def = UNION {Holder(s, v) : v \in program[i].def}
    PROVE  Made(i, A, s, Left(Returned(WriteThrough(Ran(Saved(s, i), i, ins), i), i), i))
<1>1. PICK def, live, c, d :
          /\ def = program[i].def /\ live = live_after[i] /\ c = Context(i, A, {}) /\ d = Context(i, A, {program[i].does})
  OBVIOUS
<1>2. Sound /\ live \subseteq Vreg /\ None \notin live /\ live \subseteq Later(i)
  BY <1>1, LiveLater DEF Placing, Sound
<1>3. PICK saved, x, back, done : /\ saved = Saved(s, i) /\ x = WriteThrough(Ran(saved, i, ins), i)
                                  /\ back = Returned(x, i) /\ done = Left(back, i)
  OBVIOUS
<1>4. Surely(c, s, live \ def, pins)
  BY <1>1
<1>5. (IsCall(i) => ~IsTerminator(program, i)) /\ (IsCall(i) \/ IsTerminator(program, i) => def = {} /\ live \ def = live)
  BY <1>1 DEF IsCall, IsTerminator, Placing, Selected
<1>6. Stays(c, live \ def, pins, s, saved)
  <2>1. CASE IsCall(i)
    <3>1. Stays(c, live \ def, pins, s, BeforeCall(s, i))
      BY <1>2, <1>4, CallStored
    <3> QED BY <1>3, <2>1, <3>1 DEF Saved
  <2>2. CASE ~IsCall(i) /\ IsLast(i) /\ IsTerminator(program, i)
    <3>1. Stays(c, live \ def, pins, s, StoreLiveOut(s, i))
      BY <1>2, <1>4, LiveOutStored
    <3> QED BY <1>3, <2>2, <3>1 DEF Saved
  <2>3. CASE ~IsCall(i) /\ ~(IsLast(i) /\ IsTerminator(program, i))
    <3>1. saved = s
      BY <1>3, <2>3 DEF Saved
    <3> QED BY <1>4, <3>1 DEF Stays
  <2> QED BY <2>1, <2>2, <2>3
<1>7. Surely(c, saved, live \ def, pins) /\ Whole(saved) /\ saved.pool = s.pool /\ saved.refused = s.refused
  BY <1>6 DEF Stays, Surely
<1>8. \A v : Holder(saved, v) = Holder(s, v)
  BY <1>7 DEF Holder
<1>9. ins.def = UNION {Holder(saved, v) : v \in def}
  BY <1>1, <1>8
<1>10. ~InSlots /\ AtHome(s, i) => AtHome(saved, i)
  <2> SUFFICES ASSUME ~InSlots, AtHome(s, i) PROVE AtHome(saved, i)
    OBVIOUS
  <2>1. ~IsCall(i)
    BY DEF InSlots, IsCall, Placing
  <2>2. CASE IsLast(i) /\ IsTerminator(program, i)
    <3>1. StoreLiveOut(s, i) = s
      <4>1. Surely(c, s, live_after[i], pins)
        BY <1>1, <1>4, <1>5, <2>2
      <4> QED BY <2>2, <4>1, OutSafe
    <3> QED BY <1>3, <2>1, <2>2, <3>1 DEF Saved
  <2>3. CASE ~(IsLast(i) /\ IsTerminator(program, i))
    BY <1>3, <2>1, <2>3 DEF Saved
  <2> QED BY <2>2, <2>3
<1>11. /\ Surely(d, back, live, <<>>) /\ ~back.refused
       /\ ~InSlots /\ AtHome(s, i) => AtHome(back, i)
       /\ IsTerminator(program, i) => back.stacked = saved.stacked /\ back.out = Append(saved.out, ins)
  <2>1. CASE IsCall(i)
    <3>1. PICK lost, y : lost = BehindCall(saved) /\ y = Fresh(lost, i, ins)
      OBVIOUS
    <3>2. \A r \in Reg \cap CallerSaved : saved.pool[r] \in live => saved.pool[r] \in saved.stacked
      <4>1. \A r \in Reg \cap CallerSaved : s.pool[r] \in live \ def => s.pool[r] \in BeforeCall(s, i).stacked
        BY <1>2, <1>4, CallStored
      <4>2. saved = BeforeCall(s, i)
        BY <1>3, <2>1 DEF Saved
      <4> QED BY <1>5, <1>7, <2>1, <4>1, <4>2
    <3>3. /\ Surely(c, lost, live, pins) /\ lost.refused = saved.refused
          /\ \A r \in Reg \cap CallerSaved : lost.pool[r] = None
      <4>1. Surely(c, saved, live, pins)
        BY <1>5, <1>7, <2>1
      <4>2. CallerSavedStored(saved, live)
        BY <3>2 DEF CallerSavedStored
      <4>3. Forgotten(c, live, pins, saved, BehindCall(saved))
        BY <1>2, <4>1, <4>2, CallForgets
      <4> QED BY <3>1, <4>3 DEF Forgotten
    <3>4. Surely(d, y, live, <<>>)
      <4>1. \A v \in program[i].def : \E r \in Reg : lost.pool[r] = v
        BY <1>1, <1>5, <2>1
      <4>2. ins.def = UNION {Holder(lost, v) : v \in program[i].def}
        BY <1>1, <1>5, <1>9, <2>1
      <4>3. Surely(Context(i, A, {}), lost, live_after[i] \ program[i].def, pins)
        BY <1>1, <1>5, <2>1, <3>3
      <4>4. Surely(Context(i, A, {program[i].does}), Fresh(lost, i, ins), live_after[i], <<>>)
        BY <3>3, <4>1, <4>2, <4>3, FreshSecured
      <4> QED BY <1>1, <3>1, <4>4
    <3>5. back = y
      <4>1. PICK P, K, X, O, F : Is(saved, P, K, X, O, F)
        BY <1>7, WholeIs
      <4>2. saved.pool = P /\ saved.stacked = K /\ saved.out = O
        BY <4>1, IsFields
      <4>3. PICK Q, p : Q = Append(O, ins) /\ p = [r \in Reg |-> IF r \in CallerSaved THEN None ELSE P[r]]
        OBVIOUS
      <4>4. x = Ran(saved, i, ins)
        BY <1>1, <1>3, <1>5, <2>1 DEF WriteThrough
      <4>5. x = [saved EXCEPT !.out = Q]
        BY <4>2, <4>3, <4>4 DEF Ran
      <4>6. Is(x, P, K, X, Q, F)
        BY <4>1, <4>5 DEF Is
      <4>7. x.pool = P
        BY <4>6, IsFields
      <4>8. back = [x EXCEPT !.pool = p]
        BY <1>3, <2>1, <4>3, <4>7 DEF Returned, BehindCall
      <4>9. Is(back, p, K, X, Q, F)
        BY <4>6, <4>8 DEF Is
      <4>10. lost = [saved EXCEPT !.pool = p]
        BY <3>1, <4>2, <4>3 DEF BehindCall
      <4>11. Is(lost, p, K, X, O, F)
        BY <4>1, <4>10 DEF Is
      <4>12. lost.stacked = K /\ lost.out = O
        BY <4>11, IsFields
      <4>13. K \ program[i].def = K
        BY <1>1, <1>5, <2>1
      <4>14. y = [lost EXCEPT !.out = Q, !.stacked = K]
        BY <3>1, <4>3, <4>12, <4>13 DEF Fresh
      <4>15. Is(y, p, K, X, Q, F)
        BY <4>11, <4>14 DEF Is
      <4> QED BY <4>9, <4>15 DEF Is
    <3>6. y.refused = lost.refused
      BY <3>1, <3>3, FreshFields DEF Surely
    <3>7. InSlots
      BY <2>1 DEF InSlots, IsCall, Placing
    <3> QED BY <1>5, <1>7, <2>1, <3>3, <3>4, <3>5, <3>6, <3>7
  <2>2. CASE ~IsCall(i)
    <3>1. back = x
      BY <1>3, <2>2 DEF Returned
    <3>2. PICK y : y = Fresh(saved, i, ins)
      OBVIOUS
    <3>3. Surely(d, y, live, <<>>)
      <4>1. \A v \in program[i].def : \E r \in Reg : saved.pool[r] = v
        BY <1>7
      <4>2. Surely(Context(i, A, {program[i].does}), Fresh(saved, i, ins), live_after[i], <<>>)
        BY <1>1, <1>7, <1>9, <2>2, <4>1, FreshSecured DEF IsCall
      <4> QED BY <1>1, <3>2, <4>2
    <3>4. /\ Surely(d, x, live, <<>>) /\ x.refused = saved.refused /\ (def = {} => x = y)
          /\ scan.spilled = {} /\ AtHome(saved, i) => AtHome(x, i)
      <4>1. \A v \in program[i].def : \E r \in Reg : saved.pool[r] = v
        BY <1>7
      <4>2. Surely(d, Fresh(saved, i, ins), live_after[i], <<>>)
        BY <1>1, <3>2, <3>3
      <4>3. /\ Surely(d, WriteThrough(Ran(saved, i, ins), i), live_after[i], <<>>)
            /\ WriteThrough(Ran(saved, i, ins), i).refused = saved.refused
            /\ program[i].def = {} => WriteThrough(Ran(saved, i, ins), i) = Fresh(saved, i, ins)
            /\ scan.spilled = {} /\ AtHome(saved, i) => AtHome(WriteThrough(Ran(saved, i, ins), i), i)
        BY <1>7, <4>1, <4>2, WrittenThrough
      <4> QED BY <1>1, <1>3, <3>2, <4>3, Zenon
    <3>5. y.stacked = saved.stacked \ def /\ y.out = Append(saved.out, ins)
      BY <1>1, <1>7, <3>2, FreshFields
    <3>6. ~InSlots => scan.spilled = {}
      BY DEF InSlots
    <3>7. IsTerminator(program, i) => saved.stacked \ def = saved.stacked
      BY <1>5
    <3> QED BY <1>5, <1>7, <1>10, <3>1, <3>4, <3>5, <3>6, <3>7
  <2> QED BY <2>1, <2>2
<1>12. /\ Surely(d, done, live, <<>>) /\ done.refused = back.refused
       /\ IsLast(i) /\ ~IsTerminator(program, i) /\ InSlots => live \subseteq done.stacked
       /\ IsTerminator(program, i) => done = back
       /\ ~InSlots /\ AtHome(back, i) => AtHome(done, i)
  <2>1. Surely(d, back, live_after[i], <<>>)
    BY <1>1, <1>11
  <2>2. /\ Surely(d, Left(back, i), live_after[i], <<>>) /\ Left(back, i).refused = back.refused
        /\ IsLast(i) /\ ~IsTerminator(program, i) /\ InSlots => live_after[i] \subseteq Left(back, i).stacked
        /\ IsTerminator(program, i) => Left(back, i) = back
        /\ ~InSlots /\ AtHome(back, i) => AtHome(Left(back, i), i)
    BY <2>1, LeftSurely
  <2> QED BY <1>1, <1>3, <2>2, Zenon
<1>13. /\ Whole(done) /\ OnlySaves(d, done.out)
       /\ \E B : Reaches(i, A, done.out, B) /\ Ready(As(done), live, B)
  BY <1>1, <1>12, SurelyMade
<1>14. IsTerminator(program, i) /\ IsLast(i) /\ InSlots => live \subseteq done.stacked
  <2> SUFFICES ASSUME IsTerminator(program, i), IsLast(i), InSlots PROVE live \subseteq done.stacked
    OBVIOUS
  <2>1. Surely(c, s, live, pins) /\ ~IsCall(i)
    BY <1>4, <1>5
  <2>2. live_after[i] \subseteq StoreLiveOut(s, i).stacked
    BY <1>1, <2>1, OutSafe
  <2>3. saved = StoreLiveOut(s, i)
    BY <1>3, <2>1 DEF Saved
  <2> QED BY <1>1, <1>11, <1>12, <2>2, <2>3
<1>15. Coded(i, done.out)
  <2>1. d.besides = {program[i].does} /\ c.besides = {}
    BY <1>1, ContextIs
  <2>2. /\ Len(done.out) \in Nat /\ Len(done.out) > 0
        /\ \A k \in 1 .. Len(done.out) : done.out[k].does \in Saves \cup {program[i].does}
    <3>1. PICK out : out = done.out
      OBVIOUS
    <3>2. /\ Len(out) \in Nat /\ (Len(out) = 0 => d.besides = {})
          /\ \A k \in 1 .. Len(out) : out[k].does \in Saves \cup {program[i].does}
      BY <1>13, <2>1, <3>1 DEF OnlySaves
    <3>3. d.besides # {}
      BY <2>1
    <3>4. Len(out) # 0
      BY <3>2, <3>3
    <3>5. Len(out) > 0
      BY <3>2, <3>4
    <3> QED BY <3>1, <3>2, <3>5
  <2>3. ASSUME IsTerminator(program, i)
        PROVE  /\ done.out[Len(done.out)].does = program[i].does
               /\ \A k \in 1 .. (Len(done.out) - 1) : done.out[k].does \in Saves
    <3>1. PICK out : out = saved.out
      OBVIOUS
    <3>2. done.out = Append(out, ins)
      BY <1>11, <1>12, <2>3, <3>1
    <3>3. OnlySaves(c, out)
      <4>1. OnlySaves(c, As(saved).out)
        BY <1>7 DEF Surely, Secured
      <4> QED BY <3>1, <4>1, AsFields
    <3>4. Len(out) \in Nat /\ \A k \in 1 .. Len(out) : out[k].does \in Saves
      BY <2>1, <3>3 DEF OnlySaves
    <3>5. PICK more : more = Append(out, ins)
      OBVIOUS
    <3>6. Len(more) = Len(out) + 1 /\ more[Len(out) + 1] = ins /\ \A k \in 1 .. Len(out) : more[k] = out[k]
      BY <3>4, <3>5
    <3>7. Len(more) - 1 = Len(out)
      BY <3>4, <3>6
    <3> QED BY <3>2, <3>4, <3>5, <3>6, <3>7
  <2> QED BY <2>2, <2>3 DEF Coded
<1> QED BY <1>1, <1>3, <1>11, <1>12, <1>13, <1>14, <1>15 DEF Made

(***************************************************************************)
(* Whoever is expected anywhere is a variable of the program.              *)
(***************************************************************************)
Naming ==
    allocator = "linear" =>
        /\ next = 0 => graph = FlowGraph(program) /\ \A b \in Block : live_in[b] \subseteq Named(program)
        /\ next > 0 => \A b \in Leaders(program) : BlockIn(program, live_after, b) \subseteq Named(program)

LEMMA NewInNamed ==
    ASSUME Sound, WellFormed(program), Selected(program), graph = FlowGraph(program),
           \A b \in Block : live_in[b] \subseteq Named(program), NEW b \in Block
    PROVE  NewIn(graph, live_in, b) \subseteq Named(program)
<1>1. DOMAIN program = 1 .. Len(program) /\ Len(program) \in Nat
  BY DEF WellFormed
<1>2. \A i \in DOMAIN program : UsesOf(program, i) \subseteq Named(program)
  BY DEF Named
<1>3. PICK text : text = graph.code[b]
  OBVIOUS
<1>4. \A k \in DOMAIN text : text[k].uses \subseteq Named(program)
  <2>1. CASE b \in Leaders(program)
    <3>1. PICK f, l : f = FirstExecutable(program, b) /\ l = LastOf(program, b)
      OBVIOUS
    <3>2. text \in Code /\ Len(text) = l + 1 - f /\ \A k \in 1 .. Len(text) : text[k] = Operands(program, f + k - 1)
      BY <1>3, <2>1, <3>1, BlockCode
    <3>3. b \in DOMAIN program /\ l \in DOMAIN program /\ l \in b .. Len(program) /\ f \in {b, b + 1}
      BY <2>1, <3>1, LastIs DEF Leaders, FirstExecutable
    <3>4. DOMAIN text = 1 .. Len(text) /\ Len(text) \in Nat
      BY <3>2 DEF Code
    <3>5. ASSUME NEW k \in DOMAIN text PROVE text[k].uses \subseteq Named(program)
      <4>1. f + k - 1 \in DOMAIN program
        BY <1>1, <3>2, <3>3, <3>4, <3>5
      <4>2. text[k].uses = UsesOf(program, f + k - 1)
        BY <3>2, <3>4, <3>5 DEF Operands
      <4> QED BY <1>2, <4>1, <4>2
    <3> QED BY <3>5
  <2>2. CASE b \notin Leaders(program)
    <3>1. text = <<>>
      BY <1>3, <2>2 DEF FlowGraph
    <3> QED BY <3>1
  <2> QED BY <2>1, <2>2
<1>5. Uses(graph, b) \subseteq Named(program)
  BY <1>3, <1>4 DEF Uses
<1>6. NewOut(graph, live_in, b) \subseteq Named(program)
  <2>1. \A s \in graph.succ[b] : \E e \in Edges(program) : s = e.to
    BY DEF FlowGraph
  <2>2. \A s \in graph.succ[b] : s \in Block
    <3>1. \A e \in Edges(program) : e.to \in Block
      BY EdgeIs, BlockCode
    <3> QED BY <2>1, <3>1
  <2>3. \A s \in graph.succ[b] : Across(graph, live_in, b, s) = live_in[s]
    BY <2>2 DEF Across, FlowGraph
  <2> QED BY <2>2, <2>3 DEF NewOut
<1> QED BY <1>5, <1>6 DEF NewIn

LEMMA NamingInductive == ASSUME Sound PROVE Spec => []Naming
<1>1. Init => Naming
  BY DEF Init, InitOf, SharedInit, Naming
<1>2. GreedyInv /\ Naming /\ [Next]_vars => Naming'
  <2> SUFFICES ASSUME GreedyInv, Naming, [Next]_vars PROVE Naming'
    OBVIOUS
  <2>1. CASE Greedy
    BY <2>1 DEF Greedy, Naming
  <2>2. CASE Linear
    <3>0. WellFormed(program) /\ Selected(program) /\ allocator = "linear" /\ allocator' = allocator
      BY <2>2 DEF GreedyInv, Sound, Linear
    <3>1. CASE Analyse
      <4>1. /\ program' = program /\ graph' = graph /\ next' = next /\ next = 0 /\ live_in' = Round
            /\ graph = FlowGraph(program) /\ \A b \in Block : live_in[b] \subseteq Named(program)
        BY <3>0, <3>1 DEF Analyse, Naming
      <4>2. \A b \in Block : Round[b] \subseteq Named(program)
        BY <3>0, <4>1, NewInNamed DEF Round
      <4> QED BY <4>1, <4>2 DEF Naming
    <3>2. CASE LinearStart
      <4>1. /\ program' = program /\ next' = 1 /\ next = 0 /\ live_after' = LiveAfterItems(program, graph, live_in) /\ Analysed
            /\ graph = FlowGraph(program) /\ \A b \in Block : live_in[b] \subseteq Named(program)
        BY <3>0, <3>2 DEF LinearStart, Analysed, Naming
      <4>2. Solved(program, graph, live_in)
        BY <4>1, AnalysisSolved
      <4>3. \A b \in Leaders(program) : BlockIn(program, live_after', b) \subseteq Named(program)
        BY <3>0, <4>1, <4>2, LeaderAnswer
      <4> QED BY <4>1, <4>3 DEF Naming
    <3>3. CASE Scan
      <4>1. program' = program /\ live_after' = live_after /\ next = 1 /\ next' = 1
        BY <3>3 DEF Scan, sharedVars, analysisVars, Scanning
      <4> QED BY <3>0, <4>1 DEF Naming
    <3>4. CASE Rewrite
      <4>1. program' = program /\ live_after' = live_after /\ next \in Nat /\ next > 0 /\ next' = next + 1
        BY <3>4 DEF Rewrite, analysisVars, GreedyInv
      <4> QED BY <3>0, <4>1 DEF Naming
    <3> QED BY <2>2, <3>1, <3>2, <3>3, <3>4 DEF Linear
  <2>3. CASE Machine \/ UNCHANGED vars
    <3>1. UNCHANGED allocVars
      BY <2>3 DEF Machine, Enter, Spill, Reload, Compute, Jumped, NotTaken, Called, vars
    <3> QED BY <3>1 DEF allocVars, sharedVars, analysisVars, Naming
  <2> QED BY <2>1, <2>2, <2>3 DEF Next, Machine
<1> QED BY <1>1, <1>2, GreedyInductive, PTL DEF Spec

(***************************************************************************)
(* A block is entered: who is handed over in a register is in his own.     *)
(***************************************************************************)
Bare(s, in) == [s EXCEPT !.pool = NoRegisters, !.stacked = Canonical \cap in]

LEMMA EmptyEntered ==
    ASSUME Sound, NEW s, Whole(s), NEW in
    PROVE  /\ Whole(Bare(s, in)) /\ Bare(s, in).stacked = Canonical \cap in
           /\ \A r \in Reg : Bare(s, in).pool[r] = None
           /\ Bare(s, in).spilled = s.spilled /\ Bare(s, in).out = s.out
           /\ Bare(s, in).refused = s.refused
<1>1. PICK P, K, X, O, F :
          /\ Is(s, P, K, X, O, F) /\ F \in BOOLEAN
          /\ s.pool = P /\ s.stacked = K /\ s.spilled = X /\ s.out = O /\ s.refused = F
  BY WholeIs
<1>2. PICK Q, L, t : Q = NoRegisters /\ L = Canonical \cap in /\ t = Bare(s, in)
  OBVIOUS
<1>3. Is(t, Q, L, X, O, F)
  BY <1>1, <1>2 DEF Bare, Is
<1>4. Q = [r \in Reg |-> Q[r]] /\ Distinct(Q) /\ \A r \in Reg : Q[r] = None
  BY <1>2 DEF NoRegisters, Distinct
<1>5. Whole(t)
  BY <1>1, <1>3, <1>4, IsWhole
<1>6. t.pool = Q /\ t.stacked = L /\ t.spilled = X /\ t.out = O /\ t.refused = F
  BY <1>3, IsFields
<1> QED BY <1>1, <1>2, <1>4, <1>5, <1>6

Received(s0, in, n, s) ==
    /\ Whole(s) /\ s.stacked = s0.stacked /\ s.spilled = s0.spilled /\ s.out = s0.out /\ s.refused = s0.refused
    /\ \A r \in Reg : s.pool[r] # None =>
          s.pool[r] \in in /\ HandedInRegister(s0, s.pool[r]) /\ scan.at[s.pool[r]] = r
    /\ \A k \in 1 .. n : Names[k] \in in /\ HandedInRegister(s0, Names[k]) => s.pool[scan.at[Names[k]]] # None

LEMMA OneReceived ==
    ASSUME Sound, \A v \in Vreg : scan.at[v] \in Reg \cup {None},
           NEW in \in SUBSET Vreg, NEW s0, NEW n \in Nat, n + 1 \in DOMAIN Names, NEW s, Received(s0, in, n, s)
    PROVE  Received(s0, in, n + 1, EnterOne(s, Names[n + 1], in))
<1>1. PICK v, r, t : v = Names[n + 1] /\ r = scan.at[v] /\ t = EnterOne(s, v, in)
  OBVIOUS
<1>2. v \in Vreg /\ v # None /\ \A k \in 1 .. n + 1 : k \in 1 .. n \/ Names[k] = v
  <2>1. \A k \in 1 .. n + 1 : k \in 1 .. n \/ k = n + 1
    OBVIOUS
  <2> QED BY <1>1, <2>1 DEF Sound
<1>3. HandedInRegister(s, v) <=> HandedInRegister(s0, v)
  BY DEF HandedInRegister, Received
<1>4. CASE v \in in /\ HandedInRegister(s0, v) /\ s.pool[r] = None
  <2>1. t = ClaimRegister(s, v, r)
    BY <1>1, <1>3, <1>4 DEF EnterOne
  <2>2. r \in Reg /\ r # None
    BY <1>1, <1>2, <1>4 DEF HandedInRegister
  <2>3. \A q \in Reg : s.pool[q] # v
    BY <1>1, <1>2, <1>4 DEF Received
  <2>4. /\ Whole(t) /\ t.pool[r] = v /\ \A q \in Reg : q # r => t.pool[q] = s.pool[q]
        /\ t.stacked = s.stacked /\ t.spilled = s.spilled /\ t.refused = s.refused /\ t.out = s.out
    <3>1. Whole(s)
      BY DEF Received
    <3>2. PICK x : x = ClaimRegister(s, v, r)
      OBVIOUS
    <3>3. /\ Whole(x) /\ x.pool[r] = v /\ (\A q \in Reg : q # r => x.pool[q] = s.pool[q])
          /\ x.stacked = s.stacked /\ x.spilled = s.spilled /\ x.refused = s.refused /\ x.out = s.out
      BY <1>2, <2>2, <2>3, <3>1, <3>2, ClaimWhole
    <3> QED BY <2>1, <3>2, <3>3
  <2>5. ASSUME NEW q \in Reg, t.pool[q] # None
        PROVE  t.pool[q] \in in /\ HandedInRegister(s0, t.pool[q]) /\ scan.at[t.pool[q]] = q
    <3>1. CASE q = r
      BY <1>1, <1>4, <2>4, <3>1
    <3>2. CASE q # r
      BY <2>4, <2>5, <3>2 DEF Received
    <3> QED BY <3>1, <3>2
  <2>6. ASSUME NEW k \in 1 .. n + 1, Names[k] \in in, HandedInRegister(s0, Names[k]) PROVE t.pool[scan.at[Names[k]]] # None
    <3>1. scan.at[Names[k]] \in Reg
      BY <2>6 DEF HandedInRegister
    <3>2. CASE Names[k] = v
      BY <1>1, <1>2, <2>4, <3>2
    <3>3. CASE k \in 1 .. n
      <4>1. s.pool[scan.at[Names[k]]] # None
        BY <2>6, <3>3 DEF Received
      <4> QED BY <1>2, <2>4, <3>1, <4>1
    <3> QED BY <1>2, <3>2, <3>3
  <2>7. t.stacked = s0.stacked /\ t.spilled = s0.spilled /\ t.out = s0.out /\ t.refused = s0.refused
    BY <2>4 DEF Received
  <2>8. Received(s0, in, n + 1, t)
    BY <2>4, <2>5, <2>6, <2>7 DEF Received
  <2> QED BY <1>1, <2>8
<1>5. CASE ~(v \in in /\ HandedInRegister(s0, v) /\ s.pool[r] = None)
  <2>1. t = s
    BY <1>1, <1>3, <1>5 DEF EnterOne
  <2>2. \A k \in 1 .. n + 1 : Names[k] \in in /\ HandedInRegister(s0, Names[k]) => s.pool[scan.at[Names[k]]] # None
    BY <1>1, <1>2, <1>5 DEF Received
  <2>3. Received(s0, in, n + 1, s)
    BY <2>2 DEF Received
  <2> QED BY <1>1, <2>1, <2>3
<1> QED BY <1>4, <1>5

LEMMA EnterUnfolded ==
    ASSUME NEW s, NEW b, NEW in, in = BlockIn(program, live_after, b), Len(Names) \in Nat
    PROVE  \E f : Rounds([over |-> "enter", live |-> in], Bare(s, in), Len(Names), f) /\ EnterBlock(s, b) = f[Len(Names)]
<1> DEFINE N == Len(Names)
           loop == [over |-> "enter", live |-> in]
           start == [s EXCEPT !.pool = NoRegisters, !.stacked = Canonical \cap in]
           Described(f) == f = [n \in 0 .. N |-> IF n = 0 THEN start ELSE EnterOne(f[n - 1], Names[n], in)]
           after == CHOOSE f : Described(f)
<1>1. \A x, n : LoopPass(loop, x, n) = EnterOne(x, Names[n], in)
  BY DEF LoopPass, LinearPass
<1>2. \A f : Unfolded(loop, start, N, f) <=> Described(f)
  <2> HIDE DEF loop, start
  <2> QED BY <1>1 DEF Unfolded
<1>3. Described(after)
  <2> HIDE DEF Described, loop, N, start
  <2>1. \E f : Described(f)
    <3>1. N \in Nat
      BY DEF N
    <3> QED BY <3>1, <1>2, LoopsUnfold
  <2> QED BY <2>1
<1>4. EnterBlock(s, b) = after[N]
  BY DEF EnterBlock
<1>5. Rounds(loop, start, N, after)
  <2>1. N \in Nat
    OBVIOUS
  <2> HIDE DEF Described, loop, N, after, start
  <2> QED BY <2>1, <1>2, <1>3, UnfoldedRounds
<1> HIDE DEF after
<1> QED BY <1>4, <1>5 DEF Bare

LEMMA BlockEntered ==
    ASSUME Sound, \A v \in Vreg : scan.at[v] \in Reg \cup {None},
           NEW s, Whole(s), NEW b, NEW in \in SUBSET Vreg, in = BlockIn(program, live_after, b)
    PROVE  Received(Bare(s, in), in, Len(Names), EnterBlock(s, b))
<1>0. PICK N, s0 : N = Len(Names) /\ s0 = Bare(s, in)
  OBVIOUS
<1> DEFINE loop == [over |-> "enter", live |-> in]
<1>1. N \in Nat /\ DOMAIN Names = 1 .. N
  BY <1>0 DEF Sound
<1>2. PICK f : Rounds(loop, s0, N, f) /\ EnterBlock(s, b) = f[N]
  BY <1>0, <1>1, EnterUnfolded
<1>3. \A x, n : LoopPass(loop, x, n) = EnterOne(x, Names[n], in)
  BY DEF LoopPass, LinearPass
<1> HIDE DEF loop
<1> DEFINE Good == {n \in 0 .. N : Received(s0, in, n, f[n])}
<1>4. 0 \in Good
  <2>1. Whole(s0) /\ \A r \in Reg : s0.pool[r] = None
    BY <1>0, EmptyEntered
  <2>2. Received(s0, in, 0, s0)
    BY <2>1 DEF Received
  <2> QED BY <1>1, <1>2, <2>2 DEF Rounds
<1>5. ASSUME NEW n \in 1 .. N, n - 1 \in Good PROVE n \in Good
  <2>1. PICK m : m = n - 1
    OBVIOUS
  <2>2. m \in Nat /\ m + 1 = n /\ n \in 0 .. N
    BY <1>1, <2>1
  <2>3. Received(s0, in, m, f[m])
    BY <1>5, <2>1
  <2>4. f[n] = EnterOne(f[m], Names[n], in)
    BY <1>2, <1>3, <2>1 DEF Rounds
  <2>5. Received(s0, in, m + 1, EnterOne(f[m], Names[m + 1], in))
    BY <1>1, <2>2, <2>3, OneReceived
  <2> QED BY <2>2, <2>4, <2>5
<1>6. N \in Good
  <2> HIDE DEF Good
  <2> QED BY <1>1, <1>4, <1>5, CountsUp
<1>7. Received(s0, in, N, f[N])
  BY <1>6
<1> QED BY <1>0, <1>2, <1>7

(***************************************************************************)
(* What every way into a block hands over: all that it expects in the      *)
(* slots, or, where nobody ever has to leave his register, everybody at    *)
(* home.                                                                   *)
(***************************************************************************)
Handing(b) ==
    [held |-> [r \in Reg |-> {v \in BlockIn(program, live_after, b) : ~InSlots /\ scan.at[v] = r}],
     stored |-> {v \in BlockIn(program, live_after, b) : InSlots}]

Rewriting ==
    /\ Sound /\ WellFormed(program) /\ Selected(program) /\ Flows(program, live_after, Value)
    /\ \A v \in Vreg : scan.at[v] \in Reg \cup {None}
    /\ \A b \in Leaders(program) : /\ BlockIn(program, live_after, b) \subseteq Named(program)
                                   /\ Supplied(program, live_after, b)
    /\ ~InSlots => Settled

LEMMA RewritingIs ==
    ASSUME Rewriting
    PROVE  /\ \A i \in DOMAIN program : /\ Placing(i) /\ i \in Nat /\ i # 0 /\ live_after[i] \subseteq Vreg
                                        /\ BlockIn(program, live_after, i) \subseteq Vreg
                                        /\ None \notin BlockIn(program, live_after, i)
           /\ DOMAIN program = 1 .. Len(program) /\ Len(program) \in Nat
           /\ ~InSlots => Canonical = {} /\ scan.spilled = {} /\ Settled
<1>1. DOMAIN program = 1 .. Len(program) /\ Len(program) \in Nat
  BY DEF Rewriting, WellFormed
<1>2. ASSUME NEW i \in DOMAIN program
      PROVE  /\ Placing(i) /\ i \in Nat /\ i # 0 /\ live_after[i] \subseteq Vreg
             /\ BlockIn(program, live_after, i) \subseteq Vreg /\ None \notin BlockIn(program, live_after, i)
  <2>1. Placing(i)
    BY DEF Rewriting, Placing
  <2>2. live_after[i] \subseteq Vreg /\ UsesOf(program, i) \subseteq Vreg /\ None \notin Vreg
    BY DEF Rewriting, Flows, Sound, Selected
  <2>3. BlockIn(program, live_after, i) \subseteq Vreg
    BY <2>2 DEF BlockIn
  <2> QED BY <1>1, <2>1, <2>2, <2>3
<1>3. ~InSlots => Canonical = {} /\ scan.spilled = {} /\ Settled
  BY DEF InSlots, Canonical, Rewriting
<1> QED BY <1>1, <1>2, <1>3

\* Two that a block expects are not at home in the same register.
LEMMA Neighbours ==
    ASSUME Rewriting, ~InSlots, NEW b \in Leaders(program), NEW v \in BlockIn(program, live_after, b)
    PROVE  /\ v \in Named(program) /\ scan.at[v] \in Reg /\ Hull(program, live_after, v).start <= b
           /\ \A w \in BlockIn(program, live_after, b) : scan.at[v] = scan.at[w] => v = w
<1>1. b \in DOMAIN program /\ b \in Nat
  BY RewritingIs DEF Leaders
<1>2. WellFormed(program) /\ Flows(program, live_after, Value) /\ Settled
  BY RewritingIs DEF Rewriting
<1>3. \A w \in BlockIn(program, live_after, b) : w \in Named(program) /\ scan.at[w] \in Reg
  BY <1>2 DEF Rewriting, Settled
<1>4. ASSUME NEW w \in BlockIn(program, live_after, b)
      PROVE  /\ Hull(program, live_after, w).start \in Nat /\ Hull(program, live_after, w).end \in Nat
             /\ Hull(program, live_after, w).start <= b /\ b < Hull(program, live_after, w).end
  <2>1. Interval(program, live_after, w, Hull(program, live_after, w))
    BY <1>2, HullIs
  <2>2. Hull(program, live_after, w).start <= b
    BY <2>1 DEF Interval
  <2>3. CASE w \in live_after[b]
    <3>1. HasLaterUse(w, b)
      BY <1>1, <1>2, <2>3, LivesOn
    <3> QED BY <1>1, <1>2, <2>1, <2>2, <3>1, EndsBehind DEF Interval
  <2>4. CASE w \notin live_after[b]
    <3>1. w \in UsesOf(program, b)
      BY <2>4 DEF BlockIn
    <3> QED BY <1>1, <2>1, <2>2, <3>1 DEF Interval
  <2> QED BY <2>3, <2>4
<1>5. ASSUME NEW w \in BlockIn(program, live_after, b), scan.at[v] = scan.at[w], v # w PROVE FALSE
  <2>1. PICK g, h : g = Hull(program, live_after, v) /\ h = Hull(program, live_after, w)
    OBVIOUS
  <2>2. g.end <= h.start \/ h.end <= g.start
    BY <1>2, <1>3, <1>5, <2>1 DEF Settled
  <2>3. /\ g.start \in Nat /\ g.end \in Nat /\ g.start <= b /\ b < g.end
        /\ h.start \in Nat /\ h.end \in Nat /\ h.start <= b /\ b < h.end
    BY <1>4, <2>1
  <2> QED BY <1>1, <2>2, <2>3
<1> QED BY <1>3, <1>4, <1>5

LEMMA EnteredReady ==
    ASSUME Rewriting, NEW b \in Leaders(program), NEW s, Whole(s), s.out = <<>>, ~InSlots => s.spilled = {}
    PROVE  /\ Whole(EnterBlock(s, b)) /\ EnterBlock(s, b).out = <<>> /\ EnterBlock(s, b).refused = s.refused
           /\ Ready(As(EnterBlock(s, b)), BlockIn(program, live_after, b), Handing(b))
           /\ ~InSlots => /\ AtHome(EnterBlock(s, b), b)
                          /\ \A v \in BlockIn(program, live_after, b) : EnterBlock(s, b).pool[scan.at[v]] = v
<1>1. PICK in, s0, t, K, N : /\ in = BlockIn(program, live_after, b) /\ s0 = Bare(s, in)
                             /\ t = EnterBlock(s, b) /\ K = Handing(b) /\ N = Len(Names)
  OBVIOUS
<1>2. in \subseteq Vreg /\ None \notin in /\ Sound /\ b \in DOMAIN program /\ b \in Nat /\ \A v \in Vreg : scan.at[v] \in Reg \cup {None}
  <2>1. b \in DOMAIN program
    BY DEF Leaders
  <2> QED BY <1>1, <2>1, RewritingIs DEF Rewriting
<1>3. Received(s0, in, N, t)
  BY <1>1, <1>2, BlockEntered
<1>4. s0.stacked = Canonical \cap in /\ s0.spilled = s.spilled /\ s0.out = s.out /\ s0.refused = s.refused
  BY <1>1, <1>2, EmptyEntered
<1>5. Whole(t) /\ t.stacked = Canonical \cap in /\ t.spilled = s.spilled /\ t.out = <<>> /\ t.refused = s.refused
  BY <1>3, <1>4 DEF Received
<1>6. /\ K.held = [r \in Reg |-> {v \in in : ~InSlots /\ scan.at[v] = r}]
      /\ K.stored = {v \in in : InSlots}
  BY <1>1 DEF Handing
<1>7. As(t).pool = t.pool /\ As(t).clean = t.stacked /\ As(t).slots = t.stacked
  BY AsFields
<1>8. CASE InSlots
  <2>1. in \subseteq Canonical
    BY <1>1, <1>8 DEF Rewriting, Supplied, LeftBehind, Canonical
  <2>2. \A r \in Reg : t.pool[r] = None
    BY <1>3, <2>1 DEF Received, HandedInRegister
  <2>3. t.stacked = in /\ K.stored = in
    BY <1>5, <1>6, <1>8, <2>1
  <2>4. Ready(As(t), in, K)
    BY <1>2, <1>7, <2>2, <2>3 DEF Ready, Mapped
  <2> QED BY <1>1, <1>5, <1>8, <2>4
<1>9. CASE ~InSlots
  <2>1. Canonical = {} /\ scan.spilled = {} /\ t.stacked = {} /\ t.spilled = {} /\ s0.spilled = {}
    BY <1>4, <1>5, <1>9, RewritingIs
  <2>2. \A v \in in : scan.at[v] \in Reg /\ HandedInRegister(s0, v)
    BY <1>1, <1>2, <1>9, <2>1, Neighbours DEF HandedInRegister, Sound
  <2>3. ASSUME NEW v \in in PROVE t.pool[scan.at[v]] = v
    <3>1. PICK k \in 1 .. N : Names[k] = v
      BY <1>1, <1>2, <2>3 DEF Sound
    <3>2. t.pool[scan.at[v]] # None
      BY <1>3, <2>2, <2>3, <3>1 DEF Received
    <3>3. PICK w : w = t.pool[scan.at[v]]
      OBVIOUS
    <3>4. w \in in /\ scan.at[w] = scan.at[v]
      BY <1>3, <2>2, <2>3, <3>2, <3>3 DEF Received
    <3> QED BY <1>1, <1>9, <2>3, <3>3, <3>4, Neighbours
  <2>4. AtHome(t, b)
    <3>1. ASSUME NEW r \in Reg, t.pool[r] # None
          PROVE  t.pool[r] \in Named(program) /\ scan.at[t.pool[r]] = r /\ Hull(program, live_after, t.pool[r]).start <= b
      <4>1. t.pool[r] \in in /\ scan.at[t.pool[r]] = r
        BY <1>3, <3>1 DEF Received
      <4> QED BY <1>1, <1>9, <4>1, Neighbours
    <3> QED BY <2>1, <3>1 DEF AtHome
  <2>5. ASSUME NEW r \in Reg, t.pool[r] \in in PROVE t.pool[r] \in K.held[r]
    <3>1. scan.at[t.pool[r]] = r
      BY <1>2, <1>3, <2>5 DEF Received
    <3> QED BY <1>6, <1>9, <2>5, <3>1
  <2>6. \A v \in in : Mapped(As(t), v)
    BY <1>7, <2>2, <2>3 DEF Mapped
  <2>7. Ready(As(t), in, K)
    BY <1>7, <2>1, <2>5, <2>6 DEF Ready
  <2> QED BY <1>1, <1>5, <2>3, <2>4, <2>7
<1> QED BY <1>8, <1>9

(***************************************************************************)
(* An item of the text, from where it begins: A is known of the machine,   *)
(* and s is true of it as far as the item and those behind it go.          *)
(***************************************************************************)
Standing(i, A, s) ==
    /\ Whole(s) /\ s.out = <<>> /\ ~s.refused
    /\ Ready(As(s), BlockIn(program, live_after, i), A)
    /\ ~InSlots => AtHome(s, i)

ItemDone(i, A, used, placed) ==
    /\ placed.refused => Crowded(Sources(i))
    /\ ~placed.refused => /\ Made(i, A, placed, Rewritten(i, used, placed))
                          /\ ~InSlots => AtHome(placed, i)

LEMMA StandsSurely ==
    ASSUME NEW i, NEW A, NEW s, Standing(i, A, s)
    PROVE  Surely(Context(i, A, {}), s, BlockIn(program, live_after, i), <<>>)
<1>1. PICK c : c = Context(i, A, {})
  OBVIOUS
<1>2. c.item = i /\ c.from = A /\ c.kept = {} /\ c.besides = {}
  BY <1>1, ContextIs
<1>3. Whole(s) /\ s.out = <<>> /\ Ready(As(s), BlockIn(program, live_after, i), A)
  BY DEF Standing
<1>4. As(s).out = <<>> /\ State(As(s))
  BY <1>3, AsFields DEF Whole
<1>5. OnlySaves(c, <<>>)
  BY <1>2 DEF OnlySaves
<1>6. Reaches(i, A, <<>>, A) /\ Pinned(i, <<>>, A)
  BY ReachesNothing DEF Pinned
<1>7. Secured(c, As(s), BlockIn(program, live_after, i), <<>>)
  BY <1>2, <1>3, <1>4, <1>5, <1>6 DEF Secured
<1> QED BY <1>1, <1>3, <1>7 DEF Surely

LEMMA ItemStands ==
    ASSUME Rewriting, NEW i \in DOMAIN program, NEW A, NEW s, Standing(i, A, s)
    PROVE  ItemDone(i, A, PlaceUses(s, i), PlaceDef(PlaceUses(s, i).s, i))
<1>1. PICK c, need, used, placed, less :
          /\ c = Context(i, A, {}) /\ need = BlockIn(program, live_after, i)
          /\ used = PlaceUses(s, i) /\ placed = PlaceDef(used.s, i) /\ less = live_after[i] \ program[i].def
  OBVIOUS
<1>2. Placing(i) /\ live_after[i] \subseteq Vreg /\ need \subseteq Vreg
  BY <1>1, RewritingIs
<1>3. c.item = i
  BY <1>1, ContextIs
<1>4. IsLabel(program, i) => Sources(i) = {} /\ program[i].def = {}
  BY <1>2 DEF Placing, Selected, IsLabel, Sources
<1>5. Needs(i, need)
  BY <1>1, <1>2, <1>4 DEF Needs, BlockIn, Sources
<1>6. less \subseteq need
  BY <1>1, <1>4 DEF BlockIn
<1>7. Surely(c, s, need, <<>>) /\ ~s.refused
  BY <1>1, StandsSurely DEF Standing
<1>8. PlacedUses(c, need, s, Len(program[i].uses), used)
  BY <1>1, <1>2, <1>3, <1>5, <1>7, UsesPlaced
<1>9. CASE used.s.refused
  <2>1. placed = used.s
    BY <1>1, <1>9 DEF PlaceDef
  <2>2. Crowded(Sources(i))
    BY <1>3, <1>8, <1>9 DEF PlacedUses
  <2> QED BY <1>1, <1>9, <2>1, <2>2 DEF ItemDone
<1>10. CASE ~used.s.refused
  <2>1. PICK t, pins : t = used.s /\ pins = used.regs
    OBVIOUS
  <2>2. Surely(c, t, need, pins) /\ Len(pins) = Len(program[i].uses) /\ (s.stacked = {} => t = s) /\ ~t.refused
    BY <1>8, <1>10, <2>1 DEF PlacedUses
  <2>3. Surely(c, t, less, pins)
    BY <1>6, <2>2, NeedLess DEF Surely
  <2>4. Surely(c, placed, less, pins) /\ ~placed.refused /\ \A v \in program[i].def : \E r \in Reg : placed.pool[r] = v
    <3>1. Surely(c, t, live_after[i] \ program[i].def, pins)
      BY <1>1, <2>3
    <3>2. Destined(c, i, pins, PlaceDef(t, i))
      BY <1>2, <2>2, <3>1, DefPlaced
    <3>3. placed = PlaceDef(t, i) /\ less = live_after[i] \ program[i].def
      BY <1>1, <2>1
    <3> QED BY <3>2, <3>3 DEF Destined
  <2>5. ~InSlots => AtHome(placed, i)
    <3> SUFFICES ASSUME ~InSlots PROVE AtHome(placed, i)
      OBVIOUS
    <3>1. AtHome(s, i) /\ Settled
      BY RewritingIs DEF Standing
    <3>2. AtHome(t, i)
      BY <2>2, <3>1 DEF AtHome
    <3> QED BY <1>1, <1>2, <2>1, <2>2, <2>3, <3>1, <3>2, DefAtHome
  <2>6. Made(i, A, placed, Rewritten(i, used, placed))
    <3>1. PICK ins : ins = Emitted(i, pins, UNION {Holder(placed, v) : v \in program[i].def})
      OBVIOUS
    <3>2. ins.does = program[i].does /\ ins.uses = pins /\ ins.def = UNION {Holder(placed, v) : v \in program[i].def}
      BY <3>1 DEF Emitted
    <3>3. Rewritten(i, used, placed) = Left(Returned(WriteThrough(Ran(Saved(placed, i), i, ins), i), i), i)
      BY <2>1, <3>1 DEF Rewritten
    <3>4. CASE IsLabel(program, i)
      <4>1. program[i].def = {} /\ less = live_after[i] /\ ~IsTerminator(program, i) /\ ~IsCall(i)
        BY <1>1, <1>4, <3>4 DEF IsLabel, IsTerminator, IsCall
      <4>2. Saved(placed, i) = placed /\ Ran(placed, i, ins) = placed /\ WriteThrough(placed, i) = placed /\ Returned(placed, i) = placed
        BY <3>4, <4>1 DEF Saved, Ran, WriteThrough, Returned
      <4>3. Rewritten(i, used, placed) = Left(placed, i)
        BY <3>3, <4>2
      <4>4. Made(i, A, placed, Left(placed, i))
        BY <1>1, <1>2, <2>4, <3>4, <4>1, LabelMade
      <4> QED BY <4>3, <4>4
    <3>5. CASE ~IsLabel(program, i)
      <4>1. Made(i, A, placed, Left(Returned(WriteThrough(Ran(Saved(placed, i), i, ins), i), i), i))
        <5>1. Surely(Context(i, A, {}), placed, live_after[i] \ program[i].def, pins)
          BY <1>1, <2>4
        <5>2. Placing(i) /\ live_after[i] \subseteq Vreg /\ ~placed.refused /\ Len(pins) = Len(program[i].uses)
          BY <1>2, <2>2, <2>4
        <5>3. \A v \in program[i].def : \E r \in Reg : placed.pool[r] = v
          BY <2>4
        <5> QED BY <3>2, <3>5, <5>1, <5>2, <5>3, InstructionMade
      <4> QED BY <3>3, <4>1
    <3> QED BY <3>4, <3>5
  <2> QED BY <1>1, <2>4, <2>5, <2>6 DEF ItemDone
<1> QED BY <1>9, <1>10

(***************************************************************************)
(* From item to item: K has what is known of the machine as each of them   *)
(* begins.  What the code of one leads to is what the next one starts      *)
(* from, in the text or where it goes.                                     *)
(***************************************************************************)
Knows(B, C) == C.stored \subseteq B.stored /\ \A r \in Reg : C.held[r] \subseteq B.held[r]

Bridges(i, K, out, tr) ==
    /\ Coded(i, out) /\ tr[0] = K[i] /\ Trace(i, out, tr)
    /\ FallsTo(program, i) => Knows(tr[Len(out)], K[i + 1])
    /\ GoesTo(program, i) => Knows(tr[Len(out)], K[LabelPlace(program, program[i].to)])

Waits(i, A) ==
    /\ Whole(rw) /\ rw.out = <<>> /\ ~rw.refused
    /\ ~InSlots => AtHome(rw, i)
    /\ ~Leads(program, i) => Ready(As(rw), BlockIn(program, live_after, i), A)

Story(K) ==
    /\ DOMAIN code = DOMAIN program
    /\ \A b \in Leaders(program) : K[b] = Handing(b)
    /\ next \in DOMAIN program => Waits(next, K[next])
    /\ \A i \in 1 .. (next - 1) : i \in DOMAIN program /\ \E tr : Bridges(i, K, code[i], tr)
    /\ next > 1 /\ ~InSlots => \A v \in BlockIn(program, live_after, 1) : arriving[scan.at[v]] = v

LEMMA RewritingHolds ==
    ASSUME Sound, GreedyInv, Planning, Naming, allocator = "linear", Handled, scan.todo = {}
    PROVE  Rewriting
<1>1. WellFormed(program) /\ Selected(program) /\ next > 0
  BY DEF GreedyInv, Sound, Handled, Handles
<1>2. Flows(program, live_after, Value) /\ \A v \in Vreg : scan.at[v] \in Reg \cup {None}
  BY <1>1 DEF Planning, Planned, Manned
<1>3. \A b \in Leaders(program) : /\ BlockIn(program, live_after, b) \subseteq Named(program)
                                  /\ Supplied(program, live_after, b)
  BY <1>1 DEF Naming, Handled, Handles
<1>4. HomesApart
  BY PlannedApart
<1>5. ~InSlots => Settled
  <2> SUFFICES ASSUME ~InSlots PROVE Settled
    OBVIOUS
  <2>1. scan.spilled = {} /\ Covered(program, live_after)
    BY DEF InSlots, Handled, Handles
  <2> QED BY <1>1, <1>4, <2>1 DEF Settled, HomesApart
<1> QED BY <1>1, <1>2, <1>3, <1>5 DEF Rewriting

\* Nobody has begun.
LEMMA StoryBegins ==
    ASSUME Rewriting, next = 1, Uncoded, rw = NoRewriting
    PROVE  \E K : Story(K)
<1>1. PICK K : K = [i \in DOMAIN program |-> Handing(i)]
  OBVIOUS
<1>2. \A b \in Leaders(program) : K[b] = Handing(b)
  BY <1>1 DEF Leaders
<1>3. Leads(program, 1)
  BY DEF Leads
<1>4. Waits(1, K[1])
  <2>1. PICK P, none, empty : P = NoRegisters /\ none = {} /\ empty = <<>>
    OBVIOUS
  <2>2. Is(rw, P, none, none, empty, FALSE)
    BY <2>1 DEF NoRewriting, Is
  <2>3. rw.pool = P /\ rw.stacked = none /\ rw.spilled = none /\ rw.out = empty /\ rw.refused = FALSE
    BY <2>2, IsFields
  <2>4. P = [r \in Reg |-> P[r]] /\ Distinct(P) /\ \A r \in Reg : P[r] = None
    BY <2>1 DEF NoRegisters, Distinct
  <2>5. Whole(rw)
    BY <2>2, <2>4, IsWhole
  <2>6. AtHome(rw, 1)
    BY <2>1, <2>3, <2>4 DEF AtHome
  <2> QED BY <1>3, <2>1, <2>3, <2>5, <2>6 DEF Waits
<1>5. Story(K)
  BY <1>2, <1>4 DEF Story, Uncoded
<1> QED BY <1>5

\* What the last item of a block leaves is what its successors expect.
LEMMA HandedOver ==
    ASSUME Rewriting, NEW i \in DOMAIN program, IsLast(i), NEW A, NEW s, NEW done, Made(i, A, s, done),
           ~InSlots => AtHome(s, i), NEW B, Ready(As(done), live_after[i], B),
           NEW j, BlockIn(program, live_after, j) \subseteq live_after[i]
    PROVE  Knows(B, Handing(j))
<1>1. PICK in, K : in = BlockIn(program, live_after, j) /\ K = Handing(j)
  OBVIOUS
<1>2. /\ K.held = [r \in Reg |-> {v \in in : ~InSlots /\ scan.at[v] = r}]
      /\ K.stored = {v \in in : InSlots}
  BY <1>1 DEF Handing
<1>3. As(done).pool = done.pool /\ As(done).clean = done.stacked /\ As(done).slots = done.stacked
  BY AsFields
<1>4. CASE InSlots
  <2>1. live_after[i] \subseteq done.stacked
    BY <1>4 DEF Made
  <2>2. \A v \in in : v \in B.stored
    BY <1>1, <1>3, <2>1 DEF Ready
  <2>3. \A r \in Reg : K.held[r] = {}
    BY <1>2, <1>4
  <2> QED BY <1>1, <1>2, <2>2, <2>3 DEF Knows
<1>5. CASE ~InSlots
  <2>1. AtHome(done, i)
    BY <1>5 DEF Made
  <2>2. ASSUME NEW r \in Reg, NEW v \in in, scan.at[v] = r PROVE v \in B.held[r]
    <3>1. v \in live_after[i] /\ v \in Vreg /\ v # None
      BY <1>1, RewritingIs DEF Rewriting, Sound
    <3>2. PICK q \in Reg : done.pool[q] = v
      BY <1>3, <2>1, <3>1 DEF Ready, AtHome, Mapped
    <3>3. q = r
      BY <2>1, <2>2, <3>1, <3>2 DEF AtHome
    <3> QED BY <1>3, <3>1, <3>2, <3>3 DEF Ready
  <2> QED BY <1>1, <1>2, <1>5, <2>2 DEF Knows
<1> QED BY <1>4, <1>5

\* An item that is behind another one's last is where a block ends.
LEMMA EndsHere ==
    ASSUME Rewriting, NEW i \in DOMAIN program
    PROVE  /\ FallsTo(program, i) => /\ i + 1 \in DOMAIN program
                                     /\ BlockIn(program, live_after, i + 1) \subseteq live_after[i]
                                     /\ ~Leads(program, i + 1) => BlockIn(program, live_after, i + 1) = live_after[i]
                                     /\ Leads(program, i + 1) => IsLast(i) /\ i + 1 \in Leaders(program)
           /\ GoesTo(program, i) => /\ LabelPlace(program, program[i].to) \in Leaders(program)
                                    /\ BlockIn(program, live_after, LabelPlace(program, program[i].to)) \subseteq live_after[i]
                                    /\ IsLast(i)
<1>1. WellFormed(program) /\ Selected(program) /\ Flows(program, live_after, Value) /\ i \in Nat
  BY RewritingIs DEF Rewriting
<1>2. i + 1 \notin DOMAIN program \/ Leads(program, i + 1) => IsLast(i)
  BY <1>1, InBlock DEF IsLast
<1>3. FallsTo(program, i) => i + 1 \in DOMAIN program /\ BlockIn(program, live_after, i + 1) \subseteq live_after[i]
  BY <1>1, Follows DEF FallsTo
<1>4. i + 1 \in DOMAIN program /\ ~Leads(program, i + 1) => BlockIn(program, live_after, i + 1) = live_after[i]
  BY <1>1 DEF Flows
<1>5. ASSUME GoesTo(program, i)
      PROVE  /\ LabelPlace(program, program[i].to) \in Leaders(program)
             /\ BlockIn(program, live_after, LabelPlace(program, program[i].to)) \subseteq live_after[i] /\ IsLast(i)
  <2>1. i + 1 \notin DOMAIN program \/ Leads(program, i + 1)
    <3>1. IsTerminator(program, (i + 1) - 1)
      BY <1>1, <1>5 DEF GoesTo, IsTerminator
    <3> QED BY <3>1 DEF Leads
  <2>2. LabelPlace(program, program[i].to) \in Leaders(program)
    <3>1. \E j \in DOMAIN program : IsLabel(program, j) /\ program[j].to = program[i].to
      BY <1>1, <1>5 DEF GoesTo, Selected
    <3>2. LabelPlace(program, program[i].to) \in DOMAIN program /\ IsLabel(program, LabelPlace(program, program[i].to))
      BY <3>1 DEF LabelPlace
    <3> QED BY <3>2 DEF Leaders, Leads
  <2> QED BY <1>1, <1>2, <1>5, <2>1, <2>2, Follows
<1> QED BY <1>2, <1>3, <1>4, <1>5 DEF Leaders

(***************************************************************************)
(* One item is rewritten, or there are more operands than registers.       *)
(***************************************************************************)
Enters(i, t) == ~InSlots => \A v \in BlockIn(program, live_after, i) : t.pool[scan.at[v]] = v

LEMMA BlockStands ==
    ASSUME Rewriting, NEW K, Story(K), next \in DOMAIN program
    PROVE  /\ Standing(next, K[next], Entered(rw, next))
           /\ next = 1 => Enters(1, Entered(rw, next))
<1>1. PICK i, s, A : i = next /\ s = Entered(rw, i) /\ A = K[i]
  OBVIOUS
<1>2. Waits(i, A) /\ i \in DOMAIN program
  BY <1>1 DEF Story
<1>3. CASE Leads(program, i)
  <2>1. i \in Leaders(program) /\ A = Handing(i) /\ s = EnterBlock(rw, i)
    BY <1>1, <1>2, <1>3 DEF Leaders, Entered, Story
  <2>2. Whole(rw) /\ rw.out = <<>> /\ (~InSlots => rw.spilled = {}) /\ ~rw.refused
    BY <1>2 DEF Waits, AtHome
  <2>3. /\ Whole(s) /\ s.out = <<>> /\ s.refused = rw.refused
        /\ Ready(As(s), BlockIn(program, live_after, i), Handing(i))
        /\ ~InSlots => AtHome(s, i) /\ \A v \in BlockIn(program, live_after, i) : s.pool[scan.at[v]] = v
    BY <2>1, <2>2, EnteredReady
  <2> QED BY <1>1, <2>1, <2>2, <2>3 DEF Standing, Enters
<1>4. CASE ~Leads(program, i)
  <2>1. s = rw /\ i # 1
    BY <1>1, <1>4 DEF Entered, Leads
  <2>2. Standing(i, A, rw)
    BY <1>2, <1>4 DEF Waits, Standing
  <2> QED BY <1>1, <2>1, <2>2
<1> QED BY <1>3, <1>4

RewrittenTo(i, A, done) ==
    /\ \E placed : Made(i, A, placed, done) /\ (~InSlots => AtHome(placed, i))
    /\ rw' = [done EXCEPT !.out = <<>>] /\ code' = [code EXCEPT ![i] = done.out]
    /\ i # 1 => arriving' = arriving
    /\ i = 1 /\ ~InSlots => \A v \in BlockIn(program, live_after, 1) : arriving'[scan.at[v]] = v

LEMMA OneRewritten ==
    ASSUME Rewriting, NEW K, Story(K), Rewrite
    PROVE  /\ rw'.refused => Crowded(Sources(next))
           /\ ~rw'.refused => \E done : RewrittenTo(next, K[next], done)
<1>1. next \in DOMAIN program /\ ~rw.refused
  BY RewritingIs DEF Rewrite
<1>2. PICK i, A : i = next /\ A = K[next]
  OBVIOUS
<1>3. PICK entered \in {Entered(rw, next)} :
      \E used \in {PlaceUses(entered, next)} :
      \E placed \in {PlaceDef(used.s, next)} :
          IF Cardinality(UsesOf(program, next)) > Len(Bank) \/ placed.refused
          THEN /\ rw' = [rw EXCEPT !.refused = TRUE]
               /\ UNCHANGED <<code, arriving>>
          ELSE /\ \E done \in {Rewritten(next, used, placed)} :
                      rw' = [done EXCEPT !.out = <<>>] /\ code' = [code EXCEPT ![next] = done.out]
               /\ arriving' = IF next = 1 THEN entered.pool ELSE arriving
  BY DEF Rewrite
<1>4. PICK used \in {PlaceUses(entered, next)} :
      \E placed \in {PlaceDef(used.s, next)} :
          IF Cardinality(UsesOf(program, next)) > Len(Bank) \/ placed.refused
          THEN /\ rw' = [rw EXCEPT !.refused = TRUE]
               /\ UNCHANGED <<code, arriving>>
          ELSE /\ \E done \in {Rewritten(next, used, placed)} :
                      rw' = [done EXCEPT !.out = <<>>] /\ code' = [code EXCEPT ![next] = done.out]
               /\ arriving' = IF next = 1 THEN entered.pool ELSE arriving
  BY <1>3
<1>5. PICK placed \in {PlaceDef(used.s, next)} :
          IF Cardinality(UsesOf(program, next)) > Len(Bank) \/ placed.refused
          THEN /\ rw' = [rw EXCEPT !.refused = TRUE]
               /\ UNCHANGED <<code, arriving>>
          ELSE /\ \E done \in {Rewritten(next, used, placed)} :
                      rw' = [done EXCEPT !.out = <<>>] /\ code' = [code EXCEPT ![next] = done.out]
               /\ arriving' = IF next = 1 THEN entered.pool ELSE arriving
  BY <1>4
<1>6. Standing(i, A, entered) /\ (i = 1 => Enters(1, entered))
  BY <1>1, <1>2, <1>3, BlockStands
<1>7. ItemDone(i, A, used, placed)
  <2>1. ItemDone(i, A, PlaceUses(entered, i), PlaceDef(PlaceUses(entered, i).s, i))
    BY <1>1, <1>2, <1>6, ItemStands
  <2>2. used = PlaceUses(entered, i) /\ placed = PlaceDef(PlaceUses(entered, i).s, i)
    BY <1>2, <1>4, <1>5
  <2> QED BY <2>1, <2>2
<1>8. CASE Cardinality(UsesOf(program, next)) > Len(Bank) \/ placed.refused
  <2>1. Crowded(Sources(next))
    BY <1>2, <1>7, <1>8 DEF ItemDone, Crowded, Sources
  <2>2. rw'.refused = TRUE
    <3>1. rw' = [rw EXCEPT !.refused = TRUE]
      BY <1>5, <1>8
    <3>2. Whole(rw)
      BY <1>1 DEF Story, Waits
    <3> QED BY <3>1, <3>2 DEF Whole, Is
  <2> QED BY <2>1, <2>2
<1>9. CASE ~(Cardinality(UsesOf(program, next)) > Len(Bank) \/ placed.refused)
  <2>1. PICK done : done = Rewritten(i, used, placed)
    OBVIOUS
  <2>2. rw' = [done EXCEPT !.out = <<>>] /\ code' = [code EXCEPT ![i] = done.out]
    BY <1>2, <1>5, <1>9, <2>1
  <2>3. arriving' = IF next = 1 THEN entered.pool ELSE arriving
    BY <1>5, <1>9
  <2>4. Made(i, A, placed, done) /\ (~InSlots => AtHome(placed, i))
    BY <1>7, <1>9, <2>1 DEF ItemDone
  <2>5. RewrittenTo(i, A, done)
    BY <1>2, <1>6, <2>2, <2>3, <2>4 DEF RewrittenTo, Enters
  <2>6. ~rw'.refused
    <3>1. Whole(done) /\ ~done.refused
      BY <2>4 DEF Made
    <3>2. [done EXCEPT !.out = <<>>].refused = done.refused
      BY <3>1, OutWhole
    <3> QED BY <2>2, <3>1, <3>2
  <2> QED BY <1>2, <2>5, <2>6
<1> QED BY <1>8, <1>9

\* The story goes on.
LEMMA SameBridges ==
    ASSUME program' = program, NEW i, NEW K, NEW out, code'[i] = out, NEW tr, Bridges(i, K, out, tr)
    PROVE  Bridges(i, K, code[i], tr)'
<1>1. Trace(i, out, tr) => Trace(i, code[i], tr)'
  BY DEF Trace, Emits, Stores, Loads, Runs
<1>2. Coded(i, out) => Coded(i, code[i])'
  BY DEF Coded
<1> QED BY <1>1, <1>2 DEF Bridges, Knows

\* Where K agrees with H from here on so do the bridges.
LEMMA OtherBridges ==
    ASSUME NEW i, NEW K, NEW H, NEW out, NEW tr, Bridges(i, K, out, tr), H[i] = K[i],
           FallsTo(program, i) => H[i + 1] = K[i + 1],
           GoesTo(program, i) => H[LabelPlace(program, program[i].to)] = K[LabelPlace(program, program[i].to)]
    PROVE  Bridges(i, H, out, tr)
BY DEF Bridges

ToldOn(i, K, done, H, tr) ==
    /\ Bridges(i, H, done.out, tr)
    /\ \A j \in DOMAIN program : j # i + 1 \/ j \in Leaders(program) => H[j] = K[j]
    /\ i + 1 \in DOMAIN program /\ ~Leads(program, i + 1) =>
           Ready(As(done), BlockIn(program, live_after, i + 1), H[i + 1])
Unmoved(K) == \A b \in Leaders(program) : K[b] = Handing(b)

LEMMA NewBridges ==
    ASSUME Rewriting, NEW i \in DOMAIN program, NEW K, Unmoved(K), NEW done, NEW placed,
           Made(i, K[i], placed, done), ~InSlots => AtHome(placed, i)
    PROVE  \E H, tr : ToldOn(i, K, done, H, tr)
<1>1. PICK out, B : out = done.out /\ Reaches(i, K[i], out, B) /\ Ready(As(done), live_after[i], B)
  BY DEF Made
<1>2. PICK tr : tr[0] = K[i] /\ tr[Len(out)] = B /\ Trace(i, out, tr)
  BY <1>1 DEF Reaches
<1>3. PICK H : H = [j \in DOMAIN program |-> IF j = i + 1 /\ ~Leads(program, j) THEN B ELSE K[j]]
  OBVIOUS
<1>4. \A j \in DOMAIN program : j # i + 1 \/ j \in Leaders(program) => H[j] = K[j]
  BY <1>3 DEF Leaders
<1>5. i + 1 \in DOMAIN program /\ ~Leads(program, i + 1) => H[i + 1] = B
  BY <1>3
<1>6. i # i + 1
  BY RewritingIs
<1>7. H[i] = K[i]
  BY <1>4, <1>6
<1>8. \A j \in Leaders(program) : H[j] = Handing(j)
  BY <1>4 DEF Leaders, Unmoved
<1>9. FallsTo(program, i) => Knows(B, H[i + 1])
  <2> SUFFICES ASSUME FallsTo(program, i) PROVE Knows(B, H[i + 1])
    OBVIOUS
  <2>1. CASE ~Leads(program, i + 1)
    <3>1. i + 1 \in DOMAIN program
      BY EndsHere
    <3> QED BY <1>5, <2>1, <3>1 DEF Knows
  <2>2. CASE Leads(program, i + 1)
    <3>1. IsLast(i) /\ i + 1 \in Leaders(program) /\ BlockIn(program, live_after, i + 1) \subseteq live_after[i]
      BY <2>2, EndsHere
    <3>2. Knows(B, Handing(i + 1))
      BY <1>1, <3>1, HandedOver
    <3> QED BY <1>8, <3>1, <3>2
  <2> QED BY <2>1, <2>2
<1>10. GoesTo(program, i) => Knows(B, H[LabelPlace(program, program[i].to)])
  <2> SUFFICES ASSUME GoesTo(program, i) PROVE Knows(B, H[LabelPlace(program, program[i].to)])
    OBVIOUS
  <2>1. PICK l : l = LabelPlace(program, program[i].to)
    OBVIOUS
  <2>2. IsLast(i) /\ l \in Leaders(program) /\ BlockIn(program, live_after, l) \subseteq live_after[i]
    BY <2>1, EndsHere
  <2>3. Knows(B, Handing(l))
    BY <1>1, <2>2, HandedOver
  <2> QED BY <1>8, <2>1, <2>2, <2>3
<1>11. Bridges(i, H, out, tr)
  BY <1>1, <1>2, <1>7, <1>9, <1>10 DEF Bridges, Made
<1>12. i + 1 \in DOMAIN program /\ ~Leads(program, i + 1) => Ready(As(done), BlockIn(program, live_after, i + 1), H[i + 1])
  BY <1>1, <1>5 DEF Rewriting, Flows
<1>13. ToldOn(i, K, done, H, tr)
  BY <1>1, <1>4, <1>11, <1>12 DEF ToldOn
<1> QED BY <1>13

LEMMA StoryGrows ==
    ASSUME Rewriting, NEW K, Story(K), next \in DOMAIN program, NEW done, RewrittenTo(next, K[next], done),
           program' = program, live_after' = live_after, scan' = scan, next' = next + 1
    PROVE  \E H : Story(H)'
<1>1. PICK i : i = next /\ i \in DOMAIN program /\ i \in Nat /\ i # 0 /\ DOMAIN program = 1 .. Len(program) /\ Len(program) \in Nat
  BY RewritingIs
<1>2. PICK placed : Made(i, K[i], placed, done) /\ (~InSlots => AtHome(placed, i))
  BY <1>1 DEF RewrittenTo
<1>3. /\ rw' = [done EXCEPT !.out = <<>>] /\ code' = [code EXCEPT ![i] = done.out] /\ (i # 1 => arriving' = arriving)
      /\ i = 1 /\ ~InSlots => \A v \in BlockIn(program, live_after, 1) : arriving'[scan.at[v]] = v
  BY <1>1 DEF RewrittenTo
<1>4. /\ DOMAIN code = DOMAIN program /\ (\A b \in Leaders(program) : K[b] = Handing(b))
      /\ \A j \in 1 .. (i - 1) : j \in DOMAIN program /\ \E tr : Bridges(j, K, code[j], tr)
      /\ i > 1 /\ ~InSlots => \A v \in BlockIn(program, live_after, 1) : arriving[scan.at[v]] = v
  BY <1>1 DEF Story
<1>5. PICK H, tr0 : /\ Bridges(i, H, done.out, tr0)
                    /\ \A j \in DOMAIN program : j # i + 1 \/ j \in Leaders(program) => H[j] = K[j]
                    /\ i + 1 \in DOMAIN program /\ ~Leads(program, i + 1) =>
                           Ready(As(done), BlockIn(program, live_after, i + 1), H[i + 1])
  <2>1. Unmoved(K)
    BY <1>4 DEF Unmoved
  <2>2. \E H, tr : ToldOn(i, K, done, H, tr)
    BY <1>1, <1>2, <2>1, NewBridges
  <2>3. PICK H, tr : ToldOn(i, K, done, H, tr)
    BY <2>2
  <2> QED BY <2>3 DEF ToldOn
<1>6. DOMAIN code' = DOMAIN program /\ code'[i] = done.out /\ \A j \in DOMAIN program : j # i => code'[j] = code[j]
  BY <1>1, <1>3, <1>4
<1>7. (InSlots <=> InSlots') /\ \A b : Handing(b)' = Handing(b)
  BY DEF InSlots, Handing
<1>8. (\A b \in Leaders(program) : H[b] = Handing(b))'
  BY <1>4, <1>5, <1>7 DEF Leaders
<1>9. PICK t : t = [done EXCEPT !.out = <<>>]
  OBVIOUS
<1>10. /\ Whole(t) /\ t.pool = done.pool /\ t.stacked = done.stacked /\ t.spilled = done.spilled
       /\ t.refused = done.refused /\ t.out = <<>> /\ ~done.refused
  <2>1. Whole(done) /\ ~done.refused
    BY <1>2 DEF Made
  <2> QED BY <1>9, <2>1, OutWhole
<1>11. i + 1 \in DOMAIN program => Waits(i + 1, H[i + 1])'
  <2> SUFFICES ASSUME i + 1 \in DOMAIN program PROVE Waits(i + 1, H[i + 1])'
    OBVIOUS
  <2>1. ~InSlots => AtHome(t, i + 1)
    <3> SUFFICES ASSUME ~InSlots PROVE AtHome(t, i + 1)
      OBVIOUS
    <3>1. AtHome(done, i)
      BY <1>2 DEF Made
    <3>2. \A v : Hull(program, live_after, v).start <= i => Hull(program, live_after, v).start <= i + 1
      <4>1. \A v : Hull(program, live_after, v).start \in Nat
        BY HullIs DEF Interval, Rewriting
      <4> QED BY <1>1, <4>1
    <3> QED BY <1>10, <3>1, <3>2 DEF AtHome
  <2>2. ~Leads(program, i + 1) => Ready(As(t), BlockIn(program, live_after, i + 1), H[i + 1])
    <3>1. /\ As(t).pool = done.pool /\ As(t).clean = done.stacked /\ As(t).slots = done.stacked
          /\ As(done).pool = done.pool /\ As(done).clean = done.stacked /\ As(done).slots = done.stacked
      BY <1>10, AsFields
    <3> QED BY <1>5, <3>1 DEF Ready, Mapped
  <2>3. rw' = t
    BY <1>3, <1>9
  <2>4. AtHome(t, i + 1) => AtHome(t, i + 1)'
    BY DEF AtHome
  <2>5. Whole(rw)' /\ rw'.out = <<>> /\ ~rw'.refused
    BY <1>10, <2>3
  <2>6. (~InSlots => AtHome(rw, i + 1))'
    BY <1>7, <2>1, <2>3, <2>4 DEF AtHome
  <2>7. (~Leads(program, i + 1) => Ready(As(rw), BlockIn(program, live_after, i + 1), H[i + 1]))'
    BY <2>2, <2>3
  <2> QED BY <2>5, <2>6, <2>7 DEF Waits
<1>12. (\A j \in 1 .. (next - 1) : j \in DOMAIN program /\ \E tr : Bridges(j, H, code[j], tr))'
  <2>1. ASSUME NEW j \in 1 .. i PROVE j \in DOMAIN program /\ \E tr : Bridges(j, H, code[j], tr)'
    <3>1. j \in DOMAIN program /\ j \in Nat
      BY <1>1, <2>1
    <3>2. \E tr : Bridges(j, H, code'[j], tr)
      <4>1. CASE j = i
        BY <1>5, <1>6, <4>1
      <4>2. CASE j # i
        <5>1. j \in 1 .. (i - 1) /\ j # i + 1 /\ j + 1 # i + 1
          BY <1>1, <2>1, <4>2
        <5>2. PICK tr : Bridges(j, K, code[j], tr)
          BY <1>4, <5>1
        <5>3. H[j] = K[j]
          BY <1>5, <3>1, <5>1
        <5>4. FallsTo(program, j) => H[j + 1] = K[j + 1]
          BY <1>5, <5>1 DEF FallsTo
        <5>5. GoesTo(program, j) => H[LabelPlace(program, program[j].to)] = K[LabelPlace(program, program[j].to)]
          BY <1>5, <3>1, EndsHere DEF Leaders
        <5>6. Bridges(j, H, code[j], tr)
          BY <5>2, <5>3, <5>4, <5>5, OtherBridges
        <5> QED BY <1>6, <3>1, <4>2, <5>6
      <4> QED BY <4>1, <4>2
    <3>3. PICK out, tr : out = code'[j] /\ Bridges(j, H, out, tr)
      BY <3>2
    <3>4. Bridges(j, H, code[j], tr)'
      BY <3>3, SameBridges
    <3> QED BY <3>1, <3>4
  <2>2. next' - 1 = i
    BY <1>1
  <2> QED BY <2>1, <2>2
<1>13. (next > 1 /\ ~InSlots => \A v \in BlockIn(program, live_after, 1) : arriving[scan.at[v]] = v)'
  <2>1. i = 1 \/ i > 1
    BY <1>1
  <2>2. ~InSlots => \A v \in BlockIn(program, live_after, 1) : arriving'[scan.at[v]] = v
    BY <1>3, <1>4, <2>1
  <2> QED BY <1>7, <2>2
<1>14. (DOMAIN code = DOMAIN program)' /\ next' = i + 1
  BY <1>1, <1>6
<1>15. (next \in DOMAIN program => Waits(next, H[next]))'
  <2>1. next' = i + 1 /\ program' = program
    BY <1>1
  <2> QED BY <1>11, <2>1
<1>16. Story(H)'
  BY <1>8, <1>12, <1>13, <1>14, <1>15 DEF Story
<1> QED BY <1>16

(***************************************************************************)
(* The machine runs the rewritten code: wherever it is, what K and the     *)
(* trace of the item say is true of it.                                    *)
(***************************************************************************)
AllTold(K) == Rewriting /\ Story(K) /\ next > Len(program) /\ next \in Nat

KnownAt(K, i, k, e, g, m) ==
    /\ i \in DOMAIN program /\ k \in 1 .. Len(code[i])
    /\ \E tr : Bridges(i, K, code[i], tr) /\ Agree(tr[k - 1], e, g, m)
KnownOn(K, place, e, g, m) == place = Stopped \/ KnownAt(K, place[1], place[2], e, g, m)

LEMMA AllToldIs ==
    ASSUME NEW K, AllTold(K), NEW i \in DOMAIN program
    PROVE  /\ \E tr : Bridges(i, K, code[i], tr)
           /\ i \in Nat /\ i # 0 /\ (i + 1 \in DOMAIN program <=> i < Len(program)) /\ i <= Len(program)
<1>1. DOMAIN program = 1 .. Len(program) /\ Len(program) \in Nat
  BY RewritingIs DEF AllTold
<1>2. i \in 1 .. (next - 1)
  BY <1>1 DEF AllTold
<1> QED BY <1>1, <1>2 DEF AllTold, Story

LEMMA AgreeLess ==
    ASSUME NEW B, NEW C, Knows(B, C), NEW e, NEW g, NEW m, Agree(B, e, g, m)
    PROVE  Agree(C, e, g, m)
BY DEF Knows, Agree

\* Items without code are labels, and what is known goes past them.
LEMMA Passes ==
    ASSUME NEW K, AllTold(K), NEW i \in DOMAIN program, i + 1 \in DOMAIN program, Len(code[i]) = 0,
           NEW e, NEW g, NEW m, Agree(K[i], e, g, m)
    PROVE  Agree(K[i + 1], e, g, m)
<1>1. PICK out, tr : out = code[i] /\ Bridges(i, K, out, tr)
  BY AllToldIs
<1>2. IsLabel(program, i) /\ Len(out) = 0
  BY <1>1 DEF Bridges, Coded
<1>3. FallsTo(program, i)
  BY <1>2 DEF FallsTo, IsLabel
<1>4. Knows(tr[0], K[i + 1]) /\ tr[0] = K[i]
  BY <1>1, <1>2, <1>3 DEF Bridges
<1>5. Knows(K[i], K[i + 1])
  BY <1>4
<1> QED BY <1>5, AgreeLess

LEMMA Crossed ==
    ASSUME NEW K, AllTold(K), NEW j \in DOMAIN program, NEW e, NEW g, NEW m, Agree(K[j], e, g, m)
    PROVE  KnownOn(K, From(j), e, g, m)
<1> DEFINE later == {x \in j .. Len(program) : code[x] # <<>>}
<1>1. From(j) = IF later = {} THEN Stopped ELSE <<Min(later), 1>>
  BY DEF From
<1>2. /\ j \in Nat /\ DOMAIN program = 1 .. Len(program) /\ Len(program) \in Nat /\ j \in 1 .. Len(program)
  BY AllToldIs, RewritingIs DEF AllTold
<1>3. \A x \in j .. Len(program) : x \notin later => code[x] = <<>>
  OBVIOUS
<1>4. \A x \in later : x \in DOMAIN program /\ x \in Nat /\ j <= x
  BY <1>2
<1>5. later \in SUBSET Nat
  BY <1>4
<1>6. \A x \in later : code[x] # <<>>
  OBVIOUS
<1> HIDE DEF later
<1>7. CASE later = {}
  BY <1>1, <1>7 DEF KnownOn
<1>8. CASE later # {}
  <2>1. PICK l : l = Min(later) /\ l \in later /\ \A x \in later : l <= x
    BY <1>5, <1>8, LeastIs
  <2>2. l \in DOMAIN program /\ l \in Nat /\ j <= l /\ l <= Len(program) /\ l - j \in Nat
    BY <1>2, <1>4, <2>1
  <2> DEFINE Good == {n \in 0 .. (l - j) : Agree(K[j + n], e, g, m)}
  <2>3. 0 \in Good
    BY <1>2, <2>2
  <2>4. ASSUME NEW n \in 1 .. (l - j), n - 1 \in Good PROVE n \in Good
    <3>1. PICK x : x = j + (n - 1)
      OBVIOUS
    <3>2. x \in j .. Len(program) /\ x < l /\ x + 1 = j + n /\ x \in DOMAIN program /\ x + 1 \in DOMAIN program /\ x \in Nat
      BY <1>2, <2>2, <3>1
    <3>3. code[x] = <<>>
      BY <1>3, <2>1, <2>2, <3>2
    <3>4. Len(code[x]) = 0
      BY <3>3
    <3>5. Agree(K[x], e, g, m)
      BY <2>4, <3>1
    <3>6. Agree(K[x + 1], e, g, m)
      BY <3>2, <3>4, <3>5, Passes
    <3> QED BY <3>2, <3>6
  <2>5. l - j \in Good
    <3> HIDE DEF Good
    <3> QED BY <2>2, <2>3, <2>4, CountsUp
  <2>6. j + (l - j) = l
    BY <1>2, <2>2
  <2>7. Agree(K[l], e, g, m)
    BY <2>5, <2>6
  <2>8. PICK out, tr : out = code[l] /\ Bridges(l, K, out, tr)
    BY <2>2, AllToldIs
  <2>9. out # <<>>
    BY <1>6, <2>1, <2>8
  <2>10. Len(out) \in Nat /\ Len(out) # 0
    BY <2>8, <2>9 DEF Bridges, Coded
  <2>11. 1 \in 1 .. Len(out) /\ 1 - 1 = 0
    BY <2>10
  <2>12. tr[1 - 1] = K[l]
    BY <2>8, <2>11 DEF Bridges
  <2>13. KnownAt(K, l, 1, e, g, m)
    BY <2>2, <2>7, <2>8, <2>11, <2>12 DEF KnownAt
  <2>14. From(j) = <<l, 1>>
    BY <1>1, <1>8, <2>1
  <2> QED BY <2>13, <2>14 DEF KnownOn
<1> QED BY <1>7, <1>8

LEMMA NoneBehind == ASSUME Rewriting, NEW j, j = Len(program) + 1 PROVE From(j) = Stopped
<1>1. Len(program) \in Nat
  BY RewritingIs
<1>2. j .. Len(program) = {}
  BY <1>1
<1> QED BY <1>2 DEF From

LEMMA ToNext ==
    ASSUME NEW K, AllTold(K), NEW i \in DOMAIN program, NEW k, NEW tr, Bridges(i, K, code[i], tr), k \in 1 .. Len(code[i]),
           NEW e, NEW g, NEW m, Agree(tr[k], e, g, m), code[i][k].does \notin {"jump", "ret"}
    PROVE  KnownOn(K, Onward(<<i, k>>), e, g, m)
<1>1. PICK out, len : out = code[i] /\ len = Len(out)
  OBVIOUS
<1>2. len \in Nat /\ k \in 1 .. len /\ Bridges(i, K, out, tr)
  BY <1>1 DEF Bridges, Coded
<1>3. PICK place : place = <<i, k>>
  OBVIOUS
<1>4. place[1] = i /\ place[2] = k
  BY <1>3
<1>5. CASE k < len
  <2>1. k + 1 \in 1 .. len /\ (k + 1) - 1 = k
    BY <1>2, <1>5
  <2>2. Agree(tr[(k + 1) - 1], e, g, m)
    BY <2>1
  <2>3. KnownAt(K, i, k + 1, e, g, m)
    BY <1>1, <1>2, <2>1, <2>2 DEF KnownAt
  <2>4. Onward(<<i, k>>) = <<i, k + 1>>
    BY <1>1, <1>5 DEF Onward
  <2> QED BY <2>3, <2>4 DEF KnownOn
<1>6. CASE ~(k < len)
  <2>1. k = len
    BY <1>2, <1>6
  <2>2. Onward(<<i, k>>) = From(i + 1)
    BY <1>1, <1>6 DEF Onward
  <2>3. CASE i + 1 \in DOMAIN program
    <3>1. IsTerminator(program, i) => out[len].does = program[i].does
      BY <1>1, <1>2 DEF Bridges, Coded
    <3>2. program[i].does \notin {"jump", "ret"}
      BY <1>1, <2>1, <3>1 DEF IsTerminator
    <3>3. FallsTo(program, i)
      BY <2>3, <3>2 DEF FallsTo
    <3>4. Knows(tr[len], K[i + 1])
      BY <1>1, <1>2, <3>3 DEF Bridges
    <3>5. Agree(K[i + 1], e, g, m)
      BY <2>1, <3>4, AgreeLess
    <3>6. PICK j : j = i + 1
      OBVIOUS
    <3>7. KnownOn(K, From(j), e, g, m)
      BY <2>3, <3>5, <3>6, Crossed
    <3> QED BY <2>2, <3>6, <3>7
  <2>4. CASE i + 1 \notin DOMAIN program
    <3>1. i + 1 = Len(program) + 1
      BY <2>4, AllToldIs, RewritingIs DEF AllTold
    <3>2. From(i + 1) = Stopped
      BY <3>1, NoneBehind DEF AllTold
    <3> QED BY <2>2, <3>2 DEF KnownOn
  <2> QED BY <2>3, <2>4
<1> QED BY <1>5, <1>6

LEMMA ToGoal ==
    ASSUME NEW K, AllTold(K), NEW i \in DOMAIN program, NEW k, NEW tr, Bridges(i, K, code[i], tr), k \in 1 .. Len(code[i]),
           NEW e, NEW g, NEW m, Agree(tr[k], e, g, m), code[i][k].does \in {"jump", "branch"}
    PROVE  KnownOn(K, From(LabelPlace(program, program[i].to)), e, g, m)
<1>1. PICK out, len, l : out = code[i] /\ len = Len(out) /\ l = LabelPlace(program, program[i].to)
  OBVIOUS
<1>2. Bridges(i, K, out, tr) /\ len \in Nat /\ k \in 1 .. len /\ out[k].does \in {"jump", "branch"}
  BY <1>1 DEF Bridges, Coded
<1>3. out[k].does = program[i].does
  BY <1>1, <1>2 DEF Bridges, Coded, Saves
<1>4. k = len
  <2>1. IsTerminator(program, i)
    BY <1>2, <1>3 DEF IsTerminator
  <2>2. k \in 1 .. (len - 1) => out[k].does \in Saves
    BY <1>1, <1>2, <2>1 DEF Bridges, Coded
  <2>3. k \notin 1 .. (len - 1)
    BY <1>2, <2>2 DEF Saves
  <2> QED BY <1>2, <2>3
<1>5. GoesTo(program, i)
  BY <1>2, <1>3 DEF GoesTo
<1>6. Knows(tr[len], K[l])
  BY <1>1, <1>2, <1>5 DEF Bridges
<1>7. Agree(K[l], e, g, m)
  BY <1>4, <1>6, AgreeLess
<1>8. l \in DOMAIN program
  BY <1>1, <1>5, EndsHere DEF AllTold, Leaders
<1>9. KnownOn(K, From(l), e, g, m)
  BY <1>7, <1>8, Crossed
<1> QED BY <1>1, <1>9

MachineIn(K) == Running => KnownAt(K, pc[1], pc[2], env, regs, mem)

\* Where it is, and what it has before it.
Meets(K, i, k, tr) ==
    /\ i = pc[1] /\ k = pc[2] /\ i \in DOMAIN program /\ k \in 1 .. Len(code[i]) /\ Bridges(i, K, code[i], tr)
    /\ Agree(tr[k - 1], env, regs, mem) /\ Current = code[i][k]
    /\ Current.does \notin Saves => Runs(i, tr[k - 1], Current, tr[k])
    /\ Current.does = "spill" => Stores(tr[k - 1], Current, tr[k])
    /\ Current.does = "reload" => Loads(tr[k - 1], Current, tr[k])

LEMMA MachineMeets ==
    ASSUME NEW K, AllTold(K), MachineIn(K), Running
    PROVE  \E i, k, tr : Meets(K, i, k, tr)
<1>1. PICK i, k : i = pc[1] /\ k = pc[2]
  OBVIOUS
<1>2. KnownAt(K, i, k, env, regs, mem)
  BY <1>1 DEF MachineIn
<1>3. PICK tr : Bridges(i, K, code[i], tr) /\ Agree(tr[k - 1], env, regs, mem)
  BY <1>2 DEF KnownAt
<1>4. i \in DOMAIN program /\ k \in 1 .. Len(code[i])
  BY <1>2 DEF KnownAt
<1>5. Emits(i, tr[k - 1], code[i][k], tr[k])
  BY <1>3, <1>4 DEF Bridges, Trace
<1>6. Current = code[i][k]
  BY <1>1 DEF Current
<1>7. program[i].does \notin Saves
  <2>1. program[i].does \in {"label", "op", "branch", "jump", "call", "ret"}
    BY <1>4 DEF AllTold, Rewriting, Selected
  <2> QED BY <2>1 DEF Saves
<1>8. PICK B, C, ins : B = tr[k - 1] /\ C = tr[k] /\ ins = Current
  OBVIOUS
<1>9. /\ ins.does \notin Saves => Runs(i, B, ins, C)
      /\ ins.does = "spill" => Stores(B, ins, C)
      /\ ins.does = "reload" => Loads(B, ins, C)
  <2>1. Emits(i, B, ins, C)
    BY <1>5, <1>6, <1>8
  <2>2. Stores(B, ins, C) => ins.does = "spill"
    BY DEF Stores
  <2>3. Loads(B, ins, C) => ins.does = "reload"
    BY DEF Loads
  <2>4. Runs(i, B, ins, C) => ins.does \notin Saves
    BY <1>7 DEF Runs
  <2> QED BY <2>1, <2>2, <2>3, <2>4 DEF Emits, Saves
<1>10. Meets(K, i, k, tr)
  BY <1>1, <1>3, <1>4, <1>6, <1>8, <1>9 DEF Meets
<1> QED BY <1>10

LEMMA SpillKnown ==
    ASSUME NEW K, AllTold(K), MachineIn(K), DOMAIN mem = Vreg, Spill
    PROVE  KnownOn(K, pc', env', regs', mem')
<1>1. PICK i, k, tr : Meets(K, i, k, tr)
  BY MachineMeets DEF Spill, Doing
<1>2. PICK B, C, ins : B = tr[k - 1] /\ C = tr[k] /\ ins = Current
  OBVIOUS
<1>3. Stores(B, ins, C) /\ Agree(B, env, regs, mem) /\ ins.does = "spill" /\ i \in DOMAIN program
      /\ Bridges(i, K, code[i], tr) /\ k \in 1 .. Len(code[i]) /\ code[i][k] = ins
  BY <1>1, <1>2 DEF Meets, Spill, Doing
<1>4. PICK e, g, m : e = env' /\ g = regs' /\ m = mem'
  OBVIOUS
<1>5. e = env /\ g = regs /\ m = [mem EXCEPT ![ins.vreg] = regs[ins.reg]]
  BY <1>2, <1>4 DEF Spill
<1>6. Agree(C, e, g, m)
  BY <1>3, <1>5, StoreTrue
<1>7. KnownOn(K, Onward(<<i, k>>), e, g, m)
  BY <1>2, <1>3, <1>6, ToNext
<1>8. pc' = Onward(<<i, k>>)
  BY <1>1 DEF Meets, Spill, Onward
<1> QED BY <1>4, <1>7, <1>8

LEMMA ReloadKnown ==
    ASSUME NEW K, AllTold(K), MachineIn(K), DOMAIN regs = Reg, Reload
    PROVE  KnownOn(K, pc', env', regs', mem')
<1>1. PICK i, k, tr : Meets(K, i, k, tr)
  BY MachineMeets DEF Reload, Doing
<1>2. PICK B, C, ins : B = tr[k - 1] /\ C = tr[k] /\ ins = Current
  OBVIOUS
<1>3. Loads(B, ins, C) /\ Agree(B, env, regs, mem) /\ ins.does = "reload" /\ i \in DOMAIN program
      /\ Bridges(i, K, code[i], tr) /\ k \in 1 .. Len(code[i]) /\ code[i][k] = ins
  BY <1>1, <1>2 DEF Meets, Reload, Doing
<1>4. PICK e, g, m : e = env' /\ g = regs' /\ m = mem'
  OBVIOUS
<1>5. e = env /\ m = mem /\ g = [regs EXCEPT ![ins.reg] = mem[ins.vreg]]
  BY <1>2, <1>4 DEF Reload
<1>6. Agree(C, e, g, m)
  BY <1>3, <1>5, LoadTrue
<1>7. KnownOn(K, Onward(<<i, k>>), e, g, m)
  BY <1>2, <1>3, <1>6, ToNext
<1>8. pc' = Onward(<<i, k>>)
  BY <1>1 DEF Meets, Reload, Onward
<1> QED BY <1>4, <1>7, <1>8

LEMMA ComputeKnown ==
    ASSUME NEW K, AllTold(K), MachineIn(K), Compute
    PROVE  KnownOn(K, pc', env', regs', mem')
<1>1. PICK i, k, tr : Meets(K, i, k, tr)
  BY MachineMeets DEF Compute, Doing
<1>2. PICK B, C, ins : B = tr[k - 1] /\ C = tr[k] /\ ins = Current
  OBVIOUS
<1>3. Runs(i, B, ins, C) /\ Agree(B, env, regs, mem) /\ ins.does = "op" /\ i \in DOMAIN program
      /\ Bridges(i, K, code[i], tr) /\ k \in 1 .. Len(code[i]) /\ code[i][k] = ins
  BY <1>1, <1>2 DEF Meets, Compute, Doing, Saves
<1>4. PICK e, g, m : e = env' /\ g = regs' /\ m = mem'
  OBVIOUS
<1>5. \E x : /\ \A v \in Vreg : e[v] = IF v \in program[i].def THEN x ELSE env[v]
             /\ \A r \in Reg : g[r] = IF r \in ins.def THEN x ELSE regs[r]
  <2>1. PICK x : /\ env' = [v \in Vreg |-> IF v \in program[pc[1]].def THEN x ELSE env[v]]
                 /\ regs' = [r \in Reg |-> IF r \in Current.def THEN x ELSE regs[r]]
    BY DEF Compute
  <2>2. pc[1] = i
    BY <1>1 DEF Meets
  <2> QED BY <1>2, <1>4, <2>1, <2>2
<1>6. Agree(C, e, g, mem)
  BY <1>3, <1>5, RunTrue
<1>7. KnownOn(K, Onward(<<i, k>>), e, g, m)
  <2>1. m = mem
    BY <1>4 DEF Compute
  <2> QED BY <1>2, <1>3, <1>6, <2>1, ToNext
<1>8. pc' = Onward(<<i, k>>)
  BY <1>1 DEF Meets, Compute, Onward
<1> QED BY <1>4, <1>7, <1>8

LEMMA PassesKnown ==
    ASSUME NEW K, AllTold(K), MachineIn(K), Jumped \/ NotTaken \/ Called
    PROVE  KnownOn(K, pc', env', regs', mem')
<1>1. PICK i, k, tr : Meets(K, i, k, tr)
  BY MachineMeets DEF Jumped, NotTaken, Called, Doing
<1>2. PICK B, C, ins : B = tr[k - 1] /\ C = tr[k] /\ ins = Current
  OBVIOUS
<1>3. /\ Runs(i, B, ins, C) /\ Agree(B, env, regs, mem) /\ i \in DOMAIN program /\ k \in 1 .. Len(code[i])
      /\ Bridges(i, K, code[i], tr) /\ code[i][k] = ins /\ ins.does \in {"jump", "branch", "call"}
  BY <1>1, <1>2 DEF Meets, Jumped, NotTaken, Called, Doing, Saves
<1>4. PICK e, g, m : e = env' /\ g = regs' /\ m = mem'
  OBVIOUS
<1>5. /\ e = env /\ m = mem /\ program[i].def = {} /\ i = pc[1]
      /\ \A r \in Reg : (program[i].does = "call" /\ r \in CallerSaved) \/ g[r] = regs[r]
  <2>1. program[i].does = ins.does /\ i = pc[1]
    BY <1>1, <1>3 DEF Runs, Meets
  <2>2. program[i].def = {}
    BY <1>3, <2>1 DEF AllTold, Rewriting, Selected
  <2>3. e = env /\ m = mem
    BY <1>4 DEF Jumped, NotTaken, Called
  <2>4. CASE Jumped \/ NotTaken
    BY <1>4, <2>1, <2>2, <2>3, <2>4 DEF Jumped, NotTaken
  <2>5. CASE Called
    <3>1. program[i].does = "call" /\ regs' = [r \in Reg |-> IF r \in CallerSaved THEN Junk ELSE regs[r]]
      BY <1>2, <2>1, <2>5 DEF Called, Doing
    <3> QED BY <1>4, <2>1, <2>2, <2>3, <3>1
  <2> QED BY <2>4, <2>5
<1>6. Agree(C, e, g, m)
  <2>1. \A r \in Reg : (program[i].does = "call" /\ r \in CallerSaved) \/ g[r] = regs[r]
    BY <1>5
  <2>2. program[i].def = {} /\ e = env
    BY <1>5
  <2>3. Agree(C, e, g, mem)
    BY <1>3, <2>1, <2>2, RunTrue
  <2> QED BY <1>5, <2>3
<1>7. CASE Jumped
  <2>1. ins.does \in {"jump", "branch"} /\ pc' = From(LabelPlace(program, program[i].to))
    BY <1>2, <1>5, <1>7 DEF Jumped, Doing
  <2>2. KnownOn(K, From(LabelPlace(program, program[i].to)), e, g, m)
    BY <1>2, <1>3, <1>6, <2>1, ToGoal
  <2> QED BY <1>4, <2>1, <2>2
<1>8. CASE NotTaken \/ Called
  <2>1. ins.does \in {"branch", "call"} /\ pc' = Onward(<<i, k>>)
    BY <1>1, <1>2, <1>8 DEF NotTaken, Called, Doing, Meets, Onward
  <2>2. KnownOn(K, Onward(<<i, k>>), e, g, m)
    BY <1>2, <1>3, <1>6, <2>1, ToNext
  <2> QED BY <1>4, <2>1, <2>2
<1> QED BY <1>7, <1>8

\* What comes from outside is where the first block has it, if it has registers to be in.
Comes == EntryValues(program) = {} \/ ~InSlots
LEMMA EnterKnown ==
    ASSUME NEW K, AllTold(K), Comes, Enter
    PROVE  KnownOn(K, pc', env', regs', mem')
<1>1. PICK given \in [EntryValues(program) -> Data] :
          /\ env' = [v \in Vreg |-> IF v \in DOMAIN given THEN given[v] ELSE Junk]
          /\ regs' = [r \in Reg |-> LET v == arriving[r] IN IF v \in DOMAIN given THEN given[v] ELSE Junk]
  BY DEF Enter, EntryValues
<1>2. PICK e, g, m : e = env' /\ g = regs' /\ m = mem'
  OBVIOUS
<1>3. \A v \in Vreg : e[v] = IF v \in EntryValues(program) THEN given[v] ELSE Junk
  BY <1>1, <1>2
<1>4. \A r \in Reg : arriving[r] \in EntryValues(program) => g[r] = given[arriving[r]]
  BY <1>1, <1>2
<1>5. pc' = From(1)
  BY DEF Enter
<1>6. CASE 1 \in DOMAIN program
  <2>1. 1 \in Leaders(program)
    BY <1>6 DEF Leaders, Leads
  <2>2. PICK in, A : in = BlockIn(program, live_after, 1) /\ A = Handing(1)
    OBVIOUS
  <2>3. K[1] = A /\ A.held = [r \in Reg |-> {v \in in : ~InSlots /\ scan.at[v] = r}] /\ A.stored = {v \in in : InSlots}
    BY <2>1, <2>2 DEF AllTold, Story, Handing
  <2>4. ~InSlots => \A v \in in : arriving[scan.at[v]] = v
    <3>1. next > 1
      BY <1>6, RewritingIs DEF AllTold
    <3> QED BY <2>2, <3>1 DEF AllTold, Story
  <2>5. \A v \in Vreg : e[v] # Junk => v \in EntryValues(program) /\ ~InSlots
    BY <1>3 DEF Comes
  <2>6. ASSUME NEW r \in Reg, NEW v \in A.held[r], v \in Vreg, e[v] # Junk PROVE g[r] = e[v]
    <3>1. v \in in /\ scan.at[v] = r /\ arriving[r] = v /\ v \in EntryValues(program)
      BY <2>3, <2>4, <2>5, <2>6
    <3> QED BY <1>3, <1>4, <2>6, <3>1
  <2>7. ASSUME NEW v \in A.stored, v \in Vreg, e[v] # Junk PROVE m[v] = e[v]
    BY <2>3, <2>5, <2>7
  <2>8. Agree(K[1], e, g, m)
    BY <2>3, <2>6, <2>7 DEF Agree
  <2>9. KnownOn(K, From(1), e, g, m)
    BY <1>6, <2>8, Crossed
  <2> QED BY <1>2, <1>5, <2>9
<1>7. CASE 1 \notin DOMAIN program
  <2>1. 1 = Len(program) + 1
    BY <1>7, RewritingIs DEF AllTold
  <2>2. From(1) = Stopped
    BY <2>1, NoneBehind DEF AllTold
  <2> QED BY <1>5, <2>2 DEF KnownOn
<1> QED BY <1>6, <1>7

(***************************************************************************)
(* What is written stays true while the machine runs, so all of it is      *)
(* inductive together.                                                     *)
(***************************************************************************)
LEMMA SameStory ==
    ASSUME UNCHANGED allocVars, NEW K, Story(K)
    PROVE  Story(K)'
<1>1. /\ program' = program /\ live_after' = live_after /\ code' = code /\ next' = next /\ arriving' = arriving
      /\ scan' = scan /\ rw' = rw
  BY DEF allocVars, sharedVars, analysisVars, linearVars
<1>2. (\A i \in 1 .. (next - 1) : i \in DOMAIN program /\ \E tr : Bridges(i, K, code[i], tr))'
  <2>1. ASSUME NEW i \in 1 .. (next - 1) PROVE i \in DOMAIN program /\ \E tr : Bridges(i, K, code[i], tr)'
    <3>1. i \in DOMAIN program
      BY DEF Story
    <3>2. PICK out, tr : out = code[i] /\ Bridges(i, K, out, tr)
      BY DEF Story
    <3>3. code'[i] = out
      BY <1>1, <3>2
    <3>4. Bridges(i, K, code[i], tr)'
      BY <1>1, <3>2, <3>3, SameBridges
    <3> QED BY <3>1, <3>4
  <2> QED BY <1>1, <2>1
<1>3. (InSlots <=> InSlots') /\ (\A b : Handing(b)' = Handing(b)) /\ (\A i, A : Waits(i, A) => Waits(i, A)')
  BY <1>1 DEF InSlots, Handing, Waits, AtHome
<1>4. (\A b \in Leaders(program) : K[b] = Handing(b))'
  BY <1>1, <1>3 DEF Story
<1>5. (next \in DOMAIN program => Waits(next, K[next]))'
  BY <1>1, <1>3 DEF Story
<1>6. (next > 1 /\ ~InSlots => \A v \in BlockIn(program, live_after, 1) : arriving[scan.at[v]] = v)'
  BY <1>1, <1>3 DEF Story
<1>7. (DOMAIN code = DOMAIN program)'
  BY <1>1 DEF Story
<1> QED BY <1>2, <1>4, <1>5, <1>6, <1>7 DEF Story

LEMMA SameKnown ==
    ASSUME UNCHANGED allocVars, NEW K, NEW place, NEW e, NEW g, NEW m, KnownOn(K, place, e, g, m)
    PROVE  KnownOn(K, place, e, g, m)'
<1>1. program' = program /\ code' = code
  BY DEF allocVars, sharedVars, analysisVars
<1>2. ASSUME NEW i, NEW k, KnownAt(K, i, k, e, g, m) PROVE KnownAt(K, i, k, e, g, m)'
  <2>1. PICK out, tr : out = code[i] /\ Bridges(i, K, out, tr) /\ Agree(tr[k - 1], e, g, m)
    BY <1>2 DEF KnownAt
  <2>2. code'[i] = out
    BY <1>1, <2>1
  <2>3. Bridges(i, K, code[i], tr)'
    BY <1>1, <2>1, <2>2, SameBridges
  <2>4. i \in DOMAIN program /\ k \in 1 .. Len(code[i])
    BY <1>2 DEF KnownAt
  <2> QED BY <1>1, <2>1, <2>3, <2>4 DEF KnownAt
<1> QED BY <1>2 DEF KnownOn, Stopped

StoryOf(K) == Story(K) /\ (Comes => MachineIn(K))
LinearComputing ==
    allocator = "linear" =>
        /\ Running => next > 1 /\ next > Len(program) /\ ~rw.refused
        /\ rw.refused => next > 1
        /\ next > 1 /\ Handled => IF rw.refused THEN Crowded(Sources(next - 1)) ELSE \E K : StoryOf(K)

\* The allocation has not come to the text yet.
LEMMA PlanningComputes ==
    ASSUME Planning, LinearComputing, allocator = "linear", UNCHANGED machineVars, UNCHANGED rw,
           next < 2, next \in Nat, next' \in {0, 1}
    PROVE  LinearComputing'
<1>1. ~rw.refused
  BY DEF Planning, NoRewriting
<1>2. ~(next > 1) /\ ~(next' > 1)
  OBVIOUS
<1>3. ~Running /\ (Running' <=> Running)
  BY <1>2 DEF LinearComputing, Running, machineVars
<1> QED BY <1>1, <1>2, <1>3 DEF LinearComputing

LEMMA RewriteComputes ==
    ASSUME Sound, GreedyInv, Planning, Naming, LinearComputing, allocator = "linear", Rewrite, UNCHANGED machineVars
    PROVE  LinearComputing'
<1>1. /\ next \in 1 .. Len(program) /\ scan.todo = {} /\ ~rw.refused /\ next' = next + 1 /\ scan' = scan
      /\ program' = program /\ live_after' = live_after
  BY DEF Rewrite, analysisVars
<1>2. next \in Nat /\ next > 0 /\ next' > 1 /\ next' - 1 = next /\ ~(next > Len(program)) /\ next \in DOMAIN program
  <2>1. WellFormed(program) /\ next \in Nat
    BY DEF GreedyInv, Sound
  <2> QED BY <1>1, <2>1 DEF WellFormed
<1>3. ~Running /\ (Running' <=> Running)
  BY <1>2 DEF LinearComputing, Running, machineVars
<1>4. ASSUME Handled PROVE IF rw'.refused THEN Crowded(Sources(next)) ELSE \E K : Story(K)'
  <2>1. Rewriting
    BY <1>1, <1>4, RewritingHolds
  <2>2. \E K : Story(K)
    <3>1. CASE next = 1
      <4>1. Uncoded /\ rw = NoRewriting
        BY <3>1 DEF Planning
      <4> QED BY <2>1, <3>1, <4>1, StoryBegins
    <3>2. CASE next # 1
      <4>1. next > 1
        BY <1>2, <3>2
      <4> QED BY <1>1, <1>4, <4>1 DEF LinearComputing, StoryOf
    <3> QED BY <3>1, <3>2
  <2>3. PICK K : Story(K)
    BY <2>2
  <2>4. CASE rw'.refused
    BY <2>1, <2>3, <2>4, OneRewritten
  <2>5. CASE ~rw'.refused
    <3>1. PICK done : RewrittenTo(next, K[next], done)
      BY <2>1, <2>3, <2>5, OneRewritten
    <3>2. \E H : Story(H)'
      BY <1>1, <1>2, <2>1, <2>3, <3>1, StoryGrows
    <3> QED BY <2>5, <3>2
  <2> QED BY <2>4, <2>5
<1>5. Handled' => Handled
  BY <1>1, <1>2 DEF Handled, Handles, InSlots
<1>6. \A K : Story(K)' => StoryOf(K)'
  BY <1>3 DEF StoryOf, MachineIn
<1>7. Crowded(Sources(next)) => Crowded(Sources(next - 1))'
  BY <1>1, <1>2 DEF Sources, Crowded
<1> QED BY <1>1, <1>2, <1>3, <1>4, <1>5, <1>6, <1>7 DEF LinearComputing

LEMMA RunsOn ==
    ASSUME Sound, GreedyInv, Computing, Planning, Naming, LinearComputing, allocator = "linear", Machine
    PROVE  LinearComputing'
<1>1. UNCHANGED allocVars
  BY DEF Machine, Enter, Spill, Reload, Compute, Jumped, NotTaken, Called
<1>2. /\ allocator' = allocator /\ next' = next /\ program' = program /\ live_after' = live_after /\ scan' = scan
      /\ rw' = rw
  BY <1>1 DEF allocVars, sharedVars, analysisVars, linearVars
<1>3. next > Len(program) /\ next \in Nat /\ ~rw.refused
  <2>1. CASE Enter
    BY <2>1 DEF GreedyInv, Enter, Allocated, Refused
  <2>2. CASE ~Enter
    <3>1. Running
      BY <2>2 DEF Machine, Spill, Reload, Compute, Jumped, NotTaken, Called, Doing
    <3> QED BY <3>1 DEF LinearComputing, GreedyInv
  <2> QED BY <2>1, <2>2
<1>4. Len(program) \in Nat /\ WellFormed(program)
  BY DEF GreedyInv, Sound, WellFormed
<1>5. Running' => next > 1
  <2>1. CASE Enter
    <3>1. CASE next > 1
      BY <3>1
    <3>2. CASE ~(next > 1)
      <4>1. Len(program) = 0
        BY <1>3, <1>4, <3>2
      <4>2. 1 .. Len(program) = {}
        BY <4>1
      <4>3. From(1) = Stopped
        BY <4>2 DEF From
      <4>4. pc' = Stopped
        BY <2>1, <4>3 DEF Enter
      <4> QED BY <4>4 DEF Running, Stopped
    <3> QED BY <3>1, <3>2
  <2>2. CASE ~Enter
    <3>1. Running
      BY <2>2 DEF Machine, Spill, Reload, Compute, Jumped, NotTaken, Called, Doing
    <3> QED BY <3>1 DEF LinearComputing
  <2> QED BY <2>1, <2>2
<1>6. (Handled <=> Handled') /\ (Comes <=> Comes')
  BY <1>2 DEF Handled, Handles, Comes, InSlots
<1>7. ASSUME next > 1, Handled PROVE \E K : StoryOf(K)'
  <2>1. PICK K : StoryOf(K)
    BY <1>3, <1>7 DEF LinearComputing
  <2>2. Rewriting
    <3>1. scan.todo = {}
      BY <1>7 DEF Planning
    <3> QED BY <1>7, <3>1, RewritingHolds
  <2>3. AllTold(K)
    BY <1>3, <2>1, <2>2 DEF AllTold, StoryOf
  <2>4. Story(K)'
    BY <1>1, <2>1, SameStory DEF StoryOf
  <2>5. ASSUME Comes PROVE KnownOn(K, pc', env', regs', mem')
    <3>1. MachineIn(K)
      BY <2>1, <2>5 DEF StoryOf
    <3>2. CASE Enter
      BY <2>3, <2>5, <3>2, EnterKnown
    <3>3. CASE Spill
      BY <2>3, <3>1, <3>3, SpillKnown DEF Computing
    <3>4. CASE Reload
      BY <2>3, <3>1, <3>4, ReloadKnown DEF Computing
    <3>5. CASE Compute
      BY <2>3, <3>1, <3>5, ComputeKnown
    <3>6. CASE Jumped \/ NotTaken \/ Called
      BY <2>3, <3>1, <3>6, PassesKnown
    <3> QED BY <3>2, <3>3, <3>4, <3>5, <3>6 DEF Machine
  <2>6. ASSUME Comes, Running' PROVE KnownAt(K, pc[1], pc[2], env, regs, mem)'
    <3>1. PICK place, e, g, m : place = pc' /\ e = env' /\ g = regs' /\ m = mem'
      OBVIOUS
    <3>2. KnownOn(K, place, e, g, m)
      BY <2>5, <2>6, <3>1
    <3>3. KnownOn(K, place, e, g, m)'
      BY <1>1, <3>2, SameKnown
    <3>4. place # Stopped
      BY <2>6, <3>1 DEF Running, Stopped
    <3>5. KnownAt(K, place[1], place[2], e, g, m)'
      BY <3>3, <3>4 DEF KnownOn, Stopped
    <3> QED BY <3>1, <3>5
  <2>7. StoryOf(K)'
    BY <1>6, <2>4, <2>6 DEF StoryOf, MachineIn
  <2> QED BY <2>7
<1> QED BY <1>2, <1>3, <1>5, <1>6, <1>7 DEF LinearComputing

LEMMA KeepsStill ==
    ASSUME LinearComputing, UNCHANGED vars
    PROVE  LinearComputing'
<1>1. UNCHANGED allocVars /\ UNCHANGED machineVars
  BY DEF vars
<1>2. /\ allocator' = allocator /\ next' = next /\ program' = program /\ live_after' = live_after /\ scan' = scan
      /\ rw' = rw /\ (Running' <=> Running)
  BY <1>1 DEF allocVars, sharedVars, analysisVars, linearVars, machineVars, Running
<1>3. (Handled <=> Handled') /\ (Comes <=> Comes') /\ (Crowded(Sources(next - 1)) <=> Crowded(Sources(next - 1))')
  BY <1>2 DEF Handled, Handles, Comes, InSlots, Crowded, Sources
<1>4. ASSUME NEW K, StoryOf(K) PROVE StoryOf(K)'
  <2>1. Story(K)'
    BY <1>1, <1>4, SameStory DEF StoryOf
  <2>2. ASSUME Comes, Running PROVE KnownAt(K, pc[1], pc[2], env, regs, mem)'
    <3>1. PICK place, e, g, m : place = pc /\ e = env /\ g = regs /\ m = mem
      OBVIOUS
    <3>2. KnownOn(K, place, e, g, m)
      BY <1>4, <2>2, <3>1 DEF StoryOf, MachineIn, KnownOn
    <3>3. KnownOn(K, place, e, g, m)'
      BY <1>1, <3>2, SameKnown
    <3>4. place # Stopped
      BY <2>2, <3>1 DEF Running, Stopped
    <3>5. KnownAt(K, place[1], place[2], e, g, m)'
      BY <3>3, <3>4 DEF KnownOn, Stopped
    <3> QED BY <1>1, <3>1, <3>5 DEF machineVars
  <2> QED BY <1>2, <1>3, <2>1, <2>2 DEF StoryOf, MachineIn
<1> QED BY <1>2, <1>3, <1>4 DEF LinearComputing

LEMMA LinearComputingInductive == ASSUME Sound PROVE Spec => []LinearComputing
<1>1. Init => LinearComputing
  <2> SUFFICES ASSUME NEW a \in {"greedy", "linear"}, NEW p \in Programs \cup Scanned, InitOf(a, p)
               PROVE  LinearComputing
    BY DEF Init
  <2>1. pc[1] = 0 /\ next = 0 /\ rw = NoRewriting
    BY DEF InitOf, SharedInit, NotStarted, LinearInit
  <2>2. ~Running /\ ~(next > 1) /\ ~rw.refused
    BY <2>1 DEF Running, NoRewriting
  <2> QED BY <2>2 DEF LinearComputing
<1>2. GreedyInv /\ Computing /\ Planning /\ Naming /\ LinearComputing /\ [Next]_vars => LinearComputing'
  <2> SUFFICES ASSUME GreedyInv, Computing, Planning, Naming, LinearComputing, [Next]_vars PROVE LinearComputing'
    OBVIOUS
  <2>0. next \in Nat
    BY DEF GreedyInv
  <2>1. CASE Greedy
    BY <2>1 DEF Greedy, LinearComputing
  <2>2. CASE Linear
    <3>1. CASE Rewrite
      BY <2>2, <3>1, RewriteComputes DEF Linear
    <3>2. CASE Analyse /\ UNCHANGED linearVars
      BY <2>0, <2>2, <3>2, PlanningComputes DEF Linear, Analyse, linearVars
    <3>3. CASE LinearStart
      BY <2>0, <2>2, <3>3, PlanningComputes DEF Linear, LinearStart, Analysed
    <3>4. CASE Scan
      BY <2>0, <2>2, <3>4, PlanningComputes DEF Linear, Scan, Scanning, sharedVars
    <3> QED BY <2>2, <3>1, <3>2, <3>3, <3>4 DEF Linear
  <2>3. CASE Machine
    <3>1. CASE allocator = "linear"
      BY <2>3, <3>1, RunsOn
    <3>2. CASE allocator # "linear"
      <4>1. allocator' = allocator
        BY <2>3 DEF Machine, Enter, Spill, Reload, Compute, Jumped, NotTaken, Called, allocVars
      <4> QED BY <3>2, <4>1 DEF LinearComputing
    <3> QED BY <3>1, <3>2
  <2>4. CASE UNCHANGED vars
    BY <2>4, KeepsStill
  <2> QED BY <2>1, <2>2, <2>3, <2>4 DEF Next, Machine
<1>3. GreedyInv /\ Computing /\ Planning /\ Naming /\ LinearComputing => LinearComputing
  OBVIOUS
<1> QED BY <1>1, <1>2, GreedyInductive, ComputingInductive, PlanningInductive, NamingInductive, PTL DEF Spec

LEMMA LinearSame ==
    ASSUME Sound, GreedyInv, Planning, Naming, LinearComputing, allocator = "linear", Handled, Comes
    PROVE  SameValues
<1>1. SUFFICES ASSUME Running, Current.does \notin {"spill", "reload"}, NEW n \in DOMAIN program[pc[1]].uses,
                      env[program[pc[1]].uses[n]] # Junk
               PROVE  regs[Current.uses[n]] = env[program[pc[1]].uses[n]]
  BY DEF SameValues
<1>2. PICK K : StoryOf(K)
  BY <1>1 DEF LinearComputing
<1>3. AllTold(K) /\ MachineIn(K)
  <2>1. next > 1 /\ next > Len(program) /\ next \in Nat
    BY <1>1 DEF LinearComputing, GreedyInv
  <2>2. scan.todo = {}
    BY <2>1 DEF Planning
  <2>3. Rewriting
    BY <2>2, RewritingHolds
  <2> QED BY <1>2, <2>1, <2>3 DEF AllTold, StoryOf
<1>4. PICK i, k, tr : Meets(K, i, k, tr)
  BY <1>1, <1>3, MachineMeets
<1>5. PICK B, C : B = tr[k - 1] /\ C = tr[k]
  OBVIOUS
<1>6. i = pc[1] /\ i \in DOMAIN program /\ Agree(B, env, regs, mem) /\ Runs(i, B, Current, C)
  BY <1>1, <1>4, <1>5 DEF Meets, Saves
<1>7. PICK v, r : v = program[i].uses[n] /\ r = Current.uses[n]
  OBVIOUS
<1>8. n \in DOMAIN program[i].uses /\ env[v] # Junk
  BY <1>1, <1>6, <1>7
<1>9. v \in Vreg
  BY <1>3, <1>6, <1>7, <1>8 DEF AllTold, Rewriting, Selected, UsesOf
<1>10. r \in Reg /\ v \in B.held[r]
  BY <1>6, <1>7, <1>8 DEF Runs
<1>11. regs[r] = env[v]
  BY <1>6, <1>8, <1>9, <1>10 DEF Agree
<1> QED BY <1>6, <1>7, <1>11

LEMMA LinearCause ==
    ASSUME Sound, GreedyInv, LinearComputing, allocator = "linear", Handles(Leaders(program) \ {1})
    PROVE  LinearRefusesForCause
<1> SUFFICES ASSUME rw.refused, BlockIn(program, live_after, 1) = {}
             PROVE  Crowded(UsesOf(program, next - 1))
  BY DEF LinearRefusesForCause
<1>1. Handled
  BY DEF Handled, Handles, Supplied
<1> QED BY <1>1 DEF LinearComputing, Sources

(***************************************************************************)
(* rewrite_with_spills() raises only at an instruction whose sources are   *)
(* more than the registers of the bank, or for a value that the first      *)
(* block expects from nowhere. The first block is not asked to have its    *)
(* values supplied: what it expects is what the refusal may be about.      *)
(***************************************************************************)
THEOREM LinearRefusals ==
    ASSUME Sound
    PROVE  Spec => [](allocator = "linear" /\ Handles(Leaders(program) \ {1}) => LinearRefusesForCause)
<1>1. GreedyInv /\ LinearComputing => (allocator = "linear" /\ Handles(Leaders(program) \ {1}) => LinearRefusesForCause)
  BY LinearCause
<1> QED BY <1>1, GreedyInductive, LinearComputingInductive, PTL

(***************************************************************************)
(* SameValues of Backend for linear scan: in the code that                 *)
(* rewrite_with_spills() emits from the plan of allocate(), every          *)
(* instruction finds the values of its variables in its operand registers, *)
(* on every path. What a block expects must be what some block leaves      *)
(* behind, and, if values cross the edges in registers, every write must   *)
(* lie within its variable's interval. Values from outside are left out    *)
(* only where everything crosses the edges in slots, since the entry fills *)
(* registers.                                                              *)
(***************************************************************************)
THEOREM LinearComputes ==
    ASSUME Sound
    PROVE  Spec => [](allocator = "linear" /\ Handled /\ (EntryValues(program) = {} \/ ~InSlots) => SameValues)
<1>1. GreedyInv /\ Planning /\ Naming /\ LinearComputing
      => (allocator = "linear" /\ Handled /\ (EntryValues(program) = {} \/ ~InSlots) => SameValues)
  BY LinearSame DEF Comes
<1> QED BY <1>1, GreedyInductive, PlanningInductive, NamingInductive, LinearComputingInductive, PTL
=============================================================================
