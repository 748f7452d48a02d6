--------------------------- MODULE AnalysesProofs ---------------------------
(***************************************************************************)
(* Two analyses, for every graph and every order of service.               *)
(*                                                                         *)
(* Liveness: no block that is not waiting is out of date and nothing is    *)
(* believed live that some solution does without, so the answer is the least *)
(* solution, and that is what the paths of the program read, cycles cut out. *)
(*                                                                         *)
(* Constant propagation: where every block behind the entry defines        *)
(* something, its facts hold on every run of the program.                  *)
(***************************************************************************)
EXTENDS Liveness, Dataflow, NumberLemmas, SequenceTheorems, TLAPS

(***************************************************************************)
(* Types: the equations yield sets of values, the predecessors are blocks. *)
(***************************************************************************)
LEMMA NewOutType ==
    ASSUME NEW in, NEW b \in Block
    PROVE  NewOut(graph, in, b) \in SUBSET Value
BY DEF NewOut

(***************************************************************************)
(* The live-in of a block is made of values.                               *)
(***************************************************************************)
LEMMA NewInType ==
    ASSUME NEW in, NEW b \in Block
    PROVE  NewIn(graph, in, b) \in SUBSET Value
BY NewOutType DEF NewIn, Uses

(***************************************************************************)
(* Who waits again is a block.                                             *)
(***************************************************************************)
LEMMA PredecessorsType ==
    ASSUME NEW b PROVE Predecessors(graph, b) \in SUBSET Block
BY DEF Predecessors

(***************************************************************************)
(* The equations of a block read the live-in of its successors only.       *)
(***************************************************************************)
LEMMA NewOutLocal ==
    ASSUME NEW in, NEW other, NEW b \in Block,
           \A s \in graph.succ[b] : other[s] = in[s]
    PROVE  NewOut(graph, other, b) = NewOut(graph, in, b)
BY DEF NewOut, Across

(***************************************************************************)
(* They are monotone.                                                      *)
(***************************************************************************)
LEMMA NewOutMonotone ==
    ASSUME NEW in, NEW other, NEW b \in Block,
           \A s \in graph.succ[b] : in[s] \subseteq other[s]
    PROVE  NewOut(graph, in, b) \subseteq NewOut(graph, other, b)
BY DEF NewOut, Across

(***************************************************************************)
(* And so are those of the live-in, which adds and removes the same.       *)
(***************************************************************************)
LEMMA NewInMonotone ==
    ASSUME NEW in, NEW other, NEW b \in Block,
           \A s \in graph.succ[b] : in[s] \subseteq other[s]
    PROVE  NewIn(graph, in, b) \subseteq NewIn(graph, other, b)
BY NewOutMonotone DEF NewIn

(***************************************************************************)
(* The graph stays, so the equations do.                                   *)
(***************************************************************************)
LEMMA EquationsStay ==
    ASSUME graph' = graph, NEW in, NEW b \in Block
    PROVE  /\ NewOut(graph, in, b)' = NewOut(graph, in, b)
           /\ NewIn(graph, in, b)' = NewIn(graph, in, b)
BY DEF NewOut, NewIn, Across, Uses, Defs

(***************************************************************************)
(* The successors of a block are blocks.                                   *)
(***************************************************************************)
LEMMA GraphType ==
    ASSUME TypeOK, NEW b \in Block
    PROVE  graph.succ[b] \subseteq Block
BY GraphsAssumption DEF TypeOK

(***************************************************************************)
(* The sets stay sets of values of the program.                            *)
(***************************************************************************)
THEOREM TypeCorrect == Spec => []TypeOK
<1>1. Init => TypeOK
  BY DEF Init, TypeOK
<1>2. TypeOK /\ [Next]_vars => TypeOK'
  <2>1. SUFFICES ASSUME TypeOK, Next PROVE TypeOK'
    BY DEF TypeOK, vars
  <2>2. PICK b \in Block : Visit(b)
    BY <2>1 DEF Next
  <2>3. CASE Differs(b) /\ Changed(b)
    <3>1. graph' \in Graphs
      BY <2>1, <2>2 DEF Visit, TypeOK
    <3>2. worklist' \in SUBSET Block
      BY <2>1, <2>3, PredecessorsType DEF Changed, TypeOK
    <3>3. live_in' \in [Block -> SUBSET Value]
      BY <2>1, <2>3, NewInType DEF Changed, TypeOK
    <3>4. live_out' \in [Block -> SUBSET Value]
      BY <2>1, <2>3, NewOutType DEF Changed, TypeOK
    <3>5. QED
      BY <3>1, <3>2, <3>3, <3>4 DEF TypeOK
  <2>4. CASE worklist' = worklist \ {b} /\ UNCHANGED <<live_in, live_out>>
    BY <2>1, <2>2, <2>4 DEF Visit, TypeOK
  <2>5. QED
    BY <2>2, <2>3, <2>4 DEF Visit
<1>3. QED
  BY <1>1, <1>2, PTL DEF Spec

-----------------------------------------------------------------------------
(***************************************************************************)
(* Settled.  A step changes the live-in of one block b, and whatever reads *)
(* it waits afterwards; b itself is up to date unless it is such a reader. *)
(***************************************************************************)
UpToDate(b) == live_in[b] = NewIn(graph, live_in, b) /\ live_out[b] = NewOut(graph, live_in, b)

LEMMA UpToDateStays ==
    ASSUME TypeOK, graph' = graph, NEW b \in Block, NEW c \in Block,
           b \notin graph.succ[c], c # b, UpToDate(c), Changed(b)
    PROVE  UpToDate(c)'
<1>1. \A s \in graph.succ[c] : live_in'[s] = live_in[s]
  BY GraphType DEF Changed, TypeOK
<1>2. NewOut(graph, live_in', c) = NewOut(graph, live_in, c)
  BY <1>1, NewOutLocal
<1>3. NewIn(graph, live_in', c) = NewIn(graph, live_in, c)
  BY <1>2 DEF NewIn
<1>4. live_in'[c] = live_in[c] /\ live_out'[c] = live_out[c]
  BY DEF Changed, TypeOK
<1>5. NewOut(graph, live_in, c)' = NewOut(graph, live_in', c) /\ NewIn(graph, live_in, c)' = NewIn(graph, live_in', c)
  BY EquationsStay
<1>6. QED
  BY <1>2, <1>3, <1>4, <1>5 DEF UpToDate

(***************************************************************************)
(* The block just computed is up to date, unless it is its own successor.  *)
(***************************************************************************)
LEMMA UpToDateMade ==
    ASSUME TypeOK, graph' = graph, NEW b \in Block, b \notin graph.succ[b], Changed(b)
    PROVE  UpToDate(b)'
<1>1. \A s \in graph.succ[b] : live_in'[s] = live_in[s]
  BY GraphType DEF Changed, TypeOK
<1>2. NewOut(graph, live_in', b) = NewOut(graph, live_in, b)
  BY <1>1, NewOutLocal
<1>3. NewIn(graph, live_in', b) = NewIn(graph, live_in, b)
  BY <1>2 DEF NewIn
<1>4. live_in'[b] = NewIn(graph, live_in, b) /\ live_out'[b] = NewOut(graph, live_in, b)
  BY DEF Changed, TypeOK
<1>5. NewOut(graph, live_in, b)' = NewOut(graph, live_in', b) /\ NewIn(graph, live_in, b)' = NewIn(graph, live_in', b)
  BY EquationsStay
<1>6. QED
  BY <1>2, <1>3, <1>4, <1>5 DEF UpToDate

(***************************************************************************)
(* No block outside the worklist is out of date.                           *)
(***************************************************************************)
THEOREM NothingUnnoticed == Spec => []Settled
<1>1. Init => Settled
  BY DEF Init, Settled
<1>2. TypeOK /\ Settled /\ [Next]_vars => Settled'
  <2>1. SUFFICES ASSUME TypeOK, Settled, [Next]_vars, NEW c \in Block, c \notin worklist'
                 PROVE  UpToDate(c)'
    BY DEF Settled, UpToDate
  <2>2. CASE UNCHANGED vars
    <3>1. UpToDate(c)
      BY <2>1, <2>2 DEF Settled, UpToDate, vars
    <3>2. NewOut(graph, live_in, c)' = NewOut(graph, live_in', c) /\ NewIn(graph, live_in, c)' = NewIn(graph, live_in', c)
      BY <2>2, EquationsStay DEF vars
    <3>3. QED
      BY <3>1, <3>2, <2>2 DEF UpToDate, vars
  <2>3. CASE Next
    <3>1. PICK b \in Block : Visit(b)
      BY <2>3 DEF Next
    <3>2. graph' = graph
      BY <3>1 DEF Visit
    <3>3. CASE Differs(b) /\ Changed(b)
      <4>1. b \notin graph.succ[c]
        BY <2>1, <3>3 DEF Changed, Predecessors
      <4>2. CASE c = b
        BY <2>1, <3>2, <3>3, <4>1, <4>2, UpToDateMade
      <4>3. CASE c # b
        <5>1. c \notin worklist
          BY <2>1, <3>3, <4>3 DEF Changed
        <5>2. UpToDate(c)
          BY <2>1, <5>1 DEF Settled, UpToDate
        <5>3. QED
          BY <2>1, <3>2, <3>3, <4>1, <4>3, <5>2, UpToDateStays
      <4>4. QED
        BY <4>2, <4>3
    <3>4. CASE ~Differs(b) /\ worklist' = worklist \ {b} /\ UNCHANGED <<live_in, live_out>>
      <4>1. UpToDate(c)
        BY <2>1, <3>4 DEF Settled, UpToDate, Differs
      <4>2. NewOut(graph, live_in, c)' = NewOut(graph, live_in', c) /\ NewIn(graph, live_in, c)' = NewIn(graph, live_in', c)
        BY <3>2, EquationsStay
      <4>3. QED
        BY <4>1, <4>2, <3>4 DEF UpToDate
    <3>5. QED
      BY <3>1, <3>3, <3>4 DEF Visit
  <2>4. QED
    BY <2>1, <2>2, <2>3
<1>3. QED
  BY <1>1, <1>2, TypeCorrect, PTL DEF Spec

-----------------------------------------------------------------------------
(***************************************************************************)
(* Below: every value the iteration puts in a set is in that set of every  *)
(* solution, because the equations are monotone.                           *)
(***************************************************************************)
IsSolution(in) == \A b \in Block : in[b] = NewIn(graph, in, b)
Below(in) ==
    \A b \in Block : live_in[b] \subseteq in[b] /\ live_out[b] \subseteq NewOut(graph, in, b)

LEMMA BelowStays ==
    ASSUME TypeOK, NEW in \in [Block -> SUBSET Value], IsSolution(in), Below(in),
           graph' = graph, NEW b \in Block, Changed(b), NEW c \in Block
    PROVE  live_in'[c] \subseteq in[c] /\ live_out'[c] \subseteq NewOut(graph, in, c)
<1>1. CASE c # b
  BY <1>1 DEF Changed, TypeOK, Below
<1>2. CASE c = b
  <2>1. \A s \in graph.succ[b] : live_in[s] \subseteq in[s]
    BY GraphType DEF Below
  <2>2. NewIn(graph, live_in, b) \subseteq NewIn(graph, in, b) /\ NewOut(graph, live_in, b) \subseteq NewOut(graph, in, b)
    BY <2>1, NewInMonotone, NewOutMonotone
  <2>3. live_in'[b] = NewIn(graph, live_in, b) /\ live_out'[b] = NewOut(graph, live_in, b)
    BY DEF Changed, TypeOK
  <2>4. QED
    BY <1>2, <2>2, <2>3 DEF IsSolution
<1>3. QED
  BY <1>1, <1>2

(***************************************************************************)
(* Nothing is ever believed live that some solution does without.          *)
(***************************************************************************)
THEOREM NeverTooMuch == Spec => []BelowEverySolution
<1>1. Init => BelowEverySolution
  BY DEF Init, BelowEverySolution
<1>2. TypeOK /\ BelowEverySolution /\ [Next]_vars => BelowEverySolution'
  <2>1. SUFFICES ASSUME TypeOK, BelowEverySolution, [Next]_vars,
                        NEW in \in [Block -> SUBSET Value],
                        \A b \in Block : in[b] = NewIn(graph, in, b)'
                 PROVE  \A b \in Block : /\ live_in'[b] \subseteq in[b]
                                         /\ live_out'[b] \subseteq NewOut(graph, in, b)'
    BY DEF BelowEverySolution
  <2>2. graph' = graph
    BY <2>1 DEF Next, Visit, vars
  <2>3. \A b \in Block : NewIn(graph, in, b)' = NewIn(graph, in, b) /\ NewOut(graph, in, b)' = NewOut(graph, in, b)
    BY <2>2, EquationsStay
  <2>4. IsSolution(in)
    BY <2>1, <2>3 DEF IsSolution
  <2>5. Below(in)
    BY <2>1, <2>4 DEF BelowEverySolution, IsSolution, Below
  <2>6. SUFFICES ASSUME NEW c \in Block
                 PROVE  live_in'[c] \subseteq in[c] /\ live_out'[c] \subseteq NewOut(graph, in, c)
    BY <2>3
  <2>7. CASE UNCHANGED <<live_in, live_out>>
    BY <2>5, <2>7 DEF Below
  <2>8. CASE \E b \in Block : Changed(b)
    BY <2>1, <2>2, <2>4, <2>5, <2>8, BelowStays
  <2>9. QED
    BY <2>1, <2>7, <2>8 DEF Next, Visit, vars
<1>3. QED
  BY <1>1, <1>2, TypeCorrect, PTL DEF Spec

(***************************************************************************)
(* The answer of analyze_liveness: when nothing waits, the sets solve the  *)
(* equations and lie below every other solution.                           *)
(***************************************************************************)
THEOREM AnswerIsLeast == Spec => []LeastSolution
<1>1. Settled /\ BelowEverySolution => LeastSolution
  BY DEF Settled, LeastSolution, Solves
<1>2. QED
  BY <1>1, NothingUnnoticed, NeverTooMuch, PTL

-----------------------------------------------------------------------------
(***************************************************************************)
(* Paths of any length.                                                    *)
(***************************************************************************)
Route(n, p, b) ==
    /\ n \in Nat \ {0} /\ p \in [1..n -> Block] /\ p[1] = b
    /\ \A i \in 1..(n - 1) : p[i + 1] \in graph.succ[p[i]]
ReadsLast(c, v) ==
    \/ v \in Uses(graph, c)
    \/ /\ v \notin Defs(graph, c)
       /\ \E s \in graph.succ[c] : v \in graph.edge_uses[<<c, s>>]
ReadsAlong(n, p, v) ==
    /\ \A i \in 1..(n - 1) : v \notin Defs(graph, p[i]) /\ v \notin graph.phi_defs[p[i + 1]]
    /\ ReadsLast(p[n], v)
Reached(b) == {v \in Value : \E n, p : Route(n, p, b) /\ ReadsAlong(n, p, v)}

\* A path of n blocks is a sequence of length n.
LEMMA RouteLength ==
    ASSUME NEW n, NEW p, NEW b, Route(n, p, b) PROVE Len(p) = n
<1>1. n \in Nat /\ p \in [1..n -> Block]
  BY DEF Route
<1>2. p \in Seq(Block)
  BY <1>1, SeqDef
<1> QED BY <1>1, <1>2, LenProperties

\* The paths of the specification are those no longer than there are blocks.
LEMMA PathsAreRoutes ==
    ASSUME NEW b \in Block, NEW p
    PROVE  p \in Paths(b) <=> \E n \in 1..Cardinality(Block) : Route(n, p, b) /\ Len(p) = n
<1>1. Cardinality(Block) \in Nat
  BY BlockAssumption, FS_CardinalityType
<1>2. ASSUME NEW n \in Nat, NEW q \in [1..n -> Block] PROVE Len(q) = n
  <2>1. q \in Seq(Block)
    BY SeqDef
  <2> QED BY <2>1, LenProperties
<1>3. ASSUME p \in Paths(b) PROVE \E n \in 1..Cardinality(Block) : Route(n, p, b) /\ Len(p) = n
  <2>1. PICK n \in 1..Cardinality(Block) : p \in [1..n -> Block]
    BY <1>3 DEF Paths
  <2>2. Len(p) = n /\ n \in Nat \ {0}
    BY <1>1, <1>2, <2>1
  <2> QED BY <1>3, <2>1, <2>2 DEF Paths, Route
<1>4. ASSUME NEW n \in 1..Cardinality(Block), Route(n, p, b) PROVE p \in Paths(b)
  <2>1. p \in [1..n -> Block] /\ n \in Nat
    BY <1>1, <1>4 DEF Route
  <2>2. Len(p) = n
    BY <1>2, <2>1
  <2> QED BY <1>4, <2>1, <2>2 DEF Paths, Route
<1> QED BY <1>3, <1>4

\* Reading along a path, by its length.
LEMMA ReadsIs ==
    ASSUME NEW p, NEW v PROVE Reads(p, v) <=> ReadsAlong(Len(p), p, v)
BY DEF Reads, ReadsAlong, ReadsLast

\* Live at a block's entry: some path that is not too long reads it.
LEMMA AtEntryIs ==
    ASSUME NEW b \in Block, NEW v \in Value
    PROVE  v \in LiveAtEntry(b) <=>
              \E n \in 1..Cardinality(Block) : \E p : Route(n, p, b) /\ ReadsAlong(n, p, v)
<1>1. v \in LiveAtEntry(b) <=> \E p \in Paths(b) : ReadsAlong(Len(p), p, v)
  BY ReadsIs DEF LiveAtEntry
<1>2. \A p : p \in Paths(b) <=> \E n \in 1..Cardinality(Block) : Route(n, p, b) /\ Len(p) = n
  BY PathsAreRoutes
<1>3. \A n, p : Route(n, p, b) => Len(p) = n
  BY RouteLength
<1> QED BY <1>1, <1>2, <1>3

\* A cycle can be cut out of a path that reads v.
LEMMA CutCycle ==
    ASSUME NEW n, NEW p, NEW b, NEW v, Route(n, p, b), ReadsAlong(n, p, v),
           NEW i \in 1..n, NEW j \in 1..n, i < j, p[i] = p[j]
    PROVE  \E m, q : m < n /\ Route(m, q, b) /\ ReadsAlong(m, q, v)
<1> DEFINE m == n - (j - i)
           q == [k \in 1..m |-> IF k <= i THEN p[k] ELSE p[k + (j - i)]]
<1>1. n \in Nat \ {0} /\ p \in [1..n -> Block] /\ p[1] = b
      /\ \A k \in 1..(n - 1) : p[k + 1] \in graph.succ[p[k]]
  BY DEF Route
<1>2. m \in Nat \ {0} /\ m < n /\ i <= m
  BY <1>1
<1>3. \A k \in 1..m : k > i => k + (j - i) \in 1..n
  BY <1>1
<1>4. q \in [1..m -> Block] /\ q[1] = b
  BY <1>1, <1>2, <1>3
<1>5. \A k \in 1..m : q[k] = IF k <= i THEN p[k] ELSE p[k + (j - i)]
  OBVIOUS
<1>6. q[m] = p[n]
  BY <1>1, <1>2
<1>7. m = n - (j - i) /\ m \in Nat
  BY <1>2
<1> HIDE DEF q, m
\* Each step of q is a step of p.
<1>8. ASSUME NEW k \in 1..(m - 1)
      PROVE  \E l \in 1..(n - 1) : q[k] = p[l] /\ q[k + 1] = p[l + 1]
  <2>0. k \in Nat /\ k \in 1..m /\ k + 1 \in 1..m /\ i \in Nat /\ j \in Nat
    BY <1>1, <1>7
  <2>1. CASE k < i
    <3>1. k \in 1..(n - 1) /\ k <= i /\ k + 1 <= i
      BY <1>1, <2>0, <2>1
    <3>2. q[k] = p[k] /\ q[k + 1] = p[k + 1]
      BY <1>5, <2>0, <3>1
    <3> QED BY <3>1, <3>2
  <2>2. CASE k = i
    <3>1. j \in 1..(n - 1) /\ ~(k + 1 <= i) /\ (k + 1) + (j - i) = j + 1
      BY <1>1, <1>7, <2>0, <2>2
    <3>2. q[k] = p[j] /\ q[k + 1] = p[j + 1]
      BY <1>5, <2>0, <2>2, <3>1
    <3> QED BY <3>1, <3>2
  <2>3. CASE k > i
    <3>1. k + (j - i) \in 1..(n - 1) /\ (k + 1) + (j - i) = (k + (j - i)) + 1
          /\ ~(k <= i) /\ ~(k + 1 <= i)
      BY <1>1, <1>7, <2>0, <2>3
    <3>2. q[k] = p[k + (j - i)] /\ q[k + 1] = p[(k + (j - i)) + 1]
      BY <1>5, <2>0, <3>1
    <3> QED BY <3>1, <3>2
  <2> QED BY <2>0, <2>1, <2>2, <2>3
<1>9. Route(m, q, b)
  BY <1>1, <1>2, <1>4, <1>8 DEF Route
<1>10. ReadsAlong(m, q, v)
  BY <1>6, <1>8 DEF ReadsAlong
<1> QED BY <1>2, <1>9, <1>10

\* A shortest one enters no block twice, so simple paths are enough.
LEMMA SimplePathsAreEnough ==
    ASSUME NEW b \in Block
    PROVE  Reached(b) = LiveAtEntry(b)
<1>1. LiveAtEntry(b) \subseteq Reached(b)
  BY AtEntryIs DEF Reached, LiveAtEntry, Route
<1>2. ASSUME NEW v \in Reached(b) PROVE v \in LiveAtEntry(b)
  <2> DEFINE Lengths == {n \in Nat : \E p : Route(n, p, b) /\ ReadsAlong(n, p, v)}
  <2>1. Lengths \in SUBSET Nat /\ Lengths # {}
    BY DEF Reached, Route
  <2>2. PICK n \in Lengths : \A m \in Lengths : n <= m
    <3> HIDE DEF Lengths
    <3> QED BY <2>1, LeastNatural
  <2>3. PICK p : Route(n, p, b) /\ ReadsAlong(n, p, v)
    BY <2>2
  <2>4. n \in Nat \ {0} /\ p \in [1..n -> Block]
    BY <2>3 DEF Route
  <2>5. ASSUME NEW i \in 1..n, NEW j \in 1..n, i # j PROVE p[i] # p[j]
    <3>1. CASE i < j /\ p[i] = p[j]
      <4>1. PICK m, q : m < n /\ Route(m, q, b) /\ ReadsAlong(m, q, v)
        BY <2>3, <3>1, CutCycle
      <4>2. m \in Lengths
        BY <4>1 DEF Route
      <4> QED BY <2>2, <2>4, <4>1, <4>2
    <3>2. CASE j < i /\ p[i] = p[j]
      <4>1. PICK m, q : m < n /\ Route(m, q, b) /\ ReadsAlong(m, q, v)
        BY <2>3, <3>2, CutCycle
      <4>2. m \in Lengths
        BY <4>1 DEF Route
      <4> QED BY <2>2, <2>4, <4>1, <4>2
    <3> QED BY <2>4, <2>5, <3>1, <3>2
  <2>6. n <= Cardinality(Block)
    <3>1. IsFiniteSet(1..n) /\ Cardinality(1..n) = n
      BY <2>4, FS_Interval
    <3>2. Cardinality(Block) \in Nat
      BY BlockAssumption, FS_CardinalityType
    <3> HIDE DEF Lengths
    <3>3. ~(Cardinality(Block) < Cardinality(1..n))
      BY <2>4, <2>5, <3>1, BlockAssumption, FS_PigeonHole
    <3> QED BY <2>4, <3>1, <3>2, <3>3
  <2>7. n \in 1..Cardinality(Block) /\ v \in Value
    <3>1. Cardinality(Block) \in Nat
      BY BlockAssumption, FS_CardinalityType
    <3> QED BY <2>4, <2>6, <3>1 DEF Reached
  <2> QED BY <2>3, <2>7, AtEntryIs
<1> QED BY <1>1, <1>2

\* What is read along some path solves the equations.
LEMMA ReachedSolves ==
    ASSUME TypeOK, NEW b \in Block
    PROVE  Reached(b) = NewIn(graph, [c \in Block |-> Reached(c)], b)
<1> DEFINE R == [c \in Block |-> Reached(c)]
<1>0. graph.succ[b] \in SUBSET Block
  BY GraphType
<1>1. ASSUME NEW v \in Reached(b) PROVE v \in NewIn(graph, R, b)
  <2>0. v \in Value
    BY DEF Reached
  <2>1. PICK n, p : Route(n, p, b) /\ ReadsAlong(n, p, v)
    BY DEF Reached
  <2>2. /\ n \in Nat \ {0} /\ p \in [1..n -> Block] /\ p[1] = b
        /\ \A i \in 1..(n - 1) : p[i + 1] \in graph.succ[p[i]]
    BY <2>1 DEF Route
  <2>3. CASE n = 1
    <3>1. ReadsLast(b, v)
      BY <2>1, <2>2, <2>3 DEF ReadsAlong
    <3> QED BY <1>0, <2>0, <3>1 DEF ReadsLast, NewIn, NewOut, Across
  <2>4. CASE n # 1
    <3> DEFINE q == [k \in 1..(n - 1) |-> p[k + 1]]
    <3>1. 1 \in 1..(n - 1) /\ n - 1 \in Nat \ {0}
      BY <2>2, <2>4
    <3>2. q \in [1..(n - 1) -> Block] /\ q[1] = p[2] /\ q[n - 1] = p[n]
      BY <2>2, <3>1
    <3>3. \A k \in 1..((n - 1) - 1) : q[k] = p[k + 1] /\ q[k + 1] = p[(k + 1) + 1] /\ k + 1 \in 1..(n - 1)
      BY <2>2, <3>1
    <3> HIDE DEF q
    <3>4. Route(n - 1, q, p[2])
      BY <2>2, <3>1, <3>2, <3>3 DEF Route
    <3>5. ReadsAlong(n - 1, q, v)
      BY <2>1, <3>2, <3>3 DEF ReadsAlong
    <3>6. p[2] \in graph.succ[b] /\ p[2] \in Block
      BY <2>2, <3>1, <3>2
    <3>7. v \notin Defs(graph, b) /\ v \notin graph.phi_defs[p[2]]
      BY <2>1, <2>2, <3>1 DEF ReadsAlong
    <3>8. v \in R[p[2]]
      BY <2>0, <3>1, <3>4, <3>5, <3>6 DEF Reached
    <3> HIDE DEF R
    <3> QED BY <2>0, <3>6, <3>7, <3>8 DEF NewIn, NewOut, Across
  <2> QED BY <2>3, <2>4
<1>2. ASSUME NEW v \in NewIn(graph, R, b) PROVE v \in Reached(b)
  <2>0. v \in Value
    BY NewInType
  <2>1. CASE ReadsLast(b, v)
    <3> DEFINE p == [k \in 1..1 |-> b]
    <3>1. Route(1, p, b) /\ ReadsAlong(1, p, v)
      BY <2>1 DEF Route, ReadsAlong
    <3> QED BY <2>0, <3>1 DEF Reached
  <2>2. CASE ~ReadsLast(b, v)
    <3>1. PICK s \in graph.succ[b] : v \in R[s] /\ v \notin graph.phi_defs[s] /\ v \notin Defs(graph, b)
      <4> HIDE DEF R
      <4> QED BY <2>2 DEF NewIn, NewOut, Across, ReadsLast
    <3>2. s \in Block /\ v \in Reached(s)
      BY <1>0, <3>1
    <3>3. PICK n, p : Route(n, p, s) /\ ReadsAlong(n, p, v)
      BY <3>2 DEF Reached
    <3>4. /\ n \in Nat \ {0} /\ p \in [1..n -> Block] /\ p[1] = s
          /\ \A i \in 1..(n - 1) : p[i + 1] \in graph.succ[p[i]]
      BY <3>3 DEF Route
    <3> DEFINE q == [k \in 1..(n + 1) |-> IF k = 1 THEN b ELSE p[k - 1]]
    <3>5. q \in [1..(n + 1) -> Block] /\ q[1] = b /\ q[2] = s /\ q[n + 1] = p[n] /\ n + 1 \in Nat \ {0}
      BY <3>4
    <3>6. \A k \in 1..((n + 1) - 1) : k # 1 =>
             k - 1 \in 1..(n - 1) /\ q[k] = p[k - 1] /\ q[k + 1] = p[(k - 1) + 1]
      BY <3>4
    <3> HIDE DEF q
    <3>7. Route(n + 1, q, b)
      BY <3>1, <3>4, <3>5, <3>6 DEF Route
    <3>8. ReadsAlong(n + 1, q, v)
      BY <3>1, <3>3, <3>5, <3>6 DEF ReadsAlong
    <3> QED BY <2>0, <3>5, <3>7, <3>8 DEF Reached
  <2> QED BY <2>1, <2>2
<1> QED BY <1>1, <1>2

\* Every solution contains it.
LEMMA ReachedIsLeast ==
    ASSUME TypeOK, NEW in, IsSolution(in), NEW b \in Block
    PROVE  Reached(b) \subseteq in[b]
<1> SUFFICES ASSUME NEW v \in Reached(b), v \notin in[b] PROVE FALSE
  OBVIOUS
<1>0. v \in Value
  BY DEF Reached
<1>1. PICK n, p : Route(n, p, b) /\ ReadsAlong(n, p, v)
  BY DEF Reached
<1>2. /\ n \in Nat \ {0} /\ p \in [1..n -> Block] /\ p[1] = b
      /\ \A i \in 1..(n - 1) : p[i + 1] \in graph.succ[p[i]]
  BY <1>1 DEF Route
<1> DEFINE S == {i \in 1..n : v \notin in[p[i]]}
<1>3. S \in SUBSET (1..n) /\ S # {}
  BY <1>2
<1>4. PICK i \in S : \A j \in S : j <= i
  <2> HIDE DEF S
  <2> QED BY <1>2, <1>3, GreatestBelow
<1>5. p[i] \in Block /\ in[p[i]] = NewIn(graph, in, p[i]) /\ i \in 1..n
  BY <1>2, <1>4 DEF IsSolution
<1>6. graph.succ[p[i]] \in SUBSET Block
  BY <1>5, GraphType
<1>7. CASE i = n
  <2>1. ReadsLast(p[i], v)
    BY <1>1, <1>7 DEF ReadsAlong
  <2>2. v \in NewIn(graph, in, p[i])
    BY <1>0, <1>6, <2>1 DEF ReadsLast, NewIn, NewOut, Across
  <2> QED BY <1>4, <1>5, <2>2
<1>8. CASE i # n
  <2>1. i \in 1..(n - 1) /\ i + 1 \in 1..n /\ ~(i + 1 <= i)
    BY <1>2, <1>5, <1>8
  <2>2. v \in in[p[i + 1]]
    BY <1>4, <2>1
  <2>3. p[i + 1] \in graph.succ[p[i]] /\ v \notin Defs(graph, p[i]) /\ v \notin graph.phi_defs[p[i + 1]]
    BY <1>1, <1>2, <2>1 DEF ReadsAlong
  <2>4. v \in NewIn(graph, in, p[i])
    BY <1>0, <2>2, <2>3 DEF NewIn, NewOut, Across
  <2> QED BY <1>4, <1>5, <2>4
<1> QED BY <1>7, <1>8

-----------------------------------------------------------------------------
(***************************************************************************)
(* Backwards over the instructions of a block.                             *)
(***************************************************************************)
\* Live before instruction i: read from there on before it is written, or live
\* behind the block and not written.
Before(code, out, i) ==
    {v \in Value :
        \/ \E k \in i..Len(code) : v \in code[k].uses /\ \A j \in i..(k - 1) : v \notin code[j].defs
        \/ v \in out /\ \A j \in i..Len(code) : v \notin code[j].defs}

\* One instruction back.
LEMMA BeforeSteps ==
    ASSUME NEW code \in Code, NEW out \in SUBSET Value
    PROVE  \A i \in 1..(Len(code) + 1) :
              Before(code, out, i) =
                IF i > Len(code) THEN out
                ELSE (Before(code, out, i + 1) \ code[i].defs) \cup code[i].uses
<1> SUFFICES ASSUME NEW i \in 1..(Len(code) + 1)
             PROVE  Before(code, out, i) =
                      IF i > Len(code) THEN out
                      ELSE (Before(code, out, i + 1) \ code[i].defs) \cup code[i].uses
  OBVIOUS
<1>1. Len(code) \in Nat /\ \A k \in 1..Len(code) : code[k] \in [uses : SUBSET Value, defs : SUBSET Value]
  BY LenProperties, ElementOfSeq DEF Code
<1>2. CASE i > Len(code)
  <2>1. i..Len(code) = {}
    BY <1>1, <1>2
  <2> QED BY <1>2, <2>1 DEF Before
<1>3. CASE ~(i > Len(code))
  <2>1. i \in 1..Len(code) /\ i..(i - 1) = {}
    BY <1>1, <1>3
  <2>2. i..Len(code) = {i} \cup ((i + 1)..Len(code)) /\ i \notin (i + 1)..Len(code)
    BY <1>1, <2>1
  <2>3. \A k \in (i + 1)..Len(code) : i..(k - 1) = {i} \cup ((i + 1)..(k - 1))
    BY <1>1, <2>1
  <2>4. code[i].uses \in SUBSET Value
    BY <1>1, <2>1
  <2>5. ASSUME NEW v \in Value
        PROVE  v \in Before(code, out, i) <=>
                  v \in code[i].uses \/ (v \in Before(code, out, i + 1) /\ v \notin code[i].defs)
    BY <2>1, <2>2, <2>3 DEF Before
  <2>6. Before(code, out, i) \in SUBSET Value /\ Before(code, out, i + 1) \in SUBSET Value
    BY DEF Before
  <2> HIDE DEF Before
  <2> QED BY <1>3, <2>4, <2>5, <2>6
<1> QED BY <1>2, <1>3

\* LiveFrom is the function its definition describes, and so is Before.
LEMMA LiveFromIs ==
    ASSUME NEW g, NEW out, NEW b \in Block, g.code[b] \in Code, out[b] \in SUBSET Value
    PROVE  \A i \in 1..(Len(g.code[b]) + 1) : LiveFrom(g, out, b)[i] = Before(g.code[b], out[b], i)
<1> DEFINE code == g.code[b]
           n == Len(code)
           Step(f, i) == IF i > n THEN out[b] ELSE (f[i + 1] \ code[i].defs) \cup code[i].uses
           Described(f) == f = [i \in 1..(n + 1) |-> Step(f, i)]
           L == LiveFrom(g, out, b)
           B == [i \in 1..(n + 1) |-> Before(code, out[b], i)]
<1>1. n \in Nat
  BY DEF Code
<1>2. Described(B)
  <2>1. \A i \in 1..(n + 1) : Before(code, out[b], i) = Step(B, i)
    <3>1. \A i \in 1..(n + 1) : ~(i > n) => i + 1 \in 1..(n + 1)
      BY <1>1
    <3>2. \A i \in 1..(n + 1) :
             Before(code, out[b], i) = IF i > n THEN out[b]
                ELSE (Before(code, out[b], i + 1) \ code[i].defs) \cup code[i].uses
      BY BeforeSteps
    <3> QED BY <3>1, <3>2
  <2> HIDE DEF Step
  <2> QED BY <2>1
<1>3. L = CHOOSE f : Described(f)
  BY DEF LiveFrom
<1>4. Described(L)
  <2> HIDE DEF Described, L
  <2> QED BY <1>2, <1>3
<1> DEFINE Wrong == {i \in 1..(n + 1) : L[i] # B[i]}
<1>5. SUFFICES Wrong = {}
  BY DEF Wrong
<1>6. ASSUME Wrong # {} PROVE FALSE
  <2>1. Wrong \in SUBSET (1..(n + 1)) /\ n + 1 \in Nat
    BY <1>1
  <2>2. PICK i \in Wrong : \A j \in Wrong : j <= i
    <3> HIDE DEF Wrong
    <3> QED BY <1>6, <2>1, GreatestBelow
  <2>3. i \in 1..(n + 1)
    BY <2>2
  <2>4. L[i] = Step(L, i) /\ B[i] = Step(B, i)
    <3> HIDE DEF Step, L, B
    <3> QED BY <1>2, <1>4, <2>3
  <2>5. CASE i > n
    <3> HIDE DEF L, B
    <3> QED BY <2>2, <2>4, <2>5
  <2>6. CASE ~(i > n)
    <3>1. i + 1 \in 1..(n + 1) /\ ~(i + 1 <= i)
      BY <1>1, <2>3, <2>6
    <3>2. i + 1 \notin Wrong
      <4> HIDE DEF Wrong
      <4> QED BY <2>2, <3>1
    <3>3. L[i + 1] = B[i + 1]
      <4> HIDE DEF L, B
      <4> QED BY <3>1, <3>2
    <3> HIDE DEF L, B
    <3> QED BY <2>2, <2>4, <3>3
  <2> QED BY <2>5, <2>6
<1> QED BY <1>6

\* What is live before the first instruction is the block's live-in.
LEMMA LiveFromStart ==
    ASSUME TypeOK, NEW b \in Block,
           live_out[b] = NewOut(graph, live_in, b)
    PROVE  LiveFrom(graph, live_out, b)[1] = NewIn(graph, live_in, b)
<1> DEFINE code == graph.code[b]
<1>1. code \in Code /\ live_out[b] \in SUBSET Value
  BY GraphsAssumption DEF TypeOK
<1>2. Len(code) \in Nat /\ DOMAIN code = 1..Len(code)
  BY <1>1 DEF Code
<1>3. LiveFrom(graph, live_out, b)[1] = Before(code, live_out[b], 1)
  BY <1>1, <1>2, LiveFromIs
<1>4. Before(code, live_out[b], 1) = Uses(graph, b) \cup (live_out[b] \ Defs(graph, b))
  <2> HIDE DEF code
  <2>1. Uses(graph, b) = {v \in Value : \E k \in 1..Len(code) :
            v \in code[k].uses /\ \A j \in 1..(k - 1) : v \notin code[j].defs}
    BY <1>2 DEF Uses, code
  <2>2. Defs(graph, b) = {v \in Value : \E k \in 1..Len(code) : v \in code[k].defs}
    BY <1>2 DEF Defs, code
  <2> QED BY <1>1, <2>1, <2>2 DEF Before
<1> QED BY <1>3, <1>4 DEF NewIn

(***************************************************************************)
(* What analyze_liveness returns is what the code can still read: a value  *)
(* is live exactly where some path reads it before overwriting it, at the  *)
(* start of every block, before its first instruction, and on every edge.  *)
(***************************************************************************)
THEOREM LiveIsReadLater == Spec => []LiveMeansRead
<1>1. TypeOK /\ LeastSolution => LiveMeansRead
  <2> SUFFICES ASSUME TypeOK, LeastSolution, worklist = {}, NEW b \in Block
               PROVE  /\ live_in[b] = LiveAtEntry(b)
                      /\ LiveFrom(graph, live_out, b)[1] = live_in[b]
                      /\ \A s \in graph.succ[b] :
                            Across(graph, live_in, b, s) =
                               (LiveAtEntry(s) \ graph.phi_defs[s]) \cup graph.edge_uses[<<b, s>>]
    BY DEF LiveMeansRead
  <2>1. Solves(live_in, live_out) /\ BelowEverySolution
    BY DEF LeastSolution
  <2>2. IsSolution(live_in)
    BY <2>1 DEF Solves, IsSolution
  <2> DEFINE R == [c \in Block |-> Reached(c)]
  <2>3. R \in [Block -> SUBSET Value] /\ \A c \in Block : R[c] = NewIn(graph, R, c)
    BY ReachedSolves DEF Reached
  <2>4. \A c \in Block : live_in[c] \subseteq R[c]
    <3> HIDE DEF R
    <3> QED BY <2>1, <2>3 DEF BelowEverySolution
  <2>5. \A c \in Block : live_in[c] = Reached(c)
    BY <2>2, <2>4, ReachedIsLeast
  <2>6. \A c \in Block : live_in[c] = LiveAtEntry(c)
    BY <2>5, SimplePathsAreEnough
  <2>7. LiveFrom(graph, live_out, b)[1] = live_in[b]
    BY <2>1, LiveFromStart DEF Solves
  <2>8. graph.succ[b] \in SUBSET Block
    BY GraphType
  <2>9. \A s \in graph.succ[b] :
           Across(graph, live_in, b, s) =
              (LiveAtEntry(s) \ graph.phi_defs[s]) \cup graph.edge_uses[<<b, s>>]
    BY <2>6, <2>8 DEF Across
  <2> QED BY <2>6, <2>7, <2>9
<1> QED BY <1>1, TypeCorrect, AnswerIsLeast, PTL

-----------------------------------------------------------------------------
(***************************************************************************)
(* One instruction, and the meet.                                          *)
(***************************************************************************)

(***************************************************************************)
(* An operand resolved to a constant has that constant for its value.      *)
(***************************************************************************)
LEMMA ResolvedHolds ==
    ASSUME NEW o, NEW env, NEW known, Holds(env, known), IsKnown(o, env),
           ResolveOperand(o, known) # Overdefined
    PROVE  ResolveOperand(o, known) = <<ValueOf(o, env)>>
BY DEF ResolveOperand, IsKnown, ValueOf, Holds

(***************************************************************************)
(* If the fact about an instruction is a constant, it computes nothing else. *)
(***************************************************************************)
LEMMA FactOfOutcome ==
    ASSUME NEW i, NEW env, NEW known, Holds(env, known), NEW v \in Outcomes(i, env),
           i.op \in {"ADD", "MUL"} => {1, 2} \subseteq DOMAIN i.args,
           Fact(i, known) # Overdefined
    PROVE  Fact(i, known) = <<v>>
<1>1. CASE i.op = "LOAD_CONST"
  BY <1>1 DEF Fact, Outcomes
<1>2. CASE i.op \in {"ADD", "MUL"}
  <2> DEFINE left == ResolveOperand(i.args[1], known)
             right == ResolveOperand(i.args[2], known)
             a == ValueOf(i.args[1], env)
             b == ValueOf(i.args[2], env)
  <2>1. Fact(i, known) = EvalBinary(i.op, left, right)
    BY <1>2 DEF Fact
  <2>2. Defined(i, env)
    BY <1>2 DEF Outcomes
  <2>3. v = Computed(i.op, a, b)
    BY <1>2, <2>2 DEF Outcomes
  <2>4. IsKnown(i.args[1], env) /\ IsKnown(i.args[2], env)
    BY <1>2, <2>2 DEF Defined
  <2> HIDE DEF left, right, a, b
  <2>5. left # Overdefined /\ right # Overdefined
    BY <2>1 DEF EvalBinary
  <2>6. left = <<a>> /\ right = <<b>>
    BY <2>4, <2>5, ResolvedHolds DEF left, right, a, b
  <2>7. Fact(i, known) = <<Computed(i.op, left[1], right[1])>>
    BY <2>1, <2>5 DEF EvalBinary
  <2> QED BY <2>3, <2>6, <2>7
<1>3. CASE ~(i.op \in {"LOAD_CONST", "ADD", "MUL"})
  BY <1>3 DEF Fact
<1> QED BY <1>1, <1>2, <1>3

(***************************************************************************)
(* Facts that hold in front of an instruction hold behind it.              *)
(***************************************************************************)
LEMMA WithHolds ==
    ASSUME NEW i, NEW env, NEW known, Holds(env, known), NEW v \in Outcomes(i, env),
           i.op \in {"ADD", "MUL"} => {1, 2} \subseteq DOMAIN i.args
    PROVE  Holds(With(env, i.dest, v), With(known, i.dest, Fact(i, known)))
<1>1. Fact(i, known) # Overdefined => Fact(i, known) = <<v>>
  BY FactOfOutcome
<1> QED BY <1>1 DEF With, Holds

(***************************************************************************)
(* Facts met with others still hold.                                       *)
(***************************************************************************)
LEMMA MeetHolds ==
    ASSUME NEW envs, IsFiniteSet(envs), NEW e \in envs, NEW env, Holds(env, e)
    PROVE  Holds(env, MeetEnvs(envs))
<1> SUFFICES ASSUME NEW n \in DOMAIN env
             PROVE  n \in DOMAIN MeetEnvs(envs)
                    /\ (MeetEnvs(envs)[n] # Overdefined => MeetEnvs(envs)[n] = <<env[n]>>)
  BY DEF Holds
<1> DEFINE having == {f \in envs : n \in DOMAIN f}
           facts == {f[n] : f \in having}
<1>1. n \in DOMAIN e /\ (e[n] # Overdefined => e[n] = <<env[n]>>)
  BY DEF Holds
<1>2. e[n] \in facts
  BY <1>1
<1>3. n \in UNION {DOMAIN f : f \in envs}
  BY <1>1
<1>4. n \in DOMAIN MeetEnvs(envs) /\ MeetEnvs(envs)[n] = MeetOf(facts)
  BY <1>3 DEF MeetEnvs
<1>5. IsFiniteSet(facts)
  <2>1. IsFiniteSet(having)
    BY FS_Subset
  <2> DEFINE h == [f \in having |-> f[n]]
  <2>2. h \in Surjection(having, facts)
    BY DEF Surjection
  <2> HIDE DEF h, having, facts
  <2> QED BY <2>1, <2>2, FS_Surjection
<1> HIDE DEF facts
<1>6. ASSUME MeetOf(facts) # Overdefined PROVE MeetOf(facts) = e[n]
  <2>1. Cardinality(facts) = 1
    BY <1>6 DEF MeetOf
  <2>2. \E x : facts = {x}
    BY <1>5, <2>1, FS_Singleton
  <2> QED BY <1>2, <2>1, <2>2 DEF MeetOf
<1> QED BY <1>1, <1>4, <1>6

-----------------------------------------------------------------------------
(***************************************************************************)
(* A block: the facts after each instruction, and the values behind it.    *)
(***************************************************************************)
FactsAfter(code, env, f) ==
    /\ DOMAIN f = 0..Len(code) /\ f[0] = env
    /\ \A k \in 1..Len(code) : f[k] = With(f[k-1], code[k].dest, Fact(code[k], f[k-1]))

ValuesBehind(code, env, s) ==
    /\ DOMAIN s = 0..Len(code) /\ s[0] = {env}
    /\ \A k \in 1..Len(code) :
          s[k] = UNION {{With(e, code[k].dest, v) : v \in Outcomes(code[k], e)} : e \in s[k-1]}

(***************************************************************************)
(* The recursion of Transfer, unfolded: one instruction after the other.   *)
(***************************************************************************)
LEMMA TransferIs ==
    ASSUME NEW g, NEW b, NEW env, Len(g.code[b]) \in Nat
    PROVE  \E f : FactsAfter(g.code[b], env, f) /\ Transfer(g, b, env) = f[Len(g.code[b])]
<1> DEFINE code == g.code[b]
           Step(f, k) == IF k = 0 THEN env ELSE With(f[k-1], code[k].dest, Fact(code[k], f[k-1]))
           Described(n, f) == f = [k \in 0..n |-> Step(f, k)]
           Undescribed == {n \in Nat : ~ \E f : Described(n, f)}
<1>1. Undescribed = {}
  <2> SUFFICES ASSUME Undescribed # {} PROVE FALSE
    OBVIOUS
  <2>1. PICK n \in Undescribed : \A m \in Undescribed : n <= m
    <3> HIDE DEF Described
    <3> QED BY LeastNatural
  <2>2. CASE n = 0
    <3> DEFINE f == [k \in 0..0 |-> env]
    <3>1. Described(0, f)
      OBVIOUS
    <3> QED BY <2>1, <2>2, <3>1
  <2>3. CASE n # 0
    <3>1. n - 1 \in Nat /\ n \in Nat /\ ~(n <= n - 1)
      BY <2>1, <2>3
    <3>2. PICK f : Described(n - 1, f)
      BY <2>1, <3>1
    <3> DEFINE h == [k \in 0..n |-> IF k = n THEN Step(f, n) ELSE f[k]]
    <3>3. \A k \in 0..n : h[k] = Step(h, k)
      <4>1. \A k \in 0..n : k # 0 => k - 1 \in 0..n /\ k - 1 # n
        BY <3>1
      <4>2. \A k \in 0..n : k # 0 => h[k - 1] = f[k - 1]
        BY <4>1
      <4>3. \A k \in 0..n : Step(h, k) = Step(f, k)
        <5> HIDE DEF h
        <5> QED BY <4>2
      <4>4. \A k \in 0..n : k # n => k \in 0..(n - 1)
        BY <3>1
      <4>5. \A k \in 0..n : k # n => f[k] = Step(f, k)
        <5> HIDE DEF Step
        <5> QED BY <3>2, <4>4
      <4> HIDE DEF Step
      <4> QED BY <4>3, <4>5
    <3>4. Described(n, h)
      <4>1. h = [k \in 0..n |-> h[k]]
        OBVIOUS
      <4> HIDE DEF h, Step
      <4> QED BY <3>3, <4>1
    <3> HIDE DEF Described, h
    <3> QED BY <2>1, <3>4
  <2> QED BY <2>2, <2>3
<1> DEFINE after == CHOOSE f : Described(Len(code), f)
<1>2. Transfer(g, b, env) = after[Len(code)]
  BY DEF Transfer
<1>3. Described(Len(code), after)
  <2>1. \E f : Described(Len(code), f)
    <3> HIDE DEF Described
    <3> QED BY <1>1
  <2> HIDE DEF Described
  <2> QED BY <2>1
<1> HIDE DEF after
<1>4. FactsAfter(code, env, after)
  <2>1. \A k \in 1..Len(code) : k \in 0..Len(code) /\ k # 0
    OBVIOUS
  <2>2. 0 \in 0..Len(code)
    OBVIOUS
  <2> QED BY <1>3, <2>1, <2>2 DEF FactsAfter
<1> QED BY <1>2, <1>4

(***************************************************************************)
(* The same of what a run may hold behind a block.                         *)
(***************************************************************************)
LEMMA BehindIs ==
    ASSUME NEW g, NEW b, NEW env, Len(g.code[b]) \in Nat
    PROVE  \E f : ValuesBehind(g.code[b], env, f) /\ Behind(g, b, env) = f[Len(g.code[b])]
<1> DEFINE code == g.code[b]
           Step(f, k) == IF k = 0 THEN {env}
                         ELSE UNION {{With(e, code[k].dest, v) : v \in Outcomes(code[k], e)} : e \in f[k-1]}
           Described(n, f) == f = [k \in 0..n |-> Step(f, k)]
           Undescribed == {n \in Nat : ~ \E f : Described(n, f)}
<1>1. Undescribed = {}
  <2> SUFFICES ASSUME Undescribed # {} PROVE FALSE
    OBVIOUS
  <2>1. PICK n \in Undescribed : \A m \in Undescribed : n <= m
    <3> HIDE DEF Described
    <3> QED BY LeastNatural
  <2>2. CASE n = 0
    <3> DEFINE f == [k \in 0..0 |-> {env}]
    <3>1. Described(0, f)
      OBVIOUS
    <3> QED BY <2>1, <2>2, <3>1
  <2>3. CASE n # 0
    <3>1. n - 1 \in Nat /\ n \in Nat /\ ~(n <= n - 1)
      BY <2>1, <2>3
    <3>2. PICK f : Described(n - 1, f)
      BY <2>1, <3>1
    <3> DEFINE h == [k \in 0..n |-> IF k = n THEN Step(f, n) ELSE f[k]]
    <3>3. \A k \in 0..n : h[k] = Step(h, k)
      <4>1. \A k \in 0..n : k # 0 => k - 1 \in 0..n /\ k - 1 # n
        BY <3>1
      <4>2. \A k \in 0..n : k # 0 => h[k - 1] = f[k - 1]
        BY <4>1
      <4>3. \A k \in 0..n : Step(h, k) = Step(f, k)
        <5> HIDE DEF h
        <5> QED BY <4>2
      <4>4. \A k \in 0..n : k # n => k \in 0..(n - 1)
        BY <3>1
      <4>5. \A k \in 0..n : k # n => f[k] = Step(f, k)
        <5> HIDE DEF Step
        <5> QED BY <3>2, <4>4
      <4> HIDE DEF Step
      <4> QED BY <4>3, <4>5
    <3>4. Described(n, h)
      <4>1. h = [k \in 0..n |-> h[k]]
        OBVIOUS
      <4> HIDE DEF h, Step
      <4> QED BY <3>3, <4>1
    <3> HIDE DEF Described, h
    <3> QED BY <2>1, <3>4
  <2> QED BY <2>2, <2>3
<1> DEFINE behind == CHOOSE f : Described(Len(code), f)
<1>2. Behind(g, b, env) = behind[Len(code)]
  BY DEF Behind
<1>3. Described(Len(code), behind)
  <2>1. \E f : Described(Len(code), f)
    <3> HIDE DEF Described
    <3> QED BY <1>1
  <2> HIDE DEF Described
  <2> QED BY <2>1
<1> HIDE DEF behind
<1>4. ValuesBehind(code, env, behind)
  <2>1. \A k \in 1..Len(code) : k \in 0..Len(code) /\ k # 0
    OBVIOUS
  <2>2. 0 \in 0..Len(code)
    OBVIOUS
  <2> QED BY <1>3, <2>1, <2>2 DEF ValuesBehind
<1> QED BY <1>2, <1>4

WellFormed(code) ==
    /\ Len(code) \in Nat
    /\ \A k \in 1..Len(code) : code[k].op \in {"ADD", "MUL"} => {1, 2} \subseteq DOMAIN code[k].args

(***************************************************************************)
(* What holds in front of a block holds behind it.                         *)
(***************************************************************************)
LEMMA BlockHolds ==
    ASSUME NEW g, NEW b, WellFormed(g.code[b]), NEW env, NEW known, Holds(env, known),
           NEW end \in Behind(g, b, env)
    PROVE  Holds(end, Transfer(g, b, known))
<1> DEFINE code == g.code[b]
           n == Len(code)
<1>0. n \in Nat
  BY DEF WellFormed
<1>1. PICK f : FactsAfter(code, known, f) /\ Transfer(g, b, known) = f[n]
  BY <1>0, TransferIs
<1>2. PICK s : ValuesBehind(code, env, s) /\ Behind(g, b, env) = s[n]
  BY <1>0, BehindIs
<1> DEFINE Wrong == {k \in 0..n : \E e \in s[k] : ~Holds(e, f[k])}
<1>3. Wrong = {}
  <2> SUFFICES ASSUME Wrong # {} PROVE FALSE
    OBVIOUS
  <2>1. PICK k \in Wrong : \A m \in Wrong : k <= m
    <3>1. Wrong \in SUBSET Nat
      BY <1>0
    <3> HIDE DEF Wrong
    <3> QED BY <3>1, LeastNatural
  <2>2. PICK e \in s[k] : ~Holds(e, f[k])
    BY <2>1
  <2>3. k # 0
    BY <1>1, <1>2, <2>2 DEF FactsAfter, ValuesBehind
  <2>4. k \in 1..n /\ k - 1 \in 0..n /\ ~(k <= k - 1)
    BY <1>0, <2>1, <2>3
  <2>5. k - 1 \notin Wrong
    <3> HIDE DEF Wrong
    <3> QED BY <2>1, <2>4
  <2>6. \A d \in s[k-1] : Holds(d, f[k-1])
    BY <2>4, <2>5
  <2>7. s[k] = UNION {{With(d, code[k].dest, v) : v \in Outcomes(code[k], d)} : d \in s[k-1]}
    BY <1>2, <2>4 DEF ValuesBehind
  <2>8. PICK d \in s[k-1] : \E v \in Outcomes(code[k], d) : e = With(d, code[k].dest, v)
    BY <2>2, <2>7
  <2>9. PICK v \in Outcomes(code[k], d) : e = With(d, code[k].dest, v)
    BY <2>8
  <2>10. f[k] = With(f[k-1], code[k].dest, Fact(code[k], f[k-1]))
    BY <1>1, <2>4 DEF FactsAfter
  <2>11. code[k].op \in {"ADD", "MUL"} => {1, 2} \subseteq DOMAIN code[k].args
    BY <2>4 DEF WellFormed
  <2>12. Holds(e, f[k])
    <3> HIDE DEF Wrong, code
    <3> QED BY <2>6, <2>8, <2>9, <2>10, <2>11, WithHolds
  <2> QED BY <2>2, <2>12
<1>4. n \in 0..n
  BY <1>0
<1> QED BY <1>1, <1>2, <1>3, <1>4

(***************************************************************************)
(* A block that defines something has facts behind it.                     *)
(***************************************************************************)
LEMMA DefiningTransfers ==
    ASSUME NEW g, NEW b, NEW env, Len(g.code[b]) \in Nat \ {0}
    PROVE  Transfer(g, b, env) # Nothing
<1> DEFINE code == g.code[b]
           n == Len(code)
<1>1. PICK f : FactsAfter(code, env, f) /\ Transfer(g, b, env) = f[n]
  BY TransferIs
<1>2. f[n] = With(f[n-1], code[n].dest, Fact(code[n], f[n-1]))
  BY <1>1 DEF FactsAfter
<1>3. code[n].dest \in DOMAIN Transfer(g, b, env)
  BY <1>1, <1>2 DEF With
<1>4. DOMAIN Nothing = {}
  BY DEF Nothing
<1> QED BY <1>3, <1>4

-----------------------------------------------------------------------------
(***************************************************************************)
(* The iteration.  A block behind one that has been computed waits, or is  *)
(* up to date.  A block that defines something has been computed once its  *)
(* facts are not the initial ones.                                         *)
(***************************************************************************)
Computes(b) == b = 1 \/ out_values[b] # Nothing
Fresh(b) == in_values[b] = MeetIn(b) /\ out_values[b] = Transfer(flow, b, in_values[b])
Typed ==
    /\ flow \in FlowGraphs
    /\ flow_worklist \in Seq(BlocksOf(flow))
    /\ DOMAIN in_values = BlocksOf(flow) /\ DOMAIN out_values = BlocksOf(flow)
Followed ==
    /\ out_values[1] = Transfer(flow, 1, in_values[1])
    /\ \A p \in BlocksOf(flow) : \A b \in SuccessorsOf(flow, p) :
          Computes(p) => b \in ToSet(flow_worklist) \/ Fresh(b)
Walking ==
    /\ walk.stage \in {"none", "in", "out"}
    /\ walk.stage \in {"in", "out"} =>
          /\ flow_worklist = <<>> /\ walk.block \in BlocksOf(flow)
          /\ out_values[walk.block] = Transfer(flow, walk.block, in_values[walk.block])
          /\ walk.block # 1 => \E p \in BlocksOf(flow) : Computes(p) /\ walk.block \in SuccessorsOf(flow, p)
          /\ DOMAIN walk = {"stage", "block", "env"}
FlowInv == Typed /\ Followed /\ Walking /\ FactsHold

(***************************************************************************)
(* What the assumption says of the graph that is analysed.                 *)
(***************************************************************************)
LEMMA TheGraph ==
    ASSUME flow \in FlowGraphs
    PROVE  /\ IsFiniteSet(BlocksOf(flow)) /\ 1 \in BlocksOf(flow)
           /\ \A b \in BlocksOf(flow) : WellFormed(flow.code[b]) /\ SuccessorsOf(flow, b) \in SUBSET BlocksOf(flow)
           /\ \A b \in BlocksOf(flow) : flow.code[b] # <<>> => Len(flow.code[b]) \in Nat \ {0}
<1>1. /\ IsFiniteSet(BlocksOf(flow)) /\ 1 \in BlocksOf(flow)
      /\ flow.succ \in [BlocksOf(flow) -> SUBSET (BlocksOf(flow) \cup {0})]
      /\ \A b \in BlocksOf(flow) :
            /\ flow.code[b] \in Seq(Range(flow.code[b]))
            /\ \A i \in Range(flow.code[b]) : i.op \in {"ADD", "MUL"} => {1, 2} \subseteq DOMAIN i.args
  BY FlowGraphsAssumption
<1>2. \A b \in BlocksOf(flow) : SuccessorsOf(flow, b) \in SUBSET BlocksOf(flow)
  BY <1>1 DEF SuccessorsOf
<1>3. ASSUME NEW b \in BlocksOf(flow)
      PROVE  WellFormed(flow.code[b]) /\ (flow.code[b] # <<>> => Len(flow.code[b]) \in Nat \ {0})
  <2> DEFINE code == flow.code[b]
  <2>1. code \in Seq(Range(code)) /\ \A i \in Range(code) : i.op \in {"ADD", "MUL"} => {1, 2} \subseteq DOMAIN i.args
    BY <1>1
  <2> HIDE DEF code
  <2>2. Len(code) \in Nat /\ DOMAIN code = 1..Len(code)
    BY <2>1, LenProperties
  <2>3. \A k \in 1..Len(code) : code[k] \in Range(code)
    BY <2>2 DEF Range
  <2>4. code # <<>> => Len(code) # 0
    BY <2>1, <2>2, EmptySeq
  <2> QED BY <2>1, <2>2, <2>3, <2>4 DEF WellFormed, code
<1> QED BY <1>1, <1>2, <1>3

(***************************************************************************)
(* An order of a finite set is a sequence of exactly its elements.         *)
(***************************************************************************)
LEMMA Enlisted ==
    ASSUME NEW S, IsFiniteSet(S), NEW s \in SetToSeqs(S)
    PROVE  s \in Seq(S) /\ ToSet(s) = S
<1> DEFINE n == Cardinality(S)
<1>1. n \in Nat
  BY FS_CardinalityType
<1>2. s \in [1..n -> S] /\ \A i, j \in 1..n : i # j => s[i] # s[j]
  BY DEF SetToSeqs
<1>3. s \in Injection(1..n, S)
  BY <1>2 DEF Injection, IsInjective
<1>4. Cardinality(1..n) = n
  BY <1>1, FS_Interval
<1>5. s \in Surjection(1..n, S)
  BY <1>3, <1>4, FS_Injection
<1>6. ToSet(s) = S
  BY <1>2, <1>5 DEF ToSet, Surjection
<1>7. s \in Seq(S)
  BY <1>1, <1>2, SeqDef
<1> QED BY <1>6, <1>7

(***************************************************************************)
(* At first only the entry is computed, and its successors wait.           *)
(***************************************************************************)
LEMMA FlowInitially == FlowInit => FlowInv
<1> SUFFICES ASSUME FlowInit PROVE FlowInv
  OBVIOUS
<1>1. flow \in FlowGraphs /\ IsFiniteSet(BlocksOf(flow)) /\ 1 \in BlocksOf(flow)
  BY TheGraph DEF FlowInit
<1>2. SuccessorsOf(flow, 1) \in SUBSET BlocksOf(flow)
  BY <1>1, TheGraph
<1>3. IsFiniteSet(SuccessorsOf(flow, 1))
  BY <1>1, <1>2, FS_Subset
<1>4. flow_worklist \in Seq(SuccessorsOf(flow, 1)) /\ ToSet(flow_worklist) = SuccessorsOf(flow, 1)
  BY <1>3, Enlisted DEF FlowInit
<1>5. Typed
  BY <1>1, <1>2, <1>4 DEF Typed, FlowInit
<1>6. Followed
  <2>1. \A p \in BlocksOf(flow) : Computes(p) => p = 1
    BY DEF FlowInit, Computes
  <2>2. out_values[1] = Transfer(flow, 1, in_values[1])
    BY <1>1 DEF FlowInit
  <2> QED BY <1>4, <2>1, <2>2 DEF Followed
<1>7. Walking /\ FactsHold
  BY DEF FlowInit, Walking, FactsHold
<1> QED BY <1>5, <1>6, <1>7 DEF FlowInv

(***************************************************************************)
(* A visit: a block that is not in the worklist afterwards has predecessors *)
(* whose facts are the ones it was computed from.                          *)
(***************************************************************************)
LEMMA VisitKeeps == FlowInv /\ FlowVisit => FlowInv'
<1> SUFFICES ASSUME FlowInv, FlowVisit PROVE FlowInv'
  OBVIOUS
<1> USE DEF FlowInv
<1>1. /\ flow \in FlowGraphs /\ flow_worklist \in Seq(BlocksOf(flow)) /\ flow_worklist # <<>>
      /\ DOMAIN in_values = BlocksOf(flow) /\ DOMAIN out_values = BlocksOf(flow)
      /\ IsFiniteSet(BlocksOf(flow)) /\ flow' = flow /\ walk' = walk
  BY TheGraph DEF Typed, FlowVisit
<1> DEFINE first == Head(flow_worklist)
           later == Tail(flow_worklist)
           meet == MeetIn(first)
           new_out == Transfer(flow, first, meet)
           news == Passed(first, new_out) \ ToSet(later)
<1>2. /\ in_values' = [in_values EXCEPT ![first] = meet]
      /\ out_values' = [out_values EXCEPT ![first] = new_out]
      /\ \E added \in SetToSeqs(news) : flow_worklist' = later \o added
  BY DEF FlowVisit
<1>3. first \in BlocksOf(flow) /\ later \in Seq(BlocksOf(flow))
  BY <1>1, HeadTailProperties
<1>4. ToSet(flow_worklist) = {first} \cup ToSet(later)
  <2>1. \A i \in DOMAIN flow_worklist : i = 1 \/ (i - 1 \in DOMAIN later /\ flow_worklist[i] = later[i - 1])
    BY <1>1, HeadTailProperties, LenProperties
  <2>2. 1 \in DOMAIN flow_worklist /\ flow_worklist[1] = first
    BY <1>1, HeadTailProperties, LenProperties
  <2>3. \A i \in DOMAIN later : i + 1 \in DOMAIN flow_worklist /\ flow_worklist[i + 1] = later[i]
    BY <1>1, HeadTailProperties, LenProperties
  <2> HIDE DEF first, later
  <2> QED BY <2>1, <2>2, <2>3 DEF ToSet
<1>5. news \in SUBSET BlocksOf(flow)
  BY <1>1, <1>3, TheGraph DEF Passed
<1>6. PICK added : added \in SetToSeqs(news) /\ flow_worklist' = later \o added
  BY <1>2
<1>7. added \in Seq(news) /\ ToSet(added) = news
  <2>1. IsFiniteSet(news)
    BY <1>1, <1>5, FS_Subset
  <2> HIDE DEF news
  <2> QED BY <1>6, <2>1, Enlisted
<1>8. flow_worklist' \in Seq(BlocksOf(flow)) /\ ToSet(flow_worklist') = ToSet(later) \cup ToSet(added)
  <2>1. added \in Seq(BlocksOf(flow))
    <3>1. \A i \in 1..Len(added) : added[i] \in BlocksOf(flow)
      BY <1>5, <1>7, ElementOfSeq
    <3> QED BY <1>7, <3>1, LenProperties, SeqDef
  <2>2. later \o added \in Seq(BlocksOf(flow))
    BY <1>3, <2>1, ConcatProperties
  <2>3. ToSet(later \o added) = ToSet(later) \cup ToSet(added)
    <3> HIDE DEF later
    <3>1. \A i \in DOMAIN (later \o added) :
             \/ i \in DOMAIN later /\ (later \o added)[i] = later[i]
             \/ i - Len(later) \in DOMAIN added /\ (later \o added)[i] = added[i - Len(later)]
      BY <1>3, <2>1, ConcatProperties, LenProperties
    <3>2. \A i \in DOMAIN later : i \in DOMAIN (later \o added) /\ (later \o added)[i] = later[i]
      BY <1>3, <2>1, ConcatProperties, LenProperties
    <3>3. \A i \in DOMAIN added : i + Len(later) \in DOMAIN (later \o added) /\ (later \o added)[i + Len(later)] = added[i]
      BY <1>3, <2>1, ConcatProperties, LenProperties
    <3> QED BY <3>1, <3>2, <3>3 DEF ToSet
  <2> QED BY <1>6, <2>2, <2>3
<1>9. ToSet(flow_worklist') = ToSet(later) \cup Passed(first, new_out)
  BY <1>7, <1>8
<1>10. Typed'
  BY <1>1, <1>2, <1>8 DEF Typed
<1>11. walk.stage = "none"
  BY <1>1 DEF Walking
<1>12. Walking' /\ FactsHold'
  BY <1>1, <1>11 DEF Walking, FactsHold
<1>13. /\ in_values'[first] = meet /\ out_values'[first] = new_out
       /\ \A b \in BlocksOf(flow) : b # first => in_values'[b] = in_values[b] /\ out_values'[b] = out_values[b]
  BY <1>1, <1>2, <1>3
<1>14. out_values'[1] = Transfer(flow', 1, in_values'[1])
  <2>1. 1 \in BlocksOf(flow) /\ out_values[1] = Transfer(flow, 1, in_values[1])
    BY <1>1, TheGraph DEF Followed
  <2> HIDE DEF first, meet
  <2> QED BY <1>1, <1>13, <2>1
<1>15. ASSUME NEW p \in BlocksOf(flow), NEW b \in SuccessorsOf(flow, p), Computes(p)', b \notin ToSet(flow_worklist')
       PROVE  Fresh(b)'
  <2>1. b \in BlocksOf(flow) /\ b # 0
    BY <1>1, TheGraph DEF SuccessorsOf
  <2>2. b \notin ToSet(later) /\ b \notin Passed(first, new_out)
    BY <1>9, <1>15
  <2> HIDE DEF first, later, meet
  <2>3. b \in SuccessorsOf(flow, first) => out_values'[first] = out_values[first]
    BY <1>13, <2>2 DEF Passed
  <2>4. \A q \in PredecessorsOf(flow, b) : out_values'[q] = out_values[q]
    <3>1. \A q \in PredecessorsOf(flow, b) : q \in BlocksOf(flow) /\ b \in SuccessorsOf(flow, q)
      BY <2>1 DEF PredecessorsOf, SuccessorsOf
    <3> QED BY <1>13, <2>3, <3>1
  <2>5. MeetIn(b)' = MeetIn(b)
    <3>1. {out_values'[q] : q \in PredecessorsOf(flow, b)} = {out_values[q] : q \in PredecessorsOf(flow, b)}
      BY <2>4
    <3> QED BY <1>1, <3>1 DEF MeetIn
  <2>6. CASE b = first
    BY <1>1, <1>13, <2>5, <2>6 DEF Fresh, meet
  <2>7. CASE b # first
    <3>1. b \notin ToSet(flow_worklist)
      BY <1>4, <2>2, <2>7
    <3>2. Computes(p)
      BY <1>13, <1>15, <2>3 DEF Computes
    <3>3. Fresh(b)
      BY <1>15, <3>1, <3>2 DEF Followed
    <3> QED BY <1>1, <1>13, <2>1, <2>5, <2>7, <3>3 DEF Fresh
  <2> QED BY <2>6, <2>7
<1>16. Followed'
  BY <1>1, <1>14, <1>15 DEF Followed
<1> QED BY <1>10, <1>12, <1>16

\* Otherwise _run_forward may not come to a block, see Propagation.cfg.
EveryBlockDefines == \A g \in FlowGraphs : \A b \in BlocksOf(g) \ {1} : g.code[b] # <<>>

(***************************************************************************)
(* A run enters a block whose facts were met from those it comes with: the *)
(* block it leaves defines something, so it has been computed.             *)
(***************************************************************************)
LEMMA WalkKeeps == ASSUME EveryBlockDefines PROVE FlowInv /\ (Start \/ Execute \/ Branch) => FlowInv'
<1> SUFFICES ASSUME FlowInv, Start \/ Execute \/ Branch PROVE FlowInv'
  OBVIOUS
<1> USE DEF FlowInv
<1>1. /\ flow' = flow /\ flow_worklist' = flow_worklist
      /\ in_values' = in_values /\ out_values' = out_values
  BY DEF Start, Execute, Branch
<1>2. Typed' /\ Followed'
  BY <1>1 DEF Typed, Followed, Computes, Fresh, MeetIn
<1>3. flow \in FlowGraphs /\ 1 \in BlocksOf(flow)
  BY TheGraph DEF Typed
<1>4. CASE Start
  <2>1. flow_worklist = <<>> /\ walk' = [stage |-> "in", block |-> 1, env |-> Nothing]
    BY <1>4 DEF Start
  <2>2. Walking'
    BY <1>1, <1>3, <2>1 DEF Walking, Followed
  <2>3. FactsHold'
    BY <2>1 DEF FactsHold, Holds, Nothing
  <2> QED BY <1>2, <2>2, <2>3
<1>5. CASE Execute
  <2>1. walk.stage = "in" /\ DOMAIN walk = {"stage", "block", "env"}
    BY <1>5 DEF Execute, Walking
  <2>2. PICK env \in Behind(flow, walk.block, walk.env) : walk' = [walk EXCEPT !.stage = "out", !.env = env]
    BY <1>5 DEF Execute
  <2>3. walk'.stage = "out" /\ walk'.block = walk.block /\ walk'.env = env /\ DOMAIN walk' = DOMAIN walk
    BY <2>1, <2>2
  <2>4. Walking'
    BY <1>1, <2>1, <2>3 DEF Walking, Computes
  <2>5. Holds(walk.env, in_values[walk.block]) /\ walk.block \in BlocksOf(flow)
        /\ out_values[walk.block] = Transfer(flow, walk.block, in_values[walk.block])
    BY <2>1 DEF FactsHold, Walking
  <2>6. WellFormed(flow.code[walk.block])
    BY <1>3, <2>5, TheGraph
  <2>7. Holds(env, Transfer(flow, walk.block, in_values[walk.block]))
    BY <2>5, <2>6, BlockHolds
  <2>8. FactsHold'
    BY <1>1, <2>3, <2>5, <2>7 DEF FactsHold
  <2> QED BY <1>2, <2>4, <2>8
<1>6. CASE Branch
  <2>1. /\ walk.stage = "out" /\ DOMAIN walk = {"stage", "block", "env"}
        /\ flow_worklist = <<>> /\ walk.block \in BlocksOf(flow)
        /\ Holds(walk.env, out_values[walk.block])
        /\ out_values[walk.block] = Transfer(flow, walk.block, in_values[walk.block])
    BY <1>6 DEF Branch, Walking, FactsHold
  <2>2. PICK b \in SuccessorsOf(flow, walk.block) : walk' = [walk EXCEPT !.stage = "in", !.block = b]
    BY <1>6 DEF Branch
  <2>3. walk'.stage = "in" /\ walk'.block = b /\ walk'.env = walk.env /\ DOMAIN walk' = DOMAIN walk
    BY <2>1, <2>2
  <2>4. b \in BlocksOf(flow) /\ IsFiniteSet(BlocksOf(flow))
    BY <1>3, <2>1, <2>2, TheGraph
  <2>5. Computes(walk.block)
    <3> SUFFICES ASSUME walk.block # 1 PROVE out_values[walk.block] # Nothing
      BY DEF Computes
    <3>1. flow.code[walk.block] # <<>>
      BY <1>3, <2>1 DEF EveryBlockDefines
    <3>2. Len(flow.code[walk.block]) \in Nat \ {0}
      BY <1>3, <2>1, <3>1, TheGraph
    <3> QED BY <2>1, <3>2, DefiningTransfers
  <2>6. Fresh(b)
    <3>1. b \notin ToSet(flow_worklist)
      BY <2>1 DEF ToSet
    <3> QED BY <2>1, <2>2, <2>5, <3>1 DEF Followed
  <2>7. Walking'
    BY <1>1, <2>1, <2>2, <2>3, <2>4, <2>5, <2>6 DEF Walking, Fresh, Computes
  <2>8. Holds(walk.env, in_values[b])
    <3> DEFINE envs == {out_values[p] : p \in PredecessorsOf(flow, b)}
    <3>1. walk.block \in PredecessorsOf(flow, b)
      BY <2>1, <2>2 DEF PredecessorsOf, SuccessorsOf
    <3>2. IsFiniteSet(envs)
      <4>1. IsFiniteSet(PredecessorsOf(flow, b))
        BY <2>4, FS_Subset DEF PredecessorsOf
      <4> DEFINE h == [p \in PredecessorsOf(flow, b) |-> out_values[p]]
      <4>2. h \in Surjection(PredecessorsOf(flow, b), envs)
        BY DEF Surjection
      <4> HIDE DEF h, envs
      <4> QED BY <4>1, <4>2, FS_Surjection
    <3>3. out_values[walk.block] \in envs
      BY <3>1
    <3>4. in_values[b] = MeetEnvs(envs)
      BY <2>6 DEF Fresh, MeetIn
    <3> HIDE DEF envs
    <3> QED BY <2>1, <3>2, <3>3, <3>4, MeetHolds
  <2>9. FactsHold'
    BY <1>1, <2>3, <2>8 DEF FactsHold
  <2> QED BY <1>2, <2>7, <2>9
<1> QED BY <1>4, <1>5, <1>6

(***************************************************************************)
(* Where every block behind the entry defines something, what constant     *)
(* propagation believes is true of every run, loops and rising facts       *)
(* included.  Without the hypothesis the worklist of _run_forward may pass *)
(* a block over, and FactsHold fails.                                      *)
(***************************************************************************)
THEOREM FactsAreTrue == ASSUME EveryBlockDefines PROVE FlowSpec => []FactsHold
<1>1. FlowInit => FlowInv
  BY FlowInitially
<1>2. FlowInv /\ [FlowNext]_flowvars => FlowInv'
  <2>1. FlowInv /\ UNCHANGED flowvars => FlowInv'
    BY DEF flowvars, FlowInv, Typed, Followed, Walking, FactsHold, Computes, Fresh, MeetIn
  <2> QED BY <2>1, VisitKeeps, WalkKeeps DEF FlowNext
<1>3. FlowInv => FactsHold
  BY DEF FlowInv
<1> QED BY <1>1, <1>2, <1>3, PTL DEF FlowSpec
=============================================================================
