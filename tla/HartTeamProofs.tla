--------------------------- MODULE HartTeamProofs ---------------------------
(***************************************************************************)
(* IInv is inductive for every number of cores and loops; the safety       *)
(* properties of HartTeam and the refinement of ForkJoin follow from it.   *)
(* Before that, the shares of a parallel loop.                             *)
(***************************************************************************)
EXTENDS HartTeamInv, Shares, TLAPS

-----------------------------------------------------------------------------
(* The shares of a parallel loop, of any length.                           *)

\* Consecutive shares meet: core c+1 begins where core c ends.
LEMMA SharesMeet ==
    ASSUME NEW n \in {1, 2, 4}, NEW total \in Nat, NEW c \in 0 .. n-1
    PROVE  /\ Begin(n, total, 0) = 0
           /\ End(n, total, n-1) = total
           /\ Begin(n, total, c) <= End(n, total, c)
           /\ c < n-1 => Begin(n, total, c+1) = End(n, total, c)
<1> DEFINE w == total \div n
           r == total % n
<1>1. w \in Nat /\ r \in 0 .. n-1 /\ total = n * w + r
    OBVIOUS
<1> HIDE DEF w, r
<1>2. \A d \in 0 .. n-1 : Begin(n, total, d) = d * w + Lesser(d, r)
    BY DEF Begin, w, r
<1>3. \A d \in 0 .. n-1 : End(n, total, d) = Begin(n, total, d) + w + Bit(d < r)
    BY DEF End, w, r
<1>4. CASE n = 1
    BY <1>1, <1>2, <1>3, <1>4 DEF Lesser, Bit
<1>5. CASE n = 2
  <2>1. Begin(n, total, 0) = 0 /\ End(n, total, 0) = w + r
    BY <1>1, <1>2, <1>3, <1>5 DEF Lesser, Bit
  <2>2. Begin(n, total, 1) = w + r /\ End(n, total, 1) = total
    BY <1>1, <1>2, <1>3, <1>5 DEF Lesser, Bit
  <2> QED BY <1>1, <1>5, <2>1, <2>2
<1>6. CASE n = 4
    BY <1>1, <1>2, <1>3, <1>6 DEF Lesser, Bit
<1> QED BY <1>4, <1>5, <1>6

\* Every iteration of a loop of any length belongs to exactly one core.
THEOREM SharesPartition ==
    ASSUME NEW n \in {1, 2, 4}, NEW total \in Nat, NEW i \in 0 .. total-1
    PROVE  \E c \in 0 .. n-1 : /\ i \in Share(n, total, c)
                               /\ \A d \in 0 .. n-1 : i \in Share(n, total, d) => d = c
<1> DEFINE B(c) == Begin(n, total, c)
           E(c) == End(n, total, c)
<1>1. \A c \in 0 .. n-1 : /\ B(c) \in Int /\ E(c) \in Int /\ B(c) <= E(c)
                          /\ c < n-1 => B(c+1) = E(c)
  <2>1. \A c \in 0 .. n-1 : B(c) \in Int /\ E(c) \in Int
    BY DEF Begin, End, Lesser, Bit
  <2> QED BY <2>1, SharesMeet
<1>2. B(0) = 0 /\ E(n-1) = total
    BY SharesMeet
<1>3. \A c \in 0 .. n-1 : i \in Share(n, total, c) <=> B(c) <= i /\ i < E(c)
    BY DEF Share
<1> HIDE DEF B, E
<1>4. CASE n = 1
    BY <1>1, <1>2, <1>3, <1>4
<1>5. CASE n = 2
    BY <1>1, <1>2, <1>3, <1>5
<1>6. CASE n = 4
    BY <1>1, <1>2, <1>3, <1>6
<1> QED BY <1>4, <1>5, <1>6

LEMMA ShareBounds ==
    ASSUME NEW n \in {1, 2, 4}, NEW total \in Nat, NEW c \in 0 .. n-1
    PROVE  /\ Begin(n, total, c) \in Nat /\ End(n, total, c) \in 0 .. total
           /\ Begin(n, total, c) .. End(n, total, c)-1 = Share(n, total, c)
<1>1. Begin(n, total, c) \in Int /\ End(n, total, c) \in Int
    BY DEF Begin, End, Lesser, Bit
<1>2. \A d \in 0 .. n-1 : /\ Begin(n, total, 0) = 0 /\ End(n, total, n-1) = total
                          /\ Begin(n, total, d) <= End(n, total, d)
                          /\ d < n-1 => Begin(n, total, d+1) = End(n, total, d)
    BY SharesMeet
<1>3. \A d \in 0 .. n-1 : Begin(n, total, d) \in Int /\ End(n, total, d) \in Int
    BY DEF Begin, End, Lesser, Bit
<1>4. 0 <= Begin(n, total, c) /\ End(n, total, c) <= total
  <2>1. CASE n = 1
    BY <1>2, <1>3, <2>1
  <2>2. CASE n = 2
    BY <1>2, <1>3, <2>2
  <2>3. CASE n = 4
    BY <1>2, <1>3, <2>3
  <2> QED BY <2>1, <2>2, <2>3
<1>5. Begin(n, total, c) <= End(n, total, c)
    BY <1>2
<1> QED BY <1>1, <1>4, <1>5 DEF Share

\* What a core has executed is nothing or its share.
Shared ==
    /\ cores \in {1, 2, 4} /\ count \in Nat
    /\ ran \in [0 .. cores-1 -> SUBSET Int]
    /\ \A c \in 0 .. cores-1 : ran[c] \in {{}, Share(cores, count, c)}

\* However long the loop: no iteration runs on two cores or beyond the loop, and none is
\* left when every core has had its share.
THEOREM LoopIsShared == SharesSpec => []ExactlyOnce
<1>1. SharesInit => Shared
    BY TeamsAssumption, MaxCountAssumption DEF SharesInit, Shared
<1>2. Shared /\ [SharesNext]_sharesvars => Shared'
  <2>1. ASSUME Shared, NEW c \in 0 .. cores-1, Execute(c) PROVE Shared'
    <3>1. Begin(cores, count, c) .. End(cores, count, c)-1 = Share(cores, count, c)
      BY <2>1, ShareBounds DEF Shared
    <3> QED BY <2>1, <3>1 DEF Shared, Execute, Share
  <2>2. Shared /\ UNCHANGED sharesvars => Shared'
    BY DEF Shared, sharesvars, Share, Begin, End
  <2> QED BY <2>1, <2>2 DEF SharesNext
<1>3. Shared => ExactlyOnce
  <2> SUFFICES ASSUME Shared PROVE ExactlyOnce
    OBVIOUS
  <2>1. \A c \in 0 .. cores-1 : Share(cores, count, c) \subseteq 0 .. count-1
    BY DEF Share
  <2>2. ASSUME NEW c \in 0 .. cores-1, NEW d \in 0 .. cores-1, c # d PROVE ran[c] \cap ran[d] = {}
    <3> SUFFICES ASSUME NEW i \in ran[c], i \in ran[d] PROVE FALSE
      OBVIOUS
    <3>1. i \in Share(cores, count, c) /\ i \in Share(cores, count, d) /\ i \in 0 .. count-1
      BY <2>1 DEF Shared
    <3> QED BY <2>2, <3>1, SharesPartition DEF Shared
  <2>3. ASSUME Finished, NEW i \in 0 .. count-1 PROVE \E c \in 0 .. cores-1 : i \in ran[c]
    <3>1. PICK c \in 0 .. cores-1 : i \in Share(cores, count, c)
      BY SharesPartition DEF Shared
    <3>2. Begin(cores, count, c) # End(cores, count, c)
      <4>1. Begin(cores, count, c) \in Nat /\ End(cores, count, c) \in 0 .. count
        BY ShareBounds DEF Shared
      <4>2. Begin(cores, count, c) <= i /\ i < End(cores, count, c)
        BY <3>1 DEF Share
      <4> QED BY <4>1, <4>2
    <3>3. ran[c] = Share(cores, count, c)
      BY <2>3, <3>2 DEF Finished, Shared
    <3> QED BY <3>1, <3>3
  <2>4. \A c \in 0 .. cores-1 : ran[c] \subseteq 0 .. count-1
    BY <2>1 DEF Shared
  <2> QED BY <2>2, <2>3, <2>4 DEF ExactlyOnce
<1> QED BY <1>1, <1>2, <1>3, PTL DEF SharesSpec

-----------------------------------------------------------------------------
(* The team.                                                               *)

USE NAssumption
USE DEF Cores, Workers, Places, NoFrame, Result

-----------------------------------------------------------------------------
(* Which cores a step leaves alone.                                        *)

Kept(c) ==
    /\ pc'[c] = pc[c] /\ pend'[c] = pend[c] /\ out'[c] = out[c]
    /\ c \in Workers =>
          /\ done'[c] = done[c] /\ want'[c] = want[c]
          /\ seen'[c] = seen[c] /\ arg'[c] = arg[c]

MainKept == UNCHANGED <<boot, gen, job, frame, mine, k>>

\* A worker no step touches keeps its part of the invariant.
LEMMA KeptWorker ==
    ASSUME NEW w \in Workers, WorkerPending(w), Progress(w), Kept(w),
           UNCHANGED <<boot, gen>>
    PROVE  WorkerPending(w)' /\ Progress(w)'
<1>1. WorkerPending(w)'
    BY DEF Kept, WorkerPending
<1>2. Progress(w)'
    BY DEF Kept, Progress, Idle
<1> QED BY <1>1, <1>2

\* A step of worker w after the handshake disturbs the invariant only through
\* w's own progress, a finished share and the failure it may record.
LEMMA OwnStep ==
    ASSUME IInv, boot, TypeOK', MainKept, NEW w \in Workers,
           \A c \in Cores : c # w => Kept(c),
           WorkerPending(w)', Progress(w)',
           done'[w] \in {done[w], gen},
           pc[w] \in {"alarm", "dead"} => pc'[w] \in {"alarm", "dead"},
           \/ failure' = failure
           \/ pc[w] = "trap" /\ pc'[w] = "alarm" /\ failure' = (IF failure = 0 THEN w ELSE failure)
    PROVE  IInv'
<1>0. Kept(0)
    OBVIOUS
<1>1. \A v \in Workers : WorkerPending(v)' /\ Progress(v)'
    BY KeptWorker DEF IInv, MainKept
<1>2. MainPending'
    BY <1>0 DEF IInv, Kept, MainKept, MainPending
<1>3. Handshake'
    BY <1>0 DEF IInv, Kept, MainKept, Handshake, Booting
<1>4. Published'
    BY <1>0 DEF IInv, Kept, MainKept, Published, Unpublished
<1>5. Joining'
  <2>1. gen = mine \/ Unpublished
    BY DEF IInv, Published
  <2>2. \A v \in Workers : done'[v] \in {done[v], gen}
    BY DEF Kept
  <2> QED BY <1>0, <2>1, <2>2 DEF IInv, Kept, MainKept, Joining, Quiet, Unpublished, Published
<1>6. MainShare'
    BY <1>0 DEF IInv, Kept, MainKept, MainShare, Quiet
<1>7. Verdict'
  <2>1. ASSUME pc[w] = "trap" PROVE pc[0] # "emit" /\ frame # Result
    <3>1. pc[0] = "emit" \/ frame = Result => ~Unpublished
        BY DEF IInv, Verdict, MainPending, Unpublished
    <3>2. pc[0] = "emit" \/ frame = Result => done[w] = gen
        BY <3>1 DEF IInv, Joining, Quiet, Published
    <3>3. done[w] = gen - 1 /\ gen \in Nat
        BY <2>1 DEF IInv, Progress, TypeOK
    <3> QED BY <3>2, <3>3
  <2>2. \A v \in Workers : pc[v] \in {"alarm", "dead"} => pc'[v] \in {"alarm", "dead"}
    BY DEF Kept
  <2> QED BY <1>0, <2>1, <2>2 DEF IInv, TypeOK, Kept, MainKept, Verdict
<1> QED BY <1>1, <1>2, <1>3, <1>4, <1>5, <1>6, <1>7 DEF IInv

-----------------------------------------------------------------------------
(* The workers' steps.                                                     *)

\* A worker that has left its spin loop runs after the handshake.
LEMMA Started ==
    ASSUME IInv, NEW w \in Workers, pc[w] # "spin"
    PROVE  boot
BY DEF IInv, Handshake, Booting, TypeOK, PcOK

LEMMA WaitBootKeeps ==
    ASSUME IInv, NEW w \in Workers, WaitBoot(w)
    PROVE  IInv'
<1> USE DEF WaitBoot, ram, local, Goto, Fenced, Store, Notify
<1>0. TypeOK
    BY DEF IInv
<1>1. TypeOK'
  <2>1. PcOK'
    BY <1>0 DEF TypeOK, PcOK, MainPcs, WorkerPcs
  <2> QED BY <1>0, <2>1 DEF TypeOK
<1>2. boot
    BY Started DEF IInv
<1>3. MainKept /\ \A c \in Cores : c # w => Kept(c)
    BY <1>0 DEF TypeOK, PcOK, MainKept, Kept
<1>4. WorkerPending(w)'
  <2>1. WorkerPending(w)
    BY DEF IInv
  <2> QED BY <1>0, <2>1 DEF TypeOK, PcOK, WorkerPending
<1>5. Progress(w)'
  <2>1. Progress(w) /\ WorkerPending(w) /\ gen \in Nat
    BY DEF IInv, TypeOK
  <2> QED BY <1>0, <1>2, <2>1 DEF TypeOK, PcOK, Progress, WorkerPending, Idle
<1> QED BY <1>1, <1>2, <1>3, <1>4, <1>5, OwnStep DEF IInv

LEMMA ArriveKeeps ==
    ASSUME IInv, NEW w \in Workers, Arrive(w)
    PROVE  IInv'
<1> USE DEF Arrive, ram, local, Goto, Fenced, Store, Notify
<1>0. TypeOK
    BY DEF IInv
<1>1. TypeOK'
  <2>1. PcOK'
    BY <1>0 DEF TypeOK, PcOK, MainPcs, WorkerPcs
  <2>2. ready' \in Nat
    BY <1>0 DEF TypeOK
  <2> QED BY <1>0, <2>1, <2>2 DEF TypeOK
<1>2. boot
    BY Started DEF IInv
<1>3. MainKept /\ \A c \in Cores : c # w => Kept(c)
    BY <1>0 DEF TypeOK, PcOK, MainKept, Kept
<1>4. WorkerPending(w)'
  <2>1. WorkerPending(w)
    BY DEF IInv
  <2> QED BY <1>0, <2>1 DEF TypeOK, PcOK, WorkerPending
<1>5. Progress(w)'
  <2>1. Progress(w) /\ WorkerPending(w) /\ gen \in Nat
    BY DEF IInv, TypeOK
  <2> QED BY <1>0, <1>2, <2>1 DEF TypeOK, PcOK, Progress, WorkerPending, Idle
<1> QED BY <1>1, <1>2, <1>3, <1>4, <1>5, OwnStep DEF IInv

LEMMA HelloKeeps ==
    ASSUME IInv, NEW w \in Workers, Hello(w)
    PROVE  IInv'
<1> USE DEF Hello, ram, local, Goto, Fenced, Store, Notify
<1>0. TypeOK
    BY DEF IInv
<1>1. TypeOK'
  <2>1. PcOK'
    BY <1>0 DEF TypeOK, PcOK, MainPcs, WorkerPcs
  <2> QED BY <1>0, <2>1 DEF TypeOK
<1>2. boot
    BY Started DEF IInv
<1>3. MainKept /\ \A c \in Cores : c # w => Kept(c)
    BY <1>0 DEF TypeOK, PcOK, MainKept, Kept
<1>4. WorkerPending(w)'
  <2>1. WorkerPending(w)
    BY DEF IInv
  <2> QED BY <1>0, <2>1 DEF TypeOK, PcOK, WorkerPending
<1>5. Progress(w)'
  <2>1. Progress(w) /\ WorkerPending(w) /\ gen \in Nat
    BY DEF IInv, TypeOK
  <2> QED BY <1>0, <1>2, <2>1 DEF TypeOK, PcOK, Progress, WorkerPending, Idle
<1> QED BY <1>1, <1>2, <1>3, <1>4, <1>5, OwnStep DEF IInv

LEMMA CheckFailureKeeps ==
    ASSUME IInv, NEW w \in Workers, CheckFailure(w)
    PROVE  IInv'
<1> USE DEF CheckFailure, ram, local, Goto, Fenced, Store, Notify
<1>0. TypeOK
    BY DEF IInv
<1>1. TypeOK'
  <2>1. PcOK'
    BY <1>0 DEF TypeOK, PcOK, MainPcs, WorkerPcs
  <2> QED BY <1>0, <2>1 DEF TypeOK
<1>2. boot
    BY Started DEF IInv
<1>3. MainKept /\ \A c \in Cores : c # w => Kept(c)
    BY <1>0 DEF TypeOK, PcOK, MainKept, Kept
<1>4. WorkerPending(w)'
  <2>1. WorkerPending(w)
    BY DEF IInv
  <2> QED BY <1>0, <2>1 DEF TypeOK, PcOK, WorkerPending
<1>5. Progress(w)'
  <2>1. Progress(w) /\ WorkerPending(w) /\ gen \in Nat
    BY DEF IInv, TypeOK
  <2> QED BY <1>0, <1>2, <2>1 DEF TypeOK, PcOK, Progress, WorkerPending, Idle
<1> QED BY <1>1, <1>2, <1>3, <1>4, <1>5, OwnStep DEF IInv

LEMMA TestGenerationKeeps ==
    ASSUME IInv, NEW w \in Workers, TestGeneration(w)
    PROVE  IInv'
<1> USE DEF TestGeneration, ram, local, Goto, Fenced, Store, Notify
<1>0. TypeOK
    BY DEF IInv
<1>1. TypeOK'
  <2>1. PcOK'
    <3>1. \/ pc' = [pc EXCEPT ![w] = "wfi"]
          \/ pc' = [pc EXCEPT ![w] = "read"]
        OBVIOUS
    <3>2. CASE pc' = [pc EXCEPT ![w] = "wfi"]
        BY <1>0, <3>2 DEF TypeOK, PcOK, MainPcs, WorkerPcs
    <3>3. CASE pc' = [pc EXCEPT ![w] = "read"]
        BY <1>0, <3>3 DEF TypeOK, PcOK, MainPcs, WorkerPcs
    <3> QED BY <3>1, <3>2, <3>3
  <2> QED BY <1>0, <2>1 DEF TypeOK
<1>2. boot
    BY Started DEF IInv
<1>3. MainKept /\ \A c \in Cores : c # w => Kept(c)
    BY <1>0 DEF TypeOK, PcOK, MainKept, Kept
<1>4. WorkerPending(w)'
  <2>1. WorkerPending(w)
    BY DEF IInv
  <2> QED BY <1>0, <2>1 DEF TypeOK, PcOK, WorkerPending
<1>5. Progress(w)'
  <2>1. Progress(w) /\ WorkerPending(w) /\ gen \in Nat
    BY DEF IInv, TypeOK
  <2>2. CASE gen = seen[w]
    BY <1>0, <1>2, <2>1, <2>2 DEF TypeOK, PcOK, Progress, WorkerPending, Idle
  <2>3. CASE gen # seen[w]
    BY <1>0, <1>2, <2>1, <2>3 DEF TypeOK, PcOK, Progress, WorkerPending, Idle
  <2> QED BY <2>2, <2>3
<1> QED BY <1>1, <1>2, <1>3, <1>4, <1>5, OwnStep DEF IInv

LEMMA ReadJobKeeps ==
    ASSUME IInv, NEW w \in Workers, ReadJob(w)
    PROVE  IInv'
<1> USE DEF ReadJob, ram, local, Goto, Fenced, Store, Notify
<1>0. TypeOK
    BY DEF IInv
<1>1. TypeOK'
  <2>1. PcOK'
    BY <1>0 DEF TypeOK, PcOK, MainPcs, WorkerPcs
  <2> QED BY <1>0, <2>1 DEF TypeOK
<1>2. boot
    BY Started DEF IInv
<1>3. MainKept /\ \A c \in Cores : c # w => Kept(c)
    BY <1>0 DEF TypeOK, PcOK, MainKept, Kept
<1>4. WorkerPending(w)'
  <2>1. WorkerPending(w)
    BY DEF IInv
  <2> QED BY <1>0, <2>1 DEF TypeOK, PcOK, WorkerPending
<1>5. Progress(w)'
  <2>1. Progress(w) /\ WorkerPending(w) /\ gen \in Nat
    BY DEF IInv, TypeOK
  <2>2. job = gen
    BY <1>2, <2>1 DEF IInv, TypeOK, Progress, Joining, Published
  <2> QED BY <1>0, <1>2, <2>1, <2>2 DEF TypeOK, PcOK, Progress, WorkerPending, Idle
<1> QED BY <1>1, <1>2, <1>3, <1>4, <1>5, OwnStep DEF IInv

LEMMA RunWorkerKeeps ==
    ASSUME IInv, NEW w \in Workers, RunWorker(w)
    PROVE  IInv'
<1> USE DEF RunWorker, ram, local, Goto, Fenced, Store, Notify
<1>0. TypeOK
    BY DEF IInv
<1>1. TypeOK'
  <2>1. PcOK'
    BY <1>0 DEF TypeOK, PcOK, MainPcs, WorkerPcs
  <2> QED BY <1>0, <2>1 DEF TypeOK
<1>2. boot
    BY Started DEF IInv
<1>3. MainKept /\ \A c \in Cores : c # w => Kept(c)
    BY <1>0 DEF TypeOK, PcOK, MainKept, Kept
<1>4. WorkerPending(w)'
  <2>1. WorkerPending(w)
    BY DEF IInv
  <2> QED BY <1>0, <2>1 DEF TypeOK, PcOK, WorkerPending
<1>5. Progress(w)'
  <2>1. Progress(w) /\ WorkerPending(w) /\ gen \in Nat
    BY DEF IInv, TypeOK
  <2> QED BY <1>0, <1>2, <2>1 DEF TypeOK, PcOK, Progress, WorkerPending, Idle
<1> QED BY <1>1, <1>2, <1>3, <1>4, <1>5, OwnStep DEF IInv

LEMMA StoreDoneKeeps ==
    ASSUME IInv, NEW w \in Workers, StoreDone(w)
    PROVE  IInv'
<1> USE DEF StoreDone, ram, local, Goto, Fenced, Store, Notify
<1>0. TypeOK
    BY DEF IInv
<1>1. TypeOK'
  <2>1. PcOK'
    BY <1>0 DEF TypeOK, PcOK, MainPcs, WorkerPcs
  <2> QED BY <1>0, <2>1 DEF TypeOK
<1>2. boot
    BY Started DEF IInv
<1>3. MainKept /\ \A c \in Cores : c # w => Kept(c)
    BY <1>0 DEF TypeOK, PcOK, MainKept, Kept
<1>4. WorkerPending(w)'
  <2>1. WorkerPending(w)
    BY DEF IInv
  <2> QED BY <1>0, <2>1 DEF TypeOK, PcOK, WorkerPending
<1>5. Progress(w)'
  <2>1. Progress(w) /\ WorkerPending(w) /\ gen \in Nat
    BY DEF IInv, TypeOK
  <2> QED BY <1>0, <1>2, <2>1 DEF TypeOK, PcOK, Progress, WorkerPending, Idle
<1> QED BY <1>1, <1>2, <1>3, <1>4, <1>5, OwnStep DEF IInv

LEMMA BellKeeps ==
    ASSUME IInv, NEW w \in Workers, Bell(w)
    PROVE  IInv'
<1> USE DEF Bell, ram, local, Goto, Fenced, Store, Notify
<1>0. TypeOK
    BY DEF IInv
<1>1. TypeOK'
  <2>1. PcOK'
    BY <1>0 DEF TypeOK, PcOK, MainPcs, WorkerPcs
  <2> QED BY <1>0, <2>1 DEF TypeOK
<1>2. boot
    BY Started DEF IInv
<1>3. MainKept /\ \A c \in Cores : c # w => Kept(c)
    BY <1>0 DEF TypeOK, PcOK, MainKept, Kept
<1>4. WorkerPending(w)'
  <2>1. WorkerPending(w)
    BY DEF IInv
  <2> QED BY <1>0, <2>1 DEF TypeOK, PcOK, WorkerPending
<1>5. Progress(w)'
  <2>1. Progress(w) /\ WorkerPending(w) /\ gen \in Nat
    BY DEF IInv, TypeOK
  <2> QED BY <1>0, <1>2, <2>1 DEF TypeOK, PcOK, Progress, WorkerPending, Idle
<1> QED BY <1>1, <1>2, <1>3, <1>4, <1>5, OwnStep DEF IInv

LEMMA RecordFailureKeeps ==
    ASSUME IInv, NEW w \in Workers, RecordFailure(w)
    PROVE  IInv'
<1> USE DEF RecordFailure, ram, local, Goto, Fenced, Store, Notify
<1>0. TypeOK
    BY DEF IInv
<1>1. TypeOK'
  <2>1. PcOK'
    BY <1>0 DEF TypeOK, PcOK, MainPcs, WorkerPcs
  <2>2. failure' \in Cores
    BY <1>0 DEF TypeOK
  <2> QED BY <1>0, <2>1, <2>2 DEF TypeOK
<1>2. boot
    BY Started DEF IInv
<1>3. MainKept /\ \A c \in Cores : c # w => Kept(c)
    BY <1>0 DEF TypeOK, PcOK, MainKept, Kept
<1>4. WorkerPending(w)'
  <2>1. WorkerPending(w)
    BY DEF IInv
  <2> QED BY <1>0, <2>1 DEF TypeOK, PcOK, WorkerPending
<1>5. Progress(w)'
  <2>1. Progress(w) /\ WorkerPending(w)
    BY DEF IInv
  <2> QED BY <1>0, <1>2, <2>1 DEF TypeOK, PcOK, Progress, WorkerPending, Idle
<1>6. pc[w] = "trap" /\ pc'[w] = "alarm"
    BY <1>0 DEF TypeOK, PcOK
<1> QED BY <1>1, <1>2, <1>3, <1>4, <1>5, <1>6, OwnStep DEF IInv

LEMMA AlarmKeeps ==
    ASSUME IInv, NEW w \in Workers, Alarm(w)
    PROVE  IInv'
<1> USE DEF Alarm, ram, local, Goto, Fenced, Store, Notify
<1>0. TypeOK
    BY DEF IInv
<1>1. TypeOK'
  <2>1. PcOK'
    BY <1>0 DEF TypeOK, PcOK, MainPcs, WorkerPcs
  <2> QED BY <1>0, <2>1 DEF TypeOK
<1>2. boot
    BY Started DEF IInv
<1>3. MainKept /\ \A c \in Cores : c # w => Kept(c)
    BY <1>0 DEF TypeOK, PcOK, MainKept, Kept
<1>4. WorkerPending(w)'
  <2>1. WorkerPending(w)
    BY DEF IInv
  <2> QED BY <1>0, <2>1 DEF TypeOK, PcOK, WorkerPending
<1>5. Progress(w)'
  <2>1. Progress(w) /\ WorkerPending(w) /\ gen \in Nat
    BY DEF IInv, TypeOK
  <2> QED BY <1>0, <1>2, <2>1 DEF TypeOK, PcOK, Progress, WorkerPending, Idle
<1> QED BY <1>1, <1>2, <1>3, <1>4, <1>5, OwnStep DEF IInv

LEMMA ClearDoorbellKeeps ==
    ASSUME IInv, NEW w \in Workers, ClearDoorbell(w)
    PROVE  IInv'
<1> USE DEF ClearDoorbell, ram, local, Goto, Fenced, Store, Notify
<1>0. TypeOK
    BY DEF IInv
<1>1. TypeOK'
  <2>1. PcOK'
    BY <1>0 DEF TypeOK, PcOK, MainPcs, WorkerPcs
  <2> QED BY <1>0, <2>1 DEF TypeOK
<1>2. boot
    BY Started DEF IInv
<1>3. MainKept /\ \A c \in Cores : c # w => Kept(c)
    BY <1>0 DEF TypeOK, PcOK, MainKept, Kept
<1>4. WorkerPending(w)'
  <2>1. WorkerPending(w)
    BY DEF IInv
  <2> QED BY <1>0, <2>1 DEF TypeOK, PcOK, WorkerPending
<1>5. Progress(w)'
  <2>1. Progress(w) /\ WorkerPending(w) /\ gen \in Nat
    BY DEF IInv, TypeOK
  <2> QED BY <1>0, <1>2, <2>1 DEF TypeOK, PcOK, Progress, WorkerPending, Idle
<1> QED BY <1>1, <1>2, <1>3, <1>4, <1>5, OwnStep DEF IInv

LEMMA TrapKeeps ==
    ASSUME IInv, NEW w \in Workers, Trap(w)
    PROVE  IInv'
<1> USE DEF Trap, ram, local, Goto, Fenced, Store, Notify
<1>0. TypeOK
    BY DEF IInv
<1>1. TypeOK'
  <2>1. PcOK'
    <3>1. pc' = [pc EXCEPT ![w] = "trap"]
        OBVIOUS
    <3> QED BY <1>0, <3>1 DEF TypeOK, PcOK, MainPcs, WorkerPcs
  <2> QED BY <1>0, <2>1 DEF TypeOK
<1>2. boot
    BY Started DEF IInv
<1>3. MainKept /\ \A c \in Cores : c # w => Kept(c)
    BY <1>0 DEF TypeOK, PcOK, MainKept, Kept
<1>4. WorkerPending(w)'
  <2>1. WorkerPending(w)
    BY DEF IInv
  <2> QED BY <1>0, <2>1 DEF TypeOK, PcOK, WorkerPending
<1>5. Progress(w)'
  <2>1. Progress(w) /\ WorkerPending(w) /\ gen \in Nat
    BY DEF IInv, TypeOK
  <2> QED BY <1>0, <1>2, <2>1 DEF TypeOK, PcOK, Progress, WorkerPending, Idle
<1> QED BY <1>1, <1>2, <1>3, <1>4, <1>5, OwnStep DEF IInv

LEMMA WakeKeeps ==
    ASSUME IInv, NEW w \in Workers, Wake(w)
    PROVE  IInv'
<1> USE DEF Wake, ram, local, Goto, Fenced, Store, Notify
<1>0. TypeOK
    BY DEF IInv
<1>1. TypeOK'
  <2>1. PcOK'
    BY <1>0 DEF TypeOK, PcOK, MainPcs, WorkerPcs
  <2> QED BY <1>0, <2>1 DEF TypeOK
<1>2. boot
    BY Started DEF IInv
<1>3. MainKept /\ \A c \in Cores : c # w => Kept(c)
    BY <1>0 DEF TypeOK, PcOK, MainKept, Kept
<1>4. WorkerPending(w)'
  <2>1. WorkerPending(w)
    BY DEF IInv
  <2> QED BY <1>0, <2>1 DEF TypeOK, PcOK, WorkerPending
<1>5. Progress(w)'
  <2>1. Progress(w) /\ WorkerPending(w) /\ gen \in Nat
    BY DEF IInv, TypeOK
  <2> QED BY <1>0, <1>2, <2>1 DEF TypeOK, PcOK, Progress, WorkerPending, Idle
<1> QED BY <1>1, <1>2, <1>3, <1>4, <1>5, OwnStep DEF IInv

LEMMA SpuriousWakeKeeps ==
    ASSUME IInv, NEW w \in Workers, SpuriousWake(w)
    PROVE  IInv'
<1> USE DEF SpuriousWake, ram, local, Goto, Fenced, Store, Notify
<1>0. TypeOK
    BY DEF IInv
<1>1. TypeOK'
  <2>1. PcOK'
    BY <1>0 DEF TypeOK, PcOK, MainPcs, WorkerPcs
  <2> QED BY <1>0, <2>1 DEF TypeOK
<1>2. boot
    BY Started DEF IInv
<1>3. MainKept /\ \A c \in Cores : c # w => Kept(c)
    BY <1>0 DEF TypeOK, PcOK, MainKept, Kept
<1>4. WorkerPending(w)'
  <2>1. WorkerPending(w)
    BY DEF IInv
  <2> QED BY <1>0, <2>1 DEF TypeOK, PcOK, WorkerPending
<1>5. Progress(w)'
  <2>1. Progress(w) /\ WorkerPending(w) /\ gen \in Nat
    BY DEF IInv, TypeOK
  <2> QED BY <1>0, <1>2, <2>1 DEF TypeOK, PcOK, Progress, WorkerPending, Idle
<1> QED BY <1>1, <1>2, <1>3, <1>4, <1>5, OwnStep DEF IInv

-----------------------------------------------------------------------------
(* Core 0's steps.                                                         *)

\* A step of core 0 after the handshake that leaves gen alone leaves the
\* workers' parts of the invariant alone.
LEMMA MainStepKeeps ==
    ASSUME IInv, boot, TypeOK', UNCHANGED <<boot, gen>>,
           \A w \in Workers : Kept(w),
           pc'[0] \notin {"zero", "release"},
           MainPending', Published', Joining', MainShare', Verdict'
    PROVE  IInv'
<1>1. \A w \in Workers : WorkerPending(w)' /\ Progress(w)'
    BY KeptWorker DEF IInv
<1>2. Handshake'
    BY DEF IInv, Handshake, Booting
<1> QED BY <1>1, <1>2 DEF IInv

LEMMA CallKeeps ==
    ASSUME IInv, Call
    PROVE  IInv'
<1> USE DEF Call, Report, ram, local, Goto, Fenced, Store, Notify
<1>0. TypeOK
    BY DEF IInv
<1>1. TypeOK'
  <2>1. PcOK'
    BY <1>0 DEF TypeOK, PcOK, MainPcs, WorkerPcs
  <2> QED BY <1>0, <2>1 DEF TypeOK
<1>2. boot /\ UNCHANGED <<boot, gen>>
    BY DEF IInv, Handshake, Booting
<1>3. \A w \in Workers : Kept(w)
    BY <1>0 DEF TypeOK, PcOK, Kept
<1>4. pc'[0] \notin {"zero", "release"}
    BY <1>0 DEF TypeOK, PcOK
<1>5. MainPending'
    BY <1>0 DEF IInv, TypeOK, PcOK, MainPending
<1>6. Published'
    BY <1>0, <1>2 DEF IInv, TypeOK, PcOK, MainPending, Published, Unpublished
<1>7. Joining'
    BY <1>0, <1>2 DEF IInv, TypeOK, PcOK, MainPending, Joining, Quiet, Published, Unpublished, Verdict
<1>8. MainShare'
    BY <1>0, <1>2 DEF IInv, TypeOK, PcOK, MainPending, MainShare, Quiet, Published, Unpublished, Verdict
<1>9. Verdict'
    BY <1>0, <1>2, <1>3 DEF IInv, TypeOK, PcOK, Kept, Verdict
<1> QED BY <1>1, <1>2, <1>3, <1>4, <1>5, <1>6, <1>7, <1>8, <1>9, MainStepKeeps DEF IInv

LEMMA ReturnKeeps ==
    ASSUME IInv, Return
    PROVE  IInv'
<1> USE DEF Return, Report, ram, local, Goto, Fenced, Store, Notify
<1>0. TypeOK
    BY DEF IInv
<1>1. TypeOK'
  <2>1. PcOK'
    BY <1>0 DEF TypeOK, PcOK, MainPcs, WorkerPcs
  <2> QED BY <1>0, <2>1 DEF TypeOK
<1>2. boot /\ UNCHANGED <<boot, gen>>
    BY DEF IInv, Handshake, Booting
<1>3. \A w \in Workers : Kept(w)
    BY <1>0 DEF TypeOK, PcOK, Kept
<1>4. pc'[0] \notin {"zero", "release"}
    BY <1>0 DEF TypeOK, PcOK
<1>5. MainPending'
    BY <1>0 DEF IInv, TypeOK, PcOK, MainPending
<1>6. Published'
    BY <1>0, <1>2 DEF IInv, TypeOK, PcOK, MainPending, Published, Unpublished
<1>7. Joining'
    BY <1>0, <1>2 DEF IInv, TypeOK, PcOK, MainPending, Joining, Quiet, Published, Unpublished, Verdict
<1>8. MainShare'
    BY <1>0, <1>2 DEF IInv, TypeOK, PcOK, MainPending, MainShare, Quiet, Published, Unpublished, Verdict
<1>9. Verdict'
    BY <1>0, <1>2, <1>3 DEF IInv, TypeOK, PcOK, Kept, Verdict
<1> QED BY <1>1, <1>2, <1>3, <1>4, <1>5, <1>6, <1>7, <1>8, <1>9, MainStepKeeps DEF IInv

LEMMA CheckWorkersCheckKeeps ==
    ASSUME IInv, CheckWorkers("check", "test")
    PROVE  IInv'
<1> USE DEF CheckWorkers, Report, ram, local, Goto, Fenced, Store, Notify
<1>0. TypeOK
    BY DEF IInv
<1>p. \/ failure = 0 /\ pc' = [pc EXCEPT ![0] = "test"] /\ frame' = frame
      \/ failure # 0 /\ pc' = [pc EXCEPT ![0] = "halt"] /\ frame' = failure
    OBVIOUS
<1>1. TypeOK'
  <2>1. PcOK'
    <3>1. CASE pc' = [pc EXCEPT ![0] = "test"]
        BY <1>0, <3>1 DEF TypeOK, PcOK, MainPcs, WorkerPcs
    <3>2. CASE pc' = [pc EXCEPT ![0] = "halt"]
        BY <1>0, <3>2 DEF TypeOK, PcOK, MainPcs, WorkerPcs
    <3> QED BY <1>p, <3>1, <3>2
  <2> QED BY <1>0, <2>1 DEF TypeOK
<1>2. boot /\ UNCHANGED <<boot, gen>>
    BY DEF IInv, Handshake, Booting
<1>3. \A w \in Workers : Kept(w)
    BY <1>0 DEF TypeOK, PcOK, Kept
<1>4. pc'[0] \notin {"zero", "release"}
    BY <1>0 DEF TypeOK, PcOK
<1>5. MainPending'
    BY <1>0 DEF IInv, TypeOK, PcOK, MainPending
<1>6. Published'
    BY <1>0, <1>2 DEF IInv, TypeOK, PcOK, MainPending, Published, Unpublished
<1>7. Joining'
  <2>1. Joining /\ MainPending /\ Verdict
    BY DEF IInv
  <2>2. CASE failure = 0
    BY <1>0, <1>2, <1>3, <2>1, <2>2 DEF TypeOK, PcOK, Kept, MainPending, Joining, Quiet, Unpublished
  <2>3. CASE failure # 0
    <3>1. frame' # Result /\ pc'[0] = "halt" /\ ~Unpublished'
        BY <1>0, <1>p, <1>5, <2>3, SMTT(30) DEF TypeOK, PcOK, MainPending, Unpublished
    <3> QED BY <3>1 DEF Joining, Quiet
  <2> QED BY <2>2, <2>3
<1>8. MainShare'
    BY <1>0, <1>2 DEF IInv, TypeOK, PcOK, MainPending, MainShare, Quiet, Published, Unpublished, Verdict
<1>9. Verdict'
  <2>1. Verdict /\ failure \in Cores
    BY <1>0 DEF IInv, TypeOK
  <2>2. CASE failure = 0
    BY <1>0, <1>2, <1>3, <2>1, <2>2 DEF TypeOK, PcOK, Kept, Verdict
  <2>3. CASE failure # 0
    <3>1. pc'[0] = "halt" /\ frame' = failure /\ failure' = failure
        BY <1>0, <1>p, <2>3 DEF TypeOK, PcOK
    <3> QED BY <1>2, <1>3, <2>1, <2>3, <3>1 DEF Kept, Verdict
  <2> QED BY <2>2, <2>3
<1> QED BY <1>1, <1>2, <1>3, <1>4, <1>5, <1>6, <1>7, <1>8, <1>9, MainStepKeeps DEF IInv

LEMMA CheckWorkersAfterKeeps ==
    ASSUME IInv, CheckWorkers("after", "model")
    PROVE  IInv'
<1> USE DEF CheckWorkers, Report, ram, local, Goto, Fenced, Store, Notify
<1>0. TypeOK
    BY DEF IInv
<1>p. \/ failure = 0 /\ pc' = [pc EXCEPT ![0] = "model"] /\ frame' = frame
      \/ failure # 0 /\ pc' = [pc EXCEPT ![0] = "halt"] /\ frame' = failure
    OBVIOUS
<1>1. TypeOK'
  <2>1. PcOK'
    <3>1. CASE pc' = [pc EXCEPT ![0] = "model"]
        BY <1>0, <3>1 DEF TypeOK, PcOK, MainPcs, WorkerPcs
    <3>2. CASE pc' = [pc EXCEPT ![0] = "halt"]
        BY <1>0, <3>2 DEF TypeOK, PcOK, MainPcs, WorkerPcs
    <3> QED BY <1>p, <3>1, <3>2
  <2> QED BY <1>0, <2>1 DEF TypeOK
<1>2. boot /\ UNCHANGED <<boot, gen>>
    BY DEF IInv, Handshake, Booting
<1>3. \A w \in Workers : Kept(w)
    BY <1>0 DEF TypeOK, PcOK, Kept
<1>4. pc'[0] \notin {"zero", "release"}
    BY <1>0 DEF TypeOK, PcOK
<1>5. MainPending'
    BY <1>0 DEF IInv, TypeOK, PcOK, MainPending
<1>6. Published'
    BY <1>0, <1>2 DEF IInv, TypeOK, PcOK, MainPending, Published, Unpublished
<1>7. Joining'
    BY <1>0, <1>2 DEF IInv, TypeOK, PcOK, MainPending, Joining, Quiet, Published, Unpublished, Verdict
<1>8. MainShare'
    BY <1>0, <1>2 DEF IInv, TypeOK, PcOK, MainPending, MainShare, Quiet, Published, Unpublished, Verdict
<1>9. Verdict'
  <2>1. Verdict /\ failure \in Cores
    BY <1>0 DEF IInv, TypeOK
  <2>2. CASE failure = 0
    BY <1>0, <1>2, <1>3, <2>1, <2>2 DEF TypeOK, PcOK, Kept, Verdict
  <2>3. CASE failure # 0
    <3>1. pc'[0] = "halt" /\ frame' = failure /\ failure' = failure
        BY <1>0, <1>p, <2>3 DEF TypeOK, PcOK
    <3> QED BY <1>2, <1>3, <2>1, <2>3, <3>1 DEF Kept, Verdict
  <2> QED BY <2>2, <2>3
<1> QED BY <1>1, <1>2, <1>3, <1>4, <1>5, <1>6, <1>7, <1>8, <1>9, MainStepKeeps DEF IInv

LEMMA CheckWorkersLastKeeps ==
    ASSUME IInv, CheckWorkers("last", "emit")
    PROVE  IInv'
<1> USE DEF CheckWorkers, Report, ram, local, Goto, Fenced, Store, Notify
<1>0. TypeOK
    BY DEF IInv
<1>p. \/ failure = 0 /\ pc' = [pc EXCEPT ![0] = "emit"] /\ frame' = frame
      \/ failure # 0 /\ pc' = [pc EXCEPT ![0] = "halt"] /\ frame' = failure
    OBVIOUS
<1>1. TypeOK'
  <2>1. PcOK'
    <3>1. CASE pc' = [pc EXCEPT ![0] = "emit"]
        BY <1>0, <3>1 DEF TypeOK, PcOK, MainPcs, WorkerPcs
    <3>2. CASE pc' = [pc EXCEPT ![0] = "halt"]
        BY <1>0, <3>2 DEF TypeOK, PcOK, MainPcs, WorkerPcs
    <3> QED BY <1>p, <3>1, <3>2
  <2> QED BY <1>0, <2>1 DEF TypeOK
<1>2. boot /\ UNCHANGED <<boot, gen>>
    BY DEF IInv, Handshake, Booting
<1>3. \A w \in Workers : Kept(w)
    BY <1>0 DEF TypeOK, PcOK, Kept
<1>4. pc'[0] \notin {"zero", "release"}
    BY <1>0 DEF TypeOK, PcOK
<1>5. MainPending'
    BY <1>0 DEF IInv, TypeOK, PcOK, MainPending
<1>6. Published'
    BY <1>0, <1>2 DEF IInv, TypeOK, PcOK, MainPending, Published, Unpublished
<1>7. Joining'
    BY <1>0, <1>2 DEF IInv, TypeOK, PcOK, MainPending, Joining, Quiet, Published, Unpublished, Verdict
<1>8. MainShare'
    BY <1>0, <1>2 DEF IInv, TypeOK, PcOK, MainPending, MainShare, Quiet, Published, Unpublished, Verdict
<1>9. Verdict'
  <2>1. Verdict /\ failure \in Cores
    BY <1>0 DEF IInv, TypeOK
  <2>2. CASE failure = 0
    BY <1>0, <1>2, <1>3, <2>1, <2>2 DEF TypeOK, PcOK, Kept, Verdict
  <2>3. CASE failure # 0
    <3>1. pc'[0] = "halt" /\ frame' = failure /\ failure' = failure
        BY <1>0, <1>p, <2>3 DEF TypeOK, PcOK
    <3> QED BY <1>2, <1>3, <2>1, <2>3, <3>1 DEF Kept, Verdict
  <2> QED BY <2>2, <2>3
<1> QED BY <1>1, <1>2, <1>3, <1>4, <1>5, <1>6, <1>7, <1>8, <1>9, MainStepKeeps DEF IInv

LEMMA TestAwaitedKeeps ==
    ASSUME IInv, TestAwaited
    PROVE  IInv'
<1> USE DEF TestAwaited, Awaited, Report, ram, local, Goto, Fenced, Store, Notify
<1>0. TypeOK
    BY DEF IInv
<1>1. TypeOK'
  <2>1. PcOK'
    BY <1>0, SMTT(30) DEF TypeOK, PcOK, MainPcs, WorkerPcs
  <2> QED BY <1>0, <2>1, SMTT(30) DEF TypeOK
<1>2. boot /\ UNCHANGED <<boot, gen>>
    BY DEF IInv, Handshake, Booting
<1>3. \A w \in Workers : Kept(w)
    BY <1>0 DEF TypeOK, PcOK, Kept
<1>4. pc'[0] \notin {"zero", "release"}
    BY <1>0 DEF TypeOK, PcOK
<1>5. MainPending'
    BY <1>0 DEF IInv, TypeOK, PcOK, MainPending
<1>6. Published'
    BY <1>0, <1>2 DEF IInv, TypeOK, PcOK, MainPending, Published, Unpublished
<1>7. Joining'
  <2>1. Joining /\ ~Unpublished /\ ~Unpublished' /\ frame # Result
    BY <1>0 DEF IInv, TypeOK, PcOK, MainPending, Unpublished, Verdict
  <2>2. CASE ~Awaited
    BY <1>0, <1>2, <1>3, <2>1, <2>2 DEF TypeOK, PcOK, Kept, Joining, Quiet
  <2>3. CASE Awaited /\ k = 0
    BY <1>0, <1>2, <1>3, <2>1, <2>3 DEF TypeOK, PcOK, Kept, Joining, Quiet
  <2>4. CASE Awaited /\ k # 0
    <3>1. \A w \in Workers : w < k+1 => done[w] = mine
        BY <1>0, <1>2, <2>1, <2>4 DEF TypeOK, Joining
    <3>2. CASE k = N-1
        BY <1>0, <1>2, <1>3, <2>1, <2>4, <3>1, <3>2 DEF TypeOK, PcOK, Kept, Joining, Quiet
    <3>3. CASE k # N-1
        BY <1>0, <1>2, <1>3, <2>1, <2>4, <3>1, <3>3 DEF TypeOK, PcOK, Kept, Joining, Quiet
    <3> QED BY <3>2, <3>3
  <2> QED BY <2>2, <2>3, <2>4
<1>8. MainShare'
    BY <1>0, <1>2 DEF IInv, TypeOK, PcOK, MainPending, MainShare, Quiet, Published, Unpublished, Verdict
<1>9. Verdict'
    BY <1>0, <1>2, <1>3 DEF IInv, TypeOK, PcOK, Kept, Verdict
<1> QED BY <1>1, <1>2, <1>3, <1>4, <1>5, <1>6, <1>7, <1>8, <1>9, MainStepKeeps DEF IInv

LEMMA PublishKeeps ==
    ASSUME IInv, Publish
    PROVE  IInv'
<1> USE DEF Publish, Report, ram, local, Goto, Fenced, Store, Notify
<1>0. TypeOK
    BY DEF IInv
<1>1. TypeOK'
  <2>1. PcOK'
    BY <1>0 DEF TypeOK, PcOK, MainPcs, WorkerPcs
  <2> QED BY <1>0, <2>1 DEF TypeOK
<1>2. boot /\ UNCHANGED <<boot, gen>>
    BY DEF IInv, Handshake, Booting
<1>3. \A w \in Workers : Kept(w)
    BY <1>0 DEF TypeOK, PcOK, Kept
<1>4. pc'[0] \notin {"zero", "release"}
    BY <1>0 DEF TypeOK, PcOK
<1>5. MainPending'
    BY <1>0 DEF IInv, TypeOK, PcOK, MainPending
<1>6. Published'
    BY <1>0, <1>2 DEF IInv, TypeOK, PcOK, MainPending, Published, Unpublished
<1>7. Joining'
    BY <1>0, <1>2 DEF IInv, TypeOK, PcOK, MainPending, Joining, Quiet, Published, Unpublished, Verdict
<1>8. MainShare'
    BY <1>0, <1>2 DEF IInv, TypeOK, PcOK, MainPending, MainShare, Quiet, Published, Unpublished, Verdict
<1>9. Verdict'
    BY <1>0, <1>2, <1>3 DEF IInv, TypeOK, PcOK, Kept, Verdict
<1> QED BY <1>1, <1>2, <1>3, <1>4, <1>5, <1>6, <1>7, <1>8, <1>9, MainStepKeeps DEF IInv

LEMMA CommitKeeps ==
    ASSUME IInv, Commit
    PROVE  IInv'
<1> USE DEF Commit, Report, ram, local, Goto, Fenced, Store, Notify
<1>0. TypeOK
    BY DEF IInv
<1>1. TypeOK'
  <2>1. PcOK'
    BY <1>0 DEF TypeOK, PcOK, MainPcs, WorkerPcs
  <2> QED BY <1>0, <2>1 DEF TypeOK
<1>2. boot /\ UNCHANGED <<boot, gen>>
    BY DEF IInv, Handshake, Booting
<1>3. \A w \in Workers : Kept(w)
    BY <1>0 DEF TypeOK, PcOK, Kept
<1>4. pc'[0] \notin {"zero", "release"}
    BY <1>0 DEF TypeOK, PcOK
<1>5. MainPending'
    BY <1>0 DEF IInv, TypeOK, PcOK, MainPending
<1>6. Published'
    BY <1>0, <1>2 DEF IInv, TypeOK, PcOK, MainPending, Published, Unpublished
<1>7. Joining'
    BY <1>0, <1>2 DEF IInv, TypeOK, PcOK, MainPending, Joining, Quiet, Published, Unpublished, Verdict
<1>8. MainShare'
    BY <1>0, <1>2 DEF IInv, TypeOK, PcOK, MainPending, MainShare, Quiet, Published, Unpublished, Verdict
<1>9. Verdict'
    BY <1>0, <1>2, <1>3 DEF IInv, TypeOK, PcOK, Kept, Verdict
<1> QED BY <1>1, <1>2, <1>3, <1>4, <1>5, <1>6, <1>7, <1>8, <1>9, MainStepKeeps DEF IInv

LEMMA NotifyWorkersKeeps ==
    ASSUME IInv, NotifyWorkers
    PROVE  IInv'
<1> USE DEF NotifyWorkers, Report, ram, local, Goto, Fenced, Store, Notify
<1>0. TypeOK
    BY DEF IInv
<1>1. TypeOK'
  <2>1. PcOK'
    BY <1>0 DEF TypeOK, PcOK, MainPcs, WorkerPcs
  <2> QED BY <1>0, <2>1 DEF TypeOK
<1>2. boot /\ UNCHANGED <<boot, gen>>
    BY DEF IInv, Handshake, Booting
<1>3. \A w \in Workers : Kept(w)
    BY <1>0 DEF TypeOK, PcOK, Kept
<1>4. pc'[0] \notin {"zero", "release"}
    BY <1>0 DEF TypeOK, PcOK
<1>5. MainPending'
    BY <1>0 DEF IInv, TypeOK, PcOK, MainPending
<1>6. Published'
    BY <1>0, <1>2 DEF IInv, TypeOK, PcOK, MainPending, Published, Unpublished
<1>7. Joining'
    BY <1>0, <1>2 DEF IInv, TypeOK, PcOK, MainPending, Joining, Quiet, Published, Unpublished, Verdict
<1>8. MainShare'
    BY <1>0, <1>2 DEF IInv, TypeOK, PcOK, MainPending, MainShare, Quiet, Published, Unpublished, Verdict
<1>9. Verdict'
    BY <1>0, <1>2, <1>3 DEF IInv, TypeOK, PcOK, Kept, Verdict
<1> QED BY <1>1, <1>2, <1>3, <1>4, <1>5, <1>6, <1>7, <1>8, <1>9, MainStepKeeps DEF IInv

LEMMA RunMainKeeps ==
    ASSUME IInv, RunMain
    PROVE  IInv'
<1> USE DEF RunMain, Report, ram, local, Goto, Fenced, Store, Notify
<1>0. TypeOK
    BY DEF IInv
<1>1. TypeOK'
  <2>1. PcOK'
    BY <1>0 DEF TypeOK, PcOK, MainPcs, WorkerPcs
  <2> QED BY <1>0, <2>1 DEF TypeOK
<1>2. boot /\ UNCHANGED <<boot, gen>>
    BY DEF IInv, Handshake, Booting
<1>3. \A w \in Workers : Kept(w)
    BY <1>0 DEF TypeOK, PcOK, Kept
<1>4. pc'[0] \notin {"zero", "release"}
    BY <1>0 DEF TypeOK, PcOK
<1>k. k = 1 /\ pend[0] = {}
    BY <1>2 DEF IInv, Joining, MainPending
<1>5. MainPending'
    BY <1>0, <1>k DEF TypeOK, PcOK, MainPending
<1>6. Published'
    BY <1>0, <1>2 DEF IInv, TypeOK, PcOK, MainPending, Published, Unpublished
<1>7. Joining'
    BY <1>0, <1>2, <1>3, <1>k DEF IInv, Kept, TypeOK, PcOK, MainPending, Joining, Quiet, Published, Unpublished, Verdict
<1>8. MainShare'
    BY <1>0, <1>2, <1>k DEF IInv, TypeOK, PcOK, MainPending, MainShare, Quiet, Published, Unpublished, Verdict
<1>9. Verdict'
    BY <1>0, <1>2, <1>3 DEF IInv, TypeOK, PcOK, Kept, Verdict
<1> QED BY <1>1, <1>2, <1>3, <1>4, <1>5, <1>6, <1>7, <1>8, <1>9, MainStepKeeps DEF IInv

LEMMA EmitKeeps ==
    ASSUME IInv, Emit
    PROVE  IInv'
<1> USE DEF Emit, Report, ram, local, Goto, Fenced, Store, Notify
<1>0. TypeOK
    BY DEF IInv
<1>1. TypeOK'
  <2>1. PcOK'
    BY <1>0 DEF TypeOK, PcOK, MainPcs, WorkerPcs
  <2> QED BY <1>0, <2>1 DEF TypeOK
<1>2. boot /\ UNCHANGED <<boot, gen>>
    BY DEF IInv, Handshake, Booting
<1>3. \A w \in Workers : Kept(w)
    BY <1>0 DEF TypeOK, PcOK, Kept
<1>4. pc'[0] \notin {"zero", "release"}
    BY <1>0 DEF TypeOK, PcOK
<1>5. MainPending'
    BY <1>0 DEF IInv, TypeOK, PcOK, MainPending
<1>6. Published'
    BY <1>0, <1>2 DEF IInv, TypeOK, PcOK, MainPending, Published, Unpublished
<1>7. Joining'
    BY <1>0, <1>2 DEF IInv, TypeOK, PcOK, MainPending, Joining, Quiet, Published, Unpublished, Verdict
<1>8. MainShare'
    BY <1>0, <1>2 DEF IInv, TypeOK, PcOK, MainPending, MainShare, Quiet, Published, Unpublished, Verdict
<1>9. Verdict'
    BY <1>0, <1>2, <1>3 DEF IInv, TypeOK, PcOK, Kept, Verdict
<1> QED BY <1>1, <1>2, <1>3, <1>4, <1>5, <1>6, <1>7, <1>8, <1>9, MainStepKeeps DEF IInv

LEMMA TrapMainKeeps ==
    ASSUME IInv, TrapMain
    PROVE  IInv'
<1> USE DEF TrapMain, Report, ram, local, Goto, Fenced, Store, Notify
<1>0. TypeOK
    BY DEF IInv
<1>1. TypeOK'
  <2>1. PcOK'
    BY <1>0 DEF TypeOK, PcOK, MainPcs, WorkerPcs
  <2> QED BY <1>0, <2>1 DEF TypeOK
<1>2. boot /\ UNCHANGED <<boot, gen>>
    BY DEF IInv, Handshake, Booting
<1>3. \A w \in Workers : Kept(w)
    BY <1>0 DEF TypeOK, PcOK, Kept
<1>4. pc'[0] \notin {"zero", "release"}
    BY <1>0 DEF TypeOK, PcOK
<1>5. MainPending'
    BY <1>0 DEF IInv, TypeOK, PcOK, MainPending
<1>6. Published'
    BY <1>0, <1>2 DEF IInv, TypeOK, PcOK, MainPending, Published, Unpublished
<1>7. Joining'
    BY <1>0, <1>2 DEF IInv, TypeOK, PcOK, MainPending, Joining, Quiet, Published, Unpublished, Verdict
<1>8. MainShare'
    BY <1>0, <1>2 DEF IInv, TypeOK, PcOK, MainPending, MainShare, Quiet, Published, Unpublished, Verdict
<1>9. Verdict'
    BY <1>0, <1>2, <1>3 DEF IInv, TypeOK, PcOK, Kept, Verdict
<1> QED BY <1>1, <1>2, <1>3, <1>4, <1>5, <1>6, <1>7, <1>8, <1>9, MainStepKeeps DEF IInv

LEMMA ClearDoorbellMainKeeps ==
    ASSUME IInv, ClearDoorbell(0)
    PROVE  IInv'
<1> USE DEF ClearDoorbell, Report, ram, local, Goto, Fenced, Store, Notify
<1>0. TypeOK
    BY DEF IInv
<1>1. TypeOK'
  <2>1. PcOK'
    BY <1>0 DEF TypeOK, PcOK, MainPcs, WorkerPcs
  <2> QED BY <1>0, <2>1 DEF TypeOK
<1>2. boot /\ UNCHANGED <<boot, gen>>
    BY DEF IInv, Handshake, Booting
<1>3. \A w \in Workers : Kept(w)
    BY <1>0 DEF TypeOK, PcOK, Kept
<1>4. pc'[0] \notin {"zero", "release"}
    BY <1>0 DEF TypeOK, PcOK
<1>5. MainPending'
    BY <1>0 DEF IInv, TypeOK, PcOK, MainPending
<1>6. Published'
    BY <1>0, <1>2 DEF IInv, TypeOK, PcOK, MainPending, Published, Unpublished
<1>7. Joining'
    BY <1>0, <1>2 DEF IInv, TypeOK, PcOK, MainPending, Joining, Quiet, Published, Unpublished, Verdict
<1>8. MainShare'
    BY <1>0, <1>2 DEF IInv, TypeOK, PcOK, MainPending, MainShare, Quiet, Published, Unpublished, Verdict
<1>9. Verdict'
    BY <1>0, <1>2, <1>3 DEF IInv, TypeOK, PcOK, Kept, Verdict
<1> QED BY <1>1, <1>2, <1>3, <1>4, <1>5, <1>6, <1>7, <1>8, <1>9, MainStepKeeps DEF IInv

LEMMA TrapZeroKeeps ==
    ASSUME IInv, Trap(0)
    PROVE  IInv'
<1> USE DEF Trap, Report, ram, local, Goto, Fenced, Store, Notify
<1>0. TypeOK
    BY DEF IInv
<1>1. TypeOK'
  <2>1. PcOK'
    <3>1. pc' = [pc EXCEPT ![0] = "trap"]
        OBVIOUS
    <3> QED BY <1>0, <3>1 DEF TypeOK, PcOK, MainPcs, WorkerPcs
  <2> QED BY <1>0, <2>1 DEF TypeOK
<1>2. boot /\ UNCHANGED <<boot, gen>>
    BY DEF IInv, Handshake, Booting
<1>3. \A w \in Workers : Kept(w)
    BY <1>0 DEF TypeOK, PcOK, Kept
<1>4. pc'[0] \notin {"zero", "release"}
    BY <1>0 DEF TypeOK, PcOK
<1>5. MainPending'
    BY <1>0 DEF IInv, TypeOK, PcOK, MainPending
<1>6. Published'
    BY <1>0, <1>2 DEF IInv, TypeOK, PcOK, MainPending, Published, Unpublished
<1>7. Joining'
    BY <1>0, <1>2 DEF IInv, TypeOK, PcOK, MainPending, Joining, Quiet, Published, Unpublished, Verdict
<1>8. MainShare'
    BY <1>0, <1>2 DEF IInv, TypeOK, PcOK, MainPending, MainShare, Quiet, Published, Unpublished, Verdict
<1>9. Verdict'
    BY <1>0, <1>2, <1>3 DEF IInv, TypeOK, PcOK, Kept, Verdict
<1> QED BY <1>1, <1>2, <1>3, <1>4, <1>5, <1>6, <1>7, <1>8, <1>9, MainStepKeeps DEF IInv

LEMMA WakeMainKeeps ==
    ASSUME IInv, Wake(0)
    PROVE  IInv'
<1> USE DEF Wake, Report, ram, local, Goto, Fenced, Store, Notify
<1>0. TypeOK
    BY DEF IInv
<1>1. TypeOK'
  <2>1. PcOK'
    BY <1>0 DEF TypeOK, PcOK, MainPcs, WorkerPcs
  <2> QED BY <1>0, <2>1 DEF TypeOK
<1>2. boot /\ UNCHANGED <<boot, gen>>
    BY DEF IInv, Handshake, Booting
<1>3. \A w \in Workers : Kept(w)
    BY <1>0 DEF TypeOK, PcOK, Kept
<1>4. pc'[0] \notin {"zero", "release"}
    BY <1>0 DEF TypeOK, PcOK
<1>5. MainPending'
    BY <1>0 DEF IInv, TypeOK, PcOK, MainPending
<1>6. Published'
    BY <1>0, <1>2 DEF IInv, TypeOK, PcOK, MainPending, Published, Unpublished
<1>7. Joining'
    BY <1>0, <1>2 DEF IInv, TypeOK, PcOK, MainPending, Joining, Quiet, Published, Unpublished, Verdict
<1>8. MainShare'
    BY <1>0, <1>2 DEF IInv, TypeOK, PcOK, MainPending, MainShare, Quiet, Published, Unpublished, Verdict
<1>9. Verdict'
    BY <1>0, <1>2, <1>3 DEF IInv, TypeOK, PcOK, Kept, Verdict
<1> QED BY <1>1, <1>2, <1>3, <1>4, <1>5, <1>6, <1>7, <1>8, <1>9, MainStepKeeps DEF IInv

LEMMA SpuriousWakeMainKeeps ==
    ASSUME IInv, SpuriousWake(0)
    PROVE  IInv'
<1> USE DEF SpuriousWake, Report, ram, local, Goto, Fenced, Store, Notify
<1>0. TypeOK
    BY DEF IInv
<1>1. TypeOK'
  <2>1. PcOK'
    BY <1>0 DEF TypeOK, PcOK, MainPcs, WorkerPcs
  <2> QED BY <1>0, <2>1 DEF TypeOK
<1>2. boot /\ UNCHANGED <<boot, gen>>
    BY DEF IInv, Handshake, Booting
<1>3. \A w \in Workers : Kept(w)
    BY <1>0 DEF TypeOK, PcOK, Kept
<1>4. pc'[0] \notin {"zero", "release"}
    BY <1>0 DEF TypeOK, PcOK
<1>5. MainPending'
    BY <1>0 DEF IInv, TypeOK, PcOK, MainPending
<1>6. Published'
    BY <1>0, <1>2 DEF IInv, TypeOK, PcOK, MainPending, Published, Unpublished
<1>7. Joining'
    BY <1>0, <1>2 DEF IInv, TypeOK, PcOK, MainPending, Joining, Quiet, Published, Unpublished, Verdict
<1>8. MainShare'
    BY <1>0, <1>2 DEF IInv, TypeOK, PcOK, MainPending, MainShare, Quiet, Published, Unpublished, Verdict
<1>9. Verdict'
    BY <1>0, <1>2, <1>3 DEF IInv, TypeOK, PcOK, Kept, Verdict
<1> QED BY <1>1, <1>2, <1>3, <1>4, <1>5, <1>6, <1>7, <1>8, <1>9, MainStepKeeps DEF IInv

-----------------------------------------------------------------------------
(* The handshake.                                                          *)

LEMMA ZeroBssKeeps ==
    ASSUME IInv, ZeroBss
    PROVE  IInv'
<1> USE DEF ZeroBss, ram, local, Goto, Store
<1>0. TypeOK /\ Handshake /\ ~boot /\ ~boot'
    BY DEF IInv, Handshake, Booting
<1>1. TypeOK'
  <2>1. PcOK'
    BY <1>0 DEF TypeOK, PcOK, MainPcs, WorkerPcs
  <2> QED BY <1>0, <2>1 DEF TypeOK
<1>2. \A w \in Workers : Kept(w)
    BY <1>0 DEF TypeOK, PcOK, Kept
<1>3. \A w \in Workers : WorkerPending(w)' /\ Progress(w)'
    BY <1>0, <1>2, KeptWorker DEF IInv
<1>4. pc'[0] = "release" /\ pend'[0] = {"bss"}
    BY <1>0 DEF IInv, TypeOK, PcOK, MainPending
<1>5. MainPending'
    BY <1>4 DEF MainPending
<1>6. Handshake'
    BY <1>0, <1>2, <1>4 DEF TypeOK, PcOK, Handshake, Booting, Kept
<1>7. Verdict'
    BY <1>0, <1>4 DEF Handshake, Booting, Verdict
<1> QED BY <1>0, <1>1, <1>3, <1>5, <1>6, <1>7 DEF IInv, Published, Joining, MainShare

LEMMA ReleaseBootKeeps ==
    ASSUME IInv, ReleaseBoot
    PROVE  IInv'
<1> USE DEF ReleaseBoot, local, Goto, Fenced
<1>0. TypeOK /\ Handshake /\ ~boot /\ boot'
    BY DEF IInv, Handshake, Booting
<1>1. TypeOK'
  <2>1. PcOK'
    BY <1>0 DEF TypeOK, PcOK, MainPcs, WorkerPcs
  <2> QED BY <1>0, <2>1 DEF TypeOK
<1>2. \A w \in Workers : Kept(w) /\ pc[w] = "spin" /\ seen[w] = 0 /\ done[w] = 0 /\ out[w] = 0
    BY <1>0 DEF TypeOK, PcOK, Kept, Handshake, Booting
<1>3. pc'[0] = "model" /\ pend'[0] = {} /\ mine = 0 /\ gen = 0 /\ job = 0 /\ failure = 0
      /\ out[0] = 0 /\ frame = NoFrame
    BY <1>0 DEF TypeOK, PcOK, Handshake, Booting
<1>4. \A w \in Workers : WorkerPending(w)' /\ Progress(w)'
    BY <1>2, <1>3 DEF IInv, Kept, WorkerPending, Progress, Idle
<1>5. MainPending'
    BY <1>3 DEF MainPending
<1>6. Handshake'
    BY <1>0, <1>3 DEF Handshake, Booting
<1>7. Published' /\ MainShare'
    BY <1>3 DEF Published, Unpublished, MainShare
<1>8. Joining'
    BY <1>2, <1>3 DEF Joining, Unpublished, Kept
<1>9. Verdict'
    BY <1>3 DEF Verdict
<1> QED BY <1>1, <1>4, <1>5, <1>6, <1>7, <1>8, <1>9 DEF IInv

-----------------------------------------------------------------------------
(* Stores reaching RAM.                                                    *)

LEMMA DrainWorkerKeeps ==
    ASSUME IInv, NEW w \in Workers, NEW place \in Places, Drain(w, place)
    PROVE  IInv'
<1> USE DEF Drain, Ordered, local
<1>0. TypeOK /\ WorkerPending(w) /\ Progress(w)
    BY DEF IInv
<1>1. boot /\ place \in {"out", "done", "clear"}
    BY <1>0, Started DEF WorkerPending
<1>2. TypeOK'
  <2>1. PcOK'
    BY <1>0 DEF TypeOK, PcOK
  <2> QED BY <1>0, <1>1, <2>1 DEF TypeOK
<1>3. MainKept /\ failure' = failure /\ \A c \in Cores : c # w => Kept(c)
    BY <1>0, <1>1 DEF TypeOK, MainKept, Kept
<1>4. WorkerPending(w)'
    BY <1>0 DEF TypeOK, WorkerPending
<1>5. Progress(w)' /\ done'[w] \in {done[w], gen}
  <2>1. CASE place = "out"
    <3>1. pc'[w] = pc[w] /\ pc[w] \in {"done", "bell"} /\ done' = done
        BY <1>0, <2>1 DEF WorkerPending
    <3>2. out'[w] = arg[w] /\ arg[w] = want[w]
        BY <1>0, <1>1, <2>1, <3>1 DEF TypeOK, WorkerPending, Progress
    <3> QED BY <1>0, <1>1, <2>1, <3>1, <3>2 DEF TypeOK, Progress, Idle
  <2>2. CASE place = "done"
    BY <1>0, <1>1, <2>2 DEF TypeOK, WorkerPending, Progress, Idle
  <2>3. CASE place = "clear"
    BY <1>0, <1>1, <2>3 DEF TypeOK, WorkerPending, Progress, Idle
  <2> QED BY <1>1, <2>1, <2>2, <2>3
<1> QED BY <1>1, <1>2, <1>3, <1>4, <1>5, OwnStep

LEMMA DrainBssKeeps ==
    ASSUME IInv, Drain(0, "bss")
    PROVE  IInv'
<1> USE DEF Drain, Ordered, local
<1>0. TypeOK /\ Handshake /\ ~boot /\ ~boot' /\ pc[0] = "release"
    BY DEF IInv, Handshake, Booting, MainPending
<1>1. TypeOK'
  <2>1. PcOK'
    BY <1>0 DEF TypeOK, PcOK
  <2> QED BY <1>0, <2>1 DEF TypeOK
<1>2. \A w \in Workers : WorkerPending(w)' /\ Progress(w)'
    BY <1>0 DEF IInv, TypeOK, WorkerPending, Progress
<1>3. MainPending'
    BY <1>0 DEF IInv, TypeOK, MainPending
<1>4. Handshake'
    BY <1>0 DEF TypeOK, Handshake, Booting
<1>5. Verdict'
    BY <1>0 DEF IInv, Verdict
<1> QED BY <1>0, <1>1, <1>2, <1>3, <1>4, <1>5 DEF IInv, Published, Joining, MainShare

\* The release store of sv_generation: only now may a worker fall behind.
LEMMA DrainGenKeeps ==
    ASSUME IInv, Drain(0, "gen")
    PROVE  IInv'
<1> USE DEF Drain, Ordered, local
<1>0. TypeOK /\ boot /\ pc[0] = "notify" /\ Unpublished /\ "job" \notin pend[0]
    BY DEF IInv, Handshake, Booting, MainPending, Unpublished
<1>1. gen' = gen + 1 /\ gen' = mine /\ job = mine /\ gen \in Nat /\ frame = NoFrame
    BY <1>0 DEF IInv, TypeOK, Published, Verdict
<1>2. pc'[0] = "notify" /\ ~Unpublished' /\ pend'[0] = {}
    BY <1>0 DEF IInv, TypeOK, MainPending, Unpublished
<1>3. TypeOK'
  <2>1. PcOK'
    BY <1>0 DEF TypeOK, PcOK
  <2> QED BY <1>0, <1>1, <2>1 DEF TypeOK
<1>4. \A w \in Workers : Kept(w) /\ done[w] = gen
    BY <1>0 DEF IInv, TypeOK, Kept, Joining
<1>5. ASSUME NEW w \in Workers PROVE WorkerPending(w)' /\ Progress(w)'
  <2>1. WorkerPending(w) /\ Progress(w)
    BY DEF IInv
  <2>2. WorkerPending(w)'
    BY <1>4, <2>1 DEF Kept, WorkerPending
  <2>3. Progress(w)'
    BY <1>0, <1>1, <1>4, <2>1 DEF TypeOK, Kept, WorkerPending, Progress, Idle
  <2> QED BY <2>2, <2>3
<1>6. MainPending' /\ Handshake'
    BY <1>0, <1>2 DEF IInv, MainPending, Handshake, Booting
<1>7. Published' /\ MainShare'
    BY <1>0, <1>1, <1>2 DEF IInv, Published, MainShare, Quiet
<1>8. Joining'
    BY <1>0, <1>1, <1>2 DEF IInv, Joining, Quiet
<1>9. Verdict'
    BY <1>0 DEF IInv, Verdict
<1> QED BY <1>3, <1>5, <1>6, <1>7, <1>8, <1>9 DEF IInv

LEMMA DrainMainKeeps ==
    ASSUME IInv, NEW place \in {"job", "out", "clear"}, Drain(0, place)
    PROVE  IInv'
<1> USE DEF Drain, Ordered, local
<1>0. TypeOK /\ boot /\ pc[0] \in {"clear", "check", "commit", "notify"}
    BY DEF IInv, Handshake, Booting, MainPending
<1>1. TypeOK'
  <2>1. PcOK'
    BY <1>0 DEF TypeOK, PcOK
  <2> QED BY <1>0, <2>1 DEF TypeOK
<1>2. \A w \in Workers : Kept(w)
    BY <1>0, SMTT(30) DEF TypeOK, Kept
<1>3. UNCHANGED <<boot, gen, pc>> /\ Unpublished' = Unpublished
    BY <1>0 DEF TypeOK, Unpublished
<1>4. MainPending'
    BY <1>0 DEF IInv, TypeOK, MainPending
<1>5. Published'
    BY <1>0, <1>3 DEF IInv, TypeOK, MainPending, Published
<1>6. Joining'
    BY <1>0, <1>2, <1>3 DEF IInv, Kept, Joining, Quiet
<1>7. MainShare'
    BY <1>0, <1>3 DEF IInv, TypeOK, MainPending, MainShare, Quiet
<1>8. Verdict'
    BY <1>0 DEF IInv, Verdict
<1> QED BY <1>0, <1>1, <1>2, <1>3, <1>4, <1>5, <1>6, <1>7, <1>8, MainStepKeeps

-----------------------------------------------------------------------------
(* The theorems.                                                           *)

LEMMA InitIInv == Init => IInv
<1> SUFFICES ASSUME Init PROVE IInv
    OBVIOUS
<1>1. TypeOK
  <2>1. PcOK
    BY DEF Init, PcOK, MainPcs, WorkerPcs
  <2>2. pend \in [Cores -> SUBSET Places]
    BY DEF Init
  <2>3. done \in [Workers -> Nat]
    <3>1. done \in [Workers -> {0, 1}]
        BY DEF Init
    <3> QED BY <3>1
  <2>4. out \in [Cores -> Nat] /\ msip \in [Cores -> {0, 1}]
    BY DEF Init
  <2>5. want \in [Workers -> Nat] /\ seen \in [Workers -> Nat] /\ arg \in [Workers -> Nat]
    BY DEF Init
  <2>6. gen \in Nat /\ job \in Nat /\ ready \in Nat /\ mine \in Nat
    BY DEF Init
  <2>7. failure \in Cores /\ k \in Cores /\ frame \in {NoFrame, Result} \cup Cores
    BY DEF Init
  <2>8. boot \in BOOLEAN
    BY DEF Init
  <2> QED BY <2>1, <2>2, <2>3, <2>4, <2>5, <2>6, <2>7, <2>8 DEF TypeOK
<1>2. MainPending /\ \A w \in Workers : WorkerPending(w)
    BY DEF Init, MainPending, WorkerPending
<1>3. Handshake
  <2>1. pc[0] = "zero" /\ \A w \in Workers : pc[w] = "spin" /\ seen[w] = 0
    BY DEF Init
  <2> QED BY <2>1 DEF Init, Handshake, Booting
<1>4. ~boot /\ Verdict
    BY DEF Init, Verdict
<1> QED BY <1>1, <1>2, <1>3, <1>4 DEF IInv, Published, Progress, Joining, MainShare

LEMMA StutterIInv == IInv /\ UNCHANGED vars => IInv'
<1> SUFFICES ASSUME IInv, UNCHANGED vars PROVE IInv'
    OBVIOUS
<1> USE DEF vars, ram, local
<1>1. TypeOK'
    BY DEF IInv, TypeOK, PcOK
<1>2. \A w \in Workers : WorkerPending(w)' /\ Progress(w)'
    BY DEF IInv, WorkerPending, Progress
<1>3. MainPending' /\ Handshake' /\ Published'
    BY DEF IInv, MainPending, Handshake, Booting, Published, Unpublished
<1>4. Joining' /\ MainShare' /\ Verdict'
    BY DEF IInv, Joining, Quiet, Unpublished, MainShare, Verdict
<1> QED BY <1>1, <1>2, <1>3, <1>4 DEF IInv

LEMMA NextIInv == IInv /\ [Next]_vars => IInv'
<1> SUFFICES ASSUME IInv, [Next]_vars PROVE IInv'
    OBVIOUS
<1>1. ASSUME MainStep PROVE IInv'
    BY <1>1, ZeroBssKeeps, ReleaseBootKeeps, CallKeeps, ReturnKeeps,
       ClearDoorbellMainKeeps, CheckWorkersCheckKeeps, CheckWorkersAfterKeeps,
       CheckWorkersLastKeeps, TestAwaitedKeeps, PublishKeeps, CommitKeeps,
       NotifyWorkersKeeps, RunMainKeeps, EmitKeeps, TrapMainKeeps, WakeMainKeeps
       DEF MainStep
<1>2. ASSUME NEW w \in Workers, WorkerStep(w) PROVE IInv'
    BY <1>2, WaitBootKeeps, ArriveKeeps, HelloKeeps, ClearDoorbellKeeps,
       CheckFailureKeeps, TestGenerationKeeps, ReadJobKeeps, RunWorkerKeeps,
       StoreDoneKeeps, BellKeeps, RecordFailureKeeps, AlarmKeeps, WakeKeeps
       DEF WorkerStep
<1>3. ASSUME NEW c \in Cores, Trap(c) \/ SpuriousWake(c) PROVE IInv'
  <2>1. CASE c = 0
    BY <1>3, <2>1, TrapZeroKeeps, SpuriousWakeMainKeeps
  <2>2. CASE c \in Workers
    BY <1>3, <2>2, TrapKeeps, SpuriousWakeKeeps
  <2> QED BY <2>1, <2>2
<1>4. ASSUME NEW c \in Cores, NEW place \in Places, Drain(c, place) PROVE IInv'
  <2>1. CASE c \in Workers
    BY <1>4, <2>1, DrainWorkerKeeps
  <2>2. CASE c = 0
    <3>1. place # "done"
        BY <1>4, <2>2 DEF IInv, MainPending, Drain
    <3> QED BY <1>4, <2>2, <3>1, DrainBssKeeps, DrainGenKeeps, DrainMainKeeps
  <2> QED BY <2>1, <2>2
<1> QED BY <1>1, <1>2, <1>3, <1>4, StutterIInv DEF Next

\* Every reachable state satisfies the inductive invariant.
THEOREM Inductive == Spec => []IInv
<1>1. Init => IInv
    BY InitIInv
<1>2. IInv /\ [Next]_vars => IInv'
    BY NextIInv
<1> QED BY <1>1, <1>2, PTL DEF Spec

THEOREM TypeCorrect == Spec => []TypeOK
BY Inductive, PTL DEF IInv

\* sv_count, sv_function and sv_context are stable while a worker reads them.
THEOREM JobIsStable == Spec => []JobStable
<1>1. IInv => JobStable
  <2> SUFFICES ASSUME IInv, NEW w \in Workers, pc[w] = "read"
               PROVE  job = want[w] /\ pend[0] \cap {"job", "gen"} = {}
    BY DEF JobStable
  <2>1. boot
    BY Started
  <2>2. ~Unpublished
    BY <2>1 DEF IInv, TypeOK, Progress, Joining
  <2>3. want[w] = mine /\ "job" \notin pend[0] /\ job = mine
    BY <2>1, <2>2 DEF IInv, Progress, Published
  <2> QED BY <2>2, <2>3 DEF Unpublished
<1> QED BY <1>1, Inductive, PTL

\* Results of a worker whose share of loop "mine" core 0 has heard of.
LEMMA DoneIsOut ==
    ASSUME IInv, boot, ~Unpublished, NEW w \in Workers, done[w] = mine
    PROVE  out[w] = mine /\ pc[w] \notin {"read", "run", "trap", "alarm", "dead"}
<1>1. Progress(w) /\ WorkerPending(w) /\ gen = mine /\ gen \in Nat /\ pc[w] \in WorkerPcs
    BY DEF IInv, Published, TypeOK, PcOK
<1>2. CASE pc[w] \in Idle
    BY <1>1, <1>2 DEF Progress, Idle
<1>3. CASE pc[w] = "bell"
    BY <1>1, <1>3 DEF Progress
<1>4. CASE pc[w] \in {"read", "run", "done", "trap", "alarm", "dead"}
    BY <1>1, <1>4 DEF Progress
<1> QED BY <1>1, <1>2, <1>3, <1>4 DEF WorkerPcs, Idle

\* When a loop has returned, every core's results are in RAM.
THEOREM LoopsJoin == Spec => []Joined
<1>1. IInv => Joined
  <2> SUFFICES ASSUME IInv, pc[0] \in {"after", "model", "last", "emit"}
               PROVE  /\ \A c \in Cores : out[c] = mine
                      /\ \A w \in Workers : pc[w] \notin {"read", "run", "trap", "alarm", "dead"}
    BY DEF Joined
  <2>1. boot /\ ~Unpublished /\ Quiet
    BY DEF IInv, Handshake, Booting, MainPending, Unpublished, Quiet
  <2>2. \A w \in Workers : done[w] = mine
    BY <2>1 DEF IInv, Joining
  <2>3. out[0] = mine
    BY <2>1 DEF IInv, MainShare
  <2> QED BY <2>1, <2>2, <2>3, DoneIsOut
<1> QED BY <1>1, Inductive, PTL

\* A frame with the model's result stands for completed loops, a failure
\* frame for a worker that trapped.
THEOREM FrameIsTruthful == Spec => []FrameTruthful
<1>1. IInv => FrameTruthful
  <2> SUFFICES ASSUME IInv PROVE FrameTruthful
    OBVIOUS
  <2>1. ASSUME frame = Result PROVE failure = 0 /\ \A c \in Cores : out[c] = mine
    <3>0. pc[0] = "halt" /\ failure = 0
        BY <2>1 DEF IInv, Verdict
    <3>1. boot /\ ~Unpublished /\ Quiet
        BY <2>1, <3>0 DEF IInv, Handshake, Booting, MainPending, Unpublished, Quiet
    <3>2. (\A w \in Workers : done[w] = mine) /\ out[0] = mine
        BY <3>1 DEF IInv, Joining, MainShare
    <3> QED BY <3>0, <3>1, <3>2, DoneIsOut
  <2> QED BY <2>1 DEF IInv, Verdict, FrameTruthful
<1> QED BY <1>1, Inductive, PTL

\* Every share reads the results of all the loops before it.
THEOREM EarlierLoopsSeen == Spec => []SeesEarlierLoops
<1>1. IInv => SeesEarlierLoops
  <2> SUFFICES ASSUME IInv PROVE SeesEarlierLoops
    OBVIOUS
  <2>1. ASSUME boot, ~Unpublished, NEW c \in Cores PROVE out[c] >= mine - 1
    <3>1. CASE c = 0
        BY <2>1, <3>1 DEF IInv, TypeOK, MainShare
    <3>2. CASE c \in Workers
      <4>1. Progress(c) /\ WorkerPending(c) /\ gen = mine /\ gen \in Nat /\ pc[c] \in WorkerPcs
        BY <2>1, <3>2 DEF IInv, Published, TypeOK, PcOK
      <4>2. CASE pc[c] \in Idle
        BY <2>1, <4>1, <4>2 DEF Progress, Idle
      <4>3. CASE pc[c] = "bell"
        BY <2>1, <4>1, <4>3 DEF Progress
      <4>4. CASE pc[c] \in {"read", "run", "done", "trap", "alarm", "dead"}
        BY <2>1, <4>1, <4>4 DEF Progress
      <4> QED BY <4>1, <4>2, <4>3, <4>4 DEF WorkerPcs, Idle
    <3> QED BY <3>1, <3>2
  <2>2. ASSUME NEW w \in Workers, pc[w] = "run"
        PROVE  arg[w] = want[w] /\ \A c \in Cores : out[c] >= want[w]-1
    <3>1. boot
        BY <2>2, Started
    <3>2. ~Unpublished /\ arg[w] = want[w] /\ want[w] = mine
        BY <2>2, <3>1 DEF IInv, TypeOK, Progress, Joining, Published
    <3> QED BY <2>1, <3>1, <3>2
  <2>3. ASSUME pc[0] = "run" PROVE \A c \in Cores : out[c] >= mine-1
    <3>1. boot /\ ~Unpublished
        BY <2>3 DEF IInv, Handshake, Booting, MainPending, Unpublished
    <3> QED BY <2>1, <3>1
  <2> QED BY <2>2, <2>3 DEF SeesEarlierLoops
<1> QED BY <1>1, Inductive, PTL

\* The compare-exchange of sv_trap_report keeps the first failure.
THEOREM FirstFailure == Spec => FirstFailureWins
<1>1. ASSUME IInv, boot, failure # 0, [Next]_vars PROVE failure' = failure
  <2>1. "bss" \notin pend[0]
    BY <1>1 DEF IInv, Handshake, Booting, MainPending
  <2>2. ASSUME NEW c \in Cores, NEW place \in Places, Drain(c, place) PROVE failure' = failure
    <3>1. place # "bss"
        BY <1>1, <2>1, <2>2 DEF IInv, WorkerPending, Drain
    <3> QED BY <2>2, <3>1 DEF Drain
  <2>3. ASSUME NEW c \in Cores, Trap(c) \/ SpuriousWake(c) PROVE failure' = failure
    BY <2>3 DEF Trap, SpuriousWake, ram
  <2>4. ASSUME NEW w \in Workers, WorkerStep(w) PROVE failure' = failure
    BY <1>1, <2>4 DEF WorkerStep, WaitBoot, Arrive, Hello, ClearDoorbell, CheckFailure,
       TestGeneration, ReadJob, RunWorker, StoreDone, Bell, RecordFailure, Alarm, Wake, ram
  <2>5. ASSUME MainStep PROVE failure' = failure
    BY <2>5 DEF MainStep, ZeroBss, ReleaseBoot, Call, Return, ClearDoorbell, CheckWorkers,
       TestAwaited, Publish, Commit, NotifyWorkers, RunMain, Emit, TrapMain, Wake, ram
  <2>6. UNCHANGED vars => failure' = failure
    BY DEF vars, ram
  <2> QED BY <1>1, <2>2, <2>3, <2>4, <2>5, <2>6 DEF Next
<1>2. IInv /\ [Next]_vars => [boot /\ failure # 0 => failure' = failure]_vars
    BY <1>1
<1> QED BY <1>2, Inductive, PTL DEF Spec, FirstFailureWins

-----------------------------------------------------------------------------
(* HartTeam implements ForkJoin.                                           *)

Trapping == {"trap", "alarm", "dead"}

LEMMA SameBroken ==
    ASSUME \A w \in Workers : (pc'[w] \in Trapping) <=> (pc[w] \in Trapping),
           (pc'[0] = "trap" \/ frame' = 0) <=> (pc[0] = "trap" \/ frame = 0)
    PROVE  Broken' = Broken
BY DEF Broken, Trapping

\* Nothing is broken while core 0 still goes on and knows all shares done.
LEMMA NoneBroken ==
    ASSUME IInv, boot, pc[0] \in {"publish", "emit"}
    PROVE  Broken = {} /\ frame = NoFrame /\ \A c \in Cores : out[c] = mine
<1>1. ~Unpublished /\ Quiet /\ frame = NoFrame
    BY DEF IInv, MainPending, Unpublished, Quiet, Verdict
<1>2. (\A w \in Workers : done[w] = mine) /\ out[0] = mine
    BY <1>1 DEF IInv, Joining, MainShare
<1>3. \A w \in Workers : out[w] = mine /\ pc[w] \notin Trapping
    BY <1>1, <1>2, DoneIsOut DEF Trapping
<1> QED BY <1>1, <1>2, <1>3 DEF Broken, Trapping

LEMMA SilentWorker ==
    ASSUME IInv, NEW w \in Workers,
           \/ WaitBoot(w) \/ Arrive(w) \/ Hello(w) \/ ClearDoorbell(w) \/ CheckFailure(w)
           \/ TestGeneration(w) \/ ReadJob(w) \/ RunWorker(w) \/ StoreDone(w) \/ Bell(w)
           \/ RecordFailure(w) \/ Alarm(w) \/ Wake(w) \/ SpuriousWake(w)
    PROVE  UNCHANGED <<mine, out, Broken, frame>>
<1>1. UNCHANGED <<mine, out, frame>>
    BY DEF WaitBoot, Arrive, Hello, ClearDoorbell, CheckFailure, TestGeneration, ReadJob,
       RunWorker, StoreDone, Bell, RecordFailure, Alarm, Wake, SpuriousWake, ram, local
<1>2. \E to \in WorkerPcs : /\ pc' = [pc EXCEPT ![w] = to]
                            /\ (pc[w] \in Trapping) <=> (to \in Trapping)
    BY DEF WaitBoot, Arrive, Hello, ClearDoorbell, CheckFailure, TestGeneration, ReadJob,
       RunWorker, StoreDone, Bell, RecordFailure, Alarm, Wake, SpuriousWake, Goto,
       Trapping, WorkerPcs
<1>3. Broken' = Broken
    BY <1>1, <1>2, SameBroken, SMTT(30) DEF IInv, TypeOK, PcOK
<1> QED BY <1>1, <1>3

LEMMA SilentMain ==
    ASSUME IInv,
           \/ ZeroBss \/ ReleaseBoot \/ Call \/ Return \/ ClearDoorbell(0) \/ TestAwaited
           \/ Commit \/ NotifyWorkers \/ RunMain \/ Wake(0) \/ SpuriousWake(0)
    PROVE  UNCHANGED <<mine, out, Broken, frame>>
<1>1. UNCHANGED <<mine, out, frame>>
    BY DEF ZeroBss, ReleaseBoot, Call, Return, ClearDoorbell, TestAwaited, Commit,
       NotifyWorkers, RunMain, Wake, SpuriousWake, ram, local
<1>2. pc[0] # "trap" /\ \E to \in MainPcs : to # "trap" /\ pc' = [pc EXCEPT ![0] = to]
    BY DEF ZeroBss, ReleaseBoot, Call, Return, ClearDoorbell, TestAwaited, Commit,
       NotifyWorkers, RunMain, Wake, SpuriousWake, Goto, MainPcs
<1>3. Broken' = Broken
    BY <1>1, <1>2, SameBroken DEF IInv, TypeOK, PcOK
<1> QED BY <1>1, <1>3

LEMMA PublishForks == ASSUME IInv, Publish PROVE Team!Fork
<1> USE DEF Publish, Goto, ram
<1>1. boot /\ gen = mine /\ pc[0] = "publish"
    BY DEF IInv, Handshake, Booting, Published, Unpublished, MainPending
<1>2. Broken = {} /\ frame = NoFrame /\ \A c \in Cores : out[c] = mine
    BY <1>1, NoneBroken
<1>3. Broken' = Broken
    BY SameBroken DEF IInv, TypeOK, PcOK, Trapping
<1> QED BY <1>1, <1>2, <1>3 DEF Team!Fork, Team!Complete

LEMMA EmitSucceeds == ASSUME IInv, Emit PROVE Team!Succeed
<1> USE DEF Emit, Goto, Report, local
<1>1. boot /\ pc[0] = "emit"
    BY DEF IInv, Handshake, Booting
<1>2. Broken = {} /\ frame = NoFrame /\ \A c \in Cores : out[c] = mine
    BY <1>1, NoneBroken
<1>3. Broken' = Broken
    BY <1>2, SameBroken DEF IInv, TypeOK, PcOK, Trapping
<1> QED BY <1>1, <1>2, <1>3 DEF Team!Succeed, Team!Complete

LEMMA CheckBlames ==
    ASSUME IInv, \/ CheckWorkers("check", "test")
                 \/ CheckWorkers("after", "model")
                 \/ CheckWorkers("last", "emit")
    PROVE  Team!Blame(failure) \/ UNCHANGED <<mine, out, Broken, frame>>
<1>1. UNCHANGED <<mine, out>> /\ pc[0] \notin {"trap", "halt"}
    BY DEF CheckWorkers, local
<1>2. frame = NoFrame /\ boot /\ failure \in Cores
    BY <1>1, Started DEF IInv, TypeOK, Verdict, Handshake, Booting, CheckWorkers
<1>3. \E to \in MainPcs : to # "trap" /\ pc' = [pc EXCEPT ![0] = to]
    BY DEF CheckWorkers, MainPcs
<1>4. \/ frame' = frame
      \/ failure # 0 /\ frame' = failure
  <2>1. CASE failure = 0
    BY <2>1 DEF CheckWorkers
  <2>2. CASE failure # 0
    BY <2>2 DEF CheckWorkers, Report
  <2> QED BY <2>1, <2>2
<1>5. Broken' = Broken
  <2>1. pc'[0] # "trap" /\ \A w \in Workers : pc'[w] = pc[w]
    BY <1>3 DEF IInv, TypeOK, PcOK
  <2>2. frame # 0 /\ frame' # 0
    BY <1>2, <1>4
  <2> QED BY <1>1, <2>1, <2>2, SameBroken
<1>6. failure # 0 => failure \in Broken
    BY <1>2 DEF IInv, Verdict, Broken
<1> QED BY <1>1, <1>2, <1>4, <1>5, <1>6 DEF Team!Blame

LEMMA TrapMainBlames == ASSUME IInv, TrapMain PROVE Team!Blame(0)
<1> USE DEF TrapMain, Goto, Report, local
<1>1. pc[0] = "trap" /\ frame = NoFrame
    BY DEF IInv, Verdict
<1>2. Broken' = Broken
    BY <1>1, SameBroken DEF IInv, TypeOK, PcOK, Trapping
<1> QED BY <1>1, <1>2 DEF Team!Blame, Broken

LEMMA TrapBreaks == ASSUME IInv, NEW c \in Cores, Trap(c) PROVE Team!Break(c)
<1> USE DEF Trap, Goto, ram, local
<1>0. pc' = [pc EXCEPT ![c] = "trap"] /\ UNCHANGED <<mine, out, frame>>
    OBVIOUS
<1>1. CASE c = 0
  <2>1. frame = NoFrame /\ pc[0] # "trap"
    BY <1>1 DEF IInv, Verdict
  <2>2. Broken' = Broken \cup {0} /\ 0 \notin Broken
    BY <1>0, <1>1, <2>1 DEF Broken, IInv, TypeOK, PcOK
  <2> QED BY <1>0, <1>1, <2>1, <2>2 DEF Team!Break
<1>2. CASE c \in Workers
  <2>1. pc[c] = "run" /\ boot
    BY <1>2, Started
  <2>2. Progress(c) /\ ~Unpublished /\ done[c] # mine /\ gen = mine
    BY <1>2, <2>1 DEF IInv, TypeOK, Progress, Joining, Published
  <2>3. out[c] = mine - 1 /\ frame # Result
    BY <1>2, <2>1, <2>2 DEF IInv, Progress, Joining, Quiet
  <2>4. Broken' = Broken \cup {c} /\ c \notin Broken
    BY <1>0, <1>2, <2>1 DEF Broken, IInv, TypeOK, PcOK
  <2> QED BY <1>0, <2>3, <2>4 DEF Team!Break
<1> QED BY <1>1, <1>2

LEMMA DrainShares ==
    ASSUME IInv, NEW c \in Cores, NEW place \in Places, Drain(c, place)
    PROVE  Team!Share(c) \/ UNCHANGED <<mine, out, Broken, frame>>
<1> USE DEF Drain, local
<1>1. Broken' = Broken /\ mine' = mine /\ frame' = frame
    BY SameBroken
<1>2. CASE place # "out"
    BY <1>1, <1>2
<1>3. CASE place = "out" /\ c = 0
  <2>1. pc[0] \in {"clear", "check"} /\ k # 0 /\ boot /\ frame = NoFrame
    BY <1>3 DEF IInv, MainPending, Handshake, Booting, Verdict
  <2>2. out[0] = mine - 1
    BY <1>3, <2>1 DEF IInv, MainShare
  <2>3. 0 \notin Broken
    BY <2>1 DEF Broken
  <2> QED BY <1>1, <1>3, <2>1, <2>2, <2>3 DEF Team!Share
<1>4. CASE place = "out" /\ c \in Workers
  <2>1. Progress(c) /\ WorkerPending(c) /\ pc[c] \in {"done", "bell"} /\ boot
    BY <1>4, Started DEF IInv, WorkerPending
  <2>2. out[c] = gen - 1 /\ arg[c] = gen /\ done[c] = gen - 1 /\ gen \in Nat
    BY <1>4, <2>1 DEF IInv, TypeOK, Progress
  <2>3. ~Unpublished
    BY <1>4, <2>1, <2>2 DEF IInv, Joining
  <2>4. gen = mine
    BY <2>1, <2>3 DEF IInv, Published
  <2>5. frame # Result
    BY <1>4, <2>1, <2>2, <2>4 DEF IInv, Joining, Quiet
  <2>6. c \notin Broken
    BY <1>4, <2>1 DEF Broken
  <2>7. out' = [out EXCEPT ![c] = mine]
    BY <1>4, <2>2, <2>4
  <2> QED BY <1>1, <2>2, <2>4, <2>5, <2>6, <2>7 DEF Team!Share
<1> QED BY <1>2, <1>3, <1>4

LEMMA StepImplements == IInv /\ [Next]_vars => [Team!Next]_<<mine, out, Broken, frame>>
<1> SUFFICES ASSUME IInv, [Next]_vars
             PROVE  Team!Next \/ UNCHANGED <<mine, out, Broken, frame>>
    OBVIOUS
<1>0. failure \in Cores
    BY DEF IInv, TypeOK
<1>1. CASE MainStep
    BY <1>0, <1>1, SilentMain, PublishForks, EmitSucceeds, CheckBlames, TrapMainBlames
       DEF MainStep, Team!Next
<1>2. ASSUME NEW w \in Workers, WorkerStep(w) PROVE UNCHANGED <<mine, out, Broken, frame>>
    BY <1>2, SilentWorker DEF WorkerStep
<1>3. ASSUME NEW c \in Cores, Trap(c) PROVE Team!Next
    BY <1>3, TrapBreaks DEF Team!Next
<1>4. ASSUME NEW c \in Cores, SpuriousWake(c) PROVE UNCHANGED <<mine, out, Broken, frame>>
  <2>1. CASE c = 0
    BY <1>4, <2>1, SilentMain
  <2>2. CASE c \in Workers
    BY <1>4, <2>2, SilentWorker
  <2> QED BY <2>1, <2>2
<1>5. ASSUME NEW c \in Cores, NEW place \in Places, Drain(c, place)
      PROVE  Team!Next \/ UNCHANGED <<mine, out, Broken, frame>>
    BY <1>5, DrainShares DEF Team!Next
<1>6. CASE UNCHANGED vars
    BY <1>6 DEF vars, ram, local, Broken
<1> QED BY <1>1, <1>2, <1>3, <1>4, <1>5, <1>6 DEF Next

\* The worker team implements the fork-join loop.
THEOREM Implements == Spec => ImplementsForkJoin
<1>1. Init => Team!Init
  <2> SUFFICES ASSUME Init PROVE Team!Init
    OBVIOUS
  <2>1. Broken = {}
    BY DEF Init, Broken
  <2> QED BY <2>1 DEF Init, Team!Init
<1>2. IInv /\ [Next]_vars => [Team!Next]_(Team!vars)
    BY StepImplements DEF Team!vars
<1> QED BY <1>1, <1>2, Inductive, PTL DEF Spec, ImplementsForkJoin, Team!Spec
=============================================================================
