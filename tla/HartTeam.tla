------------------------------ MODULE HartTeam ------------------------------
(***************************************************************************)
(* The guest's synchronous worker team (scratchv/runtime/riscv_harts.py):  *)
(* startup code, sv_worker, sv_parallel_for, sv_trap_report, and sv_main   *)
(* of scratchv/runtime/riscv_external.py.  Core 0 runs the compiled model  *)
(* and publishes one job at a time; every core runs its share of it.       *)
(*                                                                         *)
(* Memory is RVWMO as far as this program can tell: an ordinary or release *)
(* store waits in pend[c] until it drains to RAM, a release store drains   *)
(* after the ordinary stores issued before it, a fence is a guard that     *)
(* pend[c] is empty, an AMO acts on RAM at once.  A fence always separates *)
(* two stores of one core to one location, so the value of a waiting store *)
(* is a function of the core's registers and pend[c] is a set of places.   *)
(***************************************************************************)
EXTENDS Integers, FiniteSets

CONSTANTS
    N,        \* SCRATCHV_CORES of a multi-core build (the code accepts 2, 4)
    MaxJobs   \* bound: parallel loops the compiled model runs

ASSUME NAssumption == N \in Nat /\ N >= 2
ASSUME MaxJobsAssumption == MaxJobs \in Nat

Cores   == 0 .. N-1
Workers == 1 .. N-1
NoFrame == -2     \* core 0 has not reported on the UART
Result  == -1     \* the frame carries the model's status and output size

VARIABLES
    pc,       \* [Cores -> where the core is]
    pend,     \* [Cores -> places with a store of that core not yet in RAM]
    boot,     \* sv_boot_ready # 0 (.data, so it needs no clearing)
    gen,      \* sv_generation
    job,      \* sv_count, sv_function, sv_context: which loop they describe
    ready,    \* sv_workers_ready
    done,     \* [Workers -> sv_done]
    failure,  \* sv_failure: 0, or the worker whose trap status it holds
    out,      \* [Cores -> last loop whose results of that core are in RAM]
    msip,     \* [Cores -> CLINT doorbell]
    frame,    \* the UART frame: NoFrame, Result, or the core that trapped
    mine,     \* core 0: generation
    k,        \* core 0: the loop variable core; 0 while waiting for the team
    want,     \* [Workers -> generation]
    seen,     \* [Workers -> seen]
    arg       \* [Workers -> the job arguments passed to sv_execute]

ram   == <<boot, gen, job, ready, done, failure, out, msip, frame>>
local == <<mine, k, want, seen, arg>>
vars  == <<pc, pend, ram, local>>

-----------------------------------------------------------------------------
(* Parts of steps.                                                         *)

Goto(c, from, to) == pc[c] = from /\ pc' = [pc EXCEPT ![c] = to]
Fenced(c)         == pend[c] = {}                      \* fence passes
Store(c, place)   == pend' = [pend EXCEPT ![c] = @ \cup {place}]

\* sv_notify: fence rw,ow, then the doorbell of core "to".
Notify(c, to) == Fenced(c) /\ msip' = [msip EXCEPT ![to] = 1]

-----------------------------------------------------------------------------
(* Stores reach RAM.                                                       *)

\* A release store (gen, done) drains after the stores it releases; the
\* clear of sv_clear_doorbell and the ordinary stores drain at any time.
\* Mutation of Ordered: a generation may be seen before its task.
OrderedJobLate(c, place)    == place = "done" => "out" \notin pend[c]

Ordered(c, place) ==
    /\ place = "gen"  => pend[c] \cap {"bss", "job", "out"} = {}
    /\ place = "done" => "out" \notin pend[c]

Drain(c, place) ==
    /\ place \in pend[c]
    /\ Ordered(c, place)
    /\ pend' = [pend EXCEPT ![c] = @ \ {place}]
    /\ gen' = CASE place = "gen" -> mine [] place = "bss" -> 0 [] OTHER -> gen
    /\ job' = CASE place = "job" -> mine [] place = "bss" -> 0 [] OTHER -> job
    /\ ready'   = IF place = "bss" THEN 0 ELSE ready
    /\ failure' = IF place = "bss" THEN 0 ELSE failure
    /\ done' = CASE place = "done" -> [done EXCEPT ![c] = want[c]]
                 [] place = "bss"  -> [w \in Workers |-> 0]
                 [] OTHER          -> done
    /\ out' = IF place # "out" THEN out
              ELSE [out EXCEPT ![c] = IF c = 0 THEN mine ELSE arg[c]]
    /\ msip' = IF place = "clear" THEN [msip EXCEPT ![c] = 0] ELSE msip
    /\ UNCHANGED <<pc, boot, frame, local>>

-----------------------------------------------------------------------------
(* Core 0.                                                                 *)

\* .Lzero: core 0 clears .bss; the other cores touch none of it meanwhile.
ZeroBss ==
    /\ Goto(0, "zero", "release")
    /\ Store(0, "bss")
    /\ UNCHANGED <<ram, local>>

\* .Lrelease_boot: fence rw,w; sw sv_boot_ready; call sv_main.
ReleaseBoot ==
    /\ Goto(0, "release", "model")
    /\ Fenced(0)
    /\ boot' = TRUE
    /\ UNCHANGED <<pend, gen, job, ready, done, failure, out, msip, frame, local>>

\* The compiled model calls sv_parallel_for ...
Call ==
    /\ mine < MaxJobs
    /\ Goto(0, "model", "clear")
    /\ k' = 0
    /\ UNCHANGED <<pend, ram, mine, want, seen, arg>>

\* ... or returns to sv_main, or traps outside a parallel loop.
Return == Goto(0, "model", "last") /\ UNCHANGED <<pend, ram, local>>

\* A core's trap (an access fault, an illegal instruction) enters sv_trap.
Trap(c) ==
    /\ \/ c = 0 /\ Goto(c, "model", "trap")
       \/ Goto(c, "run", "trap")
    /\ UNCHANGED <<pend, ram, local>>

\* Both waits of sv_parallel_for: for the team (k = 0), for sv_done[k].
ClearDoorbell(c) ==
    /\ Goto(c, "clear", "check")
    /\ Store(c, "clear")
    /\ UNCHANGED <<ram, local>>

\* frame: fence rw,rw, one UART frame, then core 0 sleeps for ever.
Report(status) == Fenced(0) /\ frame' = status

\* sv_check_workers, in the waits (behind the fence of the cleared doorbell),
\* at the end of sv_parallel_for, and in sv_main.
CheckWorkers(from, to) ==
    /\ pc[0] = from
    /\ from = "check" => Fenced(0)
    /\ \/ failure = 0 /\ pc' = [pc EXCEPT ![0] = to] /\ UNCHANGED frame
       \/ failure # 0 /\ pc' = [pc EXCEPT ![0] = "halt"] /\ Report(failure)
    /\ UNCHANGED <<pend, boot, gen, job, ready, done, failure, out, msip, local>>

Awaited == IF k = 0 THEN ready = N-1 ELSE done[k] = mine

TestAwaited ==
    /\ pc[0] = "test"
    /\ pc' = [pc EXCEPT ![0] = CASE ~Awaited           -> "wfi"
                                 [] Awaited /\ k = 0   -> "publish"
                                 [] Awaited /\ k = N-1 -> "after"
                                 [] OTHER              -> "clear"]
    /\ k' = IF Awaited /\ k \in 1 .. N-2 THEN k+1 ELSE k
    /\ UNCHANGED <<pend, ram, mine, want, seen, arg>>

\* generation = sv_generation+1; store sv_count, sv_function, sv_context.
Publish ==
    /\ Goto(0, "publish", "commit")
    /\ mine' = gen+1
    /\ Store(0, "job")
    /\ UNCHANGED <<ram, k, want, seen, arg>>

\* The release store of sv_generation.
Commit ==
    /\ Goto(0, "commit", "notify")
    /\ Store(0, "gen")
    /\ k' = 1
    /\ UNCHANGED <<ram, mine, want, seen, arg>>

\* Mutation of NotifyWorkers: no doorbell is rung.
NotifyNobody ==
    /\ Goto(0, "notify", "run")
    /\ UNCHANGED <<pend, ram, local>>

NotifyWorkers ==
    /\ pc[0] = "notify"
    /\ Notify(0, k)
    /\ k' = IF k = N-1 THEN 1 ELSE k+1
    /\ pc' = [pc EXCEPT ![0] = IF k = N-1 THEN "run" ELSE "notify"]
    /\ UNCHANGED <<pend, boot, gen, job, ready, done, failure, out, frame,
                   mine, want, seen, arg>>

\* Mutation of RunMain: the only worker is not waited for.
RunMainJoinsFewer ==
    /\ Goto(0, "run", IF N > 2 THEN "clear" ELSE "after")
    /\ Store(0, "out")
    /\ UNCHANGED <<ram, local>>

RunMain ==
    /\ Goto(0, "run", "clear")
    /\ Store(0, "out")
    /\ UNCHANGED <<ram, local>>

\* frame(status, size) of sv_main.
Emit ==
    /\ Goto(0, "emit", "halt")
    /\ Report(Result)
    /\ UNCHANGED <<pend, boot, gen, job, ready, done, failure, out, msip, local>>

TrapMain ==
    /\ Goto(0, "trap", "halt")
    /\ Report(0)
    /\ UNCHANGED <<pend, boot, gen, job, ready, done, failure, out, msip, local>>

-----------------------------------------------------------------------------
(* A worker w: sv_worker and its trap.                                     *)

WaitBoot(w) == boot /\ Goto(w, "spin", "arrive") /\ UNCHANGED <<pend, ram, local>>

Arrive(w) ==
    /\ Goto(w, "arrive", "hello")
    /\ Fenced(w)
    /\ ready' = ready+1
    /\ UNCHANGED <<pend, boot, gen, job, done, failure, out, msip, frame, local>>

\* sv_notify(0) after arriving and after a finished job.
Hello(w) ==
    /\ Goto(w, "hello", "clear")
    /\ Notify(w, 0)
    /\ UNCHANGED <<pend, boot, gen, job, ready, done, failure, out, frame, local>>

\* Mutation of CheckFailure: no barrier before the failure word is read.
CheckUnfenced(w) ==
    /\ pc[w] = "check"
    /\ pc' = [pc EXCEPT ![w] = IF failure = 0 THEN "test" ELSE "parked"]
    /\ UNCHANGED <<pend, ram, local>>

CheckFailure(w) ==
    /\ pc[w] = "check"
    /\ Fenced(w)
    /\ pc' = [pc EXCEPT ![w] = IF failure = 0 THEN "test" ELSE "parked"]
    /\ UNCHANGED <<pend, ram, local>>

TestGeneration(w) ==
    /\ pc[w] = "test"
    /\ \/ /\ gen = seen[w]
          /\ pc' = [pc EXCEPT ![w] = "wfi"] /\ UNCHANGED want
       \/ /\ gen # seen[w]
          /\ pc' = [pc EXCEPT ![w] = "read"]
          /\ want' = [want EXCEPT ![w] = gen]
    /\ UNCHANGED <<pend, ram, mine, k, seen, arg>>

\* The arguments of sv_execute are loaded from the shared job.
ReadJob(w) ==
    /\ Goto(w, "read", "run")
    /\ arg' = [arg EXCEPT ![w] = job]
    /\ UNCHANGED <<pend, ram, mine, k, want, seen>>

RunWorker(w) ==
    /\ Goto(w, "run", "done")
    /\ Store(w, "out")
    /\ UNCHANGED <<ram, local>>

StoreDone(w) ==
    /\ Goto(w, "done", "bell")
    /\ Store(w, "done")
    /\ UNCHANGED <<ram, local>>

\* Mutation of Bell: the worker does not remember the generation it served.
BellForgetsSeen(w) ==
    /\ Goto(w, "bell", "clear")
    /\ Notify(w, 0)
    /\ UNCHANGED <<pend, boot, gen, job, ready, done, failure, out, frame, local>>

Bell(w) ==
    /\ Goto(w, "bell", "clear")
    /\ Notify(w, 0)
    /\ seen' = [seen EXCEPT ![w] = want[w]]
    /\ UNCHANGED <<pend, boot, gen, job, ready, done, failure, out, frame,
                   mine, k, want, arg>>

\* Mutation of RecordFailure: a later failure replaces the first.
RecordLatest(w) ==
    /\ Goto(w, "trap", "alarm")
    /\ Fenced(w)
    /\ failure' = w
    /\ UNCHANGED <<pend, boot, gen, job, ready, done, out, msip, frame, local>>

\* sv_trap_report: the first failure wins (compare-exchange, release).
RecordFailure(w) ==
    /\ Goto(w, "trap", "alarm")
    /\ Fenced(w)
    /\ failure' = IF failure = 0 THEN w ELSE failure
    /\ UNCHANGED <<pend, boot, gen, job, ready, done, out, msip, frame, local>>

\* Mutation of Alarm: the failing core rings nobody.
AlarmSilent(w) == Goto(w, "alarm", "dead") /\ UNCHANGED <<pend, ram, local>>

Alarm(w) ==
    /\ Goto(w, "alarm", "dead")
    /\ Notify(w, 0)
    /\ UNCHANGED <<pend, boot, gen, job, ready, done, failure, out, frame, local>>

\* wfi resumes when the core's doorbell is set (MSIE is on, MIE is off); the
\* architecture also lets it resume for no reason, which nothing relies on.
Wake(c)         == msip[c] = 1 /\ Goto(c, "wfi", "clear") /\ UNCHANGED <<pend, ram, local>>
SpuriousWake(c) == Goto(c, "wfi", "clear") /\ UNCHANGED <<pend, ram, local>>

-----------------------------------------------------------------------------
Places == {"bss", "job", "gen", "out", "done", "clear"}

\* .bss holds anything at reset: none of these values is relied upon.
Init ==
    /\ pc   = [c \in Cores |-> IF c = 0 THEN "zero" ELSE "spin"]
    /\ pend = [c \in Cores |-> {}]
    /\ boot = FALSE
    /\ gen \in {0, 1} /\ ready \in {0, 1} /\ failure \in {0, 1} /\ job = gen
    /\ done \in [Workers -> {0, 1}]
    /\ out  = [c \in Cores |-> 0]
    /\ msip = [c \in Cores |-> 0]
    /\ frame = NoFrame
    /\ mine = 0 /\ k = 0
    /\ want = [w \in Workers |-> 0]
    /\ seen = [w \in Workers |-> 0]
    /\ arg  = [w \in Workers |-> 0]

MainStep ==
    \/ ZeroBss \/ ReleaseBoot \/ Call \/ Return \/ ClearDoorbell(0)
    \/ CheckWorkers("check", "test") \/ CheckWorkers("after", "model")
    \/ CheckWorkers("last", "emit")
    \/ TestAwaited \/ Publish \/ Commit \/ NotifyWorkers \/ RunMain
    \/ Emit \/ TrapMain \/ Wake(0)

WorkerStep(w) ==
    \/ WaitBoot(w) \/ Arrive(w) \/ Hello(w) \/ ClearDoorbell(w)
    \/ CheckFailure(w) \/ TestGeneration(w) \/ ReadJob(w) \/ RunWorker(w)
    \/ StoreDone(w) \/ Bell(w) \/ RecordFailure(w) \/ Alarm(w) \/ Wake(w)

Next ==
    \/ MainStep
    \/ \E w \in Workers : WorkerStep(w)
    \/ \E c \in Cores : Trap(c) \/ SpuriousWake(c)
    \/ \E c \in Cores, place \in Places : Drain(c, place)

\* Every core is a vCPU that runs, and a store does not wait for ever.
Fairness ==
    /\ WF_vars(MainStep)
    /\ \A w \in Workers : WF_vars(WorkerStep(w))
    /\ \A c \in Cores : WF_vars(\E place \in Places : Drain(c, place))

Spec     == Init /\ [][Next]_vars
FairSpec == Spec /\ Fairness

-----------------------------------------------------------------------------
(* Properties.                                                             *)

MainPcs   == {"zero", "release", "model", "clear", "check", "test", "wfi",
              "publish", "commit", "notify", "run", "after", "last", "emit",
              "trap", "halt"}
WorkerPcs == {"spin", "arrive", "hello", "clear", "check", "test", "wfi",
              "read", "run", "done", "bell", "trap", "alarm", "dead", "parked"}

PcOK ==
    /\ pc \in [Cores -> MainPcs \cup WorkerPcs]
    /\ pc[0] \in MainPcs /\ \A w \in Workers : pc[w] \in WorkerPcs

TypeOK ==
    /\ PcOK
    /\ pend \in [Cores -> SUBSET Places]
    /\ boot \in BOOLEAN
    /\ gen \in Nat /\ job \in Nat /\ ready \in Nat /\ mine \in Nat
    /\ done \in [Workers -> Nat] /\ out \in [Cores -> Nat]
    /\ failure \in Cores /\ k \in Cores
    /\ msip \in [Cores -> {0, 1}]
    /\ frame \in {NoFrame, Result} \cup Cores
    /\ want \in [Workers -> Nat] /\ seen \in [Workers -> Nat] /\ arg \in [Workers -> Nat]

\* The arguments of a loop are not rewritten while a worker may still read
\* them: sv_parallel_for publishes the next loop only after every sv_done.
JobStable ==
    \A w \in Workers : pc[w] = "read" => job = want[w] /\ pend[0] \cap {"job", "gen"} = {}

\* Every share of a loop runs with that loop's arguments, and reads RAM in
\* which all cores' results of the loops before it have arrived.
SeesEarlierLoops ==
    /\ \A w \in Workers : pc[w] = "run" =>
          arg[w] = want[w] /\ \A c \in Cores : out[c] >= want[w]-1
    /\ pc[0] = "run" => \A c \in Cores : out[c] >= mine-1

\* When sv_parallel_for has returned, every core's results of every loop so
\* far are in RAM and no worker is inside a task.
Joined ==
    pc[0] \in {"after", "model", "last", "emit"} =>
        /\ \A c \in Cores : out[c] = mine
        /\ \A w \in Workers : pc[w] \notin {"read", "run", "trap", "alarm", "dead"}

\* A frame with the model's result means no core failed and the output is
\* complete; a failure frame of a worker names one that really trapped.
FrameTruthful ==
    /\ frame = Result => failure = 0 /\ \A c \in Cores : out[c] = mine
    /\ frame \in Workers => pc[frame] \in {"alarm", "dead"}

\* After the boot handshake sv_failure is written once, by the first trap.
FirstFailureWins == [][boot /\ failure # 0 => failure' = failure]_vars

\* sv_parallel_for returns or the guest reports: no doorbell that clears and
\* wakes cross can leave core 0 or a worker it waits for asleep.
LoopEnds == (pc[0] = "clear") ~> (pc[0] \in {"model", "halt"})

\* A worker's trap ends the run with a failure frame, whatever core 0 does.
FailureReported == \A w \in Workers : (pc[w] = "trap") ~> (frame \in Cores)

\* The host always hears from the guest.
FrameSent == <>(frame # NoFrame)

-----------------------------------------------------------------------------
(* The team keeps the promise of ForkJoin.                                 *)

\* A trapped worker never leaves its trap; core 0's trap ends in its frame.
Broken == {w \in Workers : pc[w] \in {"trap", "alarm", "dead"}}
            \cup {c \in {0} : pc[0] = "trap" \/ frame = 0}

Team == INSTANCE ForkJoin WITH
            Pending <- NoFrame, Finished <- Result,
            round <- mine, shares <- out, broken <- Broken, verdict <- frame

\* Loops start one after another, every core finishes its share of each loop
\* once, and the host is told of completion or of a core that really broke.
ImplementsForkJoin == Team!Spec
=============================================================================
