------------------------------ MODULE AsmPasses ------------------------------
(***************************************************************************)
(* The passes on assembly text in the order of the compiler driver         *)
(* (scratchv/compiler.py _run_asm_passes, assembly_passes.py) under        *)
(* PassManager._execute: the output of one is the input of the next, and a *)
(* pass that raises ends the compilation.  Then two machines run the text  *)
(* that went in and the text that came out.                                *)
(***************************************************************************)
EXTENDS Peephole, ConstMerge, Scheduler

CONSTANTS
    Jobs,         \* [text, passes] to compile
    MaxRegion     \* max_region_size

VARIABLES
    text,         \* the assembly that code generation made
    pending,      \* the passes selected, from the one that runs now
    executions,   \* names of the completed passes
    outcome,      \* "compiling", "done" or "error"
    regions_read, \* schedule has divided the text into regions
    todo,         \* those still to schedule
    place,        \* the region being scheduled: <<first line, last line>>
    old, new      \* the two machines
driverVars  == <<text, pending, executions, outcome>>
passVars    == <<peepholeVars, regions_read, schedulerVars, todo, place>>
vars        == <<driverVars, passVars, old, new>>

Running(pass) == outcome = "compiling" /\ pending # <<>> /\ pending[1] = pass
Driver(pass)  == Running(pass) /\ UNCHANGED <<driverVars, old, new>>

\* The next pass takes what this one returned.
PassDone(result) ==
    /\ lines' = result
    /\ executions' = Append(executions, pending[1])
    /\ pending' = Tail(pending)
    /\ fresh' = <<>> /\ at' = 1 /\ changed' = FALSE /\ iteration' = 1
    /\ regions_read' = FALSE /\ place' = <<0, 0>>
    /\ UNCHANGED <<text, outcome, dropped, schedulerVars, old, new>>

-----------------------------------------------------------------------------
(* asm-peephole.                                                           *)

Others == UNCHANGED <<regions_read, schedulerVars, todo, place>>
PeepholeRewrite == Driver("asm-peephole") /\ (\E k \in DOMAIN Rules : Rewrite(Rules[k])) /\ Others
PeepholeKeep    == Driver("asm-peephole") /\ Keep /\ Others
PeepholeAgain   == Driver("asm-peephole") /\ Again /\ Others
PeepholeReturns ==
    /\ Running("asm-peephole") /\ PeepholeDone
    /\ PassDone(fresh) /\ UNCHANGED todo

-----------------------------------------------------------------------------
(* const-merge.  As many iterations as lines are allowed; each that changes *)
(* something takes a lui away, so that the limit is not met.               *)

MergeRound ==
    /\ Driver("const-merge")
    /\ MergeConstants(lines) # lines
    /\ lines' = MergeConstants(lines)
    /\ UNCHANGED <<fresh, at, changed, iteration, dropped>> /\ Others

MergeReturns ==
    /\ Running("const-merge") /\ MergeConstants(lines) = lines
    /\ PassDone(lines) /\ UNCHANGED todo

-----------------------------------------------------------------------------
(* schedule.                                                               *)

\* _read_lines and schedule_assembly: a line without an instruction, with a label
\* or a barrier stays where it is, and a region ends behind its terminators.
Fixed(l)   == l.op = none \/ l.label # none \/ Barrier(l)
Apart(n)   == Terminator(lines[n]) /\ ~Terminator(lines[n + 1])
InRegion(a, b) == /\ \A n \in a .. b : ~Fixed(lines[n])
                  /\ \A n \in a .. b - 1 : ~Apart(n)
RegionsOf ==
    {ab \in (DOMAIN lines) \X (DOMAIN lines) :
        /\ ab[1] <= ab[2] /\ InRegion(ab[1], ab[2])
        /\ ab[1] > 1 => ~InRegion(ab[1] - 1, ab[2])
        /\ ab[2] < Len(lines) => ~InRegion(ab[1], ab[2] + 1)}

ScheduleReads ==
    /\ Driver("schedule") /\ ~regions_read
    /\ regions_read' = TRUE /\ todo' = RegionsOf
    /\ UNCHANGED <<peepholeVars, schedulerVars, place>>

\* A region that is too long keeps its order.
ScheduleRegion(ab) ==
    /\ Driver("schedule") /\ regions_read /\ place = <<0, 0>>
    /\ ab \in todo /\ \A other \in todo : ab[1] <= other[1]
    /\ todo' = todo \ {ab}
    /\ IF ab[2] + 1 - ab[1] > MaxRegion THEN UNCHANGED <<place, schedulerVars>>
       ELSE place' = ab /\ BuildDag(SubSeq(lines, ab[1], ab[2]))
    /\ UNCHANGED <<peepholeVars, regions_read>>

SchedulePick ==
    /\ Driver("schedule") /\ place # <<0, 0>>
    /\ SchedulerNext
    /\ UNCHANGED <<peepholeVars, regions_read, todo, place>>

\* The candidate is checked and, if llvm-mca likes it better, takes the region.
ScheduleVerified ==
    /\ Driver("schedule") /\ place # <<0, 0>> /\ Ready = {}
    /\ LET accepted == Complete /\ Verified(region, placed)
       IN \E better \in BOOLEAN :
             lines' = [n \in DOMAIN lines |->
                          IF accepted /\ better /\ n \in place[1] .. place[2]
                          THEN region[placed[n + 1 - place[1]]] ELSE lines[n]]
    /\ place' = <<0, 0>>
    /\ UNCHANGED <<fresh, at, changed, iteration, dropped, regions_read, schedulerVars, todo>>

\* llvm-mca is missing or fails: LLVMError, also when scheduling is not strict.
McaFails ==
    /\ Running("schedule") /\ place # <<0, 0>> /\ Ready = {}
    /\ outcome' = "error"
    /\ UNCHANGED <<text, pending, executions, passVars, old, new>>

ScheduleReturns ==
    /\ Running("schedule") /\ regions_read /\ place = <<0, 0>> /\ todo = {}
    /\ PassDone(lines) /\ UNCHANGED todo

-----------------------------------------------------------------------------
(* The judge.                                                              *)

Emit ==
    /\ outcome = "compiling" /\ pending = <<>>
    /\ outcome' = "done"
    /\ \E regs \in Starts :
          LET m == [at |-> 1, regs |-> regs, mem |-> [a \in 0 .. Words - 1 |-> a]]
          IN old' = m /\ new' = m
    /\ UNCHANGED <<text, pending, executions, passVars>>

Judged == outcome = "done" /\ UNCHANGED <<driverVars, passVars>>
Silent(t, m) == Shows(t, m) = <<>>

OldSteps == Judged /\ Silent(text, old) /\ old' = Stepped(text, old) /\ UNCHANGED new
NewSteps ==
    Judged /\ ~Silent(text, old) /\ Silent(lines, new) /\ new' = Stepped(lines, new) /\ UNCHANGED old
Agreed  == ~Silent(text, old) /\ ~Silent(lines, new) /\ Shows(text, old) = Shows(lines, new)
BothStep ==
    /\ Judged /\ Agreed /\ text[old.at].op # "ret"
    /\ old' = Stepped(text, old) /\ new' = Stepped(lines, new)

-----------------------------------------------------------------------------
InitOf(job) ==
    /\ text = job.text /\ pending = job.passes
    /\ executions = <<>> /\ outcome = "compiling"
    /\ lines = text /\ fresh = <<>> /\ at = 1 /\ changed = FALSE /\ iteration = 1 /\ dropped = {}
    /\ regions_read = FALSE /\ todo = {} /\ place = <<0, 0>>
    /\ region = <<>> /\ edges = {} /\ placed = <<>> /\ remaining = <<>>
    /\ old = <<>> /\ new = <<>>
Init == \E job \in Jobs : InitOf(job)

Next ==
    \/ PeepholeRewrite \/ PeepholeKeep \/ PeepholeAgain \/ PeepholeReturns
    \/ MergeRound \/ MergeReturns
    \/ ScheduleReads \/ (\E ab \in todo : ScheduleRegion(ab)) \/ SchedulePick
    \/ ScheduleVerified \/ McaFails \/ ScheduleReturns
    \/ Emit \/ OldSteps \/ NewSteps \/ BothStep
Spec == Init /\ [][Next]_vars
-----------------------------------------------------------------------------
(* Properties.                                                             *)

\* The text that comes out shows what the text that went in shows, store by store,
\* jump by jump, call by call, whichever passes ran; unless the rule for two moves
\* gave up a copy that was read later (see CopiesDroppedAreDead).
SameBehaviour ==
    outcome = "done" /\ dropped = {} /\ ~Silent(text, old) /\ ~Silent(lines, new) =>
        Shows(text, old) = Shows(lines, new)

\* "Only applied when `a` is not live after the pair": the rule for two moves drops
\* no copy that a branch, a call, a return or an alias goes on to read.
CopiesDroppedAreDead == dropped = {}
=============================================================================
