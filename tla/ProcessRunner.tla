---------------------------- MODULE ProcessRunner ----------------------------
(***************************************************************************)
(* scratchv/runtime/riscv_tensor.py, _run_process on POSIX: commands with  *)
(* deadlines, and who owns which process group.  Two calls, as the host    *)
(* diagnostic nests them (probes/w4_qwen3_full/host_diagnostic.py): the    *)
(* host runs a worker and reclaims its descendants, the worker runs a      *)
(* compiler that borrows its group.  Unsupervised there is only the second *)
(* call, and the compiler has a private group.  A helper is any descendant *)
(* that may outlive its parent and keep the pipes open.                    *)
(***************************************************************************)
EXTENDS Integers, FiniteSets

CONSTANT MaxSignals   \* bound: SIGTERMs sent to the host and to the worker

VARIABLES
    supervised, \* the worker runs under the host
    runner_pc,  \* [Calls -> place in _run_process]
    primary,    \* [Calls -> primary_error]
    failed,     \* [Calls -> cleanup_errors is not empty]
    ours,       \* [Calls -> the SIGTERM handler is this call's]
    proc,       \* [Processes -> life]
    group,      \* [Processes -> the leader of its process group]
    pipes,      \* [Processes -> the calls whose pipes it can write to]
    termed,     \* callers that died of SIGTERM
    gap,        \* calls that SIGTERM hit between two guarded steps
    signals     \* SIGTERMs so far

callvars == <<runner_pc, primary, failed, ours, gap>>
procvars == <<proc, group, pipes>>
runnervars == <<supervised, callvars, procvars, termed, signals>>

Calls     == {"outer", "inner"}
Processes == {"host", "worker", "compiler", "helper"}
Caller == [outer |-> "host", inner |-> "worker"]
Child  == [outer |-> "worker", inner |-> "compiler"]

\* The arguments of the two calls.
CleanupDescendants(c) == c = "outer"
Inherits(c)           == c = "inner" /\ supervised

Members(g)   == {p \in Processes : proc[p] = "running" /\ group[p] = g}
Eof(c)       == \A p \in Processes : proc[p] = "running" => c \notin pipes[p]
Exited(p)    == proc[p] \in {"zombie", "reaped"}
Dead(ps)     == [p \in Processes |-> IF p \in ps THEN "zombie" ELSE proc[p]]
InCall(c)    == runner_pc[c] \notin {"idle", "done"}

Step(c, from, to) ==
    /\ proc[Caller[c]] = "running"
    /\ runner_pc[c] = from /\ runner_pc' = [runner_pc EXCEPT ![c] = to]
    /\ UNCHANGED <<supervised, termed, signals>>

-----------------------------------------------------------------------------
(* One call.                                                               *)

\* Mutation of Install: SIGTERM keeps its default action.
InstallNothing(c) ==
    /\ Step(c, "idle", "spawn")
    /\ UNCHANGED <<primary, failed, gap, ours, procvars>>

\* SIGTERM unwinds the call from here on; the handler is set before the child
\* exists.
Install(c) ==
    /\ Step(c, "idle", "spawn")
    /\ ours' = [ours EXCEPT ![c] = TRUE]
    /\ UNCHANGED <<primary, failed, gap, procvars>>

Born(c) ==
    /\ proc' = [proc EXCEPT ![Child[c]] = "running"]
    /\ group' = [group EXCEPT ![Child[c]] = IF Inherits(c) THEN group[Caller[c]] ELSE Child[c]]
    /\ pipes' = [pipes EXCEPT ![Child[c]] = {c}]

\* Popen, in a session of its own unless the group is inherited.
Spawn(c) ==
    /\ Step(c, "spawn", "communicate")
    /\ Born(c)
    /\ UNCHANGED <<primary, failed, ours, gap>>

SpawnFails(c) ==
    /\ Step(c, "spawn", "restore")
    /\ primary' = [primary EXCEPT ![c] = "OSError"]
    /\ UNCHANGED <<failed, ours, gap, procvars>>

\* communicate ends when nobody holds the pipes and the child has exited.
Communicate(c) ==
    /\ Step(c, "communicate", IF CleanupDescendants(c) THEN "stop" ELSE "close")
    /\ Eof(c) /\ proc[Child[c]] = "zombie"
    /\ proc' = [proc EXCEPT ![Child[c]] = "reaped"]
    /\ UNCHANGED <<primary, failed, ours, gap, group, pipes>>

TimeoutExpired(c) ==
    /\ Step(c, "communicate", "stop")
    /\ primary' = [primary EXCEPT ![c] = "TimeoutExpired"]
    /\ UNCHANGED <<failed, ours, gap, procvars>>

\* Mutation of StopTree: the whole group of the child, whoever owns it.
StopGroup(c) ==
    /\ Step(c, "stop", IF primary[c] = "none" THEN "close" ELSE "drain")
    /\ proc' = Dead(Members(group[Child[c]]))
    /\ UNCHANGED <<primary, failed, ours, gap, group, pipes>>

\* The child alone when the group is the caller's own, else the whole tree.
\* A group that is gone is no error.
StopTree(c) ==
    /\ Step(c, "stop", IF primary[c] = "none" THEN "close" ELSE "drain")
    /\ proc' = Dead(IF Inherits(c) THEN {Child[c]} \ {p \in Processes : Exited(p)}
                    ELSE Members(Child[c]))
    /\ UNCHANGED <<primary, failed, ours, gap, group, pipes>>

Drain(c) ==
    /\ Step(c, "drain", "close")
    /\ Eof(c) /\ Exited(Child[c])
    /\ proc' = [proc EXCEPT ![Child[c]] = "reaped"]
    /\ UNCHANGED <<primary, failed, ours, gap, group, pipes>>

\* Mutation of DrainExpires: no deadline, only the end of the output.
DrainForever(c) == Drain(c)

\* Ten seconds, a quarter of a second in a borrowed group.
DrainExpires(c) ==
    /\ Step(c, "drain", "kill")
    /\ failed' = [failed EXCEPT ![c] = TRUE]
    /\ UNCHANGED <<primary, ours, gap, procvars>>

KillChild(c) ==
    /\ Step(c, "kill", "wait")
    /\ proc' = Dead({Child[c]} \ {p \in Processes : Exited(p)})
    /\ UNCHANGED <<primary, failed, ours, gap, group, pipes>>

\* Reaped within five seconds, or given up.
WaitChild(c) ==
    /\ Step(c, "wait", "close")
    /\ \/ /\ Exited(Child[c])
          /\ proc' = [proc EXCEPT ![Child[c]] = "reaped"]
          /\ UNCHANGED failed
       \/ failed' = [failed EXCEPT ![c] = TRUE] /\ UNCHANGED proc
    /\ UNCHANGED <<primary, ours, gap, group, pipes>>

ClosePipes(c) ==
    /\ Step(c, "close", "restore")
    /\ UNCHANGED <<primary, failed, ours, gap, procvars>>

RestoreHandler(c) ==
    /\ Step(c, "restore", "done")
    /\ ours' = [ours EXCEPT ![c] = FALSE]
    /\ UNCHANGED <<primary, failed, gap, procvars>>

-----------------------------------------------------------------------------
(* SIGTERM to a caller.                                                    *)

Delivered(p) ==
    /\ proc[p] = "running" /\ signals < MaxSignals /\ signals' = signals+1
    /\ UNCHANGED supervised

\* No handler: the default action.
DefaultAction(p) ==
    /\ Delivered(p)
    /\ \A c \in Calls : Caller[c] = p => ~ours[c]
    /\ proc' = Dead({p}) /\ termed' = termed \cup {p}
    /\ UNCHANGED <<callvars, group, pipes>>

\* _terminate_invocation raises SystemExit where the call waits.
TerminateInvocation(c) ==
    /\ Delivered(Caller[c]) /\ ours[c]
    /\ \/ /\ runner_pc[c] = "communicate"
          /\ runner_pc' = [runner_pc EXCEPT ![c] = "stop"]
          /\ primary' = [primary EXCEPT ![c] = "SystemExit"] /\ UNCHANGED failed
       \/ /\ runner_pc[c] = "drain"
          /\ runner_pc' = [runner_pc EXCEPT ![c] = "kill"]
          /\ failed' = [failed EXCEPT ![c] = TRUE] /\ UNCHANGED primary
       \/ /\ runner_pc[c] = "wait"
          /\ runner_pc' = [runner_pc EXCEPT ![c] = "close"]
          /\ failed' = [failed EXCEPT ![c] = TRUE] /\ UNCHANGED primary
    /\ UNCHANGED <<ours, gap, procvars, termed>>

\* Where it does not wait: inside Popen, whose child may exist by then and is
\* lost; inside a guarded action, which is given up; or between two of them,
\* where the exception leaves the call.
TerminateBetween(c) ==
    /\ Delivered(Caller[c]) /\ ours[c]
    /\ gap' = gap \cup {c}
    /\ \/ /\ runner_pc[c] = "spawn"
          /\ runner_pc' = [runner_pc EXCEPT ![c] = "restore"]
          /\ primary' = [primary EXCEPT ![c] = "SystemExit"] /\ UNCHANGED failed
          /\ Born(c) \/ UNCHANGED procvars
       \/ /\ runner_pc[c] \in {"stop", "kill", "close"}
          /\ \E to \in {"drain", "wait", "close", "restore"} :
                /\ <<runner_pc[c], to>> \in {<<"stop", IF primary[c] = "none" THEN "close" ELSE "drain">>,
                                      <<"kill", "wait">>, <<"close", "restore">>}
                /\ runner_pc' = [runner_pc EXCEPT ![c] = to]
          /\ failed' = [failed EXCEPT ![c] = TRUE] /\ UNCHANGED <<primary, procvars>>
       \/ /\ runner_pc[c] \in {"stop", "kill", "close", "restore"}
          /\ runner_pc' = [runner_pc EXCEPT ![c] = "done"]
          /\ UNCHANGED <<primary, failed, procvars>>
    /\ UNCHANGED <<ours, termed>>

-----------------------------------------------------------------------------
(* The processes.                                                          *)

Elsewhere == UNCHANGED <<supervised, callvars, termed, signals>>

\* A process may end at any point, also in the middle of a call.
Exit(p) ==
    /\ p # "host" /\ proc[p] = "running"
    /\ proc' = Dead({p}) /\ UNCHANGED <<group, pipes>> /\ Elsewhere

\* A child of a process of the tree: in the group or in one of its own, with the
\* pipes of its parent or without.
Fork(p) ==
    /\ p \in {"worker", "compiler"} /\ proc[p] = "running"
    /\ proc["helper"] = "unborn"
    /\ proc' = [proc EXCEPT !["helper"] = "running"]
    /\ \E g \in {group[p], "helper"} : group' = [group EXCEPT !["helper"] = g]
    /\ \E held \in {pipes[p], {}} : pipes' = [pipes EXCEPT !["helper"] = held]
    /\ Elsewhere

-----------------------------------------------------------------------------
RunnerInit ==
    /\ supervised \in BOOLEAN
    /\ runner_pc = [c \in Calls |-> IF c = "outer" /\ ~supervised THEN "done" ELSE "idle"]
    /\ primary = [c \in Calls |-> "none"] /\ failed = [c \in Calls |-> FALSE]
    /\ ours = [c \in Calls |-> FALSE] /\ gap = {}
    /\ proc = [p \in Processes |->
                 IF p = (IF supervised THEN "host" ELSE "worker") THEN "running" ELSE "unborn"]
    /\ group = [p \in Processes |-> p]
    /\ pipes = [p \in Processes |-> {}]
    /\ termed = {} /\ signals = 0

Invocation(c) ==
    \/ Install(c) \/ Spawn(c) \/ SpawnFails(c) \/ Communicate(c) \/ TimeoutExpired(c)
    \/ StopTree(c) \/ Drain(c) \/ DrainExpires(c) \/ KillChild(c) \/ WaitChild(c) \/ ClosePipes(c) \/ RestoreHandler(c)

Signal == \E c \in Calls : TerminateInvocation(c) \/ TerminateBetween(c)
RunnerNext ==
    \/ \E c \in Calls : Invocation(c)
    \/ Signal
    \/ \E p \in {"host", "worker"} : DefaultAction(p)
    \/ \E p \in Processes : Exit(p) \/ Fork(p)

\* A caller runs on and deadlines pass.  Nothing else need ever happen: no child
\* need exit and no pipe be closed.
RunnerFairness == \A c \in Calls : WF_runnervars(InCall(c) /\ Invocation(c))
RunnerSpec == RunnerInit /\ [][RunnerNext]_runnervars /\ RunnerFairness
-----------------------------------------------------------------------------
(* Properties.                                                             *)

\* What a call owns is gone when it is over: the whole group after an error, or
\* after any end of a call with cleanup_descendants ("the outer owner then
\* reclaims all members"), so also a borrowed compiler and its helpers when the
\* worker was lost in the middle of its own call; and the child of a caller that
\* SIGTERM ended.  SIGTERM between two guarded steps is the exception.
Owns(c) == IF Inherits(c) THEN {Child[c]} ELSE {p \in Processes : group[p] = Child[c]}
Reclaimed ==
    \A c \in Calls \ gap :
        /\ runner_pc[c] = "done" /\ (primary[c] # "none" \/ (CleanupDescendants(c) /\ supervised)) =>
              \A p \in Owns(c) : proc[p] # "running"
        /\ Caller[c] \in termed => proc[Child[c]] # "running"

\* "Never signal our own inherited group here": no step of a call ends its own
\* caller, so the worker lives to report what happened to its compiler.
CallerSurvives ==
    [][\A c \in Calls : runner_pc[c] # runner_pc'[c] => proc'[Caller[c]] = proc[Caller[c]]]_runnervars

\* "Bounded waits": a call that has begun ends, also when descendants in groups
\* of their own hold its pipes for ever; unless the caller dies first.
CallEnds ==
    \A c \in Calls : InCall(c) ~> (runner_pc[c] = "done" \/ proc[Caller[c]] # "running")

=============================================================================
