----------------------------- MODULE MCExternal -----------------------------
(***************************************************************************)
(* The host's two ways to run a program: a forward in QEMU, and a command  *)
(* under a deadline, one or the other in a run.  The part that is not      *)
(* looked at rests in one of its initial states.                           *)
(***************************************************************************)
EXTENDS ExternalRun, ProcessRunner

CONSTANT Parts        \* which of the two to look at

VARIABLE part
all == <<part, vars, runnervars>>

\* Calls of run_external, and the platforms it runs on.
Forward(events, can_cancel, gaps) == [events |-> events, can_cancel |-> can_cancel, gaps |-> gaps]
MCSetups  == {Forward(TRUE, FALSE, FALSE), Forward(FALSE, TRUE, TRUE)}
GapSetups == {Forward(TRUE, FALSE, TRUE)}

PartsInit ==
    /\ part \in Parts
    /\ Init /\ RunnerInit
    /\ part = "forward" => ~supervised
    /\ part = "command" => setup.events

ForwardOnly == part = "forward" /\ UNCHANGED <<part, runnervars>>
CommandOnly == part = "command" /\ UNCHANGED <<part, vars>>

PartsNext == (ForwardOnly /\ Next) \/ (CommandOnly /\ RunnerNext)

\* As in ExternalRun and ProcessRunner.
Fairness ==
    /\ WF_all(ForwardOnly /\ HostRuns) /\ WF_all(ForwardOnly /\ TimePasses)
    /\ \A c \in Calls : WF_all(CommandOnly /\ InCall(c) /\ Invocation(c))

PartsSpec == PartsInit /\ [][PartsNext]_all /\ Fairness

-----------------------------------------------------------------------------
(***************************************************************************)
(* A forward ends, and so does a command, also when descendants in groups  *)
(* of their own hold its pipes for ever.                                   *)
(***************************************************************************)
CallsEnd == (part = "forward" => RunEnds) /\ CallEnds
=============================================================================
