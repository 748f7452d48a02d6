----------------------------- MODULE ExternalRun -----------------------------
(***************************************************************************)
(* scratchv/runtime/riscv_external.py, run_external: one forward of the    *)
(* compiled model in a fresh QEMU guest.  The host stages the weights,     *)
(* starts QEMU, waits for the guest's frame in uart.bin                    *)
(* (_UartCompletionWaiter), stops the guest over QMP, dumps the output,    *)
(* quits and reaps QEMU, checks everything again, and cleans up in a       *)
(* finally clause whatever happened.  Around it: the guest, QEMU, a caller *)
(* that cancels, a supervisor that sends SIGTERM, the clock, and other     *)
(* processes that touch the weight files (WeightTransport).                *)
(***************************************************************************)
EXTENDS WeightTransport

CONSTANT Setups  \* how it may be called, and on what platform

VARIABLES
    setup,     \* events: inotify and pidfd are available, the waiter sleeps on them;
               \* can_cancel: the caller passes a cancellation callback;
               \* gaps: SIGTERM also lands where no handler can clean up
    pc,        \* the host's place in run_external
    qemu,      \* "none", "loading", "running", "stopped", "exited", "killed"
    code,      \* QEMU's exit code is zero
    owned,     \* the local variable process refers to QEMU
    reaped,    \* process.returncode is not None
    uart,      \* uart.bin: "empty", "part", "frame", "extra", "bad"
    event,     \* an inotify event is pending on the watch
    loaded,    \* weight bytes QEMU read: [Files -> data]
    output,    \* output.bin: "none", "short", "whole"
    cancel,    \* the caller's cancellation callback answers True
    late,      \* the deadline has passed
    term,      \* SIGTERM: "none", "taken"
    handler,   \* _terminate_invocation is installed
    error,     \* the primary error, or "none"
    dirty,     \* cleanup_errors is not empty
    passed,    \* report["passed"]
    complete,  \* report["guest_completed"]
    runjson,   \* run.json: "none", "PASS", "FAIL"
    outcome    \* "none", "returned", "raised"

hostvars == <<pc, owned, reaped, complete, passed, error, dirty, handler, runjson, outcome>>
qemuvars == <<qemu, code, uart, event, loaded, output>>
envvars  == <<cancel, late, term>>
vars     == <<setup, tvars, hostvars, qemuvars, envvars>>

-----------------------------------------------------------------------------
(* Parts of the host's steps.                                              *)

Goto(from, to) == pc = from /\ pc' = to

\* An exception in the try body: the except clause, then the finally clause.
Fail(e) ==
    /\ error' = e
    /\ passed' = FALSE
    /\ pc' = "close"
    /\ UNCHANGED <<owned, complete, dirty, handler, runjson, outcome>>

\* _check_cancelled and QMP.remaining.
Cancelled == setup.can_cancel /\ cancel
Alive     == qemu \in {"loading", "running", "stopped"}

\* The host goes on in the try body and changes nothing else of its own.
Go(from, to) ==
    /\ Goto(from, to)
    /\ UNCHANGED <<owned, reaped, complete, passed, error, dirty, handler, runjson, outcome>>

-----------------------------------------------------------------------------
(* The try body up to the launch.                                          *)

\* Install the SIGTERM handler, then call stage_transport.
Enter ==
    /\ Goto("enter", "stage")
    /\ handler' = TRUE
    /\ Stage
    /\ UNCHANGED <<owned, reaped, complete, passed, error, dirty, runjson, outcome,
                   qemuvars, envvars>>

\* A called operation of WeightTransport has returned or raised.
Called(from, to, e) ==
    /\ pc = from
    /\ tpc \in {"returned", "raised"}
    /\ tpc' = "idle"
    /\ \/ tpc = "returned" /\ Go(from, to)
       \/ tpc = "raised" /\ Fail(e) /\ UNCHANGED reaped
    /\ UNCHANGED <<i, source, disk, created, known, wt, saved, unlinked, qemuvars, envvars>>

Staged == Called("stage", "launch", "weights")

\* _check_cancelled, the completion watch, Popen.
Launch ==
    /\ pc = "launch"
    /\ \/ Cancelled /\ Fail("cancelled") /\ UNCHANGED <<reaped, qemu>>
       \/ Fail("launch") /\ UNCHANGED <<reaped, qemu>>
       \/ ~Cancelled /\ Go("launch", "assign") /\ qemu' = "loading"
    /\ UNCHANGED <<tvars, code, uart, event, loaded, output, envvars>>

\* process = the Popen object; the RSS monitor starts.
Assign ==
    /\ Goto("assign", "gate")
    /\ owned' = TRUE
    /\ UNCHANGED <<reaped, complete, passed, error, dirty, handler, runjson, outcome,
                   tvars, qemuvars, envvars>>

-----------------------------------------------------------------------------
(* _UartCompletionWaiter.wait.                                             *)

Quiet == UNCHANGED <<tvars, qemuvars, envvars>>

Gate ==
    /\ pc = "gate"
    /\ \/ Cancelled /\ Fail("cancelled") /\ UNCHANGED reaped
       \/ ~Cancelled /\ late /\ Fail("timeout") /\ UNCHANGED reaped
       \/ ~Cancelled /\ ~late /\ Go("gate", "look")
    /\ Quiet

\* Mutation of Look: an exited QEMU is not given a second look.
LookOnce(from, to) ==
    /\ pc = from
    /\ \/ /\ uart = "frame" /\ from = "look"
          /\ pc' = "connect" /\ complete' = TRUE
          /\ UNCHANGED <<owned, reaped, passed, error, dirty, handler, runjson, outcome>>
       \/ uart \in {"extra", "bad"} /\ from = "look" /\ Fail("frame") /\ UNCHANGED reaped
       \/ uart \in {"empty", "part"} /\ from = "look" /\ Go(from, to)
       \/ from # "look" /\ Fail("exit") /\ UNCHANGED reaped
    /\ Quiet

\* _complete reads uart.bin: nothing or a prefix is no completion, and more or
\* other bytes than a frame raise.
Look(from, to) ==
    /\ pc = from
    /\ \/ /\ uart = "frame"
          /\ pc' = "connect" /\ complete' = TRUE
          /\ UNCHANGED <<owned, reaped, passed, error, dirty, handler, runjson, outcome>>
       \/ uart \in {"extra", "bad"} /\ Fail("frame") /\ UNCHANGED reaped
       \/ uart \in {"empty", "part"} /\ to # "exit" /\ Go(from, to)
       \/ uart \in {"empty", "part"} /\ to = "exit" /\ Fail("exit") /\ UNCHANGED reaped
    /\ Quiet

\* process.poll() reaps a child that has exited.
Poll ==
    /\ pc = "poll"
    /\ reaped' = (qemu = "exited")
    /\ pc' = IF qemu = "exited" THEN "look_again" ELSE "sleep"
    /\ UNCHANGED <<owned, complete, passed, error, dirty, handler, runjson, outcome>>
    /\ Quiet

\* poll() on the watch and the pidfd up to the deadline, or 50 ms when a
\* callback is to be asked; then _drain.  Without events: a short sleep.
Sleep ==
    /\ ~setup.events \/ setup.can_cancel \/ event \/ qemu = "exited" \/ late
    /\ Go("sleep", "gate")
    /\ event' = FALSE
    /\ UNCHANGED <<tvars, qemu, code, uart, loaded, output, envvars>>

Wait == Gate \/ Look("look", "poll") \/ Poll \/ Look("look_again", "exit") \/ Sleep

-----------------------------------------------------------------------------
(* QMP.  The host waits for an answer that QEMU need not give.             *)

InQmp == pc \in {"connect", "stop", "dump", "quit"}

\* Mutation of QmpGivesUp: the deadline is not asked while a callback is.
QmpWaitsForEver ==
    /\ InQmp
    /\ \/ Cancelled /\ Fail("cancelled")
       \/ late /\ ~setup.can_cancel /\ Fail("timeout")
       \/ (~Alive \/ ~setup.can_cancel) /\ Fail("qmp")
    /\ UNCHANGED reaped /\ Quiet

\* Without an answer the callback or the deadline says so, or QEMU has closed the
\* connection, or, without a callback, a read has lasted its thirty seconds.
QmpGivesUp ==
    /\ InQmp
    /\ \/ Cancelled /\ Fail("cancelled")
       \/ late /\ Fail("timeout")
       \/ (~Alive \/ ~setup.can_cancel) /\ Fail("qmp")
    /\ UNCHANGED reaped /\ Quiet

\* An error or a malformed reply, or a socket that fails.
QmpError == InQmp /\ Fail("qmp") /\ UNCHANGED reaped /\ Quiet

Answered == Alive /\ ~late /\ ~Cancelled

Connect == Answered /\ Go("connect", "stop") /\ Quiet

Stop ==
    /\ Answered
    /\ Go("stop", "recheck") /\ qemu' = "stopped"
    /\ UNCHANGED <<tvars, code, uart, event, loaded, output, envvars>>

\* Mutation of Recheck: the frame seen while waiting is trusted.
RecheckSkipped == Go("recheck", "dump") /\ Quiet

\* The stopped guest can append nothing more to the frame.
Recheck ==
    /\ pc = "recheck"
    /\ \/ uart = "frame" /\ Go("recheck", "dump")
       \/ uart # "frame" /\ Fail("frame") /\ UNCHANGED reaped
    /\ Quiet

Dump ==
    /\ Answered
    /\ Go("dump", "size") /\ output' \in {"short", "whole"}
    /\ UNCHANGED <<tvars, qemu, code, uart, event, loaded, envvars>>

Size ==
    /\ pc = "size"
    /\ \/ output = "whole" /\ Go("size", "quit")
       \/ output # "whole" /\ Fail("size") /\ UNCHANGED reaped
    /\ Quiet

\* quit is answered, or QEMU goes before its answer arrives.
Quit ==
    /\ ~late /\ ~Cancelled
    /\ Go("quit", "reap")
    /\ qemu' = qemu \/ (Alive /\ qemu' = "exited")
    /\ UNCHANGED <<tvars, code, uart, event, loaded, output, envvars>>

QmpAnswers == Connect \/ Stop \/ Dump \/ Quit \/ QmpError

-----------------------------------------------------------------------------
(* After the guest.                                                        *)

\* process.wait: up to the deadline, or for ten seconds without a callback.
Reap ==
    /\ pc = "reap"
    /\ \/ Cancelled /\ Fail("cancelled") /\ UNCHANGED reaped
       \/ (late \/ ~setup.can_cancel) /\ Fail("timeout") /\ UNCHANGED reaped
       \/ /\ qemu = "exited" /\ reaped' = TRUE
          /\ IF code
             THEN pc' = "output" /\ UNCHANGED <<owned, complete, passed, error, dirty,
                                                handler, runjson, outcome>>
             ELSE Fail("code")
    /\ Quiet

\* Nonfinite output, or a bundle that changed meanwhile.
Examine ==
    /\ pc = "output"
    /\ \/ Fail("output") /\ UNCHANGED reaped
       \/ source = "bad" /\ Fail("bundle") /\ UNCHANGED reaped
       \/ source = "good" /\ ~Cancelled /\ Go("output", "check_copies")
       \/ Cancelled /\ Fail("cancelled") /\ UNCHANGED reaped
    /\ Quiet

CheckCopies ==
    /\ Go("check_copies", "postcheck")
    /\ Postcheck
    /\ UNCHANGED <<qemuvars, envvars>>

\* The except clause marks the transport report when the postcheck failed.
PostChecked ==
    /\ pc = "postcheck" /\ tpc \in {"returned", "raised"}
    /\ tpc' = "idle"
    /\ \/ tpc = "returned" /\ Go("postcheck", "pass") /\ UNCHANGED wt
       \/ tpc = "raised" /\ Fail("weights") /\ Report("FAIL", "postcheck") /\ UNCHANGED reaped
    /\ UNCHANGED <<i, source, disk, created, known, saved, unlinked, qemuvars, envvars>>

Pass ==
    /\ pc = "pass"
    /\ \/ /\ Cancelled /\ Fail("cancelled") /\ Report("FAIL", "postcheck") /\ UNCHANGED reaped
       \/ /\ Fail("output") /\ Report("FAIL", "postcheck") /\ UNCHANGED reaped
       \/ /\ ~Cancelled
          /\ passed' = TRUE /\ pc' = "close"
          /\ UNCHANGED <<owned, reaped, complete, error, dirty, handler, runjson, outcome, wt>>
    /\ UNCHANGED <<tpc, i, source, disk, created, known, saved, unlinked, qemuvars, envvars>>

-----------------------------------------------------------------------------
(* The finally clause.  Every step is tried, and an error of one is kept in *)
(* cleanup_errors.                                                         *)

Cleanup(from, to) ==
    /\ Goto(from, to)
    /\ dirty' \in {dirty, TRUE}
    /\ UNCHANGED <<owned, complete, passed, error, runjson, outcome>>

\* qmp.close, the completion watch, the monitor.
Close ==
    /\ Cleanup("close", "kill")
    /\ UNCHANGED <<reaped, handler>> /\ Quiet

\* Mutation of Kill: a failed kill is not recorded.
KillFailureDropped ==
    /\ Goto("kill", "restore")
    /\ \/ (~owned \/ ~Alive) /\ reaped' = owned /\ UNCHANGED <<qemu, code>>
       \/ owned /\ Alive /\ qemu' = "killed" /\ code' = FALSE /\ reaped' = TRUE
       \/ owned /\ Alive /\ UNCHANGED <<qemu, code, reaped>>
    /\ UNCHANGED <<dirty, owned, complete, passed, error, handler, runjson, outcome,
                   tvars, uart, event, loaded, output, envvars>>

\* poll; if alive, kill the process group and wait, then kill and wait again.
Kill ==
    /\ pc = "kill"
    /\ \/ /\ ~owned \/ reaped \/ qemu = "exited"
          /\ Goto("kill", "restore")
          /\ reaped' = owned
          /\ UNCHANGED <<qemu, code, dirty>>
       \/ /\ owned /\ ~reaped /\ Alive
          /\ Goto("kill", "restore")
          /\ \/ /\ qemu' = "killed" /\ code' = FALSE /\ reaped' = TRUE
                /\ dirty' \in {dirty, TRUE}
             \/ UNCHANGED <<qemu, code, reaped>> /\ dirty' = TRUE
    /\ UNCHANGED <<owned, complete, passed, error, handler, runjson, outcome,
                   tvars, uart, event, loaded, output, envvars>>

Restore ==
    /\ Cleanup("restore", "remove")
    /\ handler' = FALSE
    /\ UNCHANGED reaped /\ Quiet

\* Mutation of Removable: the primary error is not looked at.
RemovableAfterFailure == ~dirty /\ owned /\ reaped /\ code

\* Only a successful, reaped run removes its copies.
Removable == passed /\ error = "none" /\ ~dirty /\ owned /\ reaped /\ code

RemoveCopies ==
    /\ pc = "remove" /\ tpc = "idle"
    /\ \/ ~Removable /\ pc' = "residual" /\ UNCHANGED tvars
       \/ Removable /\ pc' = "removing" /\ Remove
    /\ UNCHANGED <<owned, reaped, complete, passed, error, dirty, handler, runjson, outcome,
                   qemuvars, envvars>>

RemovedCopies ==
    /\ Goto("removing", "residual")
    /\ tpc \in {"returned", "raised"} /\ tpc' = "idle"
    /\ dirty' = (dirty \/ tpc = "raised")
    /\ UNCHANGED <<owned, reaped, complete, passed, error, handler, runjson, outcome,
                   i, source, disk, created, known, wt, saved, unlinked, qemuvars, envvars>>

\* refresh_transport_residuals, once more after the guest.
Residual ==
    /\ pc = "residual" /\ tpc = "idle"
    /\ pc' = "preserve"
    /\ Observe("idle")
    /\ dirty' = (dirty \/ wt'.unsure)
    /\ UNCHANGED <<owned, reaped, complete, passed, error, handler, runjson, outcome,
                   qemuvars, envvars>>

\* save_transport_report, if transport.json exists.
Preserve ==
    /\ Goto("preserve", "write")
    /\ \/ saved = NotSaved /\ UNCHANGED <<saved, dirty>>
       \/ /\ saved # NotSaved /\ UNCHANGED dirty
          /\ saved' = [status |-> wt.status, retained |-> wt.retained]
       \/ saved # NotSaved /\ UNCHANGED saved /\ dirty' = TRUE
    /\ UNCHANGED <<owned, reaped, complete, passed, error, handler, runjson, outcome,
                   tpc, i, source, disk, created, known, wt, unlinked, qemuvars, envvars>>

\* Mutation of WriteReport: cleanup errors do not take the verdict back.
WriteReportUnrevised ==
    /\ Goto("write", "ended")
    /\ runjson' = IF passed THEN "PASS" ELSE "FAIL"
    /\ outcome' = IF error = "none" /\ ~dirty THEN "returned" ELSE "raised"
    /\ UNCHANGED <<owned, reaped, complete, passed, error, dirty, handler,
                   tvars, qemuvars, envvars>>

\* run.json, then return, re-raise, or raise for the cleanup errors.
WriteReport ==
    /\ Goto("write", "ended")
    /\ passed' = (passed /\ ~dirty)
    /\ \/ /\ runjson' = IF passed' THEN "PASS" ELSE "FAIL"
          /\ outcome' = IF error = "none" /\ ~dirty THEN "returned" ELSE "raised"
       \/ UNCHANGED runjson /\ outcome' = "raised"
    /\ UNCHANGED <<owned, reaped, complete, error, dirty, handler, tvars, qemuvars, envvars>>

-----------------------------------------------------------------------------
(* The guest, QEMU and the caller.                                         *)

\* The raw loader reads the copies as they are then; without one of them QEMU
\* exits.
QemuLoad ==
    /\ qemu = "loading"
    /\ IF \A f \in Files : disk[f] # Absent
       THEN qemu' = "running" /\ UNCHANGED code
       ELSE qemu' = "exited" /\ code' = FALSE
    /\ loaded' = [f \in Files |-> disk[f].data]
    /\ UNCHANGED <<tvars, hostvars, uart, event, output, envvars>>

GuestWrite ==
    /\ qemu = "running"
    /\ \/ uart = "empty" /\ uart' = "part"
       \/ uart = "part" /\ uart' \in {"frame", "bad"}
       \/ uart = "frame" /\ uart' = "extra"
    /\ event' = TRUE
    /\ UNCHANGED <<tvars, hostvars, qemu, code, loaded, output, envvars>>

QemuExit ==
    /\ Alive
    /\ qemu' = "exited"
    /\ code' \in BOOLEAN
    /\ UNCHANGED <<tvars, hostvars, uart, event, loaded, output, envvars>>

CallerCancels ==
    /\ setup.can_cancel /\ ~cancel /\ cancel' = TRUE
    /\ UNCHANGED <<tvars, hostvars, qemuvars, late, term>>

DeadlinePasses ==
    /\ ~late /\ pc \notin {"enter", "stage"} /\ late' = TRUE
    /\ UNCHANGED <<tvars, hostvars, qemuvars, cancel, term>>

\* _terminate_invocation raises SystemExit at the host's next step: the primary
\* error of the try body.  In a cleanup step it is one of that step's errors, and
\* in a transport operation one of the operation's.  Some places no handler covers:
\* between Popen and the assignment of process, between cleanup steps, between the
\* steps of _finish_report, and between the creation of a copy and the mark in its row.
TryBody == {"launch", "gate", "look", "poll", "look_again", "sleep", "connect", "stop",
            "recheck", "dump", "size", "quit", "reap", "output", "check_copies", "pass"}

Terminate ==
    /\ handler /\ term = "none" /\ term' = "taken"
    /\ pc \in TryBody \/ (setup.gaps /\ pc = "assign")
    /\ Fail("signal")
    /\ IF pc = "pass" THEN Report("FAIL", "postcheck") ELSE UNCHANGED wt
    /\ UNCHANGED <<reaped, tpc, i, source, disk, created, known, saved, unlinked,
                   qemuvars, cancel, late>>

TerminateInGap ==
    /\ setup.gaps /\ handler /\ term = "none" /\ term' = "taken"
    /\ pc \in {"close", "kill", "restore"}
    /\ pc' = "ended" /\ outcome' = "raised"
    /\ UNCHANGED <<owned, reaped, complete, passed, error, dirty, handler, runjson,
                   tvars, qemuvars, cancel, late>>

TerminateStaging ==
    /\ setup.gaps /\ handler /\ term = "none" /\ term' = "taken"
    /\ pc = "stage"
    /\ \/ tpc = "mark" /\ Abort
       \/ tpc \in {"observe", "save"} /\ tpc' = "raised" /\ UNCHANGED wt
    /\ UNCHANGED <<i, source, disk, created, known, saved, unlinked, hostvars, qemuvars,
                   cancel, late>>

-----------------------------------------------------------------------------
Init ==
    /\ setup \in Setups
    /\ TInit
    /\ pc = "enter"
    /\ qemu = "none" /\ code = TRUE /\ owned = FALSE /\ reaped = FALSE
    /\ uart = "empty" /\ event = FALSE
    /\ loaded = [f \in Files |-> "none"]
    /\ output = "none"
    /\ cancel = FALSE /\ late = FALSE /\ term = "none" /\ handler = FALSE
    /\ error = "none" /\ dirty = FALSE /\ passed = FALSE /\ complete = FALSE
    /\ runjson = "none" /\ outcome = "none"

Transport == TStep /\ UNCHANGED <<hostvars, qemuvars, envvars>>

Host ==
    \/ Enter \/ Staged \/ Launch \/ Assign \/ Wait
    \/ QmpGivesUp \/ Recheck \/ Size
    \/ Reap \/ Examine \/ CheckCopies \/ PostChecked \/ Pass
    \/ Close \/ Kill \/ Restore \/ RemoveCopies \/ RemovedCopies
    \/ Residual \/ Preserve \/ WriteReport \/ Transport

OthersAct == Others /\ UNCHANGED <<hostvars, qemuvars, envvars>>

Next ==
    /\ \/ Host \/ QmpAnswers \/ OthersAct \/ QemuLoad \/ GuestWrite \/ QemuExit
       \/ CallerCancels \/ DeadlinePasses
       \/ Terminate \/ TerminateInGap \/ TerminateStaging
    /\ UNCHANGED setup

\* Python runs on.  Time is only asked to pass where the wait polls, and nothing is
\* asked of guest, QEMU or caller, not even an answer.
HostRuns   == Host /\ UNCHANGED setup
TimePasses == ~setup.events /\ DeadlinePasses /\ UNCHANGED setup
Spec == Init /\ [][Next]_vars /\ WF_vars(HostRuns) /\ WF_vars(TimePasses)
-----------------------------------------------------------------------------
(* Properties.                                                             *)

\* A forward that returns ran to its end on the right weights: QEMU loaded the
\* manifest's bytes, completed with exactly one frame, was stopped before the
\* output was dumped whole, exited with code 0 and was reaped; the copies are
\* gone, and transport.json says so.
PassMeansGood ==
    outcome = "returned" =>
        /\ qemu = "exited" /\ code /\ reaped /\ complete
        /\ uart = "frame" /\ output = "whole"
        /\ \A f \in Files : loaded[f] = "good" /\ ~disk[f].own
        /\ unlinked = Files
        /\ saved = [status |-> "PASS", retained |-> "no"]

\* run_external leaves no QEMU behind, unless it reports that cleaning up failed or
\* SIGTERM came where no handler cleans up; NoOrphan says it without that exception.
NoOrphan == pc = "ended" /\ ~dirty => ~Alive
NoOrphanButForGaps == ~setup.gaps => NoOrphan

\* The copies of a run that failed, or whose QEMU may still read them, stay for
\* inspection (riscv_external.py: "Failed/still-running invocations retain").
FailureKeepsCopies ==
    unlinked # {} => error = "none" /\ qemu = "exited" /\ reaped /\ code

\* "QEMU exited before guest completion" is never said of a guest whose frame is
\* in uart.bin: the last write may race the first look.
CompletionNotMissed == error = "exit" => uart \notin {"frame", "extra"}

\* run.json says PASS exactly of the runs that return.
ReportMatchesOutcome ==
    pc = "ended" /\ runjson # "none" => (runjson = "PASS" <=> outcome = "returned")

\* transport.json never says that no copy is left while one is, but for a copy that
\* SIGTERM kept from being marked in its row.
ResidualTruth ==
    pc = "ended" /\ saved.retained = "no" =>
        \A f \in Files : disk[f].own => setup.gaps /\ f \notin created

\* A frame written while the host sleeps on events wakes it, without a callback and
\* long before the deadline; and where it polls, the run ends, whatever the guest,
\* QEMU and the file system do.
RunEnds ==
    /\ (setup.events /\ pc = "sleep" /\ uart = "frame") ~> (pc \in {"connect", "close"})
    /\ ~setup.events ~> pc = "ended"

=============================================================================
