--------------------------- MODULE ExternalProofs ---------------------------
(***************************************************************************)
(* What run_external promises, for every number of copies, every way of    *)
(* calling it, and every interleaving of the host with the guest, QEMU,    *)
(* the caller, SIGTERM, the clock and the processes that touch the files;  *)
(* and what _run_process promises of the processes it owns.                *)
(***************************************************************************)
EXTENDS ExternalRun, ProcessRunner, TLAPS

-----------------------------------------------------------------------------
(* The inductive invariant, in parts.                                      *)

Staging == {"mkdir", "open", "mark", "fstat", "write", "compare", "validate"}
Ending  == {"observe", "save", "returned", "raised"}

Early    == {"enter", "stage", "launch"}
Unowned  == {"enter", "stage", "launch", "assign"}
Trying   == {"enter", "stage", "launch", "assign", "gate", "look", "poll", "look_again",
             "sleep", "connect", "stop", "recheck", "dump", "size", "quit", "reap",
             "output", "check_copies", "postcheck", "pass"}
Halted   == {"recheck", "dump", "size", "quit", "reap"}
Finished == {"output", "check_copies", "postcheck", "pass"}
Settled  == {"removing", "residual", "preserve", "write", "ended"}
Killed   == {"restore", "remove", "removing", "residual", "preserve", "write", "ended"}
Cleaning == {"close", "kill", "restore", "remove", "removing", "residual", "preserve",
             "write"}
Places   == {"enter", "stage", "launch", "assign", "gate", "look", "poll", "look_again",
             "sleep", "connect", "stop", "recheck", "dump", "size", "quit", "reap",
             "output", "check_copies", "postcheck", "pass", "close", "kill", "restore",
             "remove", "removing", "residual", "preserve", "write", "ended"}
Running  == {"idle", "postcheck", "unlink", "mkdir", "open", "mark", "fstat", "write",
             "compare", "validate", "observe", "save", "returned", "raised"}

Data      == {"none", "part", "good", "bad"}
Statuses  == {"none", "FAIL", "PASS"}
Retainings == {"none", "no", "yes", "unknown"}

Stages == {"none", "prepare", "copy", "validate", "ready", "postcheck", "cleanup",
           "copies_removed"}
Transports ==
    [status : Statuses, retained : Retainings, unsure : BOOLEAN, stage : Stages]
CopyFiles == [own : BOOLEAN, data : Data]

HostTyped ==
    /\ pc \in Places
    /\ qemu \in {"none", "loading", "running", "stopped", "exited", "killed"}
    /\ uart \in {"empty", "part", "frame", "extra", "bad"}

CopiesTyped ==
    /\ tpc \in Running
    /\ i \in 1 .. Chunks+1
    /\ tpc \in {"open", "mark", "fstat", "write"} => i \in Files
    /\ source \in {"good", "bad"}
    /\ disk \in [Files -> CopyFiles]
    /\ created \subseteq Files /\ known \subseteq Files /\ unlinked \subseteq Files
    /\ wt \in Transports
    /\ saved \in [status : Statuses, retained : Retainings]

\* The verdict is open until the try body is over, and then it is the error's.
Verdict ==
    /\ pc \in Trying => ~passed /\ error = "none"
    /\ pc \in Cleaning => (passed <=> error = "none")
    /\ pc # "ended" => runjson = "none" /\ outcome = "none"
    /\ ReportMatchesOutcome
    /\ outcome = "returned" => passed /\ error = "none" /\ ~dirty

\* What the host's variables say of QEMU.
Ownership ==
    /\ pc \in Early => qemu = "none" /\ uart = "empty"
    /\ pc \in Unowned => ~owned
    /\ pc \in Trying /\ pc \notin Unowned => owned
    /\ reaped => owned /\ qemu \in {"exited", "killed"}
    /\ qemu = "killed" => ~code
    /\ ~setup.gaps /\ ~owned /\ pc # "assign" => qemu = "none"
    /\ ~setup.gaps /\ pc \in Killed /\ ~dirty => ~Alive

\* Nothing is written once QEMU has gone, and the second look comes after that.
LastLook ==
    /\ pc = "look_again" => qemu = "exited"
    /\ error = "exit" => qemu \in {"exited", "killed"} /\ uart \notin {"frame", "extra"}

\* Which operation on the copies runs where.
Calling ==
    /\ pc = "enter" => tpc = "idle"
    /\ tpc \in Staging => pc = "stage"
    /\ tpc = "postcheck" => pc = "postcheck"
    /\ pc = "postcheck" => tpc \in {"postcheck", "returned", "raised"}
    /\ tpc \in {"observe", "save"} => pc \in {"stage", "removing"}
    /\ tpc = "unlink" => pc = "removing" /\ Removable
    /\ pc = "removing" => tpc = "unlink" \/ tpc \in Ending
    /\ unlinked # {} =>
         /\ pc \in Settled
         /\ error = "none" /\ qemu = "exited" /\ reaped /\ code

\* A copy of this stage is marked in its row before anything else is done, unless
\* SIGTERM comes first, and only the stage makes one.
Unmarked(f) == setup.gaps /\ f \notin created
Accounted ==
    /\ \A f \in Files : disk[f].own => f \in created \/ Unmarked(f) \/ (tpc = "mark" /\ f = i)
    /\ pc = "enter" \/ tpc = "mkdir" => \A f \in Files : ~disk[f].own
    /\ pc = "enter" \/ tpc \in Staging => saved = NotSaved
    /\ wt.retained = "no" /\ (tpc = "save" \/ pc = "preserve")
         => \A f \in Files : disk[f].own => Unmarked(f)
    /\ saved.retained = "no" => \A f \in Files : disk[f].own => Unmarked(f)
    /\ \A f \in unlinked : ~disk[f].own

\* Bytes that are good now were good when QEMU loaded them, so the postcheck of
\* the copies speaks of what was loaded.
LoadedGood(f) == loaded[f] = "good"
Computed ==
    /\ pc \in Halted => qemu \in {"stopped", "exited"} /\ complete
    /\ (pc \in Halted /\ pc # "recheck") \/ pc \in Finished => uart = "frame" /\ complete
    /\ pc \in {"quit", "reap"} \/ pc \in Finished => output = "whole"
    /\ pc \in Finished => reaped /\ qemu = "exited" /\ code
    /\ pc \in {"connect", "stop"} => complete
    /\ qemu = "running" \/ uart # "empty"
         => \A f \in Files : disk[f].data = "good" => LoadedGood(f)
    /\ tpc = "postcheck" => \A f \in 1 .. i-1 : LoadedGood(f)
    /\ pc = "postcheck" /\ tpc = "returned" => \A f \in Files : LoadedGood(f)
    /\ pc = "pass" => \A f \in Files : LoadedGood(f)
    /\ passed =>
         /\ qemu = "exited" /\ code /\ owned /\ reaped /\ complete
         /\ uart = "frame" /\ output = "whole"
         /\ \A f \in Files : LoadedGood(f)

\* A removal that reports PASS has unlinked every copy, and what is saved last
\* says so.
Removal ==
    /\ pc = "removing" /\ wt.status = "PASS" =>
         /\ tpc = "unlink" => \A f \in 1 .. i-1 : f \in unlinked
         /\ tpc \in {"observe", "save", "returned"} => unlinked = Files
    /\ pc = "removing" /\ tpc = "returned" => wt.status = "PASS" /\ saved.status = "PASS"
    /\ pc \in {"residual", "preserve", "write"} /\ passed /\ ~dirty =>
         unlinked = Files /\ saved.status = "PASS"
    /\ pc = "residual" /\ passed /\ ~dirty => wt.status = "PASS"
    /\ pc = "preserve" /\ passed /\ ~dirty => wt.status = "PASS" /\ wt.retained = "no"
    /\ (pc = "write" /\ passed /\ ~dirty) \/ outcome = "returned" =>
         unlinked = Files /\ saved = [status |-> "PASS", retained |-> "no"]

IInv ==
    /\ HostTyped /\ CopiesTyped /\ Verdict /\ Ownership /\ LastLook
    /\ Calling /\ Accounted /\ Computed /\ Removal

-----------------------------------------------------------------------------
(* What the host's steps come to: in the try body one fails or advances,   *)
(* and in the finally clause every step goes on.                           *)
(* Booleans are related by <=>, which the proofs below can take apart.     *)

Failed ==
    /\ pc \in Trying /\ pc' = "close" /\ ~passed' /\ error' # "none"
    /\ error' = "exit" => pc = "look_again" /\ uart \in {"empty", "part"}
    /\ (owned' <=> owned) /\ (dirty' <=> dirty) /\ (code' <=> code)
    /\ (reaped => reaped') /\ (reaped' => reaped \/ (pc = "reap" /\ qemu = "exited"))
    /\ UNCHANGED <<runjson, outcome, qemu, uart, loaded, output,
                   i, source, disk, created, known, saved, unlinked>>
    /\ IF pc \in {"stage", "postcheck"}
       THEN tpc \in {"returned", "raised"} /\ tpc' = "idle" ELSE tpc' = tpc
    /\ wt' = wt \/ Report("FAIL", "postcheck")
    /\ ~setup.gaps => pc # "assign"

Advanced ==
    /\ \/ pc = "stage" /\ pc' = "launch" /\ tpc = "returned" /\ tpc' = "idle" /\ i' = i
       \/ pc = "launch" /\ pc' = "assign" /\ qemu' = "loading"
       \/ pc = "gate" /\ pc' = "look"
       \/ pc = "look" /\ pc' = "poll"
       \/ pc \in {"look", "look_again"} /\ pc' = "connect" /\ uart = "frame" /\ complete'
       \/ pc = "poll" /\ pc' = "look_again" /\ qemu = "exited"
       \/ pc = "poll" /\ pc' = "sleep"
       \/ pc = "sleep" /\ pc' = "gate"
       \/ pc = "connect" /\ pc' = "stop"
       \/ pc = "stop" /\ pc' = "recheck" /\ qemu' = "stopped"
       \/ pc = "recheck" /\ pc' = "dump" /\ uart = "frame"
       \/ pc = "dump" /\ pc' = "size"
       \/ pc = "size" /\ pc' = "quit" /\ output = "whole"
       \/ pc = "quit" /\ pc' = "reap"
       \/ pc = "reap" /\ pc' = "output" /\ qemu = "exited" /\ code /\ reaped'
       \/ pc = "output" /\ pc' = "check_copies"
       \/ pc = "check_copies" /\ pc' = "postcheck" /\ tpc = "idle" /\ tpc' = "postcheck" /\ i' = 1
       \/ pc = "postcheck" /\ pc' = "pass" /\ tpc = "returned" /\ tpc' = "idle" /\ i' = i
       \/ pc = "pass" /\ pc' = "close" /\ passed'
    /\ (owned' <=> owned) /\ (dirty' <=> dirty) /\ (code' <=> code)
    /\ complete => complete'
    /\ pc # "pass" => (passed' <=> passed)
    /\ (reaped' => reaped \/ qemu = "exited") /\ (pc # "poll" /\ reaped => reaped')
    /\ qemu' = qemu \/ pc = "launch" \/ (Alive /\ qemu' \in {"stopped", "exited"})
    /\ pc # "dump" => output' = output
    /\ pc \notin {"stage", "check_copies", "postcheck"} => tpc' = tpc /\ i' = i
    /\ UNCHANGED <<error, runjson, outcome, uart, loaded,
                   source, disk, created, known, wt, saved, unlinked>>

Tried ==
    \/ Staged \/ Launch \/ Wait
    \/ QmpGivesUp \/ QmpAnswers \/ Recheck \/ Size
    \/ Reap \/ Examine \/ CheckCopies \/ PostChecked \/ Pass

Cleaned ==
    /\ \/ pc = "close" /\ pc' = "kill"
       \/ pc = "restore" /\ pc' = "remove"
       \/ /\ pc = "remove" /\ pc' = "residual" /\ ~Removable
          /\ tpc = "idle" /\ UNCHANGED <<tpc, i, wt>>
       \/ /\ pc = "remove" /\ pc' = "removing" /\ Removable /\ tpc = "idle" /\ (dirty' <=> dirty)
          /\ \/ tpc' = "unlink" /\ i' = 1 /\ wt' = wt
             \/ tpc' = "observe" /\ i' = i /\ Report("FAIL", "cleanup")
       \/ pc = "removing" /\ pc' = "residual" /\ tpc \in {"returned", "raised"} /\ tpc' = "idle"
          /\ (dirty' <=> dirty \/ tpc = "raised")
       \/ pc = "residual" /\ pc' = "preserve" /\ Observe("idle") /\ (dirty' <=> dirty \/ wt'.unsure)
       \/ /\ pc = "preserve" /\ pc' = "write"
          /\ \/ saved = NotSaved /\ saved' = saved
             \/ saved # NotSaved /\ saved' = [status |-> wt.status, retained |-> wt.retained]
             \/ saved # NotSaved /\ saved' = saved /\ dirty'
       \/ pc = "write" /\ pc' = "ended"
    /\ (owned' <=> owned) /\ (reaped' <=> reaped) /\ (code' <=> code) /\ (complete' <=> complete)
    /\ dirty => dirty'
    /\ passed' <=> (passed /\ (pc = "write" => ~dirty))
    /\ pc # "write" => UNCHANGED <<runjson, outcome>>
    /\ pc = "write" =>
         /\ dirty' <=> dirty
         /\ \/ runjson' = runjson /\ outcome' = "raised"
            \/ /\ runjson' = IF passed' THEN "PASS" ELSE "FAIL"
               /\ outcome' = IF error = "none" /\ ~dirty THEN "returned" ELSE "raised"
    /\ pc \notin {"remove", "removing", "residual"} => tpc' = tpc
    /\ pc # "remove" => i' = i
    /\ pc \notin {"remove", "residual"} => wt' = wt
    /\ pc # "preserve" => saved' = saved
    /\ UNCHANGED <<error, qemu, uart, loaded, output, source, disk, created, known, unlinked>>

LEMMA TriedStep == ASSUME Tried PROVE Failed \/ Advanced
<1> USE DEF Failed, Advanced, Fail, Go, Goto, Quiet, Alive, Trying,
        vars, tvars, hostvars, qemuvars, envvars
<1>1. CASE Gate BY <1>1 DEF Gate
<1>2. CASE Look("look", "poll") BY <1>2 DEF Look
<1>3. CASE Poll BY <1>3 DEF Poll
<1>4. CASE Look("look_again", "exit") BY <1>4 DEF Look
<1>5. CASE Sleep BY <1>5 DEF Sleep
<1>6. CASE Connect BY <1>6 DEF Connect
<1>7. CASE Stop BY <1>7 DEF Stop, Answered
<1>8. CASE Recheck BY <1>8 DEF Recheck
<1>9. CASE Dump BY <1>9 DEF Dump
<1>10. CASE Size BY <1>10 DEF Size
<1>11. CASE Quit BY <1>11 DEF Quit
<1>12. CASE Reap BY <1>12 DEF Reap
<1>13. CASE Examine BY <1>13 DEF Examine
<1>14. CASE CheckCopies BY <1>14 DEF CheckCopies, Postcheck
<1>15. CASE PostChecked BY <1>15 DEF PostChecked, Report
<1>16. CASE Pass BY <1>16 DEF Pass, Report
<1>17. CASE Staged BY <1>17 DEF Staged, Called
<1>18. CASE Launch BY <1>18 DEF Launch
<1>19. CASE QmpGivesUp BY <1>19 DEF QmpGivesUp, InQmp
<1>20. CASE QmpError BY <1>20 DEF QmpError, InQmp
<1> QED BY <1>1, <1>2, <1>3, <1>4, <1>5, <1>6, <1>7, <1>8, <1>9, <1>10, <1>11, <1>12, <1>13,
           <1>14, <1>15, <1>16, <1>17, <1>18, <1>19, <1>20 DEF Tried, Wait, QmpAnswers

LEMMA TerminateStep == ASSUME Terminate, UNCHANGED setup PROVE Failed
BY DEF Terminate, TryBody, Trying, Failed, Fail, Report, vars, tvars, hostvars, qemuvars, envvars

LEMMA CleanedStep ==
    ASSUME Close \/ Restore \/ RemoveCopies \/ RemovedCopies \/ Residual \/ Preserve \/ WriteReport
    PROVE  Cleaned
<1> USE DEF Cleaned, Cleanup, Goto, Quiet, vars, tvars, hostvars, qemuvars, envvars
<1>1. CASE Close
  <2>1. dirty => dirty' BY <1>1, Zenon DEF Close
  <2> QED BY <1>1, <2>1 DEF Close
<1>2. CASE Restore
  <2>1. dirty => dirty' BY <1>2, Zenon DEF Restore
  <2> QED BY <1>2, <2>1 DEF Restore
<1>3. CASE RemoveCopies BY <1>3 DEF RemoveCopies, Remove, Report
<1>4. CASE RemovedCopies BY <1>4 DEF RemovedCopies, Report
<1>5. CASE Residual BY <1>5 DEF Residual, Observe
<1>6. CASE Preserve BY <1>6 DEF Preserve
<1>7. CASE WriteReport BY <1>7 DEF WriteReport
<1> QED BY <1>1, <1>2, <1>3, <1>4, <1>5, <1>6, <1>7

KillTried ==
    /\ pc = "kill" /\ pc' = "restore"
    /\ \/ /\ ~owned \/ reaped \/ qemu = "exited"
          /\ (reaped' <=> owned) /\ (code' <=> code) /\ qemu' = qemu
       \/ owned /\ Alive /\ qemu' = "killed" /\ ~code' /\ reaped'
       \/ (reaped' <=> reaped) /\ (code' <=> code) /\ qemu' = qemu /\ dirty'
    /\ (owned' <=> owned) /\ (complete' <=> complete) /\ (passed' <=> passed)
    /\ dirty => dirty'
    /\ UNCHANGED <<error, runjson, outcome, uart, loaded, output, tvars>>

LEMMA KillStep == ASSUME Kill PROVE KillTried
<1> USE DEF KillTried, Goto, Alive
<1>1. CASE ~owned \/ reaped \/ qemu = "exited"
  <2>1. UNCHANGED <<qemu, code, dirty>> /\ reaped' = owned
    BY <1>1, Zenon DEF Kill
  <2> QED BY <1>1, <2>1 DEF Kill
<1>2. CASE ~(~owned \/ reaped \/ qemu = "exited")
  <2>1. dirty => dirty' BY <1>2, Zenon DEF Kill
  <2>2. \/ owned /\ Alive /\ qemu' = "killed" /\ ~code' /\ reaped'
        \/ (reaped' <=> reaped) /\ (code' <=> code) /\ qemu' = qemu /\ dirty'
    BY <1>2, Zenon DEF Kill
  <2> QED BY <2>1, <2>2 DEF Kill
<1> QED BY <1>1, <1>2

LEMMA Steps ==
    ASSUME [Next]_vars
    PROVE  /\ setup' = setup
           /\ \/ Failed \/ Advanced \/ Cleaned \/ KillTried \/ Enter \/ Assign
              \/ /\ UNCHANGED <<hostvars, qemuvars>>
                 /\ TStep \/ Others \/ TerminateStaging \/ UNCHANGED tvars
              \/ QemuLoad \/ GuestWrite \/ QemuExit \/ TerminateInGap
<1>1. CASE UNCHANGED vars
  BY <1>1 DEF vars
<1>2. CASE Next
  <2>1. setup' = setup
    BY <1>2 DEF Next
  <2>2. CASE Tried
    BY <2>1, <2>2, TriedStep
  <2>3. CASE Close \/ Restore \/ RemoveCopies \/ RemovedCopies \/ Residual \/ Preserve
            \/ WriteReport
    BY <2>1, <2>3, CleanedStep
  <2>4. CASE Kill
    BY <2>1, <2>4, KillStep
  <2>5. CASE Terminate
    BY <2>1, <2>5, TerminateStep
  <2>6. CASE Transport \/ OthersAct \/ CallerCancels \/ DeadlinePasses
    BY <2>1, <2>6, Zenon DEF Transport, OthersAct, CallerCancels, DeadlinePasses
  <2>7. CASE TerminateStaging
    BY <2>1, <2>7, Zenon DEF TerminateStaging
  <2> QED
    BY <1>2, <2>1, <2>2, <2>3, <2>4, <2>5, <2>6, <2>7, Zenon DEF Next, Host, Tried
<1> QED BY <1>1, <1>2

-----------------------------------------------------------------------------
(* The invariant is kept, part by part.                                    *)

LEMMA HostStep == ASSUME HostTyped, [Next]_vars PROVE HostTyped'
<1> USE DEF HostTyped, Places, Alive, hostvars, qemuvars
<1>1. CASE Failed BY <1>1 DEF Failed
<1>2. CASE Advanced BY <1>2 DEF Advanced
<1>3. CASE Cleaned BY <1>3 DEF Cleaned
<1>4. CASE KillTried BY <1>4 DEF KillTried
<1>5. CASE Enter \/ Assign BY <1>5 DEF Enter, Assign, Goto
<1>6. CASE UNCHANGED <<hostvars, qemuvars>> BY <1>6
<1>7. CASE QemuLoad \/ GuestWrite \/ QemuExit BY <1>7 DEF QemuLoad, GuestWrite, QemuExit
<1>8. CASE TerminateInGap BY <1>8 DEF TerminateInGap
<1> QED BY <1>1, <1>2, <1>3, <1>4, <1>5, <1>6, <1>7, <1>8, Steps

LEMMA VerdictStep == ASSUME HostTyped, Verdict, [Next]_vars PROVE Verdict'
<1> USE DEF HostTyped, Verdict, ReportMatchesOutcome, Places, Trying, Cleaning, hostvars, qemuvars
<1>1. CASE Failed BY <1>1 DEF Failed
<1>2. CASE Advanced BY <1>2 DEF Advanced
<1>3. CASE Cleaned BY <1>3 DEF Cleaned
<1>4. CASE KillTried BY <1>4 DEF KillTried
<1>5. CASE Enter \/ Assign BY <1>5 DEF Enter, Assign, Goto
<1>6. CASE UNCHANGED <<hostvars, qemuvars>> BY <1>6
<1>7. CASE QemuLoad \/ GuestWrite \/ QemuExit BY <1>7 DEF QemuLoad, GuestWrite, QemuExit
<1>8. CASE TerminateInGap BY <1>8 DEF TerminateInGap
<1> QED BY <1>1, <1>2, <1>3, <1>4, <1>5, <1>6, <1>7, <1>8, Steps

LEMMA OwnershipStep == ASSUME HostTyped, Ownership, [Next]_vars PROVE Ownership'
<1> USE DEF HostTyped, Ownership, Places, Trying, Early, Unowned, Killed, Alive, hostvars, qemuvars
<1>0. setup' = setup BY Steps
<1>1. CASE Failed BY <1>0, <1>1 DEF Failed
<1>2. CASE Advanced BY <1>0, <1>2 DEF Advanced
<1>3. CASE Cleaned BY <1>0, <1>3 DEF Cleaned
<1>4. CASE KillTried BY <1>0, <1>4 DEF KillTried
<1>5. CASE Enter BY <1>0, <1>5 DEF Enter, Goto
<1>6. CASE Assign BY <1>0, <1>6 DEF Assign, Goto
<1>7. CASE UNCHANGED <<hostvars, qemuvars>> BY <1>0, <1>7
<1>8. CASE QemuLoad BY <1>0, <1>8 DEF QemuLoad
<1>9. CASE GuestWrite BY <1>0, <1>9 DEF GuestWrite
<1>10. CASE QemuExit BY <1>0, <1>10 DEF QemuExit
<1>11. CASE TerminateInGap BY <1>0, <1>11 DEF TerminateInGap
<1> QED BY <1>1, <1>2, <1>3, <1>4, <1>5, <1>6, <1>7, <1>8, <1>9, <1>10, <1>11, Steps

LEMMA LastLookStep ==
    ASSUME HostTyped, Verdict, Ownership, LastLook, [Next]_vars PROVE LastLook'
<1> USE DEF HostTyped, Verdict, Ownership, LastLook, Places, Trying, Alive, hostvars, qemuvars
<1>1. CASE Failed BY <1>1 DEF Failed
<1>2. CASE Advanced BY <1>2 DEF Advanced
<1>3. CASE Cleaned BY <1>3 DEF Cleaned
<1>4. CASE KillTried BY <1>4 DEF KillTried
<1>5. CASE Enter \/ Assign BY <1>5 DEF Enter, Assign, Goto
<1>6. CASE UNCHANGED <<hostvars, qemuvars>> BY <1>6
<1>7. CASE QemuLoad \/ GuestWrite \/ QemuExit BY <1>7 DEF QemuLoad, GuestWrite, QemuExit
<1>8. CASE TerminateInGap BY <1>8 DEF TerminateInGap
<1> QED BY <1>1, <1>2, <1>3, <1>4, <1>5, <1>6, <1>7, <1>8, Steps

-----------------------------------------------------------------------------
(* The copies.                                                             *)

LEMMA FilesTyped ==
    /\ Absent \in CopyFiles
    /\ \A d \in Data : Copy(d) \in CopyFiles /\ Foreign(d) \in CopyFiles
    /\ \A f \in CopyFiles : f.data \in Data /\ [f EXCEPT !.data = "bad"] \in CopyFiles
BY DEF CopyFiles, Data, Absent, Copy, Foreign

LEMMA ReportStep ==
    ASSUME CopiesTyped, NEW status \in Statuses, NEW stage \in Stages, Report(status, stage)
    PROVE  wt' \in Transports /\ wt'.status = status /\ wt'.retained = wt.retained
BY DEF Report, CopiesTyped, Transports

\* What an observation of the copies concludes.
LEMMA ObserveStep ==
    ASSUME CopiesTyped, NEW next, Observe(next)
    PROVE  /\ tpc' = next
           /\ UNCHANGED <<i, source, disk, created, known, saved, unlinked>>
           /\ wt' \in Transports
           /\ wt'.retained = "no" => \A f \in created : ~disk[f].own
           /\ ~wt'.unsure => /\ wt'.status = wt.status
                             /\ (\A f \in created : ~disk[f].own) => wt'.retained = "no"
<1>1. PICK lost \in SUBSET created \cup {created \cup {0}} :
        LET unsure == Uncertain(lost) IN
        /\ wt' = [wt EXCEPT !.retained = Retained(unsure),
                            !.unsure = (unsure # {}),
                            !.status = IF unsure = {} THEN @ ELSE "FAIL"]
        /\ tpc' = next
        /\ UNCHANGED <<i, source, disk, created, known, saved, unlinked>>
  BY DEF Observe
<1> DEFINE U == Uncertain(lost)
<1>2. Retained(U) \in {"yes", "unknown", "no"}
  BY DEF Retained
<1>3. Retained(U) = "no" => U = {} /\ \A f \in created : ~disk[f].own
  BY DEF Retained
<1>4. U = {} /\ (\A f \in created : ~disk[f].own) => Retained(U) = "no"
  BY DEF Retained
<1> HIDE DEF U
<1>5. /\ wt'.retained = Retained(U) /\ wt'.unsure = (U # {})
      /\ wt'.status = IF U = {} THEN wt.status ELSE "FAIL"
      /\ wt' \in Transports
  BY <1>1, <1>2 DEF U, CopiesTyped, Transports, Stages, Statuses, Retainings
<1> QED BY <1>1, <1>3, <1>4, <1>5

LEMMA CopiesStep == ASSUME CopiesTyped, [Next]_vars PROVE CopiesTyped'
<1> USE DEF CopiesTyped, Running, NotSaved, Files, tvars
<1>a. wt.status \in Statuses /\ wt.stage \in Stages /\ wt.retained \in Retainings
  BY DEF Transports
<1>b. {"FAIL", "PASS"} \subseteq Statuses /\ Stages = Stages \cup {"none", "prepare", "copy",
        "validate", "ready", "postcheck", "cleanup", "copies_removed"}
  BY DEF Statuses, Stages
<1>c. \A status \in Statuses, retained \in Retainings :
        [status |-> status, retained |-> retained] \in [status : Statuses, retained : Retainings]
  OBVIOUS
<1>1. CASE Failed BY <1>1, <1>b, ReportStep DEF Failed
<1>2. CASE Advanced BY <1>2, ChunksAssumption DEF Advanced
<1>3. CASE Cleaned
  <2>1. CASE pc = "residual" BY <1>3, <2>1, ObserveStep DEF Cleaned
  <2>2. CASE pc = "remove"
    <3>1. wt' \in Transports BY <1>3, <1>b, <2>2, ReportStep DEF Cleaned
    <3>2. tpc' \in {"idle", "unlink", "observe"} /\ i' \in {1, i} /\ saved' = saved
      BY <1>3, <2>2 DEF Cleaned
    <3> QED BY <1>3, <3>1, <3>2, ChunksAssumption DEF Cleaned
  <2>3. CASE pc \notin {"residual", "remove"} BY <1>3, <1>a, <1>c, <2>3 DEF Cleaned
  <2> QED BY <2>1, <2>2, <2>3
<1>4. CASE KillTried \/ Assign \/ QemuLoad \/ GuestWrite \/ QemuExit \/ TerminateInGap
           \/ UNCHANGED tvars
  BY <1>4 DEF KillTried, Assign, QemuLoad, GuestWrite, QemuExit, TerminateInGap
<1>5. CASE Enter BY <1>5 DEF Enter, Stage, Transports, Statuses, Retainings, Stages
<1>6. CASE Others
  <2>1. CASE Corrupt BY <2>1 DEF Corrupt
  <2>2. ASSUME NEW f \in Files, Tamper(f) \/ Replace(f) \/ Lose(f) PROVE CopiesTyped'
    <3>1. disk' \in [Files -> CopyFiles]
      <4>1. CASE Tamper(f) BY <4>1, FilesTyped DEF Tamper
      <4>2. CASE Replace(f) BY <4>2, FilesTyped DEF Replace, Data
      <4>3. CASE Lose(f) BY <4>3, FilesTyped DEF Lose
      <4> QED BY <2>2, <4>1, <4>2, <4>3
    <3> QED BY <2>2, <3>1 DEF Tamper, Replace, Lose
  <2> QED BY <1>6, <2>1, <2>2 DEF Others
<1>7. CASE TStep
  <2>1. CASE Mkdir
    <3>1. wt' \in Transports BY <2>1, <1>b, ReportStep DEF Mkdir
    <3> QED BY <2>1, <3>1, ChunksAssumption DEF Mkdir
  <2>2. CASE OpenCopy
    <3>1. wt' \in Transports BY <2>2, <1>a, <1>b, ReportStep DEF OpenCopy, Abort
    <3>2. disk' \in [Files -> CopyFiles] BY <2>2, FilesTyped DEF OpenCopy, Data
    <3> QED BY <2>2, <3>1, <3>2 DEF OpenCopy, Abort
  <2>12. CASE MarkCreated BY <2>12 DEF MarkCreated
  <2>3. CASE Identify
    <3>1. wt' \in Transports BY <2>3, <1>a, <1>b, ReportStep DEF Identify, Abort
    <3> QED BY <2>3, <3>1 DEF Identify, Abort
  <2>4. CASE WriteCopy
    <3>1. wt' \in Transports BY <2>4, <1>a, <1>b, ReportStep DEF WriteCopy, Abort
    <3>2. disk' \in [Files -> CopyFiles] BY <2>4, FilesTyped DEF WriteCopy, Data
    <3> QED BY <2>4, <3>1, <3>2, ChunksAssumption DEF WriteCopy, Abort
  <2>5. CASE Compare
    <3>1. wt' \in Transports BY <2>5, <1>a, <1>b, ReportStep DEF Compare, Abort
    <3> QED BY <2>5, <3>1, ChunksAssumption DEF Compare, Abort
  <2>6. CASE StageValidate
    <3>1. wt' \in Transports BY <2>6, <1>a, <1>b, ReportStep DEF StageValidate, Abort
    <3> QED BY <2>6, <3>1, ChunksAssumption DEF StageValidate, Validated, Abort
  <2>7. CASE PostValidate BY <2>7, ChunksAssumption DEF PostValidate, Validated
  <2>8. CASE Unlink
    <3>1. wt' \in Transports BY <2>8, <1>b, ReportStep DEF Unlink
    <3>2. disk' \in [Files -> CopyFiles] BY <2>8, FilesTyped DEF Unlink
    <3>3. i \in Files /\ i' = i+1 BY <2>8, ChunksAssumption DEF Unlink, Validated
    <3>4. i' \in 1 .. Chunks+1 BY <3>3, ChunksAssumption
    <3> QED BY <2>8, <3>1, <3>2, <3>3, <3>4 DEF Unlink
  <2>9. CASE Removed
    <3>1. wt' \in Transports BY <2>9, <1>a, <1>b, ReportStep DEF Removed
    <3> QED BY <2>9, <3>1 DEF Removed
  <2>10. CASE FinishObserve
    <3>1. /\ tpc' = "save" /\ wt' \in Transports
          /\ UNCHANGED <<i, source, disk, created, known, saved, unlinked>>
      BY <2>10, ObserveStep DEF FinishObserve
    <3> QED BY <3>1
  <2>11. CASE FinishSave
    <3>1. wt' \in Transports BY <2>11, <1>a, <1>b, ReportStep DEF FinishSave
    <3> QED BY <2>11, <3>1, <1>a, <1>c DEF FinishSave
  <2> QED BY <1>7, <2>1, <2>2, <2>3, <2>4, <2>5, <2>6, <2>7, <2>8, <2>9, <2>10, <2>11, <2>12 DEF TStep
<1>8. CASE TerminateStaging
  <2>1. wt' \in Transports BY <1>8, <1>a, <1>b, ReportStep DEF TerminateStaging, Abort
  <2> QED BY <1>8, <2>1 DEF TerminateStaging, Abort
<1> QED BY <1>1, <1>2, <1>3, <1>4, <1>5, <1>6, <1>7, <1>8, Steps

LEMMA CallingStep ==
    ASSUME HostTyped, CopiesTyped, Verdict, Ownership, Calling, [Next]_vars PROVE Calling'
<1> USE DEF HostTyped, Calling, Places, Staging, Ending, Settled, Alive, Removable, tvars
<1>1. CASE Failed BY <1>1 DEF Failed, Trying
<1>2. CASE Advanced BY <1>2 DEF Advanced, Trying
<1>3. CASE Cleaned
  <2>1. CASE pc = "residual" BY <1>3, <2>1, ObserveStep DEF Cleaned
  <2>2. CASE pc = "remove" BY <1>3, <2>2 DEF Cleaned
  <2>3. CASE pc \notin {"residual", "remove"} BY <1>3, <2>3 DEF Cleaned
  <2> QED BY <2>1, <2>2, <2>3
<1>4. CASE KillTried BY <1>4 DEF KillTried
<1>5. CASE Enter BY <1>5 DEF Enter, Goto, Stage
<1>6. CASE Assign BY <1>6 DEF Assign, Goto
<1>7. CASE QemuLoad \/ GuestWrite \/ QemuExit
  <2>1. qemu \in {"loading", "running", "stopped"}
    BY <1>7 DEF QemuLoad, GuestWrite, QemuExit
  <2>2. tpc # "unlink" /\ unlinked = {}
    BY <2>1 DEF Ownership
  <2>3. UNCHANGED <<tvars, pc>>
    BY <1>7 DEF QemuLoad, GuestWrite, QemuExit, hostvars
  <2> QED BY <2>2, <2>3
<1>8. CASE TerminateInGap BY <1>8 DEF TerminateInGap, qemuvars
<1>9. CASE UNCHANGED <<hostvars, qemuvars>> /\ (TStep \/ Others \/ TerminateStaging \/ UNCHANGED tvars)
  <2> USE <1>9 DEF hostvars, qemuvars
  <2>1. CASE UNCHANGED tvars BY <2>1
  <2>2. CASE Others BY <2>2 DEF Others, Tamper, Replace, Lose, Corrupt
  <2>3. CASE \/ Mkdir \/ OpenCopy \/ MarkCreated \/ Identify \/ WriteCopy \/ Compare
             \/ StageValidate \/ TerminateStaging
    BY <2>3 DEF Mkdir, OpenCopy, MarkCreated, Identify, WriteCopy, Compare, StageValidate,
                TerminateStaging, Abort
  <2>4. CASE PostValidate BY <2>4 DEF PostValidate
  <2>5. CASE Unlink
    <3>1. pc = "removing" /\ Removable BY <2>5 DEF Unlink
    <3>2. qemu = "exited" BY <3>1 DEF Ownership
    <3> QED BY <2>5, <3>1, <3>2 DEF Unlink
  <2>6. CASE Removed BY <2>6 DEF Removed
  <2>7. CASE FinishObserve
    <3>1. tpc' = "save" /\ unlinked' = unlinked BY <2>7, ObserveStep DEF FinishObserve
    <3> QED BY <2>7, <3>1 DEF FinishObserve
  <2>8. CASE FinishSave BY <2>8 DEF FinishSave
  <2> QED BY <2>1, <2>2, <2>3, <2>4, <2>5, <2>6, <2>7, <2>8 DEF TStep
<1> QED BY <1>1, <1>2, <1>3, <1>4, <1>5, <1>6, <1>7, <1>8, <1>9, Steps

\* Only the stage makes a copy.
LEMMA OwnGrows ==
    ASSUME CopiesTyped, TStep \/ Others, NEW f \in Files, disk'[f].own, ~disk[f].own
    PROVE  OpenCopy /\ f = i
<1> USE DEF CopiesTyped, Absent, Copy, Foreign
<1>1. CASE Others BY <1>1 DEF Others, Tamper, Replace, Lose, Corrupt, CopyFiles
<1>2. CASE OpenCopy BY <1>2 DEF OpenCopy
<1>3. CASE WriteCopy BY <1>3 DEF WriteCopy
<1>4. CASE Unlink BY <1>4 DEF Unlink
<1>5. CASE FinishObserve BY <1>5 DEF FinishObserve, Observe
<1>6. CASE \/ Mkdir \/ MarkCreated \/ Identify \/ Compare \/ StageValidate \/ PostValidate
           \/ Removed \/ FinishSave
  BY <1>6 DEF Mkdir, MarkCreated, Identify, Compare, StageValidate, PostValidate, Removed, FinishSave
<1> QED BY <1>1, <1>2, <1>3, <1>4, <1>5, <1>6 DEF TStep

LEMMA AccountedStep ==
    ASSUME HostTyped, CopiesTyped, Calling, Accounted, [Next]_vars PROVE Accounted'
<1> USE DEF HostTyped, Accounted, Unmarked, Staging, tvars
<1>0. setup' = setup BY Steps
<1>1. CASE Failed
  <2>1. wt'.retained = wt.retained
    BY <1>1, ReportStep DEF Failed, Statuses, Stages
  <2> QED BY <1>0, <1>1, <2>1 DEF Failed, Trying, Calling
<1>2. CASE Advanced BY <1>0, <1>2 DEF Advanced, Calling
<1>3. CASE Cleaned
  <2>1. CASE pc = "residual" BY <1>0, <1>3, <2>1, ObserveStep DEF Cleaned, Calling
  <2>2. CASE pc = "remove"
    <3>1. wt'.retained = wt.retained
      BY <1>3, <2>2, ReportStep DEF Cleaned, Statuses, Stages
    <3> QED BY <1>0, <1>3, <2>2, <3>1 DEF Cleaned, Calling
  <2>3. CASE pc \notin {"residual", "remove"} BY <1>0, <1>3, <2>3 DEF Cleaned, Calling
  <2> QED BY <2>1, <2>2, <2>3
<1>4. CASE KillTried \/ Assign \/ QemuLoad \/ GuestWrite \/ QemuExit \/ TerminateInGap
  <2>1. UNCHANGED tvars /\ (pc' \in {"enter", "preserve"} => pc' = pc)
    BY <1>4 DEF KillTried, Assign, Goto, QemuLoad, GuestWrite, QemuExit, TerminateInGap, hostvars
  <2> QED BY <1>0, <2>1
<1>5. CASE Enter BY <1>0, <1>5 DEF Enter, Goto, Stage
<1>6. CASE UNCHANGED <<hostvars, qemuvars>> /\ (TStep \/ Others \/ TerminateStaging \/ UNCHANGED tvars)
  <2>0. pc' = pc /\ setup' = setup BY <1>0, <1>6 DEF hostvars
  <2>1. CASE UNCHANGED tvars BY <2>0, <2>1
  <2>2. CASE Others
    <3>1. UNCHANGED <<tpc, i, created, wt, saved, unlinked>>
      BY <2>2 DEF Others, Tamper, Replace, Lose, Corrupt
    <3>2. \A f \in Files : disk'[f].own => disk[f].own
      BY <2>2, OwnGrows DEF Others, Tamper, Replace, Lose, Corrupt, OpenCopy
    <3> QED BY <2>0, <3>1, <3>2 DEF CopiesTyped
  <2>3. CASE OpenCopy \/ MarkCreated
    <3>1. pc = "stage" /\ i \in Files /\ saved = NotSaved /\ tpc \in {"open", "mark"}
      BY <2>3 DEF OpenCopy, MarkCreated, Calling, CopiesTyped
    <3>2. \A f \in Files : disk'[f].own => f \in created' \/ Unmarked(f)' \/ (tpc' = "mark" /\ f = i')
      <4>1. CASE OpenCopy
        <5>1. created' = created /\ i' = i BY <4>1 DEF OpenCopy
        <5> QED BY <2>0, <3>1, <4>1, <5>1 DEF OpenCopy, Abort, CopiesTyped, Copy
      <4>2. CASE MarkCreated BY <2>0, <3>1, <4>2 DEF MarkCreated
      <4> QED BY <2>3, <4>1, <4>2
    <3>3. tpc' \in {"mark", "fstat", "observe"} /\ saved' = saved /\ unlinked' = {}
      BY <2>3, <3>1 DEF OpenCopy, MarkCreated, Abort, Calling, Settled
    <3> QED BY <2>0, <3>1, <3>2, <3>3 DEF NotSaved
  <2>10. CASE TerminateStaging
    <3>1. UNCHANGED <<i, disk, created, saved, unlinked>> /\ setup.gaps /\ tpc' \in {"observe", "raised"}
      BY <2>10 DEF TerminateStaging, Abort
    <3>2. \A f \in Files : disk[f].own => f \in created \/ Unmarked(f)
      BY <3>1
    <3>3. tpc' = "raised" => wt' = wt /\ tpc \in {"observe", "save"}
      BY <2>10 DEF TerminateStaging, Abort
    <3>4. tpc \in Staging \cup {"observe", "save"} /\ pc = "stage"
      BY <2>10 DEF TerminateStaging
    <3> QED BY <2>0, <3>1, <3>2, <3>3, <3>4
  <2>4. CASE FinishObserve
    <3>1. /\ tpc = "observe" /\ tpc' = "save" /\ UNCHANGED <<disk, created, saved, unlinked>>
          /\ wt'.retained = "no" => \A f \in created : ~disk[f].own
      BY <2>4, ObserveStep DEF FinishObserve
    <3> QED BY <2>0, <3>1
  <2>5. CASE Unlink
    <3>1. tpc' = tpc /\ UNCHANGED <<created, saved>>
      BY <2>5 DEF Unlink
    <3>2. wt'.retained = wt.retained
      BY <2>5, ReportStep DEF Unlink, Statuses, Stages
    <3>3. \A f \in Files : disk'[f].own => disk[f].own
      BY <2>5, OwnGrows DEF Unlink, OpenCopy, TStep
    <3>4. \A f \in unlinked' : f \in unlinked \/ ~disk'[f].own
      BY <2>5 DEF Unlink, Owned, Absent, CopiesTyped
    <3> QED BY <2>0, <2>5, <3>1, <3>2, <3>3, <3>4 DEF Unlink, CopiesTyped
  <2>6. CASE Mkdir
    <3>1. UNCHANGED <<disk, created, saved, unlinked>>
      BY <2>6 DEF Mkdir
    <3> QED BY <2>0, <2>6, <3>1 DEF Mkdir
  <2>7. CASE Identify \/ WriteCopy \/ Compare \/ StageValidate
    <3>1. /\ UNCHANGED <<created, saved, unlinked>> /\ tpc \in {"fstat", "write", "compare", "validate"}
          /\ tpc' \in Staging \cup {"observe"} /\ tpc' \notin {"mkdir", "mark"}
      BY <2>7 DEF Identify, WriteCopy, Compare, StageValidate, Abort
    <3>2. \A f \in Files : disk'[f].own => disk[f].own
      BY <2>7, OwnGrows DEF Identify, WriteCopy, Compare, StageValidate, OpenCopy, TStep
    <3>3. unlinked = {} /\ saved = NotSaved /\ pc = "stage"
      BY <3>1 DEF Calling, Settled
    <3> QED BY <2>0, <3>1, <3>2, <3>3 DEF NotSaved
  <2>8. CASE PostValidate \/ FinishSave
    <3>1. wt'.retained = wt.retained
      BY <2>8, ReportStep DEF PostValidate, FinishSave, Statuses, CopiesTyped, Transports
    <3>2. UNCHANGED <<disk, created, unlinked>> /\ tpc \in {"postcheck", "save"}
          /\ tpc' \in {"postcheck", "returned", "raised"}
      BY <2>8 DEF PostValidate, FinishSave
    <3>3. \/ saved' = saved
          \/ tpc = "save" /\ saved' = [status |-> wt.status, retained |-> wt.retained]
      BY <2>8 DEF PostValidate, FinishSave
    <3> QED BY <2>0, <3>1, <3>2, <3>3 DEF Calling
  <2>9. CASE Removed BY <2>0, <2>9 DEF Removed, Calling
  <2> QED BY <1>6, <2>1, <2>2, <2>3, <2>4, <2>5, <2>6, <2>7, <2>8, <2>9, <2>10 DEF TStep
<1> QED BY <1>1, <1>2, <1>3, <1>4, <1>5, <1>6, Steps

-----------------------------------------------------------------------------
(* What was computed, and from which bytes.                                *)

\* After the stage nothing turns good again.
LEMMA GoodGrows ==
    ASSUME CopiesTyped, TStep \/ Others, NEW f \in Files,
           disk'[f].data = "good", disk[f].data # "good"
    PROVE  tpc = "write"
<1> USE DEF CopiesTyped, Absent, Copy, Foreign
<1>1. CASE Others BY <1>1 DEF Others, Tamper, Replace, Lose, Corrupt, CopyFiles
<1>2. CASE OpenCopy BY <1>2 DEF OpenCopy
<1>3. CASE WriteCopy BY <1>3 DEF WriteCopy
<1>4. CASE Unlink BY <1>4 DEF Unlink
<1>5. CASE FinishObserve BY <1>5 DEF FinishObserve, Observe
<1>6. CASE \/ Mkdir \/ MarkCreated \/ Identify \/ Compare \/ StageValidate \/ PostValidate
           \/ Removed \/ FinishSave
  BY <1>6 DEF Mkdir, MarkCreated, Identify, Compare, StageValidate, PostValidate, Removed, FinishSave
<1> QED BY <1>1, <1>2, <1>3, <1>4, <1>5, <1>6 DEF TStep

LEMMA ComputedStep ==
    ASSUME HostTyped, CopiesTyped, Verdict, Ownership, Calling, Computed, [Next]_vars
    PROVE  Computed'
<1> USE DEF HostTyped, Places, Computed, Halted, Finished, LoadedGood
<1>1. CASE Failed
  <2>1. tpc' # "postcheck"
    BY <1>1 DEF Failed, Calling
  <2> QED BY <1>1, <2>1 DEF Failed
<1>2. CASE Advanced
  <2>1. (qemu' = "running" \/ uart' # "empty")
          => \A f \in Files : disk'[f].data = "good" => LoadedGood(f)'
    BY <1>2 DEF Advanced, Alive
  <2>2. tpc' = "postcheck" => \A f \in 1 .. i'-1 : LoadedGood(f)'
    <3>1. ASSUME tpc' = "postcheck", pc # "check_copies" PROVE FALSE
      <4>1. pc \notin {"stage", "postcheck"} /\ tpc = "postcheck"
        BY <1>2, <3>1 DEF Advanced
      <4> QED BY <4>1 DEF Calling
    <3>2. pc = "check_copies" => i' = 1
      BY <1>2 DEF Advanced
    <3>3. pc = "check_copies" => 1 .. i'-1 = {}
      BY <3>2
    <3> QED BY <3>1, <3>3
  <2>3. pc' \in {"postcheck", "pass"} => pc \in {"check_copies", "postcheck"} /\ UNCHANGED loaded
    BY <1>2 DEF Advanced
  <2>4. pc' = "postcheck" => tpc' = "postcheck"
    BY <1>2 DEF Advanced
  <2>5. pc' = "pass" => \A f \in Files : LoadedGood(f)'
    BY <1>2, <2>3 DEF Advanced
  <2>6. passed' => pc = "pass"
    BY <1>2 DEF Advanced, Verdict, Trying
  <2>7. passed' => Computed'
    <3>1. passed' => /\ qemu = "exited" /\ code /\ owned /\ reaped /\ complete
                     /\ uart = "frame" /\ output = "whole"
      BY <2>6 DEF Ownership
    <3>2. passed' => pc' = "close" /\ UNCHANGED <<qemu, uart, output, loaded>>
      BY <1>2, <2>6, <3>1 DEF Advanced, Alive
    <3>3. passed' => code' /\ owned' /\ reaped' /\ complete'
      BY <1>2, <2>6, <3>1 DEF Advanced
    <3> QED BY <2>1, <2>2, <2>6, <3>1, <3>2, <3>3
  <2>8. /\ pc' \in Halted => qemu' \in {"stopped", "exited"} /\ complete'
        /\ (pc' \in Halted /\ pc' # "recheck") \/ pc' \in Finished => uart' = "frame" /\ complete'
        /\ pc' \in {"quit", "reap"} \/ pc' \in Finished => output' = "whole"
        /\ pc' \in Finished => reaped' /\ qemu' = "exited" /\ code'
        /\ pc' \in {"connect", "stop"} => complete'
    BY <1>2 DEF Advanced, Alive
  <2> QED BY <2>1, <2>2, <2>4, <2>5, <2>7, <2>8
<1>3. CASE Cleaned
  <2>1. tpc' # "postcheck"
    BY <1>3, ObserveStep DEF Cleaned, Calling
  <2> QED BY <1>3, <2>1 DEF Cleaned
<1>4. CASE KillTried BY <1>4 DEF KillTried, Alive, Calling, tvars
<1>5. CASE Enter BY <1>5 DEF Enter, Goto, Stage, qemuvars
<1>6. CASE Assign BY <1>6 DEF Assign, Goto, Calling, tvars, qemuvars
<1>7. CASE QemuLoad BY <1>7 DEF QemuLoad, Calling, hostvars, tvars
<1>8. CASE GuestWrite BY <1>8 DEF GuestWrite, hostvars, tvars
<1>9. CASE QemuExit BY <1>9 DEF QemuExit, Alive, Calling, hostvars, tvars
<1>10. CASE TerminateInGap BY <1>10 DEF TerminateInGap, Calling, tvars, qemuvars
<1>11. CASE UNCHANGED <<hostvars, qemuvars>> /\ (TStep \/ Others \/ TerminateStaging \/ UNCHANGED tvars)
  <2>1. UNCHANGED <<pc, qemu, uart, loaded, output>> /\ (complete' <=> complete) /\ (code' <=> code)
        /\ (reaped' <=> reaped) /\ (owned' <=> owned) /\ (passed' <=> passed)
    BY <1>11 DEF hostvars, qemuvars
  <2>2. (qemu' = "running" \/ uart' # "empty")
          => \A f \in Files : disk'[f].data = "good" => LoadedGood(f)'
    <3>1. CASE UNCHANGED tvars BY <2>1, <3>1 DEF tvars
    <3>2. CASE TStep \/ Others
      <4>1. (qemu = "running" \/ uart # "empty") => tpc # "write"
        BY DEF Calling, Staging, Ownership, Early
      <4> QED BY <2>1, <3>2, <4>1, GoodGrows
    <3>3. CASE TerminateStaging BY <2>1, <3>3 DEF TerminateStaging
    <3> QED BY <1>11, <3>1, <3>2, <3>3
  <2>3. /\ tpc' = "postcheck" => \A f \in 1 .. i'-1 : LoadedGood(f)'
        /\ pc' = "postcheck" /\ tpc' = "returned" => \A f \in Files : LoadedGood(f)'
    <3>1. CASE PostValidate
      <4>1. pc = "postcheck" /\ uart # "empty" /\ i \in 1 .. Chunks+1 /\ tpc = "postcheck"
        BY <3>1 DEF PostValidate, Calling, CopiesTyped
      <4>2. CASE i' = i+1 /\ i # Chunks+1 /\ Readable(i) /\ tpc' = tpc
        <5>1. i \in Files /\ LoadedGood(i)
          BY <4>1, <4>2, ChunksAssumption DEF Readable, Files
        <5>2. \A f \in 1 .. i'-1 : f \in 1 .. i-1 \/ f = i
          BY <4>1, <4>2, ChunksAssumption
        <5> QED BY <2>1, <4>1, <4>2, <5>1, <5>2
      <4>3. CASE i = Chunks+1 /\ tpc' = "returned"
        <5>1. 1 .. i-1 = Files
          BY <4>3, ChunksAssumption DEF Files
        <5> QED BY <2>1, <4>1, <4>3, <5>1
      <4>4. CASE tpc' = "raised" BY <4>4
      <4> QED BY <3>1, <4>2, <4>3, <4>4 DEF PostValidate, Validated
    <3>2. CASE UNCHANGED <<tpc, i>> BY <2>1, <3>2
    <3>3. CASE \/ Mkdir \/ OpenCopy \/ MarkCreated \/ Identify \/ WriteCopy \/ Compare
               \/ StageValidate \/ Unlink \/ Removed \/ FinishSave \/ TerminateStaging
      <4>1. pc # "postcheck" /\ tpc' # "postcheck"
        BY <3>3 DEF Mkdir, OpenCopy, MarkCreated, Identify, WriteCopy, Compare, StageValidate,
                    Unlink, Removed, FinishSave, TerminateStaging, Abort, Calling
      <4> QED BY <2>1, <4>1
    <3>4. CASE FinishObserve
      <4>1. pc # "postcheck" /\ tpc' # "postcheck"
        BY <3>4, ObserveStep DEF FinishObserve, Calling
      <4> QED BY <2>1, <4>1
    <3>5. CASE Others BY <3>2, <3>5 DEF Others, Tamper, Replace, Lose, Corrupt
    <3> QED BY <1>11, <3>1, <3>2, <3>3, <3>4, <3>5 DEF TStep, tvars
  <2> QED BY <2>1, <2>2, <2>3
<1> QED BY <1>1, <1>2, <1>3, <1>4, <1>5, <1>6, <1>7, <1>8, <1>9, <1>10, <1>11, Steps

-----------------------------------------------------------------------------
(* What is left behind, and what the reports say.                          *)

LEMMA RemovalCleaned ==
    ASSUME HostTyped, CopiesTyped, Verdict, Accounted, Computed, Removal, Cleaned PROVE Removal'
<1> USE DEF Removal
<1>1. CASE pc \in {"close", "kill", "restore"}
  BY <1>1 DEF Cleaned, Verdict
<1>2. CASE pc = "remove"
  <2>1. passed' /\ ~dirty' => passed /\ ~dirty
    BY <1>2 DEF Cleaned
  <2>2. passed => error = "none" /\ owned /\ reaped /\ code
    BY <1>2 DEF Verdict, Cleaning, Computed
  <2>3. CASE pc' = "residual"
    <3>1. ~(passed' /\ ~dirty')
      BY <1>2, <2>1, <2>2, <2>3 DEF Cleaned, Removable
    <3> QED BY <1>2, <2>3, <3>1 DEF Cleaned, Verdict
  <2>4. CASE pc' = "removing"
    <3>1. \/ tpc' = "unlink" /\ 1 .. i'-1 = {}
          \/ tpc' = "observe" /\ wt'.status = "FAIL"
      BY <1>2, <2>4, ReportStep DEF Cleaned, Statuses, Stages
    <3> QED BY <1>2, <2>4, <3>1 DEF Cleaned, Verdict
  <2> QED BY <1>2, <2>3, <2>4 DEF Cleaned
<1>3. CASE pc = "removing"
  <2>1. passed' /\ ~dirty' => tpc = "returned"
    BY <1>3 DEF Cleaned
  <2>2. pc' = "residual" /\ UNCHANGED <<wt, saved, unlinked, outcome>>
    BY <1>3 DEF Cleaned
  <2> QED BY <1>3, <2>1, <2>2 DEF Verdict
<1>4. CASE pc = "residual"
  <2>1. pc' = "preserve" /\ UNCHANGED <<saved, unlinked, outcome>>
    BY <1>4 DEF Cleaned
  <2>2. passed' /\ ~dirty' => passed /\ ~dirty /\ ~wt'.unsure
    BY <1>4 DEF Cleaned
  <2>3. passed /\ ~dirty => \A f \in created : ~disk[f].own
    BY <1>4 DEF Accounted, CopiesTyped
  <2>4. ~wt'.unsure /\ (\A f \in created : ~disk[f].own)
          => wt'.status = wt.status /\ wt'.retained = "no"
    BY <1>4, ObserveStep DEF Cleaned
  <2> QED BY <1>4, <2>1, <2>2, <2>3, <2>4 DEF Verdict
<1>5. CASE pc = "preserve"
  <2>1. pc' = "write" /\ UNCHANGED <<unlinked, outcome>>
    BY <1>5 DEF Cleaned
  <2>2. passed' /\ ~dirty' => passed /\ ~dirty
    BY <1>5 DEF Cleaned
  <2>3. passed /\ ~dirty => saved # NotSaved
    BY <1>5 DEF NotSaved
  <2>4. passed' /\ ~dirty' => saved' = [status |-> "PASS", retained |-> "no"]
    BY <1>5, <2>2, <2>3 DEF Cleaned
  <2> QED BY <1>5, <2>1, <2>2, <2>4 DEF Verdict
<1>6. CASE pc = "write"
  <2>1. pc' = "ended" /\ UNCHANGED <<saved, unlinked>>
    BY <1>6 DEF Cleaned
  <2>2. outcome' = "returned" => passed /\ ~dirty
    BY <1>6 DEF Cleaned, Verdict, Cleaning
  <2> QED BY <1>6, <2>1, <2>2
<1> QED BY <1>1, <1>2, <1>3, <1>4, <1>5, <1>6 DEF Cleaned

LEMMA RemovalStep ==
    ASSUME HostTyped, CopiesTyped, Verdict, Calling, Accounted, Computed, Removal, [Next]_vars
    PROVE  Removal'
<1> USE DEF Removal
<1>1. CASE Failed \/ Advanced \/ KillTried \/ Enter \/ Assign
  <2>1. /\ pc' \notin {"removing", "residual", "preserve", "write", "ended"} /\ pc # "ended"
        /\ outcome' = outcome
    BY <1>1 DEF Failed, Advanced, KillTried, Enter, Assign, Goto, Trying
  <2> QED BY <2>1 DEF Verdict
<1>2. CASE Cleaned BY <1>2, RemovalCleaned
<1>3. CASE QemuLoad \/ GuestWrite \/ QemuExit
  <2>1. UNCHANGED <<tvars, hostvars>>
    BY <1>3 DEF QemuLoad, GuestWrite, QemuExit
  <2> QED BY <2>1 DEF tvars, hostvars
<1>4. CASE TerminateInGap BY <1>4 DEF TerminateInGap
<1>5. CASE UNCHANGED <<hostvars, qemuvars>> /\ (TStep \/ Others \/ TerminateStaging \/ UNCHANGED tvars)
  <2>1. pc' = pc /\ outcome' = outcome /\ (passed' <=> passed) /\ (dirty' <=> dirty)
    BY <1>5 DEF hostvars
  <2>2. CASE UNCHANGED tvars BY <2>1, <2>2 DEF tvars
  <2>3. CASE Others BY <2>1, <2>3 DEF Others, Tamper, Replace, Lose, Corrupt
  <2>4. CASE \/ Mkdir \/ OpenCopy \/ MarkCreated \/ Identify \/ WriteCopy \/ Compare
             \/ StageValidate \/ PostValidate \/ TerminateStaging
    <3>1. pc \in {"stage", "postcheck"}
      BY <2>4 DEF Mkdir, OpenCopy, MarkCreated, Identify, WriteCopy, Compare, StageValidate,
                  PostValidate, TerminateStaging, Calling, Staging
    <3> QED BY <2>1, <3>1 DEF Verdict
  <2>5. CASE pc = "stage" /\ (FinishObserve \/ FinishSave)
    BY <2>1, <2>5 DEF Verdict
  <2>6. CASE Unlink
    <3>1. pc = "removing" /\ tpc' = "unlink" /\ tpc = "unlink" /\ i \in 1 .. Chunks+1 /\ i' = i+1
      BY <2>6 DEF Unlink, Calling, CopiesTyped
    <3>2. wt'.status = "FAIL" \/ (wt' = wt /\ unlinked' = unlinked \cup {i})
      BY <2>6, ReportStep DEF Unlink, Statuses, Stages
    <3>3. \A f \in 1 .. i'-1 : f \in 1 .. i-1 \/ f = i
      BY <3>1, ChunksAssumption
    <3> QED BY <2>1, <3>1, <3>2, <3>3 DEF Verdict
  <2>7. CASE Removed
    <3>1. /\ pc = "removing" /\ tpc = "unlink" /\ tpc' = "observe" /\ i = Chunks+1
          /\ UNCHANGED <<saved, unlinked>>
      BY <2>7 DEF Removed, Validated, Calling
    <3>2. wt'.status = wt.status
      BY <2>7, ReportStep DEF Removed, Statuses, Stages, CopiesTyped, Transports
    <3>3. 1 .. i-1 = Files
      BY <3>1, ChunksAssumption DEF Files
    <3> QED BY <2>1, <3>1, <3>2, <3>3 DEF Verdict, CopiesTyped
  <2>8. CASE pc = "removing" /\ FinishObserve
    <3>1. /\ tpc = "observe" /\ tpc' = "save" /\ UNCHANGED <<saved, unlinked>>
          /\ wt'.status = "PASS" => wt.status = "PASS"
      BY <2>8 DEF FinishObserve, Observe, CopiesTyped, Transports
    <3> QED BY <2>1, <2>8, <3>1 DEF Verdict
  <2>9. CASE pc = "removing" /\ FinishSave
    <3>1. tpc = "save" /\ UNCHANGED unlinked
      BY <2>9 DEF FinishSave
    <3>2. \/ wt' = wt /\ saved' = [status |-> wt.status, retained |-> wt.retained]
             /\ tpc' \in {"returned", "raised"} /\ (tpc' = "returned" => wt.status = "PASS")
          \/ tpc' = "raised"
      BY <2>9 DEF FinishSave
    <3> QED BY <2>1, <2>9, <3>1, <3>2 DEF Verdict
  <2>10. FinishObserve \/ FinishSave => pc \in {"stage", "removing"}
    BY DEF FinishObserve, FinishSave, Calling
  <2> QED BY <1>5, <2>2, <2>3, <2>4, <2>5, <2>6, <2>7, <2>8, <2>9, <2>10 DEF TStep
<1> QED BY <1>1, <1>2, <1>3, <1>4, <1>5, Steps

-----------------------------------------------------------------------------
(***************************************************************************)
(* The theorems.                                                           *)
(***************************************************************************)
LEMMA InitIInv == Init => IInv
<1> SUFFICES ASSUME Init PROVE IInv
    OBVIOUS
<1> USE DEF Init, TInit
<1>1. HostTyped BY DEF HostTyped, Places
<1>2. CopiesTyped
  BY ChunksAssumption, FilesTyped
     DEF CopiesTyped, Running, Transports, Statuses, Stages, Retainings, NotSaved
<1>3. Verdict /\ Ownership /\ LastLook
  BY DEF Verdict, ReportMatchesOutcome, Ownership, LastLook, Trying, Cleaning, Early, Unowned,
         Killed, Alive
<1>4. Calling /\ Accounted
  BY DEF Calling, Accounted, Staging, Ending, Absent, NotSaved
<1>5. Computed /\ Removal
  BY DEF Computed, Removal, Halted, Finished, NotSaved
<1> QED BY <1>1, <1>2, <1>3, <1>4, <1>5 DEF IInv

LEMMA Invariance == Spec => []IInv
<1>1. IInv /\ [Next]_vars => IInv'
  BY HostStep, CopiesStep, VerdictStep, OwnershipStep, LastLookStep, CallingStep, AccountedStep,
     ComputedStep, RemovalStep DEF IInv
<1> QED BY <1>1, InitIInv, PTL DEF Spec

\* A forward that returns computed on the manifest's bytes, in a QEMU that printed
\* one frame, was stopped before the dump and exited with code 0; its copies are
\* gone and transport.json says so.
THEOREM Passed == Spec => []PassMeansGood
<1>1. IInv => PassMeansGood
  <2> SUFFICES ASSUME IInv, outcome = "returned"
               PROVE  /\ qemu = "exited" /\ code /\ reaped /\ complete
                      /\ uart = "frame" /\ output = "whole"
                      /\ \A f \in Files : loaded[f] = "good" /\ ~disk[f].own
                      /\ unlinked = Files
                      /\ saved = [status |-> "PASS", retained |-> "no"]
    BY DEF PassMeansGood
  <2>1. passed
    BY DEF IInv, Verdict
  <2>2. unlinked = Files /\ saved = [status |-> "PASS", retained |-> "no"]
    BY DEF IInv, Removal
  <2>3. \A f \in Files : ~disk[f].own
    BY <2>2 DEF IInv, Accounted
  <2> QED BY <2>1, <2>2, <2>3 DEF IInv, Computed, LoadedGood
<1> QED BY <1>1, Invariance, PTL

\* run_external leaves no QEMU alive unless it says that cleaning up failed, on a
\* platform where SIGTERM does not fall between its handlers.
THEOREM NoQemuLeft == Spec => []NoOrphanButForGaps
<1>1. IInv => NoOrphanButForGaps
  BY DEF IInv, Ownership, NoOrphanButForGaps, NoOrphan, Killed
<1> QED BY <1>1, Invariance, PTL

\* "QEMU exited before guest completion" is never said of a guest that completed.
THEOREM Completion == Spec => []CompletionNotMissed
<1>1. IInv => CompletionNotMissed
  BY DEF IInv, LastLook, CompletionNotMissed
<1> QED BY <1>1, Invariance, PTL

\* The copies of a run that failed, or whose QEMU may still read them, stay.
THEOREM CopiesKept == Spec => []FailureKeepsCopies
<1>1. IInv => FailureKeepsCopies
  BY DEF IInv, Calling, FailureKeepsCopies
<1> QED BY <1>1, Invariance, PTL

\* run.json says PASS exactly of the runs that return.
THEOREM Reported == Spec => []ReportMatchesOutcome
<1>1. IInv => ReportMatchesOutcome
  BY DEF IInv, Verdict
<1> QED BY <1>1, Invariance, PTL

\* transport.json never says that no copy is left while one is, but for a copy that
\* SIGTERM, on a platform where it falls between open and mark, kept from being marked.
THEOREM Residuals == Spec => []ResidualTruth
<1>1. IInv => ResidualTruth
  BY DEF IInv, Accounted, Unmarked, ResidualTruth
<1> QED BY <1>1, Invariance, PTL

-----------------------------------------------------------------------------
(***************************************************************************)
(* _run_process, for any number of SIGTERMs.                               *)
(*                                                                         *)
(* RunnerInv says who was born before whom and into which group, when a    *)
(* call's handler is installed, and that what a call has stopped stays     *)
(* stopped: nobody is left in the group to fork.                           *)
(***************************************************************************)
RunnerPlaces == {"idle", "spawn", "communicate", "stop", "drain", "kill", "wait", "close",
                 "restore", "done"}
Lives    == {"unborn", "running", "zombie", "reaped"}
Stopping == {"drain", "kill", "wait", "close", "restore", "done"}

RunnerTyped ==
    /\ supervised \in BOOLEAN
    /\ runner_pc \in [Calls -> RunnerPlaces]
    /\ primary \in [Calls -> {"none", "OSError", "TimeoutExpired", "SystemExit"}]
    /\ ours \in [Calls -> BOOLEAN]
    /\ proc \in [Processes -> Lives]
    /\ group \in [Processes -> Processes]
    /\ gap \subseteq Calls /\ termed \subseteq {"host", "worker"}

\* Who is born before whom, and in which group.
Births ==
    /\ \A c \in Calls : runner_pc[c] \in {"idle", "spawn"} => proc[Child[c]] = "unborn"
    /\ \A c \in Calls : runner_pc[c] \in {"communicate", "stop", "drain", "kill", "wait"} =>
          proc[Child[c]] # "unborn"
    /\ \A c \in Calls : runner_pc[c] \in {"idle", "spawn", "communicate"} => primary[c] = "none"
    /\ proc["worker"] = "unborn" =>
          runner_pc["inner"] = "idle" /\ proc["compiler"] = "unborn" /\ proc["helper"] = "unborn"
    /\ ~supervised =>
          runner_pc["outer"] = "done" /\ proc["host"] = "unborn" /\ primary["outer"] = "none"
Groups ==
    /\ group["host"] = "host" /\ group["worker"] = "worker"
    /\ group["compiler"] = IF supervised /\ proc["compiler"] # "unborn" THEN "worker" ELSE "compiler"
    /\ group["helper"] # "host"
    /\ group["helper"] = "compiler" => proc["compiler"] # "unborn" /\ ~supervised

\* SIGTERM unwinds a call from its handler's installation to its removal.
Handled ==
    \A c \in Calls \ gap : ours[c] <=> runner_pc[c] \notin {"idle", "done"}

\* What a call has stopped stays stopped.
Stopped ==
    /\ "outer" \notin gap /\ supervised /\ runner_pc["outer"] \in Stopping => Members("worker") = {}
    /\ "inner" \notin gap /\ runner_pc["inner"] \in Stopping =>
          /\ proc["compiler"] # "running"
          /\ ~supervised /\ primary["inner"] # "none" => Members("compiler") = {}

\* A caller that SIGTERM ended is dead, and so is its child.
Ended ==
    \A c \in Calls : Caller[c] \in termed =>
        /\ proc[Caller[c]] \in {"zombie", "reaped"}
        /\ c \notin gap => proc[Child[c]] # "running"

RunnerInv == RunnerTyped /\ Births /\ Groups /\ Handled /\ Stopped /\ Ended

LEMMA TheTwoCalls ==
    /\ Calls = {"outer", "inner"} /\ Processes = {"host", "worker", "compiler", "helper"}
    /\ Caller["outer"] = "host" /\ Caller["inner"] = "worker"
    /\ Child["outer"] = "worker" /\ Child["inner"] = "compiler"
BY DEF Calls, Processes, Caller, Child

\* A step of a call, and SIGTERM in the middle of one.
LEMMA CallStep ==
    ASSUME RunnerInv, NEW c \in Calls,
           Invocation(c) \/ TerminateInvocation(c) \/ TerminateBetween(c)
    PROVE  RunnerInv'
<1> USE TheTwoCalls DEF RunnerInv, RunnerTyped, RunnerPlaces, Lives, Births, Groups, Handled, Stopped,
                        Ended, Members, Stopping
<1>1. CASE Install(c)
  BY <1>1 DEF Install, Step, procvars
<1>2. CASE Spawn(c)
  BY <1>2 DEF Spawn, Step, Born, Inherits
<1>3. CASE SpawnFails(c)
  BY <1>3 DEF SpawnFails, Step, procvars
<1>4. CASE Communicate(c)
  BY <1>4 DEF Communicate, Step, CleanupDescendants, Eof
<1>5. CASE TimeoutExpired(c)
  BY <1>5 DEF TimeoutExpired, Step, procvars
<1>6. CASE StopTree(c)
  <2>1. proc' = [p \in Processes |-> IF p \in (IF Inherits(c) THEN {Child[c]} \ {q \in Processes : Exited(q)}
                                               ELSE Members(Child[c])) THEN "zombie" ELSE proc[p]]
    BY <1>6 DEF StopTree, Dead
  <2>2. proc[Child[c]] # "unborn"
    BY <1>6 DEF StopTree, Step
  <2>3. \A p \in Processes : proc'[p] = "unborn" <=> proc[p] = "unborn"
    BY <2>1, <2>2
  <2>4. \A p \in Processes : proc'[p] = "running" =>
           proc[p] = "running" /\ (IF Inherits(c) THEN p # Child[c] ELSE group[p] # Child[c])
    BY <2>1, <2>2 DEF Exited
  <2>5. proc' \in [Processes -> Lives]
    BY <2>1
  <2> QED BY <1>6, <2>3, <2>4, <2>5 DEF StopTree, Step, Inherits
<1>7. CASE Drain(c)
  BY <1>7 DEF Drain, Step, Exited
<1>8. CASE DrainExpires(c)
  BY <1>8 DEF DrainExpires, Step, procvars
<1>9. CASE KillChild(c)
  <2>1. PICK ps \in SUBSET {Child[c]} :
          proc' = [p \in Processes |-> IF p \in ps THEN "zombie" ELSE proc[p]]
    BY <1>9 DEF KillChild, Dead, Exited
  <2>2. proc[Child[c]] # "unborn"
    BY <1>9 DEF KillChild, Step
  <2> QED BY <1>9, <2>1, <2>2 DEF KillChild, Step
<1>10. CASE WaitChild(c)
  BY <1>10 DEF WaitChild, Step, Exited
<1>11. CASE ClosePipes(c)
  BY <1>11 DEF ClosePipes, Step, procvars
<1>12. CASE RestoreHandler(c)
  BY <1>12 DEF RestoreHandler, Step, procvars
<1>13. CASE TerminateInvocation(c)
  BY <1>13 DEF TerminateInvocation, Delivered, procvars
<1>14. CASE TerminateBetween(c)
  BY <1>14 DEF TerminateBetween, Delivered, Born, Inherits, procvars
<1> QED BY <1>1, <1>2, <1>3, <1>4, <1>5, <1>6, <1>7, <1>8, <1>9, <1>10, <1>11, <1>12, <1>13, <1>14 DEF Invocation

\* The default action of SIGTERM, an exit, a fork.
LEMMA WorldStep ==
    ASSUME RunnerInv, NEW p \in Processes,
           (p \in {"host", "worker"} /\ DefaultAction(p)) \/ Exit(p) \/ Fork(p)
    PROVE  RunnerInv'
<1> USE TheTwoCalls DEF RunnerInv, RunnerTyped, RunnerPlaces, Lives, Births, Groups, Handled, Stopped,
                        Ended, Members, Stopping
<1>1. CASE p \in {"host", "worker"} /\ DefaultAction(p)
  BY <1>1 DEF DefaultAction, Delivered, callvars, Dead
<1>2. CASE Exit(p)
  BY <1>2 DEF Exit, Elsewhere, callvars, Dead
<1>3. CASE Fork(p)
  BY <1>3 DEF Fork, Elsewhere, callvars
<1> QED BY <1>1, <1>2, <1>3

LEMMA RunnerInvariance == RunnerSpec => []RunnerInv
<1>1. RunnerInit => RunnerInv
  BY TheTwoCalls DEF RunnerInit, RunnerInv, RunnerTyped, RunnerPlaces, Lives, Births, Groups, Handled,
               Stopped, Ended, Members, Stopping
<1>2. RunnerInv /\ [RunnerNext]_runnervars => RunnerInv'
  <2>1. RunnerInv /\ UNCHANGED runnervars => RunnerInv'
    BY DEF runnervars, callvars, procvars, RunnerInv, RunnerTyped, Births, Groups, Handled, Stopped,
           Ended, Members
  <2>2. RunnerInv /\ RunnerNext => RunnerInv'
    BY CallStep, WorldStep, TheTwoCalls DEF RunnerNext, Signal
  <2> QED BY <2>1, <2>2
<1> QED BY <1>1, <1>2, PTL DEF RunnerSpec

\* What a call owns is gone when it is over, however often SIGTERM hit its caller, wherever
\* the caller was by then, and whatever was forked meanwhile.
THEOREM OwnedIsGone == RunnerSpec => []Reclaimed
<1>1. RunnerInv => Reclaimed
  <2> SUFFICES ASSUME RunnerInv, NEW c \in Calls \ gap PROVE
        /\ runner_pc[c] = "done" /\ (primary[c] # "none" \/ (CleanupDescendants(c) /\ supervised)) =>
              \A p \in Owns(c) : proc[p] # "running"
        /\ Caller[c] \in termed => proc[Child[c]] # "running"
    BY DEF Reclaimed
  <2>1. CASE c = "outer"
    BY <2>1, TheTwoCalls DEF RunnerInv, Births, Groups, Stopped, Ended, Stopping, Members, Owns, Inherits,
                       CleanupDescendants
  <2>2. CASE c = "inner"
    BY <2>2, TheTwoCalls DEF RunnerInv, Births, Groups, Stopped, Ended, Stopping, Members, Owns, Inherits,
                       CleanupDescendants
  <2> QED BY <2>1, <2>2, TheTwoCalls
<1> QED BY <1>1, RunnerInvariance, PTL

\* No step of a call ends its own caller, whichever group it signals.
THEOREM NoSuicide == RunnerSpec => CallerSurvives
<1>1. RunnerInv /\ [RunnerNext]_runnervars =>
        [\A c \in Calls : runner_pc[c] # runner_pc'[c] => proc'[Caller[c]] = proc[Caller[c]]]_runnervars
  <2> SUFFICES ASSUME RunnerInv, RunnerNext, NEW d \in Calls, runner_pc[d] # runner_pc'[d]
               PROVE  proc'[Caller[d]] = proc[Caller[d]]
    OBVIOUS
  <2> USE TheTwoCalls DEF RunnerInv, RunnerTyped, Groups
  <2>1. ASSUME NEW c \in Calls, Invocation(c) PROVE proc'[Caller[d]] = proc[Caller[d]]
    <3>1. c = d
      BY <2>1 DEF Invocation, Install, Spawn, SpawnFails, Communicate, TimeoutExpired, StopTree, Drain,
                  DrainExpires, KillChild, WaitChild, ClosePipes, RestoreHandler, Step
    <3> QED BY <2>1, <3>1
          DEF Invocation, Install, Spawn, SpawnFails, Communicate, TimeoutExpired, StopTree, Drain,
              DrainExpires, KillChild, WaitChild, ClosePipes, RestoreHandler, Born, Dead, Members, procvars
  <2>2. ASSUME NEW c \in Calls, TerminateInvocation(c) \/ TerminateBetween(c)
        PROVE  proc'[Caller[d]] = proc[Caller[d]]
    <3>1. c = d
      BY <2>2 DEF TerminateInvocation, TerminateBetween
    <3> QED BY <2>2, <3>1 DEF TerminateInvocation, TerminateBetween, Born, procvars
  <2>3. ASSUME NEW p \in Processes, DefaultAction(p) \/ Exit(p) \/ Fork(p) PROVE FALSE
    BY <2>3 DEF DefaultAction, Exit, Fork, Elsewhere, callvars
  <2> QED BY <2>1, <2>2, <2>3 DEF RunnerNext, Signal
<1> QED BY <1>1, RunnerInvariance, PTL DEF RunnerSpec, CallerSurvives
=============================================================================
