--------------------------- MODULE WeightTransport ---------------------------
(***************************************************************************)
(* scratchv/runtime/weight_transport.py: the private copies of a weight    *)
(* bundle that QEMU's raw loader reads.  One step per file operation, so   *)
(* that other processes may change, replace or delete files in between,    *)
(* and every operation may fail.  ExternalRun calls stage_transport,       *)
(* validate_transport, remove_transport and refresh_transport_residuals.   *)
(*                                                                         *)
(* Bytes are "good" (the manifest's) or "bad"; "part" is a copy cut short. *)
(* A file's identity matters only as: created by this stage, or not.       *)
(***************************************************************************)
EXTENDS Integers, FiniteSets

CONSTANT Chunks      \* number of transport files of the bundle
ASSUME ChunksAssumption == Chunks \in Nat

VARIABLES
    tpc,      \* the running operation's next step, or how it ended
    i,        \* the transport file the loop is at
    source,   \* bytes of weights.bin: "good" or "bad"
    disk,     \* [1..Chunks -> Absent or a file [own, data]]
    created,  \* rows with created = True
    known,    \* rows with a file_identity
    wt,       \* report["weight_transport"]: status, stage, retained, and unsure:
              \* retained_observation_errors is not empty
    saved,    \* the status and retained of transport.json
    unlinked  \* files removed by remove_transport

tvars == <<tpc, i, source, disk, created, known, wt, saved, unlinked>>

Files   == 1 .. Chunks
Absent  == [own |-> FALSE, data |-> "none"]
Copy(d) == [own |-> TRUE, data |-> d]
Foreign(d) == [own |-> FALSE, data |-> d]
NotSaved == [status |-> "none", retained |-> "none"]

Report(status, stage) == wt' = [wt EXCEPT !.status = status, !.stage = stage]

\* The operation's except clause: FAIL, then its finally clause.
Abort == Report("FAIL", wt.stage) /\ tpc' = "observe"

-----------------------------------------------------------------------------
(* stage_transport.                                                        *)

Stage ==
    /\ tpc = "idle"
    /\ tpc' = "mkdir"
    /\ wt' = [status |-> "FAIL", stage |-> "prepare", retained |-> "no", unsure |-> FALSE]
    /\ UNCHANGED <<i, source, disk, created, known, saved, unlinked>>

\* Without a directory of its own the stage leaves nothing to report.
Mkdir ==
    /\ tpc = "mkdir"
    /\ \/ /\ tpc' = IF Chunks = 0 THEN "compare" ELSE "open"
          /\ i' = 1 /\ Report("FAIL", "copy")
       \/ tpc' = "raised" /\ UNCHANGED <<i, wt>>
    /\ UNCHANGED <<source, disk, created, known, saved, unlinked>>

\* open("xb"): exclusive, so a file that is already there fails the stage.
OpenCopy ==
    /\ tpc = "open"
    /\ \/ /\ disk[i] = Absent
          /\ disk' = [disk EXCEPT ![i] = Copy("part")]
          /\ tpc' = "mark" /\ UNCHANGED wt
       \/ Abort /\ UNCHANGED disk
    /\ UNCHANGED <<i, source, created, known, saved, unlinked>>

\* The row is marked only now: no error of its own, but a signal, may come between.
MarkCreated ==
    /\ tpc = "mark" /\ tpc' = "fstat"
    /\ created' = created \cup {i}
    /\ UNCHANGED <<i, source, disk, known, wt, saved, unlinked>>

Identify ==
    /\ tpc = "fstat"
    /\ \/ known' = known \cup {i} /\ tpc' = "write" /\ UNCHANGED wt
       \/ Abort /\ UNCHANGED known
    /\ UNCHANGED <<i, source, disk, created, saved, unlinked>>

\* The bytes read now are written and synced, and hashed as they pass; writing
\* goes to the open file, whatever has become of its name.
WriteCopy ==
    /\ tpc = "write"
    /\ \/ /\ disk' = IF disk[i].own THEN [disk EXCEPT ![i] = Copy(source)] ELSE disk
          /\ i' = IF i = Chunks THEN i ELSE i+1
          /\ tpc' = IF i = Chunks THEN "compare" ELSE "open"
          /\ UNCHANGED wt
       \/ Abort /\ UNCHANGED <<disk, i>>
    /\ UNCHANGED <<source, created, known, saved, unlinked>>

\* _check_unchanged and the whole hash: bytes of a changed source are caught
\* here whenever they were read.
Compare ==
    /\ tpc = "compare"
    /\ \/ /\ source = "good"
          /\ tpc' = "validate" /\ i' = 1 /\ Report("FAIL", "validate")
       \/ Abort /\ UNCHANGED i
    /\ UNCHANGED <<source, disk, created, known, saved, unlinked>>

-----------------------------------------------------------------------------
(* validate_transport, as the end of the stage and as the postcheck.       *)

\* Content is compared, not identity; a link is refused, and so may be a file
\* that took the copy's place.
Readable(f) == disk[f] # Absent /\ disk[f].data = "good"

Validated == i = Chunks+1

StageValidate ==
    /\ tpc = "validate"
    /\ \/ ~Validated /\ Readable(i) /\ i' = i+1 /\ UNCHANGED <<tpc, wt>>
       \/ Validated /\ Report("PASS", "ready") /\ tpc' = "observe" /\ UNCHANGED i
       \/ Abort /\ UNCHANGED i
    /\ UNCHANGED <<source, disk, created, known, saved, unlinked>>

Postcheck ==
    /\ tpc = "idle"
    /\ tpc' = "postcheck" /\ i' = 1
    /\ UNCHANGED <<source, disk, created, known, wt, saved, unlinked>>

PostValidate ==
    /\ tpc = "postcheck"
    /\ \/ ~Validated /\ Readable(i) /\ i' = i+1 /\ UNCHANGED tpc
       \/ Validated /\ tpc' = "returned" /\ UNCHANGED i
       \/ tpc' = "raised" /\ UNCHANGED i
    /\ UNCHANGED <<source, disk, created, known, wt, saved, unlinked>>

-----------------------------------------------------------------------------
(* remove_transport.                                                       *)

\* _owned_stat accepts exactly the files this stage created and identified.
Owned(f) == f \in created \cap known /\ disk[f].own

\* Every path is inspected before any is deleted.
Remove ==
    /\ tpc = "idle"
    /\ \/ (\A f \in Files : Owned(f)) /\ tpc' = "unlink" /\ i' = 1 /\ UNCHANGED wt
       \/ Report("FAIL", "cleanup") /\ tpc' = "observe" /\ UNCHANGED i
    /\ UNCHANGED <<source, disk, created, known, saved, unlinked>>

\* Each file is inspected again and unlinked; after a failure the others are
\* still tried.
Unlink ==
    /\ tpc = "unlink" /\ ~Validated
    /\ \/ /\ Owned(i)
          /\ disk' = [disk EXCEPT ![i] = Absent]
          /\ unlinked' = unlinked \cup {i} /\ UNCHANGED wt
       \/ Report("FAIL", "cleanup") /\ UNCHANGED <<disk, unlinked>>
    /\ i' = i+1
    /\ UNCHANGED <<tpc, source, created, known, saved>>

Removed ==
    /\ tpc = "unlink" /\ Validated
    /\ tpc' = "observe"
    /\ IF wt.stage = "cleanup" THEN UNCHANGED wt ELSE Report(wt.status, "copies_removed")
    /\ UNCHANGED <<i, source, disk, created, known, saved, unlinked>>

-----------------------------------------------------------------------------
(* _observe_retained and _finish_report.                                   *)

\* A created file is gone, still there, or cannot be told: replaced, not
\* identified, or lstat failed; 0 stands for the directory, without which no
\* file can be told.
Uncertain(failed) == {f \in created : disk[f] # Absent /\ ~Owned(f)} \cup failed
\* Mutation of Retained: what cannot be told is reported as gone.
RetainedUnknownAsNo(unsure) ==
    IF \E f \in created \ unsure : disk[f].own THEN "yes" ELSE "no"

Retained(unsure) ==
    IF \E f \in created \ unsure : disk[f].own THEN "yes"
    ELSE IF unsure # {} THEN "unknown" ELSE "no"

Observe(next) ==
    \E failed \in SUBSET created \cup {created \cup {0}} :
        LET unsure == Uncertain(failed) IN
        /\ wt' = [wt EXCEPT !.retained = Retained(unsure),
                            !.unsure = (unsure # {}),
                            !.status = IF unsure = {} THEN @ ELSE "FAIL"]
        /\ tpc' = next
        /\ UNCHANGED <<i, source, disk, created, known, saved, unlinked>>

FinishObserve == tpc = "observe" /\ Observe("save")

\* save_transport_report replaces transport.json, or fails and leaves it.
FinishSave ==
    /\ tpc = "save"
    /\ \/ /\ saved' = [status |-> wt.status, retained |-> wt.retained]
          /\ tpc' = IF wt.status = "PASS" THEN "returned" ELSE "raised"
          /\ UNCHANGED wt
       \/ /\ Report("FAIL", wt.stage)
          /\ tpc' = "raised" /\ UNCHANGED saved
    /\ UNCHANGED <<i, source, disk, created, known, unlinked>>

-----------------------------------------------------------------------------
(* Other processes.  Good bytes that went bad do not become good again.    *)

Tamper(f) ==
    /\ disk[f].data = "good"
    /\ disk' = [disk EXCEPT ![f].data = "bad"]
    /\ UNCHANGED <<tpc, i, source, created, known, wt, saved, unlinked>>

Replace(f) ==
    /\ disk[f].own \/ disk[f] = Absent
    /\ \E d \in {"good", "bad"} :
          /\ d = "good" => disk[f].data = "good"
          /\ disk' = [disk EXCEPT ![f] = Foreign(d)]
    /\ UNCHANGED <<tpc, i, source, created, known, wt, saved, unlinked>>

Lose(f) ==
    /\ disk[f] # Absent
    /\ disk' = [disk EXCEPT ![f] = Absent]
    /\ UNCHANGED <<tpc, i, source, created, known, wt, saved, unlinked>>

Corrupt ==
    /\ source = "good"
    /\ source' = "bad"
    /\ UNCHANGED <<tpc, i, disk, created, known, wt, saved, unlinked>>

Others == Corrupt \/ \E f \in Files : Tamper(f) \/ Replace(f) \/ Lose(f)

TInit ==
    /\ tpc = "idle" /\ i = 1
    /\ source = "good"
    /\ disk = [f \in Files |-> Absent]
    /\ created = {} /\ known = {} /\ unlinked = {}
    /\ wt = [status |-> "none", stage |-> "none", retained |-> "none", unsure |-> FALSE]
    /\ saved = NotSaved

TStep ==
    \/ Mkdir \/ OpenCopy \/ MarkCreated \/ Identify \/ WriteCopy \/ Compare
    \/ StageValidate \/ PostValidate \/ Unlink \/ Removed \/ FinishObserve \/ FinishSave
=============================================================================
