---------------------------- MODULE WeightBundle ----------------------------
(***************************************************************************)
(* scratchv/runtime/weight_bundle.py: write_weight_bundle publishes a      *)
(* bundle of weights in a new directory, validate_weight_bundle reads one. *)
(* One step per file operation.  Around them: power failures, and other    *)
(* processes that rewrite, replace or remove the files.                    *)
(*                                                                         *)
(* Files are inodes: names refer to them, and so does a reader that has    *)
(* one open.                                                               *)
(***************************************************************************)
EXTENDS BundleContents

VARIABLES
    \* the directory and its files
    entry,    \* [Names -> Inodes or 0]
    data,     \* [Inodes -> contents]
    synced,   \* inodes whose contents are on disk
    \* write_weight_bundle
    wpc,      \* its place, or how it ended
    file,     \* the weights file it has open
    k,        \* the tensor it writes
    hash,     \* the hashes of the bytes written so far
    \* validate_weight_bundle
    rpc,      \* its place, or how it ended
    r,        \* the tensor it reads
    open,     \* [manifest, weights -> the inode it looked at and opened]
    touched,  \* names whose fingerprint is no longer the one it took
    manifest, \* the manifest it read
    \* observations
    held,     \* contents of the bundles the directory has held since it began
    settled,  \* it began when a writer had returned, or a crash had left a whole bundle
    tampers   \* changes by other processes

fsvars     == <<entry, data, synced>>
writervars == <<wpc, file, k, hash>>
readervars == <<rpc, r, open, touched, manifest>>
bundlevars == <<fsvars, writervars, readervars, held, settled, tampers>>

Names  == {"weights", "pending", "manifest"}
Fixed  == {"weights", "manifest"}        \* the names a reader consumes
Inodes == 1 .. 7

-----------------------------------------------------------------------------
(* Files.                                                                  *)

InUse == {entry[n] : n \in Names} \cup {open[n] : n \in Fixed} \cup {file}
Fresh == CHOOSE f \in Inodes : f \notin InUse

\* A new file under a name.
Create(n, contents) ==
    /\ entry' = [entry EXCEPT ![n] = Fresh]
    /\ data' = [data EXCEPT ![Fresh] = contents]
    /\ synced' = synced \ {Fresh}

\* A change of a file shows in its change time, a new file in its inode.
Touch(files, names) ==
    touched' = touched \cup names \cup {n \in Fixed : open[n] \in files}

\* The directory holds this whole bundle.
Holds(c) ==
    /\ entry["weights"] # 0 /\ data[entry["weights"]] = c
    /\ entry["manifest"] # 0 /\ data[entry["manifest"]] = c

Observe == held' = held \cup {c \in Whole : Holds(c)'}

-----------------------------------------------------------------------------
(* write_weight_bundle.  Any step may fail instead.                        *)

Reader == UNCHANGED <<rpc, r, open, manifest, settled, tampers>>
Advance(from, to) == wpc = from /\ wpc' = to /\ Reader

WriteFails ==
    /\ wpc \in {"mkdir", "weights", "write", "sync", "pending", "sync pending", "link"}
    /\ wpc' = "raised"
    /\ UNCHANGED <<fsvars, file, k, hash, readervars, held, settled, tampers>>

\* mkdir(exist_ok=False): another directory there fails the call.
Mkdir ==
    /\ Advance("mkdir", "weights")
    /\ UNCHANGED <<fsvars, file, k, hash, touched, held>>

OpenWeights ==
    /\ Advance("weights", "write")
    /\ entry["weights"] = 0
    /\ Create("weights", Nothing) /\ file' = Fresh /\ Touch({}, {"weights"})
    /\ Observe /\ UNCHANGED <<k, hash>>

\* Mutation of WriteTensor: the bytes are not hashed.
WriteTensorUnhashed ==
    /\ Advance("write", IF k = Tensors THEN "sync" ELSE "write")
    /\ data' = [data EXCEPT ![file][k] = Source(k)]
    /\ synced' = synced \ {file}
    /\ Touch({file}, {})
    /\ k' = k+1
    /\ UNCHANGED <<hash, entry, file>> /\ Observe

\* Padding, bytes and hashes of one tensor.
WriteTensor ==
    /\ Advance("write", IF k = Tensors THEN "sync" ELSE "write")
    /\ data' = [data EXCEPT ![file][k] = Source(k)]
    /\ synced' = synced \ {file}
    /\ hash' = [hash EXCEPT ![k] = Source(k)]
    /\ Touch({file}, {})
    /\ k' = k+1
    /\ UNCHANGED <<entry, file>> /\ Observe

\* Mutation of SyncWeights: no fsync.
SyncWeightsSkipped ==
    /\ Advance("sync", "pending")
    /\ UNCHANGED <<fsvars, file, k, hash, touched, held>>

SyncWeights ==
    /\ Advance("sync", "pending")
    /\ synced' = synced \cup {file}
    /\ UNCHANGED <<entry, data, file, k, hash, touched, held>>

WritePending ==
    /\ Advance("pending", "sync pending")
    /\ entry["pending"] = 0
    /\ Create("pending", hash)
    /\ UNCHANGED <<file, k, hash, touched, held>>

SyncPending ==
    /\ Advance("sync pending", "link")
    /\ synced' = synced \cup {entry["pending"]}
    /\ UNCHANGED <<entry, data, file, k, hash, touched, held>>

\* os.link replaces nothing.
Link ==
    /\ Advance("link", "unlink")
    /\ entry["manifest"] = 0 /\ entry["pending"] # 0
    /\ entry' = [entry EXCEPT !["manifest"] = entry["pending"]]
    /\ Touch({entry["pending"]}, {"manifest"})
    /\ UNCHANGED <<data, synced, file, k, hash>> /\ Observe

\* Without the second name the file has a new change time; the unlink may fail.
Unlink ==
    /\ Advance("unlink", "returned")
    /\ \/ /\ entry' = [entry EXCEPT !["pending"] = 0]
          /\ Touch({entry["pending"]}, {})
       \/ UNCHANGED <<entry, touched>>
    /\ UNCHANGED <<data, synced, file, k, hash, held>>

-----------------------------------------------------------------------------
(* validate_weight_bundle.                                                 *)

Quiet    == UNCHANGED <<fsvars, writervars, settled, tampers>>
Read(from, to) == rpc = from /\ rpc' = to /\ Quiet /\ UNCHANGED held
Reject   == rpc' = "rejected" /\ UNCHANGED <<r, open, touched, manifest, held>> /\ Quiet

Validate ==
    /\ rpc \in {"idle", "accepted", "rejected"}
    /\ rpc' = "lstat manifest"
    /\ open' = [n \in Fixed |-> 0] /\ touched' = {} /\ r' = 1 /\ manifest' = Nothing
    /\ held' = {c \in Whole : Holds(c)}
    /\ settled' = (wpc = "returned" \/ (wpc = "crashed" /\ held' # {}))
    /\ UNCHANGED <<fsvars, writervars, tampers>>

\* _open_regular, in two steps: the name may change between lstat and open.
Lstat(n, from, to) ==
    /\ rpc = from
    /\ IF entry[n] = 0 THEN Reject
       ELSE /\ Read(from, to)
            /\ open' = [open EXCEPT ![n] = entry[n]]
            /\ touched' = touched \ {n}
            /\ UNCHANGED <<r, manifest>>

OpenRegular(n, from, to) ==
    /\ rpc = from
    /\ IF n \in touched THEN Reject
       ELSE Read(from, to) /\ UNCHANGED <<r, open, touched, manifest>>

\* Parsing refuses what is no whole manifest, and _validate_manifest one that
\* does not describe the expected tensors.
ReadManifest ==
    /\ rpc = "read manifest"
    /\ IF data[open["manifest"]] \notin Whole THEN Reject
       ELSE /\ Read("read manifest", "lstat weights")
            /\ manifest' = data[open["manifest"]]
            /\ UNCHANGED <<r, open, touched>>

\* A file of another length is refused, and a tensor whose hash differs.
ReadTensor ==
    /\ rpc = "read weights"
    /\ IF data[open["weights"]][r] # manifest[r] THEN Reject
       ELSE /\ Read("read weights", IF r = Tensors THEN "check weights" ELSE "read weights")
            /\ r' = r+1
            /\ UNCHANGED <<open, touched, manifest>>

\* Mutation of CheckUnchanged: the hashes alone decide.
CheckUnchangedSkipped(n, from, to) ==
    Read(from, to) /\ UNCHANGED <<r, open, touched, manifest>>

\* _check_unchanged: the open file and the name still have the fingerprint.
CheckUnchanged(n, from, to) ==
    /\ rpc = from
    /\ IF n \in touched THEN Reject
       ELSE Read(from, to) /\ UNCHANGED <<r, open, touched, manifest>>

-----------------------------------------------------------------------------
(* The world.                                                              *)

Others == UNCHANGED <<writervars, rpc, r, open, manifest, settled>>

\* In place, through the name.
Rewrite(n) ==
    /\ tampers < MaxTampers /\ tampers' = tampers+1
    /\ entry[n] # 0
    /\ \E t \in 1 .. Tensors, b \in Bytes \cup {Cut} :
          data' = [data EXCEPT ![entry[n]][t] = b]
    /\ synced' = synced \ {entry[n]}
    /\ Touch({entry[n]}, {})
    /\ UNCHANGED entry /\ Observe /\ Others

Replace(n) ==
    /\ tampers < MaxTampers /\ tampers' = tampers+1
    /\ entry["weights"] # 0
    /\ \E c \in Whole : Create(n, c)
    /\ Touch({}, {n}) /\ Observe
    /\ Others

Remove(n) ==
    /\ tampers < MaxTampers /\ tampers' = tampers+1
    /\ entry[n] # 0
    /\ entry' = [entry EXCEPT ![n] = 0]
    /\ Touch({entry[n]}, {n})
    /\ UNCHANGED <<data, synced>> /\ Observe /\ Others

\* Names are never synced: each survives or not.  Of bytes that were not synced
\* anything may be left.
Crash ==
    /\ wpc # "crashed"
    /\ wpc' = "crashed" /\ file' = 0
    /\ \E kept \in SUBSET Names : entry' = [n \in Names |-> IF n \in kept THEN entry[n] ELSE 0]
    /\ \E lost \in SUBSET (InUse \ (synced \cup {0})) :
          data' = [f \in Inodes |-> IF f \in lost THEN Nothing ELSE data[f]]
    /\ rpc' = "idle" /\ open' = [n \in Fixed |-> 0] /\ touched' = {}
    /\ r' = 1 /\ manifest' = Nothing /\ held' = {} /\ settled' = FALSE
    /\ UNCHANGED <<synced, k, hash, tampers>>

-----------------------------------------------------------------------------
BundleInit ==
    /\ entry = [n \in Names |-> 0]
    /\ data = [f \in Inodes |-> Nothing]
    /\ synced = {}
    /\ wpc = "mkdir" /\ file = 0 /\ k = 1 /\ hash = Nothing
    /\ rpc = "idle" /\ r = 1 /\ open = [n \in Fixed |-> 0]
    /\ touched = {} /\ manifest = Nothing
    /\ held = {} /\ settled = FALSE /\ tampers = 0

Writer ==
    \/ WriteFails \/ Mkdir \/ OpenWeights \/ WriteTensor \/ SyncWeights
    \/ WritePending \/ SyncPending \/ Link \/ Unlink

Validator ==
    \/ Validate
    \/ Lstat("manifest", "lstat manifest", "open manifest")
    \/ OpenRegular("manifest", "open manifest", "read manifest")
    \/ ReadManifest
    \/ Lstat("weights", "lstat weights", "open weights")
    \/ OpenRegular("weights", "open weights", "read weights")
    \/ ReadTensor
    \/ CheckUnchanged("weights", "check weights", "check manifest")
    \/ CheckUnchanged("manifest", "check manifest", "accepted")

World == Crash \/ \E n \in Fixed : Rewrite(n) \/ Replace(n) \/ Remove(n)

BundleNext == Writer \/ Validator \/ World
BundleSpec == BundleInit /\ [][BundleNext]_bundlevars
-----------------------------------------------------------------------------
(* Properties.                                                             *)

\* "Publish only after durable tensor and manifest writes": whatever a power
\* failure leaves, a manifest.json that this writer published is whole, and so
\* are the weights beside it; and a call that raised has published none.
PublishedWhole ==
    tampers = 0 =>
        /\ entry["manifest"] # 0 =>
              /\ data[entry["manifest"]] \in Whole
              /\ entry["weights"] # 0 => data[entry["weights"]] = data[entry["manifest"]]
        /\ wpc = "raised" => entry["manifest"] = 0

\* A bundle that is accepted is one that the directory held, manifest and weights
\* together, at some moment of the call, whatever other processes do to the files
\* while they are read one after another.
AcceptedWasThere == rpc = "accepted" => manifest \in held

\* What a writer that has returned leaves is accepted, and so is a whole bundle that
\* a power failure leaves, as long as nobody touches the files.
RejectedForCause == rpc = "rejected" /\ settled => tampers # 0

=============================================================================
