------------------------------ MODULE RawZone ------------------------------
(***************************************************************************)
(* data_platform/raw: RawWriter puts one artifact file per run id into a   *)
(* partition directory and lists it in the partition's manifest, under the *)
(* partition's flock; RawReader lists the manifest; the health check of    *)
(* raw/health.py compares the two.  Writers die at any point: the flock    *)
(* goes with the process, the files stay.                                  *)
(*                                                                         *)
(* A writer is one call of write_arrow or write_json.  The content of an   *)
(* artifact, its row count included, is the writer that produced it.  A    *)
(* temporary file is invisible to the reader and to the check.             *)
(***************************************************************************)
EXTENDS FiniteSets

CONSTANTS
    Writers,        \* calls of the raw writer
    Parts,          \* partitions (dataset and date)
    Runs,           \* run ids
    NoWriter

ASSUME RawAssumption == NoWriter \notin Writers

VARIABLES
    files,          \* partition -> run id -> the writer of its artifact file
    manifest,       \* partition -> entries <<run id, writer>>
    flock,          \* partition -> holder of the lock
    wpc, wpart, wrun,   \* where a writer is, its partition and its run id
    wseen,          \* the entries a writer has read and is about to extend
    stranded        \* history: partitions where an artifact was left unlisted

rawVars == <<files, manifest, flock, wpc, wpart, wrun, wseen, stranded>>

WriterPhases == {"idle", "tmp", "locked", "linked", "merging", "done", "failed", "crashed"}

RawTypeOK ==
    /\ files \in [Parts -> [Runs -> Writers \cup {NoWriter}]]
    /\ manifest \in [Parts -> SUBSET (Runs \X Writers)]
    /\ flock \in [Parts -> Writers \cup {NoWriter}]
    /\ wpc \in [Writers -> WriterPhases]
    /\ wpart \in [Writers -> Parts]
    /\ wrun \in [Writers -> Runs]
    /\ wseen \in [Writers -> SUBSET (Runs \X Writers)]
    /\ stranded \in SUBSET Parts

RawInit ==
    /\ files = [q \in Parts |-> [r \in Runs |-> NoWriter]]
    /\ manifest = [q \in Parts |-> {}]
    /\ flock = [q \in Parts |-> NoWriter]
    /\ wpc = [w \in Writers |-> "idle"]
    /\ wpart \in [Writers -> Parts]
    /\ wrun \in [Writers -> Runs]
    /\ wseen = [w \in Writers |-> {}]
    /\ stranded = {}

WMove(w, phase) == wpc' = [wpc EXCEPT ![w] = phase]
Listed(q) == {e[1] : e \in manifest[q]}

-----------------------------------------------------------------------------
(* RawWriter._write_artifact                                               *)

\* The payload is written to a temporary file of its own.
StartWrite(w) ==
    /\ wpc[w] = "idle"
    /\ WMove(w, "tmp")
    /\ UNCHANGED <<files, manifest, flock, wpart, wrun, wseen, stranded>>

\* flock(LOCK_EX) returns once nobody holds the partition's lock.
MayEnter(w) == flock[wpart[w]] = NoWriter

EnterPartition(w) ==
    /\ wpc[w] = "tmp"
    /\ MayEnter(w)
    /\ flock' = [flock EXCEPT ![wpart[w]] = w]
    /\ WMove(w, "locked")
    /\ UNCHANGED <<files, manifest, wpart, wrun, wseen, stranded>>

Drop(w)  == wseen' = [wseen EXCEPT ![w] = {}]

\* Mutant: the lock stays with the writer.
Leave_Not(w) == UNCHANGED flock

\* The lock file is closed.
Leave(w) == flock' = [flock EXCEPT ![wpart[w]] = NoWriter]

\* Mutant: only the artifact file is looked at, and it is replaced.
RunIsTaken_Never(w) == FALSE

\* _raise_if_manifest_contains_run_id
RunIsTaken(w) == wrun[w] \in Listed(wpart[w])

\* _remove_unmanifested_run_artifacts clears what a dead writer of the same run
\* id has left; os.link then creates the artifact.
Materialize(w) ==
    /\ wpc[w] = "locked"
    /\ ~RunIsTaken(w)
    /\ files' = [files EXCEPT ![wpart[w]][wrun[w]] = w]
    /\ WMove(w, "linked")
    /\ UNCHANGED <<manifest, flock, wpart, wrun, wseen, stranded>>

\* RawArtifactExists, or a leftover that cannot be removed.
RefuseRun(w) ==
    /\ wpc[w] = "locked"
    /\ RunIsTaken(w) \/ files[wpart[w]][wrun[w]] # NoWriter
    /\ Leave(w)
    /\ WMove(w, "failed")
    /\ UNCHANGED <<files, manifest, wpart, wrun, wseen, stranded>>

\* _write_manifest reads the entries there are ...
ReadEntries(w) ==
    /\ wpc[w] = "linked"
    /\ wseen' = [wseen EXCEPT ![w] = manifest[wpart[w]]]
    /\ WMove(w, "merging")
    /\ UNCHANGED <<files, manifest, flock, wpart, wrun, stranded>>

\* ... and replaces the file by them and the new one.
CommitManifest(w) ==
    /\ wpc[w] = "merging"
    /\ manifest' = [manifest EXCEPT ![wpart[w]] = wseen[w] \cup {<<wrun[w], w>>}]
    /\ Leave(w)
    /\ WMove(w, "done")
    /\ Drop(w)
    /\ UNCHANGED <<files, wpart, wrun, stranded>>

\* The artifact is unlinked again; when that fails as well, only a note says so.
Undo(w) ==
    \/ /\ files' = [files EXCEPT ![wpart[w]][wrun[w]] = NoWriter]
       /\ UNCHANGED stranded
    \/ stranded' = stranded \cup {wpart[w]} /\ UNCHANGED files

ManifestFails(w) ==
    /\ wpc[w] \in {"linked", "merging"}
    /\ Undo(w)
    /\ Leave(w)
    /\ WMove(w, "failed")
    /\ Drop(w)
    /\ UNCHANGED <<manifest, wpart, wrun>>

\* The temporary file cannot be written.
TmpFails(w) ==
    /\ wpc[w] = "idle"
    /\ WMove(w, "failed")
    /\ UNCHANGED <<files, manifest, flock, wpart, wrun, wseen, stranded>>

WriterDies(w) ==
    /\ wpc[w] \in {"tmp", "locked", "linked", "merging"}
    /\ flock' = [q \in Parts |-> IF flock[q] = w THEN NoWriter ELSE flock[q]]
    /\ stranded' = IF wpc[w] \in {"linked", "merging"} THEN stranded \cup {wpart[w]} ELSE stranded
    /\ WMove(w, "crashed")
    /\ Drop(w)
    /\ UNCHANGED <<files, manifest, wpart, wrun>>

RawNext ==
    \E w \in Writers :
        \/ StartWrite(w) \/ EnterPartition(w) \/ Materialize(w) \/ RefuseRun(w)
        \/ ReadEntries(w) \/ CommitManifest(w) \/ ManifestFails(w) \/ TmpFails(w) \/ WriterDies(w)

RawSpec == RawInit /\ [][RawNext]_rawVars

-----------------------------------------------------------------------------
(* check_raw_zone on one partition: the manifest is parsed first, the      *)
(* directory is listed afterwards, and the writers' lock is not taken.     *)

DuplicateRunIds(entries) ==
    {e \in entries : \E f \in entries : f # e /\ f[1] = e[1]}

\* artifact_missing, or row_count_mismatch of the deep check.
BrokenEntries(q, entries) == {e \in entries : files[q][e[1]] # e[2]}

OrphanArtifacts(q, entries) ==
    {r \in Runs : files[q][r] # NoWriter} \ {e[1] : e \in entries}

HealthIssues(q, entries) ==
    DuplicateRunIds(entries) \cup BrokenEntries(q, entries) \cup OrphanArtifacts(q, entries)

-----------------------------------------------------------------------------
(* Properties                                                              *)

\* What the manifest lists is on disk, under the run id and with the content
\* of the writer that listed it, and no run id is listed twice: whatever
\* writers are interleaved, retried with the same run id, or die.
ManifestIsExact ==
    \A q \in Parts : DuplicateRunIds(manifest[q]) = {} /\ BrokenEntries(q, manifest[q]) = {}

\* An artifact that no manifest lists belongs to a writer that is about to list
\* it, unless a writer died (or failed twice) at that very point.
OrphansAreStranded ==
    \A q \in Parts : OrphanArtifacts(q, manifest[q]) # {} =>
        \/ q \in stranded
        \/ \E w \in Writers : wpc[w] \in {"linked", "merging"} /\ wpart[w] = q

\* Manifests and artifacts agree, whatever writers retry, overlap or die.
RawSafe == ManifestIsExact /\ OrphansAreStranded

\* Manifest entries are never dropped or replaced by a later write.
EntriesArePermanent == [][\A q \in Parts : manifest[q] \subseteq manifest'[q]]_rawVars

=============================================================================
