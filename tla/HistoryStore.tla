---------------------------- MODULE HistoryStore ----------------------------
(***************************************************************************)
(* mvp20/history.py: the collector appends every batch to the Parquet file *)
(* of the current minute, a daily job (scripts/compact_history.py) merges  *)
(* the minute files of a date into one daily file and deletes them, and    *)
(* the server reads both trees.                                            *)
(*                                                                         *)
(* A batch is one row id.  A file is the set of ids in it; a torn file is  *)
(* one whose in-place rewrite has not finished, which no Parquet reader    *)
(* opens.  DuckDB's COPY replaces its target in one step.                  *)
(***************************************************************************)
EXTENDS Naturals, FiniteSets

CONSTANTS
    Dates,          \* dates, naturals from 1
    Minutes,        \* minutes of a date
    MaxRows         \* bound: batches appended

ASSUME HistoryAssumption ==
    /\ Dates \subseteq Nat \ {0} /\ IsFiniteSet(Dates)
    /\ IsFiniteSet(Minutes)
    /\ MaxRows \in Nat

VARIABLES
    today,          \* the current UTC date
    minute,         \* minute/: <<date, minute>> -> readable rows ({}: no file or torn)
    torn,           \* minute/: files being rewritten, or left half-written
    daily,          \* daily_compact/: date -> rows ({}: no file)
    nextId,         \* ids handed out
    dateOf,         \* history: id -> date of the file it was appended to (0: none)
    appended,       \* history: ids whose append returned
    apc, afile, arows,      \* the append in progress: its file and new content
    cpc, cdate, cdelete, ctodo,  \* the compaction: its date, --keep-source, files left
    recompacted,    \* history: dates whose daily file was overwritten
    early,          \* history: dates compacted before they were over
    broken,         \* history: ids in a file whose rewrite was interrupted
    overtaken       \* history: ids whose append was under way when its date was copied

appendVars  == <<apc, afile, arows>>
compactVars == <<cpc, cdate, cdelete, ctodo>>
histVars    == <<recompacted, early, broken, overtaken>>
vars == <<today, minute, torn, daily, nextId, dateOf, appended, appendVars,
          compactVars, histVars>>

Ids   == 1..MaxRows
Files == Dates \X Minutes
NoFile == <<0, 0>>

TypeOK ==
    /\ today \in Dates
    /\ minute \in [Files -> SUBSET Ids]
    /\ torn \in SUBSET Files
    /\ daily \in [Dates -> SUBSET Ids]
    /\ nextId \in 1..(MaxRows + 1)
    /\ dateOf \in [Ids -> Dates \cup {0}]
    /\ appended \in SUBSET Ids
    /\ apc \in {"idle", "keyed", "exists", "read", "writing"}
    /\ afile \in Files \cup {NoFile} /\ arows \in SUBSET Ids
    /\ cpc \in {"idle", "copying", "deleting"}
    /\ cdate \in Dates \cup {0} /\ cdelete \in BOOLEAN /\ ctodo \in SUBSET Files
    /\ recompacted \in SUBSET Dates /\ early \in SUBSET Dates
    /\ broken \in SUBSET Ids /\ overtaken \in SUBSET Ids
    /\ apc = "idle" <=> afile = NoFile
    /\ cpc = "idle" <=> cdate = 0
    /\ ctodo \subseteq {cdate} \X Minutes

Init ==
    /\ today \in {d \in Dates : \A e \in Dates : d <= e}
    /\ minute = [f \in Files |-> {}]
    /\ torn = {}
    /\ daily = [d \in Dates |-> {}]
    /\ nextId = 1
    /\ dateOf = [i \in Ids |-> 0]
    /\ appended = {}
    /\ apc = "idle" /\ afile = NoFile /\ arows = {}
    /\ cpc = "idle" /\ cdate = 0 /\ cdelete = FALSE /\ ctodo = {}
    /\ recompacted = {} /\ early = {} /\ broken = {} /\ overtaken = {}

Midnight ==
    /\ today + 1 \in Dates
    /\ today' = today + 1
    /\ UNCHANGED <<minute, torn, daily, nextId, dateOf, appended, appendVars,
                   compactVars, histVars>>

Exists(f) == minute[f] # {} \/ f \in torn
FilesOf(d) == {f \in Files : f[1] = d /\ Exists(f)}
RowsOf(files) == UNION {minute[f] : f \in files}

-----------------------------------------------------------------------------
(* append_minute_parquet                                                   *)

\* The batch in hand is the one numbered last.
Own == nextId - 1

EndAppend == apc' = "idle" /\ afile' = NoFile /\ arows' = {}

\* The current minute names the file.
AppendKey(m) ==
    /\ apc = "idle"
    /\ nextId <= MaxRows
    /\ apc' = "keyed"
    /\ afile' = <<today, m>>
    /\ arows' = {nextId}
    /\ nextId' = nextId + 1
    /\ dateOf' = [dateOf EXCEPT ![nextId] = today]
    /\ UNCHANGED <<today, minute, torn, daily, appended, compactVars, histVars>>

\* With a file of that name its rows are read next, else it is written anew.
AppendExists ==
    /\ apc = "keyed"
    /\ apc' = IF Exists(afile) THEN "exists" ELSE "read"
    /\ UNCHANGED <<today, minute, torn, daily, nextId, dateOf, appended, afile, arows,
                   compactVars, histVars>>

Readable(f) == Exists(f) /\ f \notin torn

AppendRead ==
    /\ apc = "exists"
    /\ Readable(afile)
    /\ apc' = "read"
    /\ arows' = arows \cup minute[afile]
    /\ UNCHANGED <<today, minute, torn, daily, nextId, dateOf, appended, afile,
                   compactVars, histVars>>

\* Reading a half-written file, or one that was deleted meanwhile, raises; the
\* collector logs it and goes on without the batch.
AppendRefused ==
    /\ apc = "exists"
    /\ ~Readable(afile)
    /\ EndAppend
    /\ UNCHANGED <<today, minute, torn, daily, nextId, dateOf, appended, compactVars, histVars>>

\* The writer opens the file, which empties it or makes it again.
AppendOpen ==
    /\ apc = "read"
    /\ apc' = "writing"
    /\ minute' = [minute EXCEPT ![afile] = {}]
    /\ torn' = torn \cup {afile}
    /\ UNCHANGED <<today, daily, nextId, dateOf, appended, afile, arows, compactVars, histVars>>

\* The rewrite is complete, unless the file was deleted under the writer.
AppendEnd ==
    /\ apc = "writing"
    /\ minute' = IF afile \in torn THEN [minute EXCEPT ![afile] = arows] ELSE minute
    /\ torn' = torn \ {afile}
    /\ appended' = appended \cup arows
    /\ EndAppend
    /\ UNCHANGED <<today, daily, nextId, dateOf, compactVars, histVars>>

\* The collector dies; only a rewrite that has begun leaves a trace.
AppendCrash ==
    /\ apc # "idle"
    /\ broken' = IF apc = "writing" THEN broken \cup arows ELSE broken
    /\ EndAppend
    /\ UNCHANGED <<today, minute, torn, daily, nextId, dateOf, appended, compactVars,
                   recompacted, early, overtaken>>

-----------------------------------------------------------------------------
(* compact_date                                                            *)

\* With no source file the job returns None.
CompactNothing(d) ==
    /\ cpc = "idle"
    /\ d <= today
    /\ FilesOf(d) = {}
    /\ UNCHANGED vars

CompactBegin(d, delete) ==
    /\ cpc = "idle"
    /\ d <= today
    /\ FilesOf(d) # {}
    /\ cpc' = "copying"
    /\ cdate' = d
    /\ cdelete' = delete
    /\ ctodo' = FilesOf(d)
    /\ early' = IF d = today THEN early \cup {d} ELSE early
    /\ UNCHANGED <<today, minute, torn, daily, nextId, dateOf, appended, appendVars,
                   recompacted, broken, overtaken>>

EndCompaction == cpc' = "idle" /\ cdate' = 0 /\ cdelete' = FALSE /\ ctodo' = {}

\* COPY raises on a file no reader can open.
CopySucceeds == FilesOf(cdate) \cap torn = {}

\* COPY reads whatever matches the pattern now, and overwrites the daily file.
\* A batch whose file was named on that date before midnight may still be on
\* its way there.
CompactCopy ==
    /\ cpc = "copying"
    /\ CopySucceeds
    /\ daily' = [daily EXCEPT ![cdate] = RowsOf(FilesOf(cdate))]
    /\ recompacted' = IF daily[cdate] # {} THEN recompacted \cup {cdate} ELSE recompacted
    /\ overtaken' = IF apc # "idle" /\ afile[1] = cdate THEN overtaken \cup {Own} ELSE overtaken
    /\ IF cdelete
       THEN cpc' = "deleting" /\ UNCHANGED <<cdate, cdelete, ctodo>>
       ELSE EndCompaction
    /\ UNCHANGED <<today, minute, torn, nextId, dateOf, appended, appendVars, early, broken>>

\* COPY meets a torn file and raises; nothing is deleted.
CompactFails ==
    /\ cpc = "copying"
    /\ ~CopySucceeds
    /\ EndCompaction
    /\ UNCHANGED <<today, minute, torn, daily, nextId, dateOf, appended, appendVars, histVars>>

\* Mutant: the files are deleted while the copy is still to come.
MayUnlink_BeforeCopy == cpc \in {"copying", "deleting"} /\ cdelete

\* unlink runs once the copy is complete.
MayUnlink == cpc = "deleting"

CompactUnlink(f) ==
    /\ MayUnlink
    /\ f \in ctodo
    /\ minute' = [minute EXCEPT ![f] = {}]
    /\ torn' = torn \ {f}
    /\ ctodo' = ctodo \ {f}
    /\ UNCHANGED <<today, daily, nextId, dateOf, appended, appendVars, cpc, cdate, cdelete,
                   histVars>>

CompactEnd ==
    /\ cpc = "deleting"
    /\ ctodo = {}
    /\ EndCompaction
    /\ UNCHANGED <<today, minute, torn, daily, nextId, dateOf, appended, appendVars, histVars>>

\* The job dies between two steps.
CompactCrash ==
    /\ cpc # "idle"
    /\ EndCompaction
    /\ UNCHANGED <<today, minute, torn, daily, nextId, dateOf, appended, appendVars, histVars>>

Next ==
    \/ Midnight
    \/ \E m \in Minutes : AppendKey(m)
    \/ AppendExists \/ AppendRead \/ AppendRefused \/ AppendOpen
    \/ AppendEnd
    \/ AppendCrash
    \/ \E d \in Dates : CompactNothing(d)
    \/ \E d \in Dates, delete \in BOOLEAN : CompactBegin(d, delete)
    \/ CompactCopy
    \/ CompactFails
    \/ \E f \in Files : CompactUnlink(f)
    \/ CompactEnd
    \/ CompactCrash

Spec == Init /\ [][Next]_vars

-----------------------------------------------------------------------------
\* query_history: UNION ALL over both trees, so a row is returned once for
\* every file that holds it (and the query raises while some file is torn).
Copies(i) == Cardinality({f \in Files : i \in minute[f]})
             + Cardinality({d \in Dates : i \in daily[d]})

Stored == {i \in Ids : Copies(i) > 0}

-----------------------------------------------------------------------------
(* Properties                                                              *)

\* A batch whose append returned stays in a file whatever the compaction job
\* and its crashes do, except in the four ways the code leaves open: a daily
\* file written a second time, the current date compacted, a rewrite of the
\* row's minute file interrupted, or an append, its file named before midnight,
\* that was not over when its date was copied.
LossExplained ==
    \A i \in appended :
        \/ i \in Stored
        \/ apc = "writing" /\ i \in arows
        \/ i \in broken \cup overtaken
        \/ dateOf[i] \in recompacted \cup early

\* What the job is about to delete: a file of a date that was over has no row
\* that the daily file lacks, but for a batch that was on its way when the date
\* was copied.
MinuteFilesCarriedOver ==
    cpc = "deleting" /\ cdate \notin early =>
        RowsOf(ctodo) \subseteq daily[cdate] \cup overtaken

\* Whatever crashes: rows leave the archive only in the ways LossExplained lists,
\* and minute files are deleted only once the daily file has their rows or
\* nobody could wait for them.
ArchiveSafe == LossExplained /\ MinuteFilesCarriedOver

\* compact_history.py:8 says "Idempotent: if already compacted, returns 0
\* without re-compacting": a second run of the job loses no row of the date.
RerunKeepsRows ==
    [][\A d \in Dates : d < today => daily[d] \subseteq daily'[d] \cup RowsOf(FilesOf(d))']_vars

\* history.py:101 says the query scans both trees and "dedupes by updated_at".
QueryDeduplicates == \A i \in Ids : Copies(i) <= 1

=============================================================================
