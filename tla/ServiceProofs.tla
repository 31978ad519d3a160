--------------------------- MODULE ServiceProofs ----------------------------
(***************************************************************************)
(* Proofs about the processes beside the stores. HistoryStore: an appended *)
(* batch is lost only in the ways LossExplained lists and the job deletes  *)
(* only what it has copied, for any dates, minutes and numbers of batches. *)
(* CollectorSupervisor: as long as nobody disturbs them, commands leave    *)
(* one loop with one collector, or none, for any number of commands.       *)
(* ReasonerRuntime: the decision, the order of the calls and what the      *)
(* callbacks heard agree with what happened, for any profiles and retries. *)
(***************************************************************************)
EXTENDS HistoryStore, CollectorSupervisor, ReasonerRuntime, FiniteSetTheorems, WellFoundedInduction, TLAPS

\* Rows are filed under their date.
DateInv ==
    /\ \A f \in Files : \A i \in minute[f] : dateOf[i] = f[1]
    /\ \A d \in Dates : \A i \in daily[d] : dateOf[i] = d
    /\ \A i \in arows : dateOf[i] = afile[1]

\* An id that was not handed out is nowhere; a batch that is not being written
\* yet is in no minute file.
FreshInv ==
    /\ \A i \in Ids : i >= nextId =>
           /\ \A f \in Files : i \notin minute[f]
           /\ \A d \in Dates : i \notin daily[d]
           /\ i \notin arows /\ i \notin appended
    /\ apc \in {"keyed", "exists", "read"} => \A f \in Files : Own \notin minute[f]

\* A row that a daily file has, or that one of the accidents befell.
Settled(i) ==
    \/ \E d \in Dates : i \in daily[d]
    \/ i \in overtaken
    \/ dateOf[i] \in recompacted \cup early

\* A torn file is unreadable. Until it writes, an append has its own batch and
\* the rows of its file, unless the file was deleted since; so was the file of
\* a writer when it is not torn.
WriterInv ==
    /\ \A f \in torn : minute[f] = {}
    /\ apc = "idle" => arows = {}
    /\ apc # "idle" => afile \in Files /\ nextId > 1 /\ Own \in arows
    /\ apc \in {"keyed", "exists"} => arows = {Own}
    /\ apc = "read" =>
         /\ afile \notin torn
         /\ \/ minute[afile] = arows \ {Own}
            \/ minute[afile] = {} /\ \A i \in arows \ {Own} : Settled(i)
    /\ apc = "writing" =>
         /\ minute[afile] = {}
         /\ afile \notin torn => \A i \in arows : Settled(i)

\* A compaction of a date that was over.
Past == cpc # "idle" /\ cdate \notin early

\* The date stays over; the files to delete are there, and what is being
\* written to one of them is in the daily file or was on its way at the copy.
JobInv ==
    /\ Past => cdate < today
    /\ \A f \in ctodo : Exists(f)
    /\ Past /\ cpc = "deleting" /\ apc # "idle" /\ afile[1] = cdate => Own \in overtaken
    /\ Past /\ cpc = "deleting" /\ apc = "writing" /\ afile \in ctodo =>
         arows \subseteq daily[cdate] \cup overtaken

ArchiveInv ==
    /\ TypeOK
    /\ DateInv
    /\ FreshInv
    /\ WriterInv
    /\ JobInv
    /\ MinuteFilesCarriedOver
    /\ LossExplained

-----------------------------------------------------------------------------
(* What it means to be stored                                              *)

InStore(i) == (\E f \in Files : i \in minute[f]) \/ (\E d \in Dates : i \in daily[d])

\* There are finitely many minute files.
LEMMA FilesFinite == IsFiniteSet(Files)
  BY HistoryAssumption, FS_Product DEF Files

\* An id is stored when a minute file or a daily file has it.
LEMMA StoredMeans ==
  ASSUME NEW i \in Ids
  PROVE  i \in Stored <=> InStore(i)
  <1> DEFINE M == {f \in Files : i \in minute[f]}
             D == {d \in Dates : i \in daily[d]}
  <1>1. IsFiniteSet(M) /\ IsFiniteSet(D)
    <2>1. M \in SUBSET Files /\ D \in SUBSET Dates
      OBVIOUS
    <2> QED
      BY <2>1, FilesFinite, FS_Subset, HistoryAssumption
  <1>2. /\ Cardinality(M) \in Nat /\ Cardinality(D) \in Nat
        /\ Cardinality(M) = 0 <=> M = {}
        /\ Cardinality(D) = 0 <=> D = {}
    <2> HIDE DEF M, D
    <2> QED
      BY <1>1, FS_CardinalityType, FS_EmptySet
  <1>3. Copies(i) = Cardinality(M) + Cardinality(D)
    BY DEF Copies
  <1>4. Copies(i) > 0 <=> M # {} \/ D # {}
    <2> HIDE DEF M, D
    <2> QED
      BY <1>2, <1>3
  <1>5. InStore(i) <=> M # {} \/ D # {}
    BY DEF InStore
  <1>6. i \in Stored <=> Copies(i) > 0
    BY DEF Stored
  <1> QED
    BY <1>4, <1>5, <1>6

\* LossExplained with the files in place of the query's count.
Explained(i) ==
    \/ InStore(i)
    \/ apc = "writing" /\ i \in arows
    \/ i \in broken \cup overtaken
    \/ dateOf[i] \in recompacted \cup early

\* LossExplained, id by id.
LEMMA LossMeans == TypeOK => (LossExplained <=> \A i \in appended : Explained(i))
  BY StoredMeans DEF LossExplained, Explained, TypeOK

-----------------------------------------------------------------------------
(* Types                                                                   *)

\* The placeholders for no file and no date name none.
LEMMA NoFileIsNone == NoFile \notin Files /\ 0 \notin Dates
  BY HistoryAssumption DEF NoFile, Files

\* Init establishes ArchiveInv.
LEMMA InitInv ==
  ASSUME Init
  PROVE  ArchiveInv
  <1> USE NoFileIsNone, HistoryAssumption DEF Init
  <1>1. cdelete \in BOOLEAN
    BY Zenon
  <1>2. TypeOK
    BY <1>1 DEF TypeOK, Ids
  <1>3. DateInv /\ FreshInv /\ WriterInv /\ JobInv
    BY DEF DateInv, FreshInv, WriterInv, JobInv, Past
  <1>4. MinuteFilesCarriedOver /\ LossExplained
    BY DEF MinuteFilesCarriedOver, LossExplained
  <1> QED
    BY <1>2, <1>3, <1>4 DEF ArchiveInv

\* The steps of an append, and those of the job.
Appending ==
    \/ \E m \in Minutes : AppendKey(m)
    \/ AppendExists \/ AppendRead \/ AppendRefused \/ AppendOpen \/ AppendEnd \/ AppendCrash

Compacting ==
    \/ \E d \in Dates, delete \in BOOLEAN : CompactBegin(d, delete)
    \/ CompactCopy \/ CompactFails \/ CompactEnd \/ CompactCrash
    \/ \E f \in Files : CompactUnlink(f)

\* Every step of an append keeps the types.
LEMMA AppendTyped == ASSUME ArchiveInv, Appending PROVE TypeOK'
  <1> USE NoFileIsNone, HistoryAssumption
          DEF ArchiveInv, TypeOK, Ids, compactVars, histVars, EndAppend
  <1>1. ASSUME NEW m \in Minutes, AppendKey(m) PROVE TypeOK'
    <2>1. <<today, m>> \in Files
      BY DEF Files
    <2>2. /\ arows' \in SUBSET Ids
          /\ dateOf' \in [Ids -> Dates \cup {0}]
          /\ nextId' \in 1..(MaxRows + 1)
      BY <1>1, <2>1 DEF AppendKey
    <2>3. apc' = "keyed" /\ afile' \in Files
      BY <1>1, <2>1 DEF AppendKey
    <2>4. UNCHANGED <<today, minute, torn, daily, appended, compactVars, histVars>>
      BY <1>1 DEF AppendKey
    <2> QED
      BY <2>2, <2>3, <2>4
  <1>2. CASE AppendExists
    BY <1>2 DEF AppendExists
  <1>3. CASE AppendRead
    <2>1. afile \in Files
      BY <1>3 DEF AppendRead
    <2> QED
      BY <1>3, <2>1 DEF AppendRead
  <1>4. CASE AppendRefused
    BY <1>4 DEF AppendRefused
  <1>5. CASE AppendOpen
    <2>1. afile \in Files
      BY <1>5 DEF AppendOpen
    <2> QED
      BY <1>5, <2>1 DEF AppendOpen
  <1>6. CASE AppendEnd
    BY <1>6 DEF AppendEnd
  <1>7. CASE AppendCrash
    BY <1>7 DEF AppendCrash
  <1> QED
    BY <1>1, <1>2, <1>3, <1>4, <1>5, <1>6, <1>7 DEF Appending

\* Every step of the compaction keeps the types.
LEMMA CompactTyped == ASSUME ArchiveInv, Compacting PROVE TypeOK'
  <1> USE NoFileIsNone, HistoryAssumption
          DEF ArchiveInv, TypeOK, appendVars, histVars, EndCompaction
  <1>1. ASSUME NEW d \in Dates, NEW delete \in BOOLEAN, CompactBegin(d, delete) PROVE TypeOK'
    <2>1. FilesOf(d) \in SUBSET Files /\ FilesOf(d) \subseteq {d} \X Minutes
      BY DEF FilesOf, Files
    <2>2. cdelete' \in BOOLEAN
      BY <1>1, Zenon DEF CompactBegin
    <2> QED
      BY <1>1, <2>1, <2>2 DEF CompactBegin
  <1>2. CASE CompactCopy
    <2>1. RowsOf(FilesOf(cdate)) \in SUBSET Ids
      BY DEF RowsOf, FilesOf
    <2>2. cdate \in Dates
      BY <1>2 DEF CompactCopy
    <2>3. cdelete' \in BOOLEAN
      BY <1>2 DEF CompactCopy
    <2>4. overtaken' \in SUBSET Ids
      BY <1>2 DEF CompactCopy, WriterInv
    <2> QED
      BY <1>2, <2>1, <2>2, <2>3, <2>4 DEF CompactCopy
  <1>3. CASE CompactFails \/ CompactEnd \/ CompactCrash
    BY <1>3 DEF CompactFails, CompactEnd, CompactCrash
  <1>4. ASSUME NEW f \in Files, CompactUnlink(f) PROVE TypeOK'
    BY <1>4 DEF CompactUnlink
  <1> QED
    BY <1>1, <1>2, <1>3, <1>4 DEF Compacting

\* Every step keeps the types.
LEMMA NextTyped ==
  ASSUME ArchiveInv, [Next]_vars
  PROVE  TypeOK'
  <1>1. CASE Midnight
    BY <1>1 DEF Midnight, ArchiveInv, TypeOK, appendVars, compactVars, histVars
  <1>2. CASE UNCHANGED vars
    BY <1>2 DEF vars, ArchiveInv, TypeOK, appendVars, compactVars, histVars
  <1>3. ASSUME NEW d \in Dates, CompactNothing(d) PROVE UNCHANGED vars
    BY <1>3 DEF CompactNothing
  <1> QED
    BY <1>1, <1>2, <1>3, AppendTyped, CompactTyped DEF Next, Appending, Compacting

-----------------------------------------------------------------------------
(* The invariant                                                           *)

SafeInv ==
    /\ DateInv
    /\ FreshInv
    /\ WriterInv
    /\ JobInv
    /\ MinuteFilesCarriedOver
    /\ \A i \in appended : Explained(i)

\* Rows that are about to be deleted, file by file.
LEMMA CarriedMeans ==
  MinuteFilesCarriedOver <=>
     (Past /\ cpc = "deleting" => \A f \in ctodo : minute[f] \subseteq daily[cdate] \cup overtaken)
  BY DEF MinuteFilesCarriedOver, RowsOf, Past

\* A step of an append keeps the safety part.
LEMMA AppendSafe == ASSUME ArchiveInv, TypeOK', Appending PROVE SafeInv'
  <1> USE NoFileIsNone DEF ArchiveInv, TypeOK, Ids
  <1> DEFINE Carried == Past /\ cpc = "deleting" =>
                          \A f \in ctodo : minute[f] \subseteq daily[cdate] \cup overtaken
  <1>0. (\A i \in appended : Explained(i)) /\ Carried
    BY LossMeans, CarriedMeans
  <1>a. Carried' => MinuteFilesCarriedOver'
    BY CarriedMeans, PTL
  <1>b. /\ apc # "idle" => Own \in Ids /\ Own < nextId
        /\ nextId \in Nat /\ MaxRows \in Nat /\ today \in Nat
        /\ ctodo \subseteq Files
    BY HistoryAssumption DEF WriterInv, Own, Files
  <1>1. ASSUME NEW m \in Minutes, AppendKey(m) PROVE SafeInv'
    <2> DEFINE g == <<today, m>>
    <2> USE <1>1 DEF AppendKey, compactVars, histVars
    <2>1. /\ g \in Files /\ g[1] = today /\ nextId \in Ids
          /\ afile' = g /\ arows' = {nextId}
          /\ dateOf'[nextId] = today /\ \A i \in Ids : i # nextId => dateOf'[i] = dateOf[i]
          /\ nextId' = nextId + 1 /\ apc' = "keyed" /\ Own' = nextId
          /\ apc = "idle"
      BY HistoryAssumption DEF Files, Own
    <2>2. UNCHANGED <<today, minute, torn, daily, appended, cpc, cdate, ctodo, early,
                      recompacted, broken, overtaken>>
      OBVIOUS
    <2> HIDE <1>1 DEF g, AppendKey
    <2>3. /\ \A f \in Files : nextId \notin minute[f]
          /\ \A d \in Dates : nextId \notin daily[d]
          /\ nextId \notin appended
      BY <2>1 DEF FreshInv
    <2>4. DateInv'
      BY <2>1, <2>2, <2>3 DEF DateInv
    <2>5. FreshInv'
      BY <1>b, <2>1, <2>2, <2>3 DEF FreshInv
    <2>6. WriterInv'
      BY <1>b, <2>1, <2>2 DEF WriterInv
    <2>7. JobInv'
      <3>1. Past' <=> Past
        BY <2>2 DEF Past
      <3>2. Past => g[1] # cdate
        BY <2>1, HistoryAssumption DEF JobInv, Past
      <3> QED
        BY <2>1, <2>2, <3>1, <3>2 DEF JobInv, Exists
    <2>8. Carried'
      BY <1>0, <2>2 DEF Past
    <2>9. \A i \in appended' : Explained(i)'
      BY <1>0, <2>1, <2>2, <2>3 DEF Explained, InStore
    <2> QED
      BY <2>4, <2>5, <2>6, <2>7, <2>8, <2>9, <1>a DEF SafeInv
  <1>2. CASE AppendExists
    <2> USE <1>2 DEF AppendExists, compactVars, histVars
    <2>1. UNCHANGED <<today, minute, torn, daily, nextId, dateOf, appended, afile, arows, cpc,
                      cdate, ctodo, early, recompacted, broken, overtaken, Own>>
      BY DEF Own
    <2>2. /\ apc = "keyed" /\ apc' \in {"exists", "read"}
          /\ apc' = "read" => minute[afile] = {} /\ afile \notin torn
      BY DEF Exists
    <2> HIDE <1>2 DEF AppendExists
    <2>3. DateInv' /\ FreshInv'
      BY <2>1, <2>2 DEF DateInv, FreshInv
    <2>4. WriterInv'
      BY <2>1, <2>2 DEF WriterInv
    <2>5. JobInv'
      BY <2>1, <2>2 DEF JobInv, Past, Exists
    <2>6. Carried'
      BY <1>0, <2>1 DEF Past
    <2>7. \A i \in appended' : Explained(i)'
      BY <1>0, <2>1, <2>2 DEF Explained, InStore
    <2> QED
      BY <2>3, <2>4, <2>5, <2>6, <2>7, <1>a DEF SafeInv
  <1>3. CASE AppendRead
    <2> USE <1>3 DEF AppendRead, compactVars, histVars
    <2>1. UNCHANGED <<today, minute, torn, daily, nextId, dateOf, appended, afile, cpc,
                      cdate, ctodo, early, recompacted, broken, overtaken, Own>>
      BY DEF Own
    <2>2. /\ apc = "exists" /\ apc' = "read"
          /\ afile \notin torn /\ afile \in Files
          /\ arows = {Own} /\ arows' = arows \cup minute[afile]
          /\ Own \notin minute[afile]
      BY DEF Readable, WriterInv, FreshInv
    <2> HIDE <1>3 DEF AppendRead
    <2>3. DateInv' /\ FreshInv'
      BY <2>1, <2>2 DEF DateInv, FreshInv
    <2>4. WriterInv'
      BY <2>1, <2>2 DEF WriterInv
    <2>5. JobInv'
      BY <2>1, <2>2 DEF JobInv, Past, Exists
    <2>6. Carried'
      BY <1>0, <2>1 DEF Past
    <2>7. \A i \in appended' : Explained(i)'
      BY <1>0, <2>1, <2>2 DEF Explained, InStore
    <2> QED
      BY <2>3, <2>4, <2>5, <2>6, <2>7, <1>a DEF SafeInv
  <1>4. CASE AppendRefused \/ (AppendCrash /\ apc # "writing")
    <2> USE <1>4 DEF AppendRefused, AppendCrash, EndAppend, compactVars, histVars
    <2>1. UNCHANGED <<today, minute, torn, daily, nextId, dateOf, appended, cpc,
                      cdate, ctodo, early, recompacted, broken, overtaken>>
      OBVIOUS
    <2>2. apc # "writing" /\ apc' = "idle" /\ arows' = {}
      OBVIOUS
    <2> HIDE <1>4 DEF AppendRefused, AppendCrash
    <2>3. DateInv' /\ FreshInv'
      BY <2>1, <2>2 DEF DateInv, FreshInv
    <2>4. WriterInv'
      BY <2>1, <2>2 DEF WriterInv
    <2>5. JobInv'
      BY <2>1, <2>2 DEF JobInv, Past, Exists
    <2>6. Carried'
      BY <1>0, <2>1 DEF Past
    <2>7. \A i \in appended' : Explained(i)'
      BY <1>0, <2>1, <2>2 DEF Explained, InStore
    <2> QED
      BY <2>3, <2>4, <2>5, <2>6, <2>7, <1>a DEF SafeInv
  <1>5. CASE AppendOpen
    <2> USE <1>5 DEF AppendOpen, compactVars, histVars
    <2>1. UNCHANGED <<today, daily, nextId, dateOf, appended, afile, arows, cpc,
                      cdate, ctodo, early, recompacted, broken, overtaken, Own>>
      BY DEF Own
    <2>2. /\ apc = "read" /\ apc' = "writing" /\ afile \in Files
          /\ minute'[afile] = {} /\ \A f \in Files : f # afile => minute'[f] = minute[f]
          /\ torn' = torn \cup {afile}
      BY DEF WriterInv
    <2> HIDE <1>5 DEF AppendOpen
    <2>3. DateInv' /\ FreshInv'
      BY <2>1, <2>2 DEF DateInv, FreshInv
    <2>4. WriterInv'
      BY <2>1, <2>2 DEF WriterInv
    <2>5. JobInv'
      <3>1. \A f \in ctodo : Exists(f)'
        BY <1>b, <2>1, <2>2 DEF JobInv, Exists
      <3>2. ASSUME Past, cpc = "deleting", afile \in ctodo
            PROVE  arows \subseteq daily[cdate] \cup overtaken
        <4>1. afile[1] = cdate
          BY <3>2
        <4>2. Own \in overtaken
          BY <2>2, <3>2, <4>1 DEF JobInv
        <4>3. minute[afile] # {}
          BY <2>2, <3>2 DEF JobInv, Exists, WriterInv
        <4>4. arows \ {Own} = minute[afile]
          BY <2>2, <4>3 DEF WriterInv
        <4> QED
          BY <1>0, <3>2, <4>2, <4>4
      <3> QED
        BY <2>1, <2>2, <3>1, <3>2 DEF JobInv, Past
    <2>6. Carried'
      BY <1>0, <1>b, <2>1, <2>2 DEF Past
    <2>7. ASSUME NEW i \in appended' PROVE Explained(i)'
      <3>1. CASE i \in minute[afile]
        <4>1. i \in arows
          BY <2>2, <3>1 DEF WriterInv
        <4> QED
          BY <2>1, <2>2, <4>1 DEF Explained
      <3>2. CASE i \notin minute[afile]
        BY <1>0, <2>1, <2>2, <3>2 DEF Explained, InStore
      <3> QED
        BY <3>1, <3>2
    <2> QED
      BY <2>3, <2>4, <2>5, <2>6, <2>7, <1>a DEF SafeInv
  <1>6. CASE AppendEnd
    <2> USE <1>6 DEF AppendEnd, EndAppend, compactVars, histVars
    <2>1. UNCHANGED <<today, daily, nextId, dateOf, cpc, cdate, ctodo, early, recompacted, broken,
                      overtaken>>
      OBVIOUS
    <2>2. /\ apc = "writing" /\ apc' = "idle" /\ arows' = {} /\ afile \in Files /\ arows # {}
          /\ minute[afile] = {}
          /\ afile \in torn => minute'[afile] = arows
          /\ afile \notin torn => minute' = minute
          /\ \A f \in Files : f # afile => minute'[f] = minute[f]
          /\ torn' = torn \ {afile} /\ appended' = appended \cup arows
      BY DEF WriterInv
    <2> HIDE <1>6 DEF AppendEnd
    <2>3. DateInv' /\ FreshInv'
      BY <2>1, <2>2 DEF DateInv, FreshInv
    <2>4. WriterInv'
      BY <2>1, <2>2 DEF WriterInv
    <2>5. JobInv'
      BY <1>b, <2>1, <2>2 DEF JobInv, Past, Exists
    <2>6. Carried'
      BY <1>0, <1>b, <2>1, <2>2 DEF Past, JobInv
    <2>7. ASSUME NEW i \in appended' PROVE Explained(i)'
      <3>1. CASE i \in arows /\ afile \in torn
        BY <2>2, <3>1 DEF Explained, InStore
      <3>2. CASE i \in arows /\ afile \notin torn
        BY <2>1, <2>2, <3>2 DEF Explained, InStore, WriterInv, Settled
      <3>3. CASE i \in appended /\ i \notin arows
        BY <1>0, <2>1, <2>2, <3>3 DEF Explained, InStore
      <3> QED
        BY <2>2, <2>7, <3>1, <3>2, <3>3
    <2> QED
      BY <2>3, <2>4, <2>5, <2>6, <2>7, <1>a DEF SafeInv
  <1>7. CASE AppendCrash /\ apc = "writing"
    <2> USE <1>7 DEF AppendCrash, EndAppend, compactVars
    <2>1. UNCHANGED <<today, minute, torn, daily, nextId, dateOf, appended, cpc,
                      cdate, ctodo, early, recompacted, overtaken>>
      OBVIOUS
    <2>2. apc' = "idle" /\ arows' = {} /\ broken' = broken \cup arows
      OBVIOUS
    <2> HIDE <1>7 DEF AppendCrash
    <2>3. DateInv' /\ FreshInv'
      BY <2>1, <2>2 DEF DateInv, FreshInv
    <2>4. WriterInv'
      BY <2>1, <2>2 DEF WriterInv
    <2>5. JobInv'
      BY <2>1, <2>2 DEF JobInv, Past, Exists
    <2>6. Carried'
      BY <1>0, <2>1 DEF Past
    <2>7. \A i \in appended' : Explained(i)'
      BY <1>0, <2>1, <2>2 DEF Explained, InStore
    <2> QED
      BY <2>3, <2>4, <2>5, <2>6, <2>7, <1>a DEF SafeInv
  <1> QED
    BY <1>1, <1>2, <1>3, <1>4, <1>5, <1>6, <1>7 DEF Appending, AppendRefused

\* A step of the compaction keeps the safety part.
LEMMA CompactSafe == ASSUME ArchiveInv, TypeOK', Compacting PROVE SafeInv'
  <1> USE NoFileIsNone DEF ArchiveInv, TypeOK
  <1> DEFINE Carried == Past /\ cpc = "deleting" =>
                          \A f \in ctodo : minute[f] \subseteq daily[cdate] \cup overtaken
  <1>0. (\A i \in appended : Explained(i)) /\ Carried
    BY LossMeans, CarriedMeans
  <1>a. Carried' => MinuteFilesCarriedOver'
    BY CarriedMeans, PTL
  <1>b. ctodo \subseteq Files
    BY DEF Files
  <1>1. ASSUME NEW d \in Dates, NEW delete \in BOOLEAN, CompactBegin(d, delete) PROVE SafeInv'
    <2> USE <1>1 DEF CompactBegin, appendVars
    <2>1. /\ cpc = "idle" /\ cpc' = "copying" /\ cdate' = d /\ d <= today
          /\ ctodo' = FilesOf(d) /\ early \subseteq early'
          /\ d = today => d \in early'
          /\ UNCHANGED <<today, minute, torn, daily, nextId, dateOf, appended, apc, afile, arows,
                         recompacted, broken, overtaken, Own>>
      BY DEF Own
    <2> HIDE <1>1 DEF CompactBegin
    <2>2. DateInv' /\ FreshInv'
      BY <2>1 DEF DateInv, FreshInv
    <2>3. WriterInv'
      BY <2>1 DEF WriterInv, Settled
    <2>4. JobInv'
      BY <2>1, HistoryAssumption DEF JobInv, Past, FilesOf, Exists
    <2>5. Carried'
      BY <2>1
    <2>6. \A i \in appended' : Explained(i)'
      BY <1>0, <2>1 DEF Explained, InStore
    <2> QED
      BY <2>2, <2>3, <2>4, <2>5, <2>6, <1>a DEF SafeInv
  <1>2. CASE CompactCopy
    <2> USE <1>2 DEF CompactCopy, appendVars
    <2>1. cdate \in Dates
      OBVIOUS
    <2>2. /\ \A f \in torn : f[1] # cdate
          /\ daily'[cdate] = UNION {minute[f] : f \in {e \in Files : e[1] = cdate}}
          /\ \A d \in Dates : d # cdate => daily'[d] = daily[d]
      BY <2>1 DEF CopySucceeds, FilesOf, RowsOf, Exists
    <2>3. /\ cpc = "copying"
          /\ cpc' \in {"idle", "deleting"}
          /\ cpc' = "deleting" => cdate' = cdate /\ ctodo' = ctodo
          /\ cpc' = "idle" => ctodo' = {}
          /\ recompacted \subseteq recompacted'
          /\ daily[cdate] # {} => cdate \in recompacted'
          /\ overtaken \subseteq overtaken'
          /\ apc # "idle" /\ afile[1] = cdate => Own \in overtaken'
          /\ UNCHANGED <<today, minute, torn, nextId, dateOf, appended, apc, afile, arows,
                         early, broken, Own>>
      BY DEF EndCompaction, Own
    <2> HIDE <1>2 DEF CompactCopy
    <2>4. DateInv' /\ FreshInv'
      BY <2>1, <2>2, <2>3 DEF DateInv, FreshInv
    <2>5. \A i \in Ids : Settled(i) => Settled(i)'
      BY <2>1, <2>2, <2>3 DEF Settled, DateInv
    <2>6. WriterInv'
      BY <2>3, <2>5 DEF WriterInv
    <2>7. JobInv'
      <3>1. apc = "writing" => afile \notin ctodo
        BY <2>2, <2>3 DEF JobInv, Exists, WriterInv
      <3> QED
        BY <2>3, <3>1 DEF JobInv, Past, Exists
    <2>8. Carried'
      <3>1. ASSUME NEW f \in ctodo PROVE minute[f] \subseteq daily'[cdate]
        BY <1>b, <2>2, <3>1
      <3> QED
        BY <2>3, <3>1
    <2>9. \A i \in appended' : Explained(i)'
      BY <1>0, <2>1, <2>2, <2>3 DEF Explained, InStore, DateInv
    <2> QED
      BY <2>4, <2>6, <2>7, <2>8, <2>9, <1>a DEF SafeInv
  <1>3. CASE CompactFails \/ CompactEnd \/ CompactCrash
    <2> USE <1>3 DEF CompactFails, CompactEnd, CompactCrash, EndCompaction, appendVars, histVars
    <2>1. /\ cpc' = "idle" /\ ctodo' = {}
          /\ UNCHANGED <<today, minute, torn, daily, nextId, dateOf, appended, apc, afile, arows,
                         early, recompacted, broken, overtaken, Own>>
      BY DEF Own
    <2> HIDE <1>3 DEF CompactFails, CompactEnd, CompactCrash
    <2>2. DateInv' /\ FreshInv'
      BY <2>1 DEF DateInv, FreshInv
    <2>3. WriterInv' /\ JobInv'
      BY <2>1 DEF WriterInv, JobInv, Settled, Past
    <2>4. Carried'
      BY <2>1
    <2>5. \A i \in appended' : Explained(i)'
      BY <1>0, <2>1 DEF Explained, InStore
    <2> QED
      BY <2>2, <2>3, <2>4, <2>5, <1>a DEF SafeInv
  <1>4. ASSUME NEW g \in Files, CompactUnlink(g) PROVE SafeInv'
    <2> USE <1>4 DEF CompactUnlink, MayUnlink, appendVars, histVars
    <2>1. /\ g \in ctodo /\ g[1] = cdate /\ cpc = "deleting" /\ cdate \in Dates
          /\ minute'[g] = {} /\ \A f \in Files : f # g => minute'[f] = minute[f]
          /\ torn' = torn \ {g} /\ ctodo' = ctodo \ {g}
          /\ UNCHANGED <<today, daily, nextId, dateOf, appended, apc, afile, arows, cpc, cdate,
                         early, recompacted, broken, overtaken, Own>>
      BY DEF Own
    <2> HIDE <1>4 DEF CompactUnlink
    <2>2. DateInv' /\ FreshInv'
      BY <2>1 DEF DateInv, FreshInv
    <2>3. \A i \in Ids : Settled(i) => Settled(i)'
      BY <2>1 DEF Settled
    <2>4. \A i \in minute[g] : Settled(i)
      BY <1>0, <2>1 DEF Settled, Past, DateInv
    <2>5. apc = "writing" /\ afile = g => \A i \in arows : Settled(i)
      BY <2>1 DEF Settled, Past, DateInv, JobInv
    <2>6. WriterInv'
      <3>1. /\ \A f \in torn' : minute'[f] = {}
            /\ apc' = "idle" => arows' = {}
            /\ apc' # "idle" => afile' \in Files /\ nextId' > 1 /\ Own' \in arows'
            /\ apc' \in {"keyed", "exists"} => arows' = {Own'}
        BY <2>1 DEF WriterInv
      <3>2. ASSUME apc = "read"
            PROVE  /\ afile \notin torn'
                   /\ \/ minute'[afile] = arows \ {Own}
                      \/ minute'[afile] = {} /\ \A i \in arows \ {Own} : Settled(i)'
        <4>1. CASE afile # g
          BY <2>1, <2>3, <3>2, <4>1 DEF WriterInv
        <4>2. CASE afile = g
          BY <2>1, <2>3, <2>4, <3>2, <4>2 DEF WriterInv
        <4> QED
          BY <4>1, <4>2
      <3>3. ASSUME apc = "writing"
            PROVE  minute'[afile] = {} /\ (afile \notin torn' => \A i \in arows : Settled(i)')
        <4>1. CASE afile # g
          BY <2>1, <2>3, <3>3, <4>1 DEF WriterInv
        <4>2. CASE afile = g
          BY <2>1, <2>3, <2>5, <3>3, <4>2 DEF WriterInv
        <4> QED
          BY <4>1, <4>2
      <3> QED
        BY <2>1, <3>1, <3>2, <3>3 DEF WriterInv
    <2>7. JobInv'
      BY <1>b, <2>1 DEF JobInv, Past, Exists
    <2>8. Carried'
      BY <1>0, <1>b, <2>1 DEF Past
    <2>9. ASSUME NEW i \in appended' PROVE Explained(i)'
      <3>1. CASE i \in minute[g]
        BY <2>1, <2>4, <3>1 DEF Explained, InStore, Settled
      <3>2. CASE i \notin minute[g]
        BY <1>0, <2>1, <3>2 DEF Explained, InStore
      <3> QED
        BY <3>1, <3>2
    <2> QED
      BY <2>2, <2>6, <2>7, <2>8, <2>9, <1>a DEF SafeInv
  <1> QED
    BY <1>1, <1>2, <1>3, <1>4 DEF Compacting

\* Every step keeps ArchiveInv.
LEMMA StepInv ==
  ASSUME ArchiveInv, [Next]_vars
  PROVE  ArchiveInv'
  <1>1. TypeOK'
    BY NextTyped
  <1>2. CASE Midnight \/ UNCHANGED vars
    <2> USE <1>2 DEF Midnight, vars, ArchiveInv, TypeOK, appendVars, compactVars, histVars
    <2>1. DateInv' /\ FreshInv' /\ WriterInv'
      BY DEF DateInv, FreshInv, WriterInv, Own, Settled
    <2>2. JobInv'
      BY HistoryAssumption DEF JobInv, Past, Exists, Own
    <2>3. MinuteFilesCarriedOver'
      BY DEF MinuteFilesCarriedOver, RowsOf
    <2>4. LossExplained'
      BY DEF LossExplained, Stored, Copies
    <2> QED
      BY <1>1, <2>1, <2>2, <2>3, <2>4 DEF ArchiveInv
  <1>3. CASE Appending \/ Compacting
    <2>1. SafeInv'
      BY <1>1, <1>3, AppendSafe, CompactSafe
    <2>2. TypeOK' => (LossExplained' <=> (\A i \in appended : Explained(i))')
      BY LossMeans, PTL
    <2> QED
      BY <1>1, <2>1, <2>2 DEF SafeInv, ArchiveInv
  <1>4. ASSUME NEW d \in Dates, CompactNothing(d) PROVE UNCHANGED vars
    BY <1>4 DEF CompactNothing
  <1> QED
    BY <1>2, <1>3, <1>4 DEF Next, Appending, Compacting

-----------------------------------------------------------------------------
(* Theorems                                                                *)

\* Every reachable state of the archive satisfies the inductive invariant.
THEOREM InvariantHolds == Spec => []ArchiveInv
  <1>1. Init => ArchiveInv
    BY InitInv
  <1>2. ArchiveInv /\ [Next]_vars => ArchiveInv'
    BY StepInv
  <1> QED
    BY <1>1, <1>2, PTL DEF Spec

\* The state of the archive is well typed; writer and job know their file and
\* their date exactly while they work.
THEOREM HistoryTypeCorrect == Spec => []TypeOK
  <1>1. ArchiveInv => TypeOK
    BY DEF ArchiveInv
  <1> QED
    BY <1>1, InvariantHolds, PTL

\* A batch whose append returned is in a file, whatever crashes, unless its
\* date was compacted twice or early, the rewrite of its file was cut off, or
\* its append was still under way when its date was copied.
THEOREM LossIsExplained == Spec => []LossExplained
  <1>1. ArchiveInv => LossExplained
    BY DEF ArchiveInv
  <1> QED
    BY <1>1, InvariantHolds, PTL

\* compact_date deletes minute files of a past date only when their rows are
\* in the daily file, or were on their way when it was written.
THEOREM DeletedRowsAreCopied == Spec => []MinuteFilesCarriedOver
  <1>1. ArchiveInv => MinuteFilesCarriedOver
    BY DEF ArchiveInv
  <1> QED
    BY <1>1, InvariantHolds, PTL

\* Rows leave the archive only in the ways LossExplained lists, and none by the
\* deletion of minute files that were not copied.
THEOREM ArchiveIsSafe == Spec => []ArchiveSafe
  BY LossIsExplained, DeletedRowsAreCopied, PTL DEF ArchiveSafe

-----------------------------------------------------------------------------
(* The collector supervisor: the inductive invariant                      *)

\* The steps of a stop that has read a PID.
Stopping == {"pkill", "kill", "await", "force", "forceLoop"}

\* A stop works on a loop it has read from the PID file.
TargetInv == \A c \in Cmds : cmd[c] \in Stopping => target[c] \in Cmds

\* Commands one at a time, and no collector without its loop.
AloneInv ==
    /\ \A c, d \in Cmds : Underway(c) /\ Underway(d) => c = d
    /\ \A l \in Cmds : ChildAlive(l) => LoopAlive(l)

\* What runs is in the PID file or about to be written there; who starts a loop
\* or removes the file has seen that nothing runs; a stop kills what is in the
\* file.
FoundInv ==
    /\ \A l \in Cmds : LoopAlive(l) => l = pidFile \/ cmd[l] = "record"
    /\ \A c \in Cmds : cmd[c] \in {"spawn", "remove"} => \A l \in Cmds : ~LoopAlive(l)
    /\ \A c \in Cmds : cmd[c] = "record" => \A l \in Cmds : LoopAlive(l) => l = c
    /\ \A c \in Cmds : cmd[c] \in Stopping => target[c] = pidFile

SupervisorInv ==
    /\ SupervisorTypeOK
    /\ TargetInv
    /\ ~disturbed => AloneInv /\ FoundInv

\* Nothing runs at first.
LEMMA SupervisorInitInv == SupervisorInit => SupervisorInv
  BY SupervisorAssumption DEF SupervisorInit, SupervisorInv, SupervisorTypeOK, TargetInv, AloneInv, FoundInv, CmdPhases,
     LoopPhases, Stopping, Underway, ChildAlive, LoopAlive

\* Every step of a command, a loop and a collector keeps SupervisorInv.
LEMMA SupervisorStepInv == SupervisorInv /\ [SupervisorNext]_supervisorVars => SupervisorInv'
  <1> SUFFICES ASSUME SupervisorInv, [SupervisorNext]_supervisorVars PROVE SupervisorInv'
    OBVIOUS
  <1> USE SupervisorAssumption DEF SupervisorInv, SupervisorTypeOK, TargetInv, AloneInv, FoundInv, CmdPhases, LoopPhases,
      Stopping, Underway, ChildAlive, LoopAlive, CMove, LoopVars, IsRunning
  <1>0. CASE UNCHANGED supervisorVars
    BY <1>0 DEF supervisorVars
  <1>1. ASSUME NEW c \in Cmds, BeginCommand(c) PROVE SupervisorInv'
    <2>1. disturbed' \in BOOLEAN /\ (~disturbed' => ~disturbed /\ ~(\E d \in Cmds : Underway(d)))
      BY <1>1, Zenon DEF BeginCommand
    <2>2. SupervisorTypeOK' /\ TargetInv'
      BY <1>1, <2>1 DEF BeginCommand
    <2>3. ASSUME ~disturbed' PROVE AloneInv' /\ FoundInv'
      <3>1. ~disturbed /\ AloneInv /\ FoundInv /\ ~(\E d \in Cmds : Underway(d))
        BY <2>1, <2>3
      <3> QED
        BY <1>1, <3>1 DEF BeginCommand
    <2> QED
      BY <2>2, <2>3
  <1>2. ASSUME NEW c \in Cmds, StartCheck(c) PROVE SupervisorInv'
    BY <1>2 DEF StartCheck, MayStart
  <1>3. ASSUME NEW c \in Cmds, Spawn(c) PROVE SupervisorInv'
    BY <1>3 DEF Spawn
  <1>4. ASSUME NEW c \in Cmds, RecordPid(c) PROVE SupervisorInv'
    BY <1>4 DEF RecordPid
  <1>5. ASSUME NEW c \in Cmds, StartVerify(c) PROVE SupervisorInv'
    BY <1>5 DEF StartVerify
  <1>6. ASSUME NEW c \in Cmds, StopLook(c) PROVE SupervisorInv'
    BY <1>6 DEF StopLook
  <1>7. ASSUME NEW c \in Cmds, KillChildren(c) PROVE SupervisorInv'
    BY <1>7 DEF KillChildren, Terminate
  <1>8. ASSUME NEW c \in Cmds, KillLoop(c) PROVE SupervisorInv'
    BY <1>8 DEF KillLoop
  <1>9. ASSUME NEW c \in Cmds, StopAwait(c) PROVE SupervisorInv'
    BY <1>9 DEF StopAwait, AfterAwait
  <1>10. ASSUME NEW c \in Cmds, ForceChildren(c) PROVE SupervisorInv'
    BY <1>10 DEF ForceChildren
  <1>11. ASSUME NEW c \in Cmds, ForceLoop(c) PROVE SupervisorInv'
    <2>1. disturbed' \in BOOLEAN /\ (~disturbed' => ~disturbed /\ ~(LoopAlive(target[c]) /\ ChildAlive(target[c])))
      BY <1>11, Zenon DEF ForceLoop
    <2>2. SupervisorTypeOK' /\ TargetInv'
      BY <1>11, <2>1 DEF ForceLoop, Killed
    <2>3. ASSUME ~disturbed' PROVE AloneInv' /\ FoundInv'
      <3>1. ~disturbed /\ AloneInv /\ FoundInv /\ ~(LoopAlive(target[c]) /\ ChildAlive(target[c]))
        BY <2>1, <2>3
      <3> QED
        BY <1>11, <3>1 DEF ForceLoop, Killed
    <2> QED
      BY <2>2, <2>3
  <1>12. ASSUME NEW c \in Cmds, RemovePid(c) PROVE SupervisorInv'
    BY <1>12 DEF RemovePid
  <1>13. ASSUME NEW l \in Cmds, Fork(l) PROVE SupervisorInv'
    BY <1>13 DEF Fork, Runs
  <1>14. ASSUME NEW l \in Cmds, Assign(l) PROVE SupervisorInv'
    BY <1>14 DEF Assign, Runs
  <1>15. ASSUME NEW l \in Cmds, WaitReturns(l) PROVE SupervisorInv'
    BY <1>15 DEF WaitReturns, Runs, CleanStop
  <1>16. ASSUME NEW l \in Cmds, Rest(l) PROVE SupervisorInv'
    BY <1>16 DEF Rest, Runs
  <1>17. ASSUME NEW l \in Cmds, Trap(l) PROVE SupervisorInv'
    BY <1>17 DEF Trap, Terminate
  <1>18. ASSUME NEW l \in Cmds, LoopExit(l) PROVE SupervisorInv'
    <2>1. disturbed' \in BOOLEAN /\ (~disturbed' => ~disturbed /\ ~(ChildAlive(l)))
      BY <1>18, Zenon DEF LoopExit
    <2>2. SupervisorTypeOK' /\ TargetInv'
      BY <1>18, <2>1 DEF LoopExit
    <2>3. ASSUME ~disturbed' PROVE AloneInv' /\ FoundInv'
      <3>1. ~disturbed /\ AloneInv /\ FoundInv /\ ~(ChildAlive(l))
        BY <2>1, <2>3
      <3> QED
        BY <1>18, <3>1 DEF LoopExit
    <2> QED
      BY <2>2, <2>3
  <1>19. ASSUME NEW l \in Cmds, CollectorEnds(l) \/ CollectorCrashes(l) \/ CollectorTermed(l) PROVE SupervisorInv'
    BY <1>19 DEF CollectorEnds, CollectorCrashes, CollectorTermed
  <1>20. ASSUME NEW l \in Cmds, LoopDies(l) PROVE SupervisorInv'
    <2>1. disturbed' \in BOOLEAN /\ (~disturbed' => ~disturbed /\ ~(ChildAlive(l)))
      BY <1>20, Zenon DEF LoopDies
    <2>2. SupervisorTypeOK' /\ TargetInv'
      BY <1>20, <2>1 DEF LoopDies
    <2>3. ASSUME ~disturbed' PROVE AloneInv' /\ FoundInv'
      <3>1. ~disturbed /\ AloneInv /\ FoundInv /\ ~(ChildAlive(l))
        BY <2>1, <2>3
      <3> QED
        BY <1>20, <3>1 DEF LoopDies
    <2> QED
      BY <2>2, <2>3
  <1> HIDE DEF SupervisorInv
  <1> QED
    BY <1>0, <1>1, <1>2, <1>3, <1>4, <1>5, <1>6, <1>7, <1>8, <1>9, <1>10, <1>11, <1>12, <1>13, <1>14, <1>15, <1>16,
       <1>17, <1>18, <1>19, <1>20 DEF SupervisorNext, Command, LoopStep

\* The PID file leads to everything that runs.
LEMMA SupervisorInvSafe == SupervisorInv => SupervisorSafe
  <1> SUFFICES ASSUME SupervisorInv PROVE SupervisorSafe
    OBVIOUS
  <1>1. ASSUME ~disturbed PROVE \A l \in Alive : LoopAlive(l) /\ l \in Cmds
    BY <1>1 DEF SupervisorInv, AloneInv, Alive
  <1>2. ASSUME ~disturbed, NEW k \in Alive, NEW l \in Alive PROVE k = l
    BY <1>1, <1>2 DEF SupervisorInv, FoundInv
  <1>3. ASSUME ~disturbed PROVE Cardinality(Alive) <= 1
    <2>1. CASE Alive = {}
      BY <2>1, FS_EmptySet
    <2>2. CASE Alive # {}
      <3>1. PICK l \in Alive : TRUE
        BY <2>2
      <3>2. Alive = {l}
        BY <1>2, <1>3, <3>1
      <3> QED
        BY <3>2, FS_Singleton
    <2> QED
      BY <2>1, <2>2
  <1>4. StopCanFind
    BY <1>1 DEF StopCanFind, SupervisorInv, FoundInv, Underway
  <1> QED
    BY <1>3, <1>4 DEF SupervisorSafe, OneCollector

\* For any number of commands, crashes and signals: as long as commands do not
\* overlap and no loop is killed over its collector's head, at most one loop and
\* one collector run, and the PID file leads to them.
THEOREM SupervisorIsSafe == SupervisorSpec => []SupervisorSafe
  BY SupervisorInitInv, SupervisorStepInv, SupervisorInvSafe, PTL DEF SupervisorSpec

-----------------------------------------------------------------------------
(* The chain of providers                                                  *)

ProfileLists == Seq([target : Targets, priority : Nat])

\* A non-empty set of naturals has a least element.
LEMMA LeastNumber == ASSUME NEW S \in SUBSET Nat, S # {} PROVE \E m \in S : \A k \in S : m <= k
  <1>1. PICK m \in S : \A k \in S : <<k, m>> \notin OpToRel(<, Nat)
    BY NatLessThanWellFounded, WFMin
  <1>2. \A k \in S : ~(k < m)
    BY <1>1 DEF OpToRel
  <1> QED
    BY <1>2

\* What a list of profiles is made of.
LEMMA ListFacts ==
    ASSUME NEW ps \in ProfileLists
    PROVE  /\ Len(ps) \in Nat /\ DOMAIN ps = 1..Len(ps) /\ DOMAIN ps \subseteq Nat
           /\ \A i \in DOMAIN ps : ps[i].priority \in Nat /\ ps[i].target \in Targets
  <1>1. Len(ps) \in Nat /\ DOMAIN ps = 1..Len(ps)
    BY DEF ProfileLists
  <1>2. \A i \in DOMAIN ps : ps[i] \in [target : Targets, priority : Nat]
    <2> DEFINE P == [target : Targets, priority : Nat]
    <2>1. ps \in Seq(P)
      BY DEF ProfileLists
    <2> HIDE DEF P
    <2>2. \A i \in DOMAIN ps : ps[i] \in P
      BY <2>1
    <2> QED
      BY <2>2 DEF P
  <1>3. \A i \in DOMAIN ps : ps[i].priority \in Nat /\ ps[i].target \in Targets
    BY <1>2
  <1>4. DOMAIN ps \subseteq Nat
    BY <1>1
  <1> QED
    BY <1>1, <1>3, <1>4

\* Every target of a list of profiles has its first profile.
LEMMA ProfileIs ==
    ASSUME NEW ps \in ProfileLists, NEW t \in TargetsOf(ps)
    PROVE  /\ Profile(ps, t) \in DOMAIN ps
           /\ ps[Profile(ps, t)].target = t
           /\ \A j \in DOMAIN ps : ps[j].target = t /\ j # Profile(ps, t) => Before(ps, Profile(ps, t), j)
  <1> DEFINE D == {i \in DOMAIN ps : ps[i].target = t}
             P == {ps[i].priority : i \in D}
  <1>1. DOMAIN ps \subseteq Nat /\ \A i \in DOMAIN ps : ps[i].priority \in Nat
    BY ListFacts
  <1>2. P \subseteq Nat /\ P # {}
    BY <1>1 DEF TargetsOf
  <1>3. PICK m \in P : \A k \in P : m <= k
    BY <1>2, LeastNumber
  <1> DEFINE E == {i \in D : ps[i].priority = m}
  <1>4. E \subseteq Nat /\ E # {}
    BY <1>1
  <1>5. PICK i \in E : \A j \in E : i <= j
    BY <1>4, LeastNumber
  <1>6. \A j \in DOMAIN ps : ps[j].target = t /\ j # i => Before(ps, i, j)
    <2> SUFFICES ASSUME NEW j \in DOMAIN ps, ps[j].target = t, j # i PROVE Before(ps, i, j)
      OBVIOUS
    <2>1. m <= ps[j].priority /\ m \in Nat /\ ps[j].priority \in Nat /\ ps[i].priority = m /\ i \in Nat /\ j \in Nat
      BY <1>1, <1>2, <1>3
    <2>2. ps[j].priority = m => i <= j
      BY <1>5
    <2> QED
      BY <2>1, <2>2 DEF Before
  <1>7. i \in DOMAIN ps /\ ps[i].target = t
    OBVIOUS
  <1> QED
    BY <1>6, <1>7 DEF Profile

\* The targets are finitely many, and strictly ordered: the configured one
\* first, the others by their first profiles.
LEMMA TargetsOrdered ==
    ASSUME NEW ps \in ProfileLists, NEW configured
    PROVE  /\ IsFiniteSet(TargetsOf(ps))
           /\ \A t \in TargetsOf(ps) : ~Precedes(ps, configured, t, t)
           /\ \A t, u \in TargetsOf(ps) : t = u \/ Precedes(ps, configured, t, u) \/ Precedes(ps, configured, u, t)
           /\ \A t, u, v \in TargetsOf(ps) :
                 Precedes(ps, configured, t, u) /\ Precedes(ps, configured, u, v) => Precedes(ps, configured, t, v)
  <1>1. IsFiniteSet(TargetsOf(ps))
    <2> DEFINE f == [i \in 1..Len(ps) |-> ps[i].target]
    <2>1. IsFiniteSet(1..Len(ps))
      BY ListFacts, FS_Interval
    <2>2. f \in [1..Len(ps) -> TargetsOf(ps)] /\ \A t \in TargetsOf(ps) : \E i \in 1..Len(ps) : f[i] = t
      BY ListFacts DEF TargetsOf
    <2>3. f \in Surjection(1..Len(ps), TargetsOf(ps))
      BY <2>2 DEF Surjection
    <2> HIDE DEF f
    <2> QED
      BY <2>1, <2>3, FS_Surjection
  <1>2. \A t \in TargetsOf(ps) : /\ Profile(ps, t) \in Nat /\ ps[Profile(ps, t)].priority \in Nat
                                 /\ ps[Profile(ps, t)].target = t
    BY ProfileIs, ListFacts
  <1> HIDE DEF TargetsOf, Profile
  <1>3. \A t \in TargetsOf(ps) : ~Precedes(ps, configured, t, t)
    BY <1>2 DEF Precedes, Before
  <1>4. \A t, u \in TargetsOf(ps) : t = u \/ Precedes(ps, configured, t, u) \/ Precedes(ps, configured, u, t)
    BY <1>2 DEF Precedes, Before
  <1>5. \A t, u, v \in TargetsOf(ps) :
            Precedes(ps, configured, t, u) /\ Precedes(ps, configured, u, v) => Precedes(ps, configured, t, v)
    BY <1>2 DEF Precedes, Before
  <1> QED
    BY <1>1, <1>3, <1>4, <1>5

\* A finite set with a strict order has its ranks: 1 plus the number of those
\* before.
LEMMA RanksExist ==
    ASSUME NEW T, IsFiniteSet(T), NEW R,
           \A t \in T : <<t, t>> \notin R,
           \A t, u \in T : t = u \/ <<t, u>> \in R \/ <<u, t>> \in R,
           \A t, u, v \in T : <<t, u>> \in R /\ <<u, v>> \in R => <<t, v>> \in R
    PROVE  \E c \in [1..Cardinality(T) -> T] : \A i, j \in DOMAIN c : i < j => <<c[i], c[j]>> \in R
  <1> DEFINE Below(t) == {u \in T : <<u, t>> \in R}
             n == Cardinality(T)
             rank == [t \in T |-> Cardinality(Below(t)) + 1]
  <1>1. n \in Nat
    BY FS_CardinalityType
  <1>2. \A t \in T : IsFiniteSet(Below(t)) /\ Cardinality(Below(t)) \in Nat /\ Cardinality(Below(t)) < n
    <2> SUFFICES ASSUME NEW t \in T PROVE IsFiniteSet(Below(t)) /\ Cardinality(Below(t)) \in Nat /\ Cardinality(Below(t)) < n
      OBVIOUS
    <2>1. Below(t) \in SUBSET T /\ Below(t) # T
      OBVIOUS
    <2>2. IsFiniteSet(Below(t)) /\ Cardinality(Below(t)) <= n /\ n # Cardinality(Below(t))
      BY <2>1, FS_Subset
    <2>3. Cardinality(Below(t)) \in Nat
      BY <2>2, FS_CardinalityType
    <2> QED
      BY <1>1, <2>2, <2>3
  <1>3. \A t, u \in T : <<t, u>> \in R => Cardinality(Below(t)) < Cardinality(Below(u))
    <2> SUFFICES ASSUME NEW t \in T, NEW u \in T, <<t, u>> \in R PROVE Cardinality(Below(t)) < Cardinality(Below(u))
      OBVIOUS
    <2>1. Below(t) \in SUBSET Below(u) /\ Below(t) # Below(u)
      OBVIOUS
    <2>2. Cardinality(Below(t)) <= Cardinality(Below(u)) /\ Cardinality(Below(u)) # Cardinality(Below(t))
      BY <1>2, <2>1, FS_Subset
    <2>3. Cardinality(Below(t)) \in Nat /\ Cardinality(Below(u)) \in Nat
      BY <1>2
    <2> HIDE DEF Below
    <2> QED
      BY <2>2, <2>3
  <1> HIDE DEF Below
  <1>4. rank \in [T -> 1..n]
    BY <1>1, <1>2
  <1>5. \A t, u \in T : rank[t] = rank[u] => t = u
    <2> SUFFICES ASSUME NEW t \in T, NEW u \in T, rank[t] = rank[u], t # u PROVE FALSE
      OBVIOUS
    <2>1. Cardinality(Below(t)) \in Nat /\ Cardinality(Below(u)) \in Nat
      BY <1>2
    <2>2. Cardinality(Below(t)) = Cardinality(Below(u))
      BY <2>1
    <2>3. Cardinality(Below(t)) < Cardinality(Below(u)) \/ Cardinality(Below(u)) < Cardinality(Below(t))
      BY <1>3
    <2> QED
      BY <2>1, <2>2, <2>3
  <1>6. rank \in Injection(T, 1..n)
    BY <1>4, <1>5 DEF Injection, IsInjective
  <1>7. IsFiniteSet(1..n) /\ Cardinality(1..n) = n
    BY <1>1, FS_Interval
  <1>8. rank \in Surjection(T, 1..n)
    <2> HIDE DEF rank
    <2> QED
      BY <1>6, <1>7, FS_Injection
  <1>9. \A i \in 1..n : \E t \in T : rank[t] = i
    BY <1>8 DEF Surjection
  <1> DEFINE c == [i \in 1..n |-> CHOOSE t \in T : rank[t] = i]
  <1>10. \A i \in 1..n : c[i] \in T /\ rank[c[i]] = i
    <2> HIDE DEF rank
    <2> QED
      BY <1>9
  <1>11. c \in [1..n -> T]
    BY <1>10
  <1>12. \A i, j \in 1..n : i < j => <<c[i], c[j]>> \in R
    <2> SUFFICES ASSUME NEW i \in 1..n, NEW j \in 1..n, i < j, <<c[i], c[j]>> \notin R PROVE FALSE
      OBVIOUS
    <2> DEFINE x == c[i]
               y == c[j]
    <2>1. x \in T /\ y \in T /\ rank[x] = i /\ rank[y] = j
      BY <1>10
    <2> HIDE DEF c, x, y
    <2>2. x # y
      BY <2>1
    <2>3. <<y, x>> \in R
      BY <2>1, <2>2 DEF x, y
    <2>4. Cardinality(Below(y)) < Cardinality(Below(x))
      BY <1>3, <2>1, <2>3
    <2> QED
      BY <1>2, <2>1, <2>4
  <1>13. DOMAIN c = 1..n
    OBVIOUS
  <1> HIDE DEF c
  <1> QED
    BY <1>11, <1>12, <1>13

\* The chain lists every target once, in the order of Precedes.
LEMMA ChainIs ==
    ASSUME NEW ps \in ProfileLists, NEW configured
    PROVE  LET T == TargetsOf(ps)
               c == Chain(ps, configured)
           IN  /\ Cardinality(T) \in Nat /\ c \in [1..Cardinality(T) -> T]
               /\ \A i, j \in 1..Cardinality(T) : i < j => Precedes(ps, configured, c[i], c[j])
               /\ \A i, j \in 1..Cardinality(T) : c[i] = c[j] => i = j
               /\ \A t \in T : \E i \in 1..Cardinality(T) : c[i] = t
  <1> DEFINE T == TargetsOf(ps)
             n == Cardinality(T)
             R == {x \in T \X T : Precedes(ps, configured, x[1], x[2])}
             c == Chain(ps, configured)
  <1>1. IsFiniteSet(T) /\ n \in Nat
    BY TargetsOrdered, FS_CardinalityType
  <1>2. \A t, u \in T : <<t, u>> \in R <=> Precedes(ps, configured, t, u)
    <2> HIDE DEF T
    <2> QED
      OBVIOUS
  <1>3. /\ \A t \in T : <<t, t>> \notin R
        /\ \A t, u \in T : t = u \/ <<t, u>> \in R \/ <<u, t>> \in R
        /\ \A t, u, v \in T : <<t, u>> \in R /\ <<u, v>> \in R => <<t, v>> \in R
    <2> HIDE DEF R
    <2> QED
      BY <1>2, TargetsOrdered
  <1>4. \E d \in [1..n -> T] : \A i, j \in DOMAIN d : i < j => <<d[i], d[j]>> \in R
    <2> HIDE DEF R, T
    <2> QED
      BY <1>1, <1>3, RanksExist
  <1>5. \E d \in [1..n -> T] : \A i, j \in DOMAIN d : i < j => Precedes(ps, configured, d[i], d[j])
    <2> PICK d \in [1..n -> T] : \A i, j \in DOMAIN d : i < j => <<d[i], d[j]>> \in R
      BY <1>4
    <2>1. \A i \in DOMAIN d : d[i] \in T
      OBVIOUS
    <2> HIDE DEF R, T
    <2> QED
      BY <1>2, <2>1
  <1>6. c \in [1..n -> T] /\ \A i, j \in DOMAIN c : i < j => Precedes(ps, configured, c[i], c[j])
    BY <1>5 DEF Chain
  <1> HIDE DEF c
  <1>7. \A i \in 1..n : c[i] \in T
    BY <1>6
  <1>8. \A i, j \in 1..n : i < j => Precedes(ps, configured, c[i], c[j])
    BY <1>6
  <1>9. \A i, j \in 1..n : c[i] = c[j] => i = j
    <2> SUFFICES ASSUME NEW i \in 1..n, NEW j \in 1..n, c[i] = c[j], i # j PROVE FALSE
      OBVIOUS
    <2>1. i < j \/ j < i
      BY <1>1
    <2> HIDE DEF T, n
    <2> QED
      BY <1>7, <1>8, <2>1, TargetsOrdered DEF T
  <1>10. \A t \in T : \E i \in 1..n : c[i] = t
    <2>1. c \in Injection(1..n, T)
      BY <1>6, <1>9 DEF Injection, IsInjective
    <2>2. IsFiniteSet(1..n) /\ Cardinality(1..n) = n
      BY <1>1, FS_Interval
    <2>3. c \in Surjection(1..n, T)
      BY <1>1, <2>1, <2>2, FS_Injection
    <2> QED
      BY <2>3 DEF Surjection
  <1> QED
    BY <1>1, <1>6, <1>8, <1>9, <1>10 DEF c

-----------------------------------------------------------------------------
(* Counting the calls                                                      *)

\* How often a log has an outcome of a set at a target.
Hits(l, t, O) == {i \in DOMAIN l : l[i][1] = t /\ l[i][2] \in O}
Count(l, t, O) == Cardinality(Hits(l, t, O))

\* One more entry is one more hit or none.
LEMMA CountAppend ==
    ASSUME NEW l, NEW S, l \in Seq(S), NEW t, NEW e \in S, NEW O
    PROVE  /\ Count(l, t, O) \in Nat
           /\ Count(Append(l, e), t, O) = IF e[1] = t /\ e[2] \in O THEN Count(l, t, O) + 1 ELSE Count(l, t, O)
  <1> DEFINE n == Len(l)
             m == Append(l, e)
  <1>1. n \in Nat /\ DOMAIN l = 1..n /\ DOMAIN m = 1..(n + 1) /\ m[n + 1] = e /\ \A i \in 1..n : m[i] = l[i]
    OBVIOUS
  <1>2. IsFiniteSet(Hits(l, t, O))
    <2>1. IsFiniteSet(1..n) /\ Hits(l, t, O) \in SUBSET (1..n)
      BY <1>1, FS_Interval DEF Hits
    <2> QED
      BY <2>1, FS_Subset
  <1>3. Hits(m, t, O) = IF e[1] = t /\ e[2] \in O THEN Hits(l, t, O) \cup {n + 1} ELSE Hits(l, t, O)
    BY <1>1 DEF Hits
  <1>4. n + 1 \notin Hits(l, t, O)
    BY <1>1 DEF Hits
  <1>5. Cardinality(Hits(l, t, O) \cup {n + 1}) = Cardinality(Hits(l, t, O)) + 1
    BY <1>2, <1>4, FS_AddElement
  <1> QED
    BY <1>2, <1>3, <1>5, FS_CardinalityType DEF Count

\* An empty log has no hits.
LEMMA CountEmpty == ASSUME NEW t, NEW O PROVE Count(<<>>, t, O) = 0
  <1>1. Hits(<<>>, t, O) = {}
    BY DEF Hits
  <1> QED
    BY <1>1, FS_EmptySet DEF Count

-----------------------------------------------------------------------------
(* The inductive invariant                                                 *)

ChainFor(x) == Chain(x.profiles, x.configured)
Entries1(x) == TargetsOf(x.profiles) \X Outcomes
ChainLength(x) == Cardinality(TargetsOf(x.profiles))

\* Everyone before position k of the chain has failed once, nobody after it was
\* called, and the first call was to the first of the chain.
Reached(x, l, k) ==
    /\ l \in Seq(Entries1(x)) /\ k \in 1..ChainLength(x)
    /\ \A i \in 1..ChainLength(x) : i < k => Count(l, ChainFor(x)[i], Faults) = 1
    /\ \A j \in DOMAIN l : \E i \in 1..k : l[j][1] = ChainFor(x)[i]
    /\ IF l = <<>> THEN k = 1 ELSE l[1][1] = ChainFor(x)[1]

\* A request that is calling position k for the time n + 1.
Asked(x, l, k, n, infra) ==
    /\ Reached(x, l, k)
    /\ n \in 0..x.retries
    /\ infra <=> k > 1
    /\ \A i \in 1..ChainLength(x) :
          /\ i >= k => Count(l, ChainFor(x)[i], Faults) = 0
          /\ i < k => Count(l, ChainFor(x)[i], {"unparsable"}) <= x.retries
          /\ i = k => Count(l, ChainFor(x)[i], {"unparsable"}) = n
          /\ i > k => Count(l, ChainFor(x)[i], {"unparsable"}) = 0

\* ConfiguredFirst of one log.
InOrder(x, l) ==
    l # <<>> =>
        LET ps == x.profiles
            called == {l[i][1] : i \in DOMAIN l}
        IN  /\ x.configured \in TargetsOf(ps) => l[1][1] = x.configured
            /\ \A t \in called, i \in DOMAIN ps :
                  t # x.configured /\ ps[i].priority < ps[Profile(ps, t)].priority =>
                      Count(l, ps[i].target, Faults) = 1

\* DecisionExplains of one decision.
Explains(d, x, l) ==
    d # NoDecision =>
        LET T == TargetsOf(x.profiles)
            failed == {t \in T : Count(l, t, Faults) > 0}
        IN  /\ d.class = "none" => failed = {}
            /\ d.class = "success_with_fallback" => failed # {}
            /\ d.class = "infra_level" => failed = T
            /\ d.class = "task_level" =>
                  \E t \in T \ failed : Count(l, t, {"unparsable"}) = x.retries + 1
            /\ \A t \in T : Count(l, t, Faults) <= 1
            /\ \A t \in T : Count(l, t, {"unparsable"}) <= x.retries + 1

\* How often a listing has a word of a set, and a log a failure.
Words(e, kinds) == {i \in DOMAIN e : e[i] \in kinds}
TallyOf(e, kinds) == Cardinality(Words(e, kinds))
Failures(l) == {i \in DOMAIN l : l[i][2] \in Faults}

\* The reports heard are not more than the calls, nor those of failures more
\* than the calls that failed.
Reported(e, l) ==
    /\ TallyOf(e, {"answer", "failure"}) <= Len(l)
    /\ TallyOf(e, {"failure"}) <= Cardinality(Failures(l))

Between == {"answer", "failure", "probe"}

\* What the backends of a request have heard at a phase.
Heard(e, phase, l) ==
    /\ e \in Seq(Kinds)
    /\ Reported(e, l)
    /\ phase \in {"new", "waiting", "rejected"} => e = <<>>
    /\ phase \in {"entered", "calling", "answered"} =>
          e # <<>> /\ e[1] = "start" /\ \A i \in DOMAIN e : i # 1 => e[i] \in Between
    /\ phase \in {"ok", "failed", "wrapped", "escaped"} =>
          /\ Len(e) > 1 /\ e[1] = "start" /\ e[Len(e)] \in {"success", "error"}
          /\ \A i \in DOMAIN e : i # 1 /\ i # Len(e) => e[i] \in Between

Inside == {"entered", "calling", "answered"}
Early == {"new", "waiting", "rejected", "entered"}

\* What is known of one request.
RequestSound(x, phase, k, n, infra, d, l) ==
    /\ phase \in Early => l = <<>> /\ d = NoDecision /\ n = 0 /\ ~infra
    /\ phase = "calling" => Asked(x, l, k, n, infra) /\ d = NoDecision
    /\ InOrder(x, l)
    /\ Explains(d, x, l)

ReasonerInv ==
    /\ input \in [Requests -> Inputs]
    /\ rpc \in [Requests -> Early \cup Inside \cup {"ok", "failed", "wrapped", "escaped"}]
    /\ at \in [Requests -> Nat] /\ retry \in [Requests -> Nat] /\ hadInfra \in [Requests -> BOOLEAN]
    /\ DOMAIN decision = Requests /\ DOMAIN events = Requests /\ DOMAIN log = Requests
    /\ lock \in Requests \cup {Nobody} /\ installed = lock
    /\ \A r \in Requests : rpc[r] \in Inside <=> lock = r
    /\ \A r \in Requests : Heard(events[r], rpc[r], log[r])
    /\ \A r \in Requests : RequestSound(input[r], rpc[r], at[r], retry[r], hadInfra[r], decision[r], log[r])

-----------------------------------------------------------------------------
(* What the invariant gives                                                *)

\* Whom the chain has reached, in the order of ConfiguredFirst.
LEMMA ReachedInOrder ==
    ASSUME NEW x \in Inputs, NEW l, NEW k, Reached(x, l, k)
    PROVE  InOrder(x, l)
  <1> DEFINE ps == x.profiles
             T == TargetsOf(ps)
             c == ChainFor(x)
             n == ChainLength(x)
  <1>1. ps \in ProfileLists
    BY ReasonerAssumption DEF ProfileLists
  <1>2. /\ n \in Nat /\ c \in [1..n -> T]
        /\ \A i, j \in 1..n : i < j => Precedes(ps, x.configured, c[i], c[j])
        /\ \A t \in T : \E i \in 1..n : c[i] = t
    BY <1>1, ChainIs DEF ChainFor, ChainLength
  <1>3. k \in 1..n /\ 1 \in 1..n
    BY <1>2 DEF Reached
  <1>4. SUFFICES ASSUME l # <<>>
        PROVE  /\ x.configured \in T => l[1][1] = x.configured
               /\ \A j \in DOMAIN l, i \in DOMAIN ps :
                     l[j][1] # x.configured /\ ps[i].priority < ps[Profile(ps, l[j][1])].priority =>
                         Count(l, ps[i].target, Faults) = 1
    BY DEF InOrder
  <1>5. ASSUME x.configured \in T PROVE c[1] = x.configured
    <2>1. PICK i \in 1..n : c[i] = x.configured
      BY <1>2, <1>5
    <2>2. i # 1 => Precedes(ps, x.configured, c[1], c[i])
      BY <1>2, <1>3
    <2> QED
      BY <2>1, <2>2 DEF Precedes
  <1>6. ASSUME NEW j \in DOMAIN l, NEW i \in DOMAIN ps,
               l[j][1] # x.configured, ps[i].priority < ps[Profile(ps, l[j][1])].priority
        PROVE  Count(l, ps[i].target, Faults) = 1
    <2>1. PICK b \in 1..k : l[j][1] = c[b]
      BY DEF Reached
    <2>2. ps[i].target \in T
      BY DEF TargetsOf
    <2>3. PICK a \in 1..n : c[a] = ps[i].target
      BY <1>2, <2>2
    <2>4. b \in 1..n /\ c[b] \in T
      BY <1>2, <1>3
    <2>5. a < b
      <3>1. CASE c[a] = x.configured
        <4>1. c[1] = x.configured /\ c[b] # x.configured
          BY <1>5, <2>1, <2>2, <2>3, <3>1, <1>6
        <4>2. a # 1 => Precedes(ps, x.configured, c[1], c[a])
          BY <1>2, <1>3
        <4>3. a = 1
          BY <3>1, <4>1, <4>2 DEF Precedes
        <4> QED
          BY <2>4, <4>1, <4>3, <3>1
      <3>2. CASE c[a] # x.configured
        <4> DEFINE p == Profile(ps, c[a])
                   q == Profile(ps, c[b])
        <4>1. p \in DOMAIN ps /\ (p = i \/ Before(ps, p, i)) /\ q \in DOMAIN ps
          BY <1>1, <2>2, <2>3, <2>4, ProfileIs
        <4>2. \A h \in DOMAIN ps : ps[h].priority \in Nat
          BY <1>1, ListFacts
        <4>3. ps[i].priority < ps[q].priority
          BY <1>6, <2>1
        <4>4. ps[p].priority <= ps[i].priority
          BY <4>1, <4>2 DEF Before
        <4>5. ps[p].priority < ps[q].priority
          BY <4>1, <4>2, <4>3, <4>4
        <4>6. ~Before(ps, q, p)
          BY <4>1, <4>2, <4>5 DEF Before
        <4>7. c[b] # x.configured
          BY <1>6, <2>1
        <4>8. ~Precedes(ps, x.configured, c[b], c[a])
          BY <4>6, <4>7 DEF Precedes
        <4>9. a # b
          BY <4>1, <4>2, <4>5
        <4> QED
          BY <1>2, <2>4, <4>8, <4>9
      <3> QED
        BY <3>1, <3>2
    <2>6. a < k
      BY <1>2, <1>3, <2>4, <2>5
    <2> QED
      BY <2>3, <2>6 DEF Reached
  <1> QED
    BY <1>4, <1>5, <1>6 DEF Reached

-----------------------------------------------------------------------------
(* One call                                                                *)

After(x, l, k, o) == Append(l, <<ChainFor(x)[k], o>>)

\* What a call at position k with outcome o makes of the counts.
Counted(x, l, k, o, m) ==
    /\ k \in Nat /\ ChainLength(x) \in Nat /\ m # <<>>
    /\ \A i \in 1..ChainLength(x) : \A O :
          /\ Count(l, ChainFor(x)[i], O) \in Nat
          /\ i # k \/ o \notin O => Count(m, ChainFor(x)[i], O) = Count(l, ChainFor(x)[i], O)
          /\ i = k /\ o \in O => Count(m, ChainFor(x)[i], O) = Count(l, ChainFor(x)[i], O) + 1

\* A call is logged at the current position of the chain.
LEMMA CallLogged ==
    ASSUME NEW x \in Inputs, NEW l, NEW k, Reached(x, l, k), NEW o \in Outcomes
    PROVE  Reached(x, After(x, l, k, o), k) /\ Counted(x, l, k, o, After(x, l, k, o))
  <1> DEFINE c == ChainFor(x)
             n == ChainLength(x)
             S == Entries1(x)
             e == <<c[k], o>>
             m == After(x, l, k, o)
  <1>1. /\ n \in Nat /\ c \in [1..n -> TargetsOf(x.profiles)]
        /\ \A i, j \in 1..n : c[i] = c[j] => i = j
    BY ReasonerAssumption, ChainIs DEF ChainFor, ChainLength, ProfileLists
  <1>2. k \in 1..n /\ e \in S /\ l \in Seq(S)
    BY <1>1 DEF Reached, Entries1
  <1>3. \A i \in 1..n : \A O :
           /\ Count(l, c[i], O) \in Nat
           /\ Count(m, c[i], O) = IF e[1] = c[i] /\ e[2] \in O THEN Count(l, c[i], O) + 1 ELSE Count(l, c[i], O)
    <2> HIDE DEF S, e, c
    <2> QED
      BY <1>2, CountAppend DEF e, c, After
  <1>4. \A i \in 1..n : \A O :
           /\ Count(l, c[i], O) \in Nat
           /\ i # k \/ o \notin O => Count(m, c[i], O) = Count(l, c[i], O)
           /\ i = k /\ o \in O => Count(m, c[i], O) = Count(l, c[i], O) + 1
    BY <1>1, <1>2, <1>3
  <1>5. m \in Seq(S) /\ m # <<>> /\ DOMAIN m = 1..(Len(l) + 1) /\ Len(l) \in Nat /\ DOMAIN l = 1..Len(l)
        /\ m[Len(l) + 1] = e /\ \A j \in DOMAIN l : m[j] = l[j]
    <2> HIDE DEF S, e
    <2> QED
      BY <1>2 DEF e, After
  <1>6. \A j \in DOMAIN m : \E i \in 1..k : m[j][1] = c[i]
    <2> SUFFICES ASSUME NEW j \in DOMAIN m PROVE \E i \in 1..k : m[j][1] = c[i]
      OBVIOUS
    <2>1. CASE j \in DOMAIN l
      BY <1>5, <2>1 DEF Reached
    <2>2. CASE j = Len(l) + 1
      BY <1>1, <1>2, <1>5, <2>2
    <2> QED
      BY <1>5, <2>1, <2>2
  <1>7. m[1][1] = c[1]
    <2>1. CASE l = <<>>
      <3>1. k = 1
        BY <2>1 DEF Reached
      <3> QED
        BY <1>5, <2>1, <3>1
    <2>2. CASE l # <<>>
      BY <1>5, <2>2 DEF Reached
    <2> QED
      BY <2>1, <2>2
  <1>8. \A i \in 1..n : i < k => Count(m, c[i], Faults) = 1
    <2> SUFFICES ASSUME NEW i \in 1..n, i < k PROVE Count(m, c[i], Faults) = 1
      OBVIOUS
    <2>1. Count(l, c[i], Faults) = 1
      BY DEF Reached
    <2>2. i # k
      BY <1>1, <1>2
    <2> QED
      BY <1>4, <2>1, <2>2
  <1>9. Reached(x, m, k)
    BY <1>2, <1>5, <1>6, <1>7, <1>8 DEF Reached
  <1>10. m # <<>> /\ k \in Nat /\ n \in Nat
    BY <1>1, <1>2, <1>5
  <1> QED
    BY <1>1, <1>4, <1>9, <1>10 DEF Counted

\* The chain's length, and every target of the request on it.
LEMMA ChainLengthIs ==
    ASSUME NEW x \in Inputs
    PROVE  /\ ChainLength(x) \in Nat /\ Len(ChainFor(x)) = ChainLength(x)
           /\ \A t \in TargetsOf(x.profiles) : \E i \in 1..ChainLength(x) : ChainFor(x)[i] = t
           /\ \A i \in 1..ChainLength(x) : ChainFor(x)[i] \in TargetsOf(x.profiles)
  <1> DEFINE T == TargetsOf(x.profiles)
             n == ChainLength(x)
             c == ChainFor(x)
  <1>0. x.profiles \in ProfileLists
    BY ReasonerAssumption DEF ProfileLists
  <1>1. n \in Nat /\ c \in [1..n -> T] /\ \A t \in T : \E i \in 1..n : c[i] = t
    BY <1>0, ChainIs DEF ChainFor, ChainLength
  <1> HIDE DEF n, c, T
  <1>2. Len(c) = n
    BY <1>1
  <1> QED
    BY <1>1, <1>2 DEF n, c, T

\* Asked again.
LEMMA AskedRetry ==
    ASSUME NEW x \in Inputs, NEW l, NEW k, NEW n, NEW infra, Asked(x, l, k, n, infra), n < x.retries,
           NEW m, m = After(x, l, k, "unparsable")
    PROVE  Asked(x, m, k, n + 1, infra)
  <1> DEFINE c == ChainFor(x)
             len == ChainLength(x)
  <1>1. x.retries \in Nat /\ n \in Nat
    BY ReasonerAssumption DEF Asked
  <1>2. /\ Reached(x, m, k) /\ k \in Nat /\ len \in Nat
        /\ \A i \in 1..len : \A O :
              /\ Count(l, c[i], O) \in Nat
              /\ i # k \/ "unparsable" \notin O => Count(m, c[i], O) = Count(l, c[i], O)
              /\ i = k /\ "unparsable" \in O => Count(m, c[i], O) = Count(l, c[i], O) + 1
    <2>1. Reached(x, m, k) /\ Counted(x, l, k, "unparsable", m)
      BY CallLogged DEF Asked, Outcomes
    <2> QED
      BY <2>1 DEF Counted
  <1>3. "unparsable" \notin Faults
    BY DEF Faults
  <1> HIDE DEF c, len
  <1>4. ASSUME NEW i \in 1..len
        PROVE  /\ i >= k => Count(m, c[i], Faults) = 0
               /\ i < k => Count(m, c[i], {"unparsable"}) <= x.retries
               /\ i = k => Count(m, c[i], {"unparsable"}) = n + 1
               /\ i > k => Count(m, c[i], {"unparsable"}) = 0
    <2>1. /\ i >= k => Count(l, c[i], Faults) = 0
          /\ i < k => Count(l, c[i], {"unparsable"}) <= x.retries
          /\ i = k => Count(l, c[i], {"unparsable"}) = n
          /\ i > k => Count(l, c[i], {"unparsable"}) = 0
      BY DEF Asked, c, len
    <2>2. Count(m, c[i], Faults) = Count(l, c[i], Faults)
      BY <1>2, <1>3
    <2>3. i # k => Count(m, c[i], {"unparsable"}) = Count(l, c[i], {"unparsable"})
      BY <1>2
    <2>4. i = k => Count(m, c[i], {"unparsable"}) = Count(l, c[i], {"unparsable"}) + 1
      BY <1>2
    <2> QED
      BY <1>2, <2>1, <2>2, <2>3, <2>4
  <1>5. n + 1 \in 0..x.retries /\ (infra <=> k > 1)
    BY <1>1 DEF Asked
  <1> QED
    BY <1>2, <1>4, <1>5 DEF Asked, c, len

\* On to the next provider.
LEMMA AskedNext ==
    ASSUME NEW x \in Inputs, NEW l, NEW k, NEW n, NEW infra, Asked(x, l, k, n, infra), NEW o \in Faults,
           k < ChainLength(x), NEW m, m = After(x, l, k, o), NEW failed, failed
    PROVE  Asked(x, m, k + 1, 0, failed)
  <1> DEFINE c == ChainFor(x)
             len == ChainLength(x)
  <1>1. x.retries \in Nat /\ n \in 0..x.retries /\ k \in 1..len
    BY ReasonerAssumption DEF Asked, Reached
  <1>2. /\ Reached(x, m, k) /\ m # <<>> /\ k \in Nat /\ len \in Nat
        /\ \A i \in 1..len : \A O :
              /\ Count(l, c[i], O) \in Nat
              /\ i # k \/ o \notin O => Count(m, c[i], O) = Count(l, c[i], O)
              /\ i = k /\ o \in O => Count(m, c[i], O) = Count(l, c[i], O) + 1
    <2>1. Reached(x, m, k) /\ Counted(x, l, k, o, m)
      BY CallLogged DEF Asked, Outcomes, Faults
    <2> QED
      BY <2>1 DEF Counted
  <1>3. o \notin {"unparsable"}
    BY DEF Faults
  <1> HIDE DEF c, len
  <1>4. ASSUME NEW i \in 1..len
        PROVE  /\ i < k + 1 => Count(m, c[i], Faults) = 1
               /\ i >= k + 1 => Count(m, c[i], Faults) = 0
               /\ i < k + 1 => Count(m, c[i], {"unparsable"}) <= x.retries
               /\ i >= k + 1 => Count(m, c[i], {"unparsable"}) = 0
    <2>1. /\ i >= k => Count(l, c[i], Faults) = 0
          /\ i < k => Count(l, c[i], {"unparsable"}) <= x.retries
          /\ i = k => Count(l, c[i], {"unparsable"}) = n
          /\ i > k => Count(l, c[i], {"unparsable"}) = 0
          /\ i < k => Count(l, c[i], Faults) = 1
      BY DEF Asked, Reached, c, len
    <2>2. Count(m, c[i], {"unparsable"}) = Count(l, c[i], {"unparsable"})
      BY <1>2, <1>3
    <2>3. i # k => Count(m, c[i], Faults) = Count(l, c[i], Faults)
      BY <1>2
    <2>4. i = k => Count(m, c[i], Faults) = Count(l, c[i], Faults) + 1
      BY <1>2
    <2>5. i \in Nat /\ k \in Nat
      BY <1>2
    <2> QED
      BY <1>1, <2>1, <2>2, <2>3, <2>4, <2>5
  <1>5. Reached(x, m, k + 1)
    <2>1. k + 1 \in 1..len
      BY <1>1, <1>2 DEF len
    <2>2. \A j \in DOMAIN m : \E i \in 1..(k + 1) : m[j][1] = c[i]
      BY <1>2 DEF Reached, c
    <2>3. m \in Seq(Entries1(x)) /\ m[1][1] = c[1]
      BY <1>2 DEF Reached, c
    <2> QED
      BY <1>2, <1>4, <2>1, <2>2, <2>3 DEF Reached, c, len
  <1>6. k + 1 > 1
    BY <1>1, <1>2
  <1>7. \A i \in 1..len :
          /\ i >= k + 1 => Count(m, c[i], Faults) = 0
          /\ i < k + 1 => Count(m, c[i], {"unparsable"}) <= x.retries
          /\ i = k + 1 => Count(m, c[i], {"unparsable"}) = 0
          /\ i > k + 1 => Count(m, c[i], {"unparsable"}) = 0
    <2> SUFFICES ASSUME NEW i \in 1..len
                 PROVE  /\ i >= k + 1 => Count(m, c[i], Faults) = 0
                        /\ i < k + 1 => Count(m, c[i], {"unparsable"}) <= x.retries
                        /\ i = k + 1 => Count(m, c[i], {"unparsable"}) = 0
                        /\ i > k + 1 => Count(m, c[i], {"unparsable"}) = 0
      OBVIOUS
    <2>1. i \in Nat /\ k \in Nat
      BY <1>2
    <2> QED
      BY <1>4, <2>1
  <1>8. 0 \in 0..x.retries
    BY <1>1
  <1> QED
    BY <1>5, <1>6, <1>7, <1>8 DEF Asked, c, len

\* What the log says of each target after the last call.
Closed(x, k, n, o, m) ==
    \A i \in 1..ChainLength(x) :
        LET f == Count(m, ChainFor(x)[i], Faults)
            u == Count(m, ChainFor(x)[i], {"unparsable"})
        IN  /\ f = IF i < k \/ (i = k /\ o \in Faults) THEN 1 ELSE 0
            /\ u \in Nat /\ u <= x.retries + 1
            /\ i = k /\ o = "unparsable" => u = n + 1

\* The last call leaves every count as Closed says.
LEMMA LastCall ==
    ASSUME NEW x \in Inputs, NEW l, NEW k, NEW n, NEW infra, Asked(x, l, k, n, infra), NEW o \in Outcomes,
           NEW m, m = After(x, l, k, o)
    PROVE  Closed(x, k, n, o, m)
  <1> DEFINE c == ChainFor(x)
             len == ChainLength(x)
  <1>1. x.retries \in Nat /\ n \in 0..x.retries /\ k \in 1..len
    BY ReasonerAssumption DEF Asked, Reached
  <1>2. /\ k \in Nat /\ len \in Nat
        /\ \A i \in 1..len : \A O :
              /\ Count(l, c[i], O) \in Nat
              /\ i # k \/ o \notin O => Count(m, c[i], O) = Count(l, c[i], O)
              /\ i = k /\ o \in O => Count(m, c[i], O) = Count(l, c[i], O) + 1
    <2>1. Counted(x, l, k, o, m)
      BY CallLogged DEF Asked
    <2> QED
      BY <2>1 DEF Counted
  <1> HIDE DEF c, len
  <1>3. ASSUME NEW i \in 1..len
        PROVE  /\ Count(m, c[i], Faults) = IF i < k \/ (i = k /\ o \in Faults) THEN 1 ELSE 0
               /\ Count(m, c[i], {"unparsable"}) \in Nat
               /\ Count(m, c[i], {"unparsable"}) <= x.retries + 1
               /\ i = k /\ o = "unparsable" => Count(m, c[i], {"unparsable"}) = n + 1
    <2>1. /\ i >= k => Count(l, c[i], Faults) = 0
          /\ i < k => Count(l, c[i], {"unparsable"}) <= x.retries
          /\ i = k => Count(l, c[i], {"unparsable"}) = n
          /\ i > k => Count(l, c[i], {"unparsable"}) = 0
          /\ i < k => Count(l, c[i], Faults) = 1
      BY DEF Asked, Reached, c, len
    <2>2. /\ i # k \/ o \notin Faults => Count(m, c[i], Faults) = Count(l, c[i], Faults)
          /\ i = k /\ o \in Faults => Count(m, c[i], Faults) = Count(l, c[i], Faults) + 1
      BY <1>2
    <2>3. /\ Count(l, c[i], {"unparsable"}) \in Nat
          /\ i # k \/ o # "unparsable" => Count(m, c[i], {"unparsable"}) = Count(l, c[i], {"unparsable"})
          /\ i = k /\ o = "unparsable" => Count(m, c[i], {"unparsable"}) = Count(l, c[i], {"unparsable"}) + 1
      BY <1>2
    <2>4. i \in Nat
      BY <1>2
    <2> HIDE DEF Faults
    <2>5. Count(m, c[i], Faults) = IF i < k \/ (i = k /\ o \in Faults) THEN 1 ELSE 0
      BY <1>2, <2>1, <2>2, <2>4
    <2>6. Count(l, c[i], {"unparsable"}) <= x.retries
      BY <1>1, <1>2, <2>1, <2>4
    <2> QED
      BY <1>1, <2>1, <2>3, <2>5, <2>6
  <1> QED
    BY <1>3 DEF Closed, c, len

\* The decision of a request that a call ends.
LEMMA EndExplained ==
    ASSUME NEW x \in Inputs, NEW l, NEW k, NEW n, NEW infra, Asked(x, l, k, n, infra), NEW o \in Outcomes,
           NEW m, m = After(x, l, k, o), NEW d,
           \/ o = "parsed" /\ d.class = IF infra THEN "success_with_fallback" ELSE "none"
           \/ o = "unparsable" /\ n = x.retries /\ d.class = "task_level"
           \/ o \in Faults /\ k = ChainLength(x) /\ d.class = "infra_level"
    PROVE  Explains(d, x, m)
  <1> DEFINE c == ChainFor(x)
             len == ChainLength(x)
             T == TargetsOf(x.profiles)
             failed == {t \in T : Count(m, t, Faults) > 0}
  <1>1. /\ len \in Nat /\ \A t \in T : \E i \in 1..len : c[i] = t
        /\ \A i \in 1..len : c[i] \in T
    BY ChainLengthIs
  <1>2. \A i \in 1..len :
           /\ Count(m, c[i], Faults) = IF i < k \/ (i = k /\ o \in Faults) THEN 1 ELSE 0
           /\ Count(m, c[i], {"unparsable"}) <= x.retries + 1
           /\ i = k /\ o = "unparsable" => Count(m, c[i], {"unparsable"}) = n + 1
    <2>1. Closed(x, k, n, o, m)
      BY LastCall
    <2> QED
      BY <2>1 DEF Closed
  <1>3. k \in 1..len /\ (infra <=> k > 1)
    BY DEF Asked, Reached
  <1>4. \A t \in T : Count(m, t, Faults) <= 1 /\ Count(m, t, {"unparsable"}) <= x.retries + 1
    <2> HIDE DEF c, len, T
    <2> QED
      BY <1>1, <1>2
  <1>5. o = "parsed" \/ o = "unparsable" => o \notin Faults
    BY DEF Faults
  <1> HIDE DEF c, len, T
  <1>6. d.class = "none" => failed = {}
    <2> SUFFICES ASSUME d.class = "none", NEW t \in T, Count(m, t, Faults) > 0 PROVE FALSE
      OBVIOUS
    <2>1. o = "parsed" /\ ~infra
      OBVIOUS
    <2>2. k = 1
      BY <1>1, <1>3, <2>1
    <2>3. PICK i \in 1..len : c[i] = t
      BY <1>1
    <2>4. ~(i < k)
      BY <1>1, <2>2
    <2>5. Count(m, c[i], Faults) = 0
      BY <1>2, <1>5, <2>1, <2>4
    <2> QED
      BY <2>3, <2>5
  <1>7. d.class = "success_with_fallback" => failed # {}
    <2> SUFFICES ASSUME d.class = "success_with_fallback" PROVE failed # {}
      OBVIOUS
    <2>1. infra
      OBVIOUS
    <2>2. 1 \in 1..len /\ 1 < k
      BY <1>1, <1>3, <2>1
    <2>3. Count(m, c[1], Faults) = 1 /\ c[1] \in T
      BY <1>1, <1>2, <2>2
    <2> QED
      BY <2>3
  <1>8. d.class = "infra_level" => failed = T
    <2> SUFFICES ASSUME d.class = "infra_level", NEW t \in T PROVE Count(m, t, Faults) > 0
      OBVIOUS
    <2>1. o \in Faults /\ k = len
      BY DEF len
    <2>2. PICK i \in 1..len : c[i] = t
      BY <1>1
    <2>3. i < k \/ i = k
      BY <1>1, <2>1
    <2> QED
      BY <1>2, <2>1, <2>2, <2>3
  <1>9. d.class = "task_level" => \E t \in T \ failed : Count(m, t, {"unparsable"}) = x.retries + 1
    <2> SUFFICES ASSUME d.class = "task_level" PROVE \E t \in T \ failed : Count(m, t, {"unparsable"}) = x.retries + 1
      OBVIOUS
    <2>1. o = "unparsable" /\ n = x.retries
      OBVIOUS
    <2>2. c[k] \in T /\ Count(m, c[k], Faults) = 0
      BY <1>1, <1>2, <1>3, <1>5, <2>1
    <2>3. Count(m, c[k], {"unparsable"}) = x.retries + 1
      BY <1>2, <1>3, <2>1
    <2> QED
      BY <2>2, <2>3
  <1> QED
    BY <1>4, <1>6, <1>7, <1>8, <1>9 DEF Explains, T


-----------------------------------------------------------------------------
(* What the backends hear                                                  *)

Over == {"ok", "failed", "wrapped", "escaped"}

\* One more word at the end.
LEMMA HeardMore ==
    ASSUME NEW e \in Seq(Kinds), NEW w \in Kinds
    PROVE  /\ Append(e, w) \in Seq(Kinds) /\ Append(e, w) # <<>>
           /\ Len(e) \in Nat /\ Len(Append(e, w)) = Len(e) + 1 /\ DOMAIN e = 1..Len(e)
           /\ DOMAIN Append(e, w) = 1..(Len(e) + 1) /\ Append(e, w)[Len(e) + 1] = w
           /\ \A i \in 1..Len(e) : Append(e, w)[i] = e[i]
           /\ e # <<>> => 1 \in 1..Len(e)
  <1> DEFINE n == Len(e)
             m == Append(e, w)
  <1> HIDE DEF Kinds
  <1>1. n \in Nat /\ DOMAIN e = 1..n /\ (e # <<>> => n > 0)
    OBVIOUS
  <1>2. m \in Seq(Kinds) /\ Len(m) = n + 1 /\ DOMAIN m = 1..(n + 1)
    OBVIOUS
  <1>3. m[n + 1] = w /\ \A i \in 1..n : m[i] = e[i]
    OBVIOUS
  <1> HIDE DEF m, n
  <1>4. m # <<>>
    BY <1>1, <1>2
  <1>5. e # <<>> => 1 \in 1..n
    BY <1>1
  <1> QED
    BY <1>1, <1>2, <1>3, <1>4, <1>5 DEF m, n

\* The words of a step, one by one.
LEMMA HeardWords ==
    ASSUME NEW e \in Seq(Kinds), NEW s \in Seq(Kinds), NEW w \in Kinds
    PROVE  e \o <<>> = e /\ e \o <<w>> = Append(e, w) /\ <<>> \o <<w>> = <<w>>
           /\ e \o (s \o <<w>>) = Append(e \o s, w)
  <1> HIDE DEF Kinds
  <1> QED
    OBVIOUS

\* One more word is one more of a set or none.
LEMMA TallyMore ==
    ASSUME NEW e \in Seq(Kinds), NEW w \in Kinds, NEW K
    PROVE  /\ TallyOf(e, K) \in Nat
           /\ TallyOf(Append(e, w), K) = IF w \in K THEN TallyOf(e, K) + 1 ELSE TallyOf(e, K)
  <1> DEFINE n == Len(e)
             m == Append(e, w)
  <1>1. n \in Nat /\ DOMAIN e = 1..n /\ DOMAIN m = 1..(n + 1) /\ m[n + 1] = w /\ \A i \in 1..n : m[i] = e[i]
    BY HeardMore
  <1> HIDE DEF n, m
  <1>2. IsFiniteSet(Words(e, K))
    <2>1. IsFiniteSet(1..n) /\ Words(e, K) \in SUBSET (1..n)
      BY <1>1, FS_Interval DEF Words
    <2> QED
      BY <2>1, FS_Subset
  <1>3. Words(m, K) = IF w \in K THEN Words(e, K) \cup {n + 1} ELSE Words(e, K)
    BY <1>1 DEF Words
  <1>4. n + 1 \notin Words(e, K)
    BY <1>1 DEF Words
  <1>5. Cardinality(Words(e, K) \cup {n + 1}) = Cardinality(Words(e, K)) + 1
    BY <1>2, <1>4, FS_AddElement
  <1> QED
    BY <1>2, <1>3, <1>5, FS_CardinalityType DEF TallyOf, m

\* One more call is one more failure or none.
LEMMA FailuresMore ==
    ASSUME NEW S, NEW l \in Seq(S), NEW c \in S
    PROVE  /\ Len(l) \in Nat /\ Len(Append(l, c)) = Len(l) + 1
           /\ Cardinality(Failures(l)) \in Nat
           /\ Cardinality(Failures(Append(l, c))) =
                 IF c[2] \in Faults THEN Cardinality(Failures(l)) + 1 ELSE Cardinality(Failures(l))
  <1> DEFINE n == Len(l)
             m == Append(l, c)
  <1>1. /\ n \in Nat /\ DOMAIN l = 1..n /\ DOMAIN m = 1..(n + 1) /\ Len(m) = n + 1 /\ m[n + 1] = c
        /\ \A i \in 1..n : m[i] = l[i]
    OBVIOUS
  <1> HIDE DEF n, m
  <1>2. IsFiniteSet(Failures(l))
    <2>1. IsFiniteSet(1..n) /\ Failures(l) \in SUBSET (1..n)
      BY <1>1, FS_Interval DEF Failures
    <2> QED
      BY <2>1, FS_Subset
  <1>3. Failures(m) = IF c[2] \in Faults THEN Failures(l) \cup {n + 1} ELSE Failures(l)
    BY <1>1 DEF Failures
  <1>4. n + 1 \notin Failures(l)
    BY <1>1 DEF Failures
  <1>5. Cardinality(Failures(l) \cup {n + 1}) = Cardinality(Failures(l)) + 1
    BY <1>2, <1>4, FS_AddElement
  <1> QED
    BY <1>1, <1>2, <1>3, <1>5, FS_CardinalityType DEF n, m

\* Nothing is reported before anything is heard.
LEMMA NothingReported == Reported(<<>>, <<>>)
  <1> SUFFICES ASSUME NEW e, e = <<>> PROVE Reported(e, e)
    OBVIOUS
  <1>1. Words(e, {"answer", "failure"}) = {} /\ Words(e, {"failure"}) = {} /\ Failures(e) = {}
    BY DEF Words, Failures
  <1>2. Cardinality({}) = 0 /\ Len(e) = 0
    BY FS_EmptySet
  <1>3. TallyOf(e, {"answer", "failure"}) = 0 /\ TallyOf(e, {"failure"}) = 0
    BY <1>1, <1>2 DEF TallyOf
  <1> QED
    BY <1>1, <1>2, <1>3 DEF Reported

\* A word that reports no call.
LEMMA NotReported ==
    ASSUME NEW e \in Seq(Kinds), NEW w \in Kinds, w \notin {"answer", "failure"}, NEW l, Reported(e, l)
    PROVE  Reported(Append(e, w), l)
  BY TallyMore DEF Reported

\* The start.
LEMMA HeardStart ==
    ASSUME NEW e, NEW l, Heard(e, "waiting", l) PROVE Heard(Append(e, "start"), "entered", l)
  <1>1. e = <<>> /\ e \in Seq(Kinds) /\ "start" \in Kinds /\ "start" \notin {"answer", "failure"} /\ Reported(e, l)
    BY DEF Heard, Kinds
  <1>2. Reported(Append(e, "start"), l)
    BY <1>1, NotReported
  <1> QED
    BY <1>1, <1>2, HeardMore DEF Heard

\* One more word between the start and the end.
LEMMA HeardBetween ==
    ASSUME NEW e, NEW phase \in Inside, NEW l, Heard(e, phase, l), NEW w \in Between
    PROVE  /\ Append(e, w) \in Seq(Kinds) /\ Append(e, w) # <<>> /\ Append(e, w)[1] = "start"
           /\ \A i \in DOMAIN Append(e, w) : i # 1 => Append(e, w)[i] \in Between
  <1>1. e \in Seq(Kinds) /\ w \in Kinds
    BY DEF Heard, Kinds, Between
  <1>2. e # <<>> /\ e[1] = "start" /\ \A i \in DOMAIN e : i # 1 => e[i] \in Between
    BY DEF Heard, Inside
  <1> DEFINE m == Append(e, w)
  <1>3. /\ m \in Seq(Kinds) /\ m # <<>> /\ Len(e) \in Nat /\ DOMAIN e = 1..Len(e)
        /\ DOMAIN m = 1..(Len(e) + 1) /\ m[Len(e) + 1] = w /\ 1 \in 1..Len(e)
        /\ \A i \in 1..Len(e) : m[i] = e[i]
    BY <1>1, <1>2, HeardMore
  <1> HIDE DEF m
  <1>4. ASSUME NEW i \in DOMAIN m, i # 1 PROVE m[i] \in Between
    <2>1. i \in 1..Len(e) \/ i = Len(e) + 1
      BY <1>3
    <2> QED
      BY <1>2, <1>3, <1>4, <2>1
  <1>5. m \in Seq(Kinds) /\ m # <<>> /\ m[1] = "start" /\ \A i \in DOMAIN m : i # 1 => m[i] \in Between
    BY <1>2, <1>3, <1>4
  <1> QED
    BY <1>5 DEF m

\* A probe inside.
LEMMA HeardProbe ==
    ASSUME NEW e, NEW phase \in Inside, NEW l, Heard(e, phase, l) PROVE Heard(Append(e, "probe"), phase, l)
  <1>1. e \in Seq(Kinds) /\ Reported(e, l) /\ "probe" \in Kinds /\ "probe" \in Between
        /\ "probe" \notin {"answer", "failure"}
    BY DEF Heard, Kinds, Between
  <1>2. Reported(Append(e, "probe"), l)
    BY <1>1, NotReported
  <1>3. /\ Append(e, "probe") \in Seq(Kinds) /\ Append(e, "probe") # <<>> /\ Append(e, "probe")[1] = "start"
        /\ \A i \in DOMAIN Append(e, "probe") : i # 1 => Append(e, "probe")[i] \in Between
    BY <1>1, HeardBetween
  <1> QED
    BY <1>2, <1>3 DEF Heard, Inside

\* What is reported of a call: nothing, an answer, or a failure of one that
\* failed.
LEMMA ReportsAre ==
    ASSUME NEW t, NEW o \in Outcomes, NEW reports \in Reports(t, o)
    PROVE  \/ reports = <<>>
           \/ reports = <<"answer">>
           \/ reports = <<"failure">> /\ o \in Faults
  <1>1. CASE t \in Direct
    BY <1>1 DEF Reports
  <1>2. CASE t \notin Direct /\ o \in {"parsed", "unparsable"}
    BY <1>2 DEF Reports
  <1>3. CASE t \notin Direct /\ o = "timeout"
    BY <1>3 DEF Reports, Faults
  <1>4. CASE t \notin Direct /\ o = "infra"
    BY <1>4 DEF Reports, Faults
  <1> QED
    BY <1>1, <1>2, <1>3, <1>4 DEF Outcomes

\* A call and what is reported of it.
LEMMA HeardCall ==
    ASSUME NEW e, NEW S, NEW l \in Seq(S), NEW c \in S, NEW t, NEW reports \in Reports(t, c[2]),
           c[2] \in Outcomes, Heard(e, "calling", l)
    PROVE  /\ \A phase \in Inside : Heard(e \o reports, phase, Append(l, c))
           /\ reports \in Seq(Kinds)
  <1>1. e \in Seq(Kinds) /\ Reported(e, l) /\ "calling" \in Inside
        /\ e # <<>> /\ e[1] = "start" /\ \A i \in DOMAIN e : i # 1 => e[i] \in Between
    BY DEF Heard, Inside
  <1>2. /\ Len(l) \in Nat /\ Len(Append(l, c)) = Len(l) + 1
        /\ Cardinality(Failures(l)) \in Nat
        /\ Cardinality(Failures(Append(l, c))) =
              IF c[2] \in Faults THEN Cardinality(Failures(l)) + 1 ELSE Cardinality(Failures(l))
    BY FailuresMore
  <1>3. /\ TallyOf(e, {"answer", "failure"}) \in Nat /\ TallyOf(e, {"failure"}) \in Nat
        /\ TallyOf(e, {"answer", "failure"}) <= Len(l)
        /\ TallyOf(e, {"failure"}) <= Cardinality(Failures(l))
    <2>1. "start" \in Kinds
      BY DEF Kinds
    <2> QED
      BY <1>1, <2>1, TallyMore DEF Reported
  <1>4. CASE reports = <<>>
    <2>1. e \o reports = e /\ reports \in Seq(Kinds)
      <3>1. "start" \in Kinds
        BY DEF Kinds
      <3> QED
        BY <1>1, <1>4, <3>1, HeardWords
    <2>2. Reported(e, Append(l, c))
      BY <1>2, <1>3 DEF Reported
    <2> QED
      BY <1>1, <2>1, <2>2 DEF Heard, Inside
  <1>5. ASSUME NEW w \in {"answer", "failure"}, reports = <<w>>, w = "failure" => c[2] \in Faults
        PROVE  /\ \A phase \in Inside : Heard(e \o reports, phase, Append(l, c))
               /\ reports \in Seq(Kinds)
    <2>1. w \in Kinds /\ w \in Between
      BY DEF Kinds, Between
    <2>2. e \o reports = Append(e, w) /\ reports \in Seq(Kinds)
      <3>1. e \o <<w>> = Append(e, w)
        BY <1>1, <2>1, HeardWords
      <3>2. <<w>> \in Seq(Kinds)
        BY <2>1
      <3> QED
        BY <1>5, <3>1, <3>2
    <2>3. Reported(Append(e, w), Append(l, c))
      <3>1. TallyOf(Append(e, w), {"answer", "failure"}) = TallyOf(e, {"answer", "failure"}) + 1
        BY <1>1, <2>1, TallyMore
      <3>2. TallyOf(Append(e, w), {"failure"}) =
               IF w = "failure" THEN TallyOf(e, {"failure"}) + 1 ELSE TallyOf(e, {"failure"})
        BY <1>1, <2>1, TallyMore
      <3> QED
        BY <1>2, <1>3, <1>5, <3>1, <3>2 DEF Reported
    <2>4. /\ Append(e, w) \in Seq(Kinds) /\ Append(e, w) # <<>> /\ Append(e, w)[1] = "start"
          /\ \A i \in DOMAIN Append(e, w) : i # 1 => Append(e, w)[i] \in Between
      BY <1>1, <2>1, HeardBetween
    <2> QED
      BY <2>2, <2>3, <2>4 DEF Heard, Inside
  <1>6. \/ reports = <<>>
        \/ reports = <<"answer">>
        \/ reports = <<"failure">> /\ c[2] \in Faults
    BY ReportsAre
  <1> QED
    BY <1>4, <1>5, <1>6

\* The one end.
LEMMA HeardEnd ==
    ASSUME NEW e, NEW phase \in Inside, NEW l, Heard(e, phase, l), NEW w \in {"success", "error"},
           NEW over \in Over
    PROVE  Heard(Append(e, w), over, l)
  <1>1. e \in Seq(Kinds) /\ Reported(e, l) /\ w \in Kinds /\ w \notin {"answer", "failure"}
    BY DEF Heard, Kinds
  <1>2. e # <<>> /\ e[1] = "start" /\ \A i \in DOMAIN e : i # 1 => e[i] \in Between
    BY DEF Heard, Inside
  <1>0. Reported(Append(e, w), l)
    BY <1>1, NotReported
  <1> DEFINE m == Append(e, w)
  <1>3. /\ m \in Seq(Kinds) /\ Len(m) > 1 /\ m[1] = "start" /\ m[Len(m)] = w
        /\ \A i \in DOMAIN m : i # 1 /\ i # Len(m) => m[i] \in Between
    <2>1. /\ m \in Seq(Kinds) /\ m # <<>> /\ Len(e) \in Nat /\ DOMAIN e = 1..Len(e) /\ Len(m) = Len(e) + 1
          /\ DOMAIN m = 1..(Len(e) + 1) /\ m[Len(e) + 1] = w /\ 1 \in 1..Len(e)
          /\ \A i \in 1..Len(e) : m[i] = e[i]
      BY <1>1, <1>2, HeardMore
    <2> HIDE DEF m
    <2>2. ASSUME NEW i \in DOMAIN m, i # 1, i # Len(m) PROVE m[i] \in Between
      <3>1. i \in 1..Len(e)
        BY <2>1, <2>2
      <3> QED
        BY <1>2, <2>1, <2>2, <3>1
    <2> QED
      BY <1>2, <2>1, <2>2
  <1> HIDE DEF m
  <1>4. Heard(m, over, l)
    BY <1>0, <1>3 DEF Heard, Over, m
  <1> QED
    BY <1>4 DEF m

-----------------------------------------------------------------------------
(* The steps                                                               *)

\* The invariant after a step of one request.
LEMMA OneRequest ==
    ASSUME ReasonerInv, NEW r \in Requests, input' = input,
           rpc' \in [Requests -> Early \cup Inside \cup Over],
           at' \in [Requests -> Nat], retry' \in [Requests -> Nat], hadInfra' \in [Requests -> BOOLEAN],
           DOMAIN decision' = Requests, DOMAIN events' = Requests, DOMAIN log' = Requests,
           \A s \in Requests \ {r} : /\ rpc'[s] = rpc[s] /\ at'[s] = at[s] /\ retry'[s] = retry[s]
                                     /\ hadInfra'[s] = hadInfra[s] /\ decision'[s] = decision[s]
                                     /\ events'[s] = events[s] /\ log'[s] = log[s],
           installed' = lock',
           \/ lock' = lock /\ (rpc'[r] \in Inside <=> rpc[r] \in Inside)
           \/ lock = Nobody /\ lock' = r /\ rpc'[r] \in Inside
           \/ rpc[r] \in Inside /\ lock' = Nobody /\ rpc'[r] \notin Inside,
           Heard(events'[r], rpc'[r], log'[r]),
           RequestSound(input[r], rpc'[r], at'[r], retry'[r], hadInfra'[r], decision'[r], log'[r])
    PROVE  ReasonerInv'
  <1> USE DEF ReasonerInv
  <1>1. lock' \in Requests \cup {Nobody}
    OBVIOUS
  <1>2. \A s \in Requests : rpc'[s] \in Inside <=> lock' = s
    BY ReasonerAssumption
  <1>3. \A s \in Requests : Heard(events'[s], rpc'[s], log'[s])
    OBVIOUS
  <1>4. \A s \in Requests :
           RequestSound(input'[s], rpc'[s], at'[s], retry'[s], hadInfra'[s], decision'[s], log'[s])
    OBVIOUS
  <1> QED
    BY <1>1, <1>2, <1>3, <1>4 DEF Over

\* The same with the frame named.
Alone(r) ==
    /\ input' = input /\ rpc' \in [Requests -> Early \cup Inside \cup Over]
    /\ at' \in [Requests -> Nat] /\ retry' \in [Requests -> Nat] /\ hadInfra' \in [Requests -> BOOLEAN]
    /\ DOMAIN decision' = Requests /\ DOMAIN events' = Requests /\ DOMAIN log' = Requests
    /\ \A s \in Requests \ {r} : /\ rpc'[s] = rpc[s] /\ at'[s] = at[s] /\ retry'[s] = retry[s]
                                 /\ hadInfra'[s] = hadInfra[s] /\ decision'[s] = decision[s]
                                 /\ events'[s] = events[s] /\ log'[s] = log[s]

\* A step of one request that keeps or frees the lock.
LEMMA AloneStep ==
    ASSUME ReasonerInv, NEW r \in Requests, Alone(r), installed' = lock',
           \/ lock' = lock /\ (rpc'[r] \in Inside <=> rpc[r] \in Inside)
           \/ rpc[r] \in Inside /\ lock' = Nobody /\ rpc'[r] \notin Inside,
           Heard(events'[r], rpc'[r], log'[r]),
           RequestSound(input[r], rpc'[r], at'[r], retry'[r], hadInfra'[r], decision'[r], log'[r])
    PROVE  ReasonerInv'
  BY OneRequest DEF Alone

\* A request that has not called.
LEMMA NotCalled ==
    ASSUME NEW x \in Inputs, NEW phase, NEW k, NEW n, NEW infra, NEW d,
           d = NoDecision \/ (d.class = "infra_level" /\ x.profiles = <<>>),
           phase \in Early => d = NoDecision /\ n = 0 /\ ~infra,
           phase # "calling"
    PROVE  RequestSound(x, phase, k, n, infra, d, <<>>)
  <1>1. InOrder(x, <<>>)
    BY DEF InOrder
  <1>2. CASE d = NoDecision
    BY <1>1, <1>2 DEF RequestSound, Explains
  <1>3. CASE d.class = "infra_level" /\ x.profiles = <<>>
    <2>1. TargetsOf(x.profiles) = {}
      BY <1>3 DEF TargetsOf
    <2>2. Explains(d, x, <<>>)
      BY <1>3, <2>1 DEF Explains
    <2> QED
      BY <1>1, <2>2 DEF RequestSound
  <1> QED
    BY <1>2, <1>3

\* A request that begins to call.
LEMMA BeginsToCall ==
    ASSUME NEW x \in Inputs, x.profiles # <<>>, NEW infra, ~infra
    PROVE  RequestSound(x, "calling", 1, 0, infra, NoDecision, <<>>)
  <1> DEFINE len == ChainLength(x)
             c == ChainFor(x)
  <1>1. x.retries \in Nat /\ x.profiles \in ProfileLists
    BY ReasonerAssumption DEF ProfileLists
  <1>2. len \in Nat /\ (\A t \in TargetsOf(x.profiles) : \E i \in 1..len : c[i] = t)
    BY ChainLengthIs
  <1>3. 1 \in DOMAIN x.profiles
    <2> DEFINE ps == x.profiles
    <2>1. ps \in ProfileLists /\ ps # <<>>
      BY <1>1
    <2> HIDE DEF ps
    <2> QED
      BY <2>1 DEF ProfileLists, ps
  <1>4. x.profiles[1].target \in TargetsOf(x.profiles)
    BY <1>3 DEF TargetsOf
  <1>5. 1 \in 1..len
    BY <1>2, <1>4
  <1>6. <<>> \in Seq(Entries1(x)) /\ DOMAIN <<>> = {}
    OBVIOUS
  <1>7. Reached(x, <<>>, 1)
    BY <1>5, <1>6 DEF Reached, len
  <1>8. Asked(x, <<>>, 1, 0, infra)
    <2>1. \A i \in 1..len : \A O : Count(<<>>, c[i], O) = 0
      BY CountEmpty
    <2>2. 0 \in 0..x.retries
      BY <1>1
    <2> HIDE DEF len
    <2>3. \A i \in 1..len : ~(i < 1)
      BY <1>2
    <2> QED
      BY <1>7, <2>1, <2>2, <2>3 DEF Asked, len
  <1>9. InOrder(x, <<>>) /\ Explains(NoDecision, x, <<>>)
    BY DEF InOrder, Explains
  <1> QED
    BY <1>8, <1>9 DEF RequestSound, Early


\* What is known of a request where it is.
LEMMA AtRequest ==
    ASSUME ReasonerInv, NEW r \in Requests
    PROVE  /\ input[r] \in Inputs /\ Heard(events[r], rpc[r], log[r])
           /\ RequestSound(input[r], rpc[r], at[r], retry[r], hadInfra[r], decision[r], log[r])
           /\ rpc[r] \in Inside <=> lock = r
  BY DEF ReasonerInv

\* No request calls before it has entered.
LEMMA BeforeCalls ==
    ASSUME ReasonerInv, NEW r \in Requests, Submit(r) \/ Enter(r) \/ PrepareFails(r) \/ BeginCalls(r)
    PROVE  ReasonerInv'
  <1>1. /\ rpc \in [Requests -> Early \cup Inside \cup Over] /\ at \in [Requests -> Nat]
        /\ retry \in [Requests -> Nat] /\ hadInfra \in [Requests -> BOOLEAN] /\ installed = lock
        /\ DOMAIN decision = Requests /\ DOMAIN events = Requests /\ DOMAIN log = Requests
    BY DEF ReasonerInv, Over
  <1>2. /\ input[r] \in Inputs /\ Heard(events[r], rpc[r], log[r]) /\ (rpc[r] \in Inside <=> lock = r)
        /\ RequestSound(input[r], rpc[r], at[r], retry[r], hadInfra[r], decision[r], log[r])
    BY AtRequest
  <1>3. rpc[r] \in {"new", "waiting", "entered"}
    BY DEF Submit, Enter, PrepareFails, BeginCalls
  <1>4. log[r] = <<>> /\ decision[r] = NoDecision /\ retry[r] = 0 /\ ~hadInfra[r]
    BY <1>2, <1>3 DEF RequestSound, Early
  <1>5. CASE Submit(r)
    <2>1. PICK phase \in {"waiting", "rejected"} : rpc' = [rpc EXCEPT ![r] = phase]
      BY <1>5 DEF Submit, RMove
    <2>2. events' = events /\ Heard(events[r], phase, log[r])
      BY <1>2, <1>5 DEF Submit, Heard
    <2>3. RequestSound(input[r], phase, at[r], retry[r], hadInfra[r], decision[r], <<>>)
      BY <1>2, <1>4, NotCalled
    <2>4. rpc[r] \notin Inside /\ phase \notin Inside /\ phase \in Early
      BY <1>5 DEF Submit, Inside, Early
    <2> QED
      BY <1>1, <1>4, <1>5, <2>1, <2>2, <2>3, <2>4, OneRequest DEF Submit
  <1>6. CASE Enter(r)
    <2>1. Heard(Append(events[r], "start"), "entered", log[r])
      BY <1>2, <1>6, HeardStart DEF Enter
    <2>2. RequestSound(input[r], "entered", at[r], retry[r], hadInfra[r], decision[r], <<>>)
      BY <1>2, <1>4, NotCalled
    <2>3. "entered" \in Inside
      BY DEF Inside
    <2>4. events[r] \o <<"start">> = Append(events[r], "start")
      BY <1>2, HeardWords DEF Heard, Kinds
    <2> QED
      BY <1>1, <1>4, <1>6, <2>1, <2>2, <2>3, <2>4, OneRequest DEF Enter, RMove, Tell
  <1>7. CASE PrepareFails(r)
    <2>1. rpc[r] \in Inside /\ "failed" \in Over /\ "failed" \notin Inside /\ "failed" \notin Early
      BY <1>7 DEF PrepareFails, Inside, Over, Early
    <2>2. Heard(Append(events[r], "error"), "failed", log[r])
      BY <1>2, <2>1, HeardEnd
    <2>3. RequestSound(input[r], "failed", at[r], retry[r], hadInfra[r], decision[r], <<>>)
      BY <1>2, <1>4, <2>1, NotCalled
    <2>4. events[r] \o (<<>> \o <<"error">>) = Append(events[r], "error")
      BY <1>2, HeardWords DEF Heard, Kinds
    <2> QED
      BY <1>1, <1>4, <1>7, <2>1, <2>2, <2>3, <2>4, OneRequest
         DEF PrepareFails, Leave, RMove, Tell, Uninstalled, Unlocked
  <1>8. CASE BeginCalls(r) /\ input[r].profiles = <<>>
    <2>1. rpc[r] \in Inside /\ "wrapped" \in Over /\ "wrapped" \notin Inside /\ "wrapped" \notin Early
      BY <1>8 DEF BeginCalls, Inside, Over, Early
    <2>2. Heard(Append(events[r], "error"), "wrapped", log[r])
      BY <1>2, <2>1, HeardEnd
    <2>0. /\ Decide(r, "infra_level") /\ Leave(r, "wrapped", <<>>, "error")
          /\ UNCHANGED <<input, at, retry, hadInfra, probes, log>>
      BY <1>8 DEF BeginCalls
    <2>3. DOMAIN decision' = Requests /\ decision'[r].class = "infra_level"
          /\ \A s \in Requests \ {r} : decision'[s] = decision[s]
      BY <1>1, <2>0 DEF Decide
    <2>4. RequestSound(input[r], "wrapped", at[r], retry[r], hadInfra[r], decision'[r], <<>>)
      BY <1>2, <1>8, <2>1, <2>3, NotCalled
    <2>5. events[r] \o (<<>> \o <<"error">>) = Append(events[r], "error")
      BY <1>2, HeardWords DEF Heard, Kinds
    <2> QED
      <3>1. /\ rpc' \in [Requests -> Early \cup Inside \cup Over] /\ rpc'[r] = "wrapped"
            /\ \A s \in Requests \ {r} : rpc'[s] = rpc[s] /\ events'[s] = events[s]
            /\ DOMAIN events' = Requests /\ events'[r] = Append(events[r], "error")
            /\ lock' = Nobody /\ installed' = lock'
        BY <1>1, <2>0, <2>1, <2>5 DEF Leave, RMove, Tell, Uninstalled, Unlocked
      <3>2. Alone(r)
        BY <1>1, <2>0, <2>3, <3>1 DEF Alone
      <3>3. Heard(events'[r], rpc'[r], log'[r])
        BY <2>0, <2>2, <3>1
      <3>4. RequestSound(input[r], rpc'[r], at'[r], retry'[r], hadInfra'[r], decision'[r], log'[r])
        BY <1>4, <2>0, <2>4, <3>1
      <3> QED
        BY <2>1, <3>1, <3>2, <3>3, <3>4, AloneStep
  <1>9. CASE BeginCalls(r) /\ input[r].profiles # <<>>
    <2>0. /\ at' = [at EXCEPT ![r] = 1] /\ rpc' = [rpc EXCEPT ![r] = "calling"]
          /\ UNCHANGED <<input, retry, hadInfra, decision, lock, installed, events, probes, log>>
      BY <1>9 DEF BeginCalls, RMove
    <2>1. rpc[r] \in Inside /\ "calling" \in Inside
      BY <1>9 DEF BeginCalls, Inside
    <2>2. Heard(events[r], "calling", log[r])
      BY <1>2, <1>9 DEF BeginCalls, Heard
    <2>3. RequestSound(input[r], "calling", 1, 0, hadInfra[r], NoDecision, <<>>)
      BY <1>2, <1>4, <1>9, BeginsToCall
    <2>4. at' \in [Requests -> Nat] /\ at'[r] = 1 /\ \A s \in Requests \ {r} : at'[s] = at[s]
      BY <1>1, <2>0
    <2> QED
      BY <1>1, <1>4, <2>0, <2>1, <2>2, <2>3, <2>4, OneRequest
  <1> QED
    BY <1>5, <1>6, <1>7, <1>8, <1>9

\* A call that ends the request leaves what a decision explains.
LEMMA EndSound ==
    ASSUME NEW x \in Inputs, NEW l, NEW k, NEW n, NEW infra, Asked(x, l, k, n, infra), NEW o \in Outcomes,
           NEW d, NEW phase \in Over \cup {"answered"},
           \/ o = "parsed" /\ d.class = IF infra THEN "success_with_fallback" ELSE "none"
           \/ o = "unparsable" /\ n = x.retries /\ d.class = "task_level"
           \/ o \in Faults /\ k = ChainLength(x) /\ d.class = "infra_level"
           \/ d = NoDecision,
           NEW j, NEW m, NEW i
    PROVE  RequestSound(x, phase, j, m, i, d, After(x, l, k, o))
  <1>1. InOrder(x, After(x, l, k, o))
    BY CallLogged, ReachedInOrder DEF Asked
  <1>2. Explains(d, x, After(x, l, k, o))
    <2>1. CASE d = NoDecision
      BY <2>1 DEF Explains
    <2>2. CASE d # NoDecision
      BY <2>2, EndExplained
    <2> QED
      BY <2>1, <2>2
  <1>3. phase # "calling" /\ phase \notin Early
    BY DEF Over, Early
  <1> QED
    BY <1>1, <1>2, <1>3 DEF RequestSound

\* A request that goes on calling.
LEMMA GoesOn ==
    ASSUME NEW x \in Inputs, NEW l, NEW k, NEW n, NEW infra, Asked(x, l, k, n, infra)
    PROVE  RequestSound(x, "calling", k, n, infra, NoDecision, l)
  <1>1. InOrder(x, l)
    BY ReachedInOrder DEF Asked
  <1> QED
    BY <1>1 DEF RequestSound, Explains, Early

\* The calls.
LEMMA DuringCalls == ASSUME ReasonerInv, NEW r \in Requests, Call(r) PROVE ReasonerInv'
  <1> DEFINE x == input[r]
             l == log[r]
             k == at[r]
             n == retry[r]
             infra == hadInfra[r]
  <1>1. /\ rpc \in [Requests -> Early \cup Inside \cup Over] /\ at \in [Requests -> Nat]
        /\ retry \in [Requests -> Nat] /\ hadInfra \in [Requests -> BOOLEAN] /\ installed = lock
        /\ DOMAIN decision = Requests /\ DOMAIN events = Requests /\ DOMAIN log = Requests
    BY DEF ReasonerInv, Over
  <1>2. rpc[r] = "calling"
    BY DEF Call, CallParsed, CallUnparsable, CallFails
  <1>3. x \in Inputs /\ Heard(events[r], "calling", log[r]) /\ Asked(x, l, k, n, infra) /\ decision[r] = NoDecision
    BY <1>2, AtRequest DEF RequestSound
  <1>4. ASSUME NEW o, Logged(r, o)
        PROVE  DOMAIN log' = Requests /\ log'[r] = After(x, l, k, o) /\ \A s \in Requests \ {r} : log'[s] = log[s]
    BY <1>1, <1>4 DEF Logged, ChainOf, ChainFor, After
  <1>5. ASSUME NEW class, Decide(r, class)
        PROVE  /\ DOMAIN decision' = Requests /\ decision'[r].class = class
               /\ \A s \in Requests \ {r} : decision'[s] = decision[s]
    BY <1>1, <1>5 DEF Decide
  <1>6. /\ "calling" \in Inside /\ "answered" \in Inside
        /\ \A phase \in Over : phase \notin Inside
    BY DEF Inside, Over
  <1>13. ASSUME NEW o \in Outcomes, NEW reports \in ReportsOf(r, o), Logged(r, o)
         PROVE  /\ reports \in Seq(Kinds)
                /\ \A phase \in Inside : Heard(events[r] \o reports, phase, log'[r])
    <2> DEFINE S == Entries1(x)
               c == <<ChainFor(x)[k], o>>
    <2>1. c \in S /\ l \in Seq(S)
      <3>1. k \in 1..ChainLength(x) /\ l \in Seq(S) /\ x \in Inputs
        BY <1>3 DEF Asked, Reached
      <3>2. ChainFor(x)[k] \in TargetsOf(x.profiles)
        BY <3>1, ChainLengthIs
      <3> QED
        BY <1>13, <3>1, <3>2 DEF Entries1
    <2>2. c[2] = o /\ reports \in Reports(ChainOf(r)[at[r]], o)
      BY <1>13 DEF ReportsOf
    <2>3. log'[r] = Append(l, c)
      BY <1>4, <1>13 DEF After
    <2>4. Heard(events[r], "calling", l)
      BY <1>3
    <2> HIDE DEF S, c, l
    <2>5. /\ reports \in Seq(Kinds)
          /\ \A phase \in Inside : Heard(events[r] \o reports, phase, Append(l, c))
      BY <2>1, <2>2, <2>4, HeardCall
    <2> QED
      BY <2>3, <2>5
  <1>7. ASSUME NEW phase \in Over, NEW reports \in Seq(Kinds), Leave(r, phase, reports, "error"),
               Heard(events[r] \o reports, "calling", log'[r])
        PROVE  /\ rpc' \in [Requests -> Early \cup Inside \cup Over] /\ rpc'[r] = phase
               /\ \A s \in Requests \ {r} : rpc'[s] = rpc[s] /\ events'[s] = events[s]
               /\ DOMAIN events' = Requests /\ Heard(events'[r], phase, log'[r])
               /\ lock' = Nobody /\ installed' = lock'
    <2>1. Heard(Append(events[r] \o reports, "error"), phase, log'[r])
      BY <1>6, <1>7, HeardEnd
    <2>2. events[r] \o (reports \o <<"error">>) = Append(events[r] \o reports, "error")
      BY <1>3, HeardWords DEF Heard, Kinds
    <2> QED
      BY <1>1, <1>7, <2>1, <2>2 DEF Leave, RMove, Tell, Uninstalled, Unlocked
  <1>14. ASSUME NEW reports, Tell(r, reports)
         PROVE  /\ DOMAIN events' = Requests /\ events'[r] = events[r] \o reports
                /\ \A s \in Requests \ {r} : events'[s] = events[s]
    BY <1>1, <1>14 DEF Tell
  <1>8. n \in 0..x.retries /\ x.retries \in Nat /\ k \in Nat /\ Len(ChainOf(r)) = ChainLength(x)
        /\ ChainLength(x) \in Nat /\ k <= ChainLength(x)
    BY <1>1, <1>3, ReasonerAssumption, ChainLengthIs DEF Asked, Reached, ChainOf, ChainFor
  <1> HIDE DEF x, l, k, n, infra
  <1>9. CASE CallParsed(r)
    <2>0. PICK reports \in ReportsOf(r, "parsed") : Tell(r, reports)
      BY <1>9 DEF CallParsed
    <2>1. Logged(r, "parsed") /\ Decide(r, SuccessClass(r)) /\ rpc' = [rpc EXCEPT ![r] = "answered"]
          /\ UNCHANGED <<input, at, retry, hadInfra, lock, installed, probes>>
      BY <1>9 DEF CallParsed, RMove
    <2>2. decision'[r].class = IF infra THEN "success_with_fallback" ELSE "none"
      BY <1>5, <2>1 DEF SuccessClass, infra
    <2>3. RequestSound(x, "answered", at[r], retry[r], hadInfra[r], decision'[r], After(x, l, k, "parsed"))
      <3>1. "parsed" \in Outcomes /\ "answered" \in Over \cup {"answered"}
        BY DEF Outcomes
      <3> QED
        BY <1>3, <2>2, <3>1, EndSound
    <2>4. Heard(events'[r], "answered", log'[r])
      <3>1. "parsed" \in Outcomes
        BY DEF Outcomes
      <3> QED
        BY <1>6, <1>13, <1>14, <2>0, <2>1, <3>1
    <2>5. rpc' \in [Requests -> Early \cup Inside \cup Over] /\ rpc'[r] = "answered"
          /\ \A s \in Requests \ {r} : rpc'[s] = rpc[s]
      BY <1>1, <1>6, <2>1
    <2> QED
      <3>1. Alone(r)
        BY <1>1, <1>4, <1>5, <1>14, <2>0, <2>1, <2>5 DEF Alone
      <3>2. RequestSound(x, rpc'[r], at'[r], retry'[r], hadInfra'[r], decision'[r], log'[r])
        BY <1>4, <2>1, <2>3, <2>5
      <3> QED
        BY <1>1, <1>2, <1>6, <2>1, <2>4, <2>5, <3>1, <3>2, AloneStep DEF x
  <1>10. CASE CallUnparsable(r) /\ retry[r] < input[r].retries
    <2>0. PICK reports \in ReportsOf(r, "unparsable") : Tell(r, reports)
      BY <1>10 DEF CallUnparsable, MayRetry
    <2>1. Logged(r, "unparsable") /\ retry' = [retry EXCEPT ![r] = retry[r] + 1]
          /\ UNCHANGED <<input, at, rpc, hadInfra, decision, lock, installed, probes>>
      BY <1>10 DEF CallUnparsable, MayRetry
    <2>2. n < x.retries
      BY <1>10 DEF n, x
    <2>3. Asked(x, After(x, l, k, "unparsable"), k, n + 1, infra)
      BY <1>3, <2>2, AskedRetry
    <2>4. RequestSound(x, "calling", k, n + 1, infra, NoDecision, After(x, l, k, "unparsable"))
      BY <1>3, <2>3, GoesOn
    <2>5. retry' \in [Requests -> Nat] /\ retry'[r] = n + 1 /\ \A s \in Requests \ {r} : retry'[s] = retry[s]
      BY <1>1, <2>1 DEF n
    <2>6. Heard(events'[r], "calling", log'[r])
      <3>1. "unparsable" \in Outcomes
        BY DEF Outcomes
      <3> QED
        BY <1>6, <1>13, <1>14, <2>0, <2>1, <3>1
    <2> QED
      <3>1. Alone(r)
        BY <1>1, <1>4, <1>14, <2>0, <2>1, <2>5 DEF Alone
      <3>2. RequestSound(x, rpc'[r], at'[r], retry'[r], hadInfra'[r], decision'[r], log'[r])
        BY <1>2, <1>3, <1>4, <2>1, <2>4, <2>5 DEF k, infra
      <3> QED
        BY <1>1, <1>2, <2>1, <2>6, <3>1, <3>2, AloneStep DEF x
  <1>11. CASE CallUnparsable(r) /\ ~(retry[r] < input[r].retries)
    <2>0. PICK reports \in ReportsOf(r, "unparsable") : Leave(r, "wrapped", reports, "error")
      BY <1>11 DEF CallUnparsable, MayRetry
    <2>1. Logged(r, "unparsable") /\ Decide(r, "task_level") /\ UNCHANGED <<input, at, retry, hadInfra, probes>>
      BY <1>11 DEF CallUnparsable, MayRetry
    <2>2. n = x.retries
      BY <1>8, <1>11 DEF n, x
    <2>3. "wrapped" \in Over /\ "unparsable" \in Outcomes
      BY DEF Over, Outcomes
    <2>4. RequestSound(x, "wrapped", at[r], retry[r], hadInfra[r], decision'[r], After(x, l, k, "unparsable"))
      BY <1>3, <1>5, <2>1, <2>2, <2>3, EndSound
    <2> QED
      <3>1. reports \in Seq(Kinds) /\ Heard(events[r] \o reports, "calling", log'[r])
        BY <1>6, <1>13, <2>0, <2>1, <2>3
      <3>2. /\ rpc' \in [Requests -> Early \cup Inside \cup Over] /\ rpc'[r] = "wrapped"
            /\ \A s \in Requests \ {r} : rpc'[s] = rpc[s] /\ events'[s] = events[s]
            /\ DOMAIN events' = Requests /\ Heard(events'[r], "wrapped", log'[r])
            /\ lock' = Nobody /\ installed' = lock'
        BY <1>7, <2>0, <2>3, <3>1
      <3>3. Alone(r)
        BY <1>1, <1>4, <1>5, <2>1, <3>2 DEF Alone
      <3>4. RequestSound(x, rpc'[r], at'[r], retry'[r], hadInfra'[r], decision'[r], log'[r])
        BY <1>4, <2>1, <2>4, <3>2
      <3>5. rpc[r] \in Inside /\ rpc'[r] \notin Inside
        BY <1>2, <1>6, <2>3, <3>2
      <3> QED
        BY <3>2, <3>3, <3>4, <3>5, AloneStep DEF x
  <1>12. ASSUME NEW o \in {"infra", "timeout"}, CallFails(r, o) PROVE ReasonerInv'
    <2>1. Logged(r, o) /\ hadInfra' = [hadInfra EXCEPT ![r] = TRUE] /\ UNCHANGED <<input, probes>>
      BY <1>12 DEF CallFails
    <2>2. o \in Faults /\ o \in Outcomes
      BY DEF Faults, Outcomes
    <2>3. hadInfra' \in [Requests -> BOOLEAN] /\ hadInfra'[r] /\ \A s \in Requests \ {r} : hadInfra'[s] = hadInfra[s]
      BY <1>1, <2>1
    <2>6. ASSUME NEW reports \in ReportsOf(r, o)
          PROVE  /\ reports \in Seq(Kinds)
                 /\ Heard(events[r] \o reports, "calling", log'[r])
      BY <1>6, <1>13, <2>1, <2>2
    <2>4. CASE k < ChainLength(x)
      <3>0. PICK reports \in ReportsOf(r, o) : Tell(r, reports)
        BY <1>8, <1>12, <2>4 DEF CallFails, k
      <3>1. at' = [at EXCEPT ![r] = at[r] + 1] /\ retry' = [retry EXCEPT ![r] = 0]
            /\ UNCHANGED <<rpc, decision, installed, lock>>
        BY <1>8, <1>12, <2>4 DEF CallFails, k
      <3>2. Asked(x, After(x, l, k, o), k + 1, 0, hadInfra'[r])
        BY <1>3, <2>2, <2>3, <2>4, AskedNext
      <3>3. RequestSound(x, "calling", k + 1, 0, hadInfra'[r], NoDecision, After(x, l, k, o))
        BY <1>3, <3>2, GoesOn
      <3>4. /\ at' \in [Requests -> Nat] /\ at'[r] = k + 1 /\ retry' \in [Requests -> Nat] /\ retry'[r] = 0
            /\ \A s \in Requests \ {r} : at'[s] = at[s] /\ retry'[s] = retry[s]
        BY <1>1, <3>1 DEF k
      <3>5. Alone(r)
        BY <1>1, <1>4, <1>14, <2>1, <2>3, <3>0, <3>1, <3>4 DEF Alone
      <3>6. RequestSound(x, rpc'[r], at'[r], retry'[r], hadInfra'[r], decision'[r], log'[r])
        BY <1>2, <1>3, <1>4, <2>1, <3>1, <3>3, <3>4
      <3>7. Heard(events'[r], rpc'[r], log'[r]) /\ installed' = lock' /\ lock' = lock /\ rpc'[r] = rpc[r]
        BY <1>1, <1>2, <1>14, <2>6, <3>0, <3>1
      <3> QED
        BY <3>5, <3>6, <3>7, AloneStep DEF x
    <2>5. CASE ~(k < ChainLength(x))
      <3>1. /\ UNCHANGED <<at, retry>>
            /\ \E reports \in ReportsOf(r, o) :
                  \/ UNCHANGED decision /\ Leave(r, "escaped", reports, "error")
                  \/ Decide(r, "infra_level") /\ Leave(r, "wrapped", reports, "error")
        BY <1>8, <1>12, <2>5 DEF CallFails, k
      <3>2. k = ChainLength(x)
        BY <1>8, <2>5
      <3>3. "wrapped" \in Over /\ "escaped" \in Over
        BY DEF Over
      <3>4. ASSUME NEW reports \in ReportsOf(r, o), UNCHANGED decision, Leave(r, "escaped", reports, "error")
            PROVE  ReasonerInv'
        <4>1. RequestSound(x, "escaped", at[r], retry[r], hadInfra'[r], decision[r], After(x, l, k, o))
          BY <1>3, <2>2, <3>3, EndSound
        <4> QED
          <5>1. /\ rpc' \in [Requests -> Early \cup Inside \cup Over] /\ rpc'[r] = "escaped"
                /\ \A s \in Requests \ {r} : rpc'[s] = rpc[s] /\ events'[s] = events[s]
                /\ DOMAIN events' = Requests /\ Heard(events'[r], "escaped", log'[r])
                /\ lock' = Nobody /\ installed' = lock'
            BY <1>7, <2>6, <3>3, <3>4
          <5>2. Alone(r)
            BY <1>1, <1>4, <2>1, <2>3, <3>1, <3>4, <5>1 DEF Alone
          <5>3. RequestSound(x, rpc'[r], at'[r], retry'[r], hadInfra'[r], decision'[r], log'[r])
            BY <1>4, <2>1, <3>1, <3>4, <4>1, <5>1
          <5>4. rpc[r] \in Inside /\ rpc'[r] \notin Inside
            BY <1>2, <1>6, <3>3, <5>1
          <5> QED
            BY <5>1, <5>2, <5>3, <5>4, AloneStep DEF x
      <3>5. ASSUME NEW reports \in ReportsOf(r, o), Decide(r, "infra_level"), Leave(r, "wrapped", reports, "error")
            PROVE  ReasonerInv'
        <4>1. RequestSound(x, "wrapped", at[r], retry[r], hadInfra'[r], decision'[r], After(x, l, k, o))
          BY <1>3, <1>5, <2>2, <3>2, <3>3, <3>5, EndSound
        <4> QED
          <5>1. /\ rpc' \in [Requests -> Early \cup Inside \cup Over] /\ rpc'[r] = "wrapped"
                /\ \A s \in Requests \ {r} : rpc'[s] = rpc[s] /\ events'[s] = events[s]
                /\ DOMAIN events' = Requests /\ Heard(events'[r], "wrapped", log'[r])
                /\ lock' = Nobody /\ installed' = lock'
            BY <1>7, <2>6, <3>3, <3>5
          <5>2. DOMAIN decision' = Requests /\ \A s \in Requests \ {r} : decision'[s] = decision[s]
            BY <1>5, <3>5
          <5>3. Alone(r)
            BY <1>1, <1>4, <2>1, <2>3, <3>1, <5>1, <5>2 DEF Alone
          <5>4. RequestSound(x, rpc'[r], at'[r], retry'[r], hadInfra'[r], decision'[r], log'[r])
            BY <1>4, <2>1, <3>1, <4>1, <5>1
          <5>5. rpc[r] \in Inside /\ rpc'[r] \notin Inside
            BY <1>2, <1>6, <3>3, <5>1
          <5> QED
            BY <5>1, <5>3, <5>4, <5>5, AloneStep DEF x
      <3> QED
        BY <3>1, <3>4, <3>5
    <2> QED
      BY <2>4, <2>5
  <1> QED
    BY <1>9, <1>10, <1>11, <1>12 DEF Call

\* The answer, and the probes.
LEMMA AfterCalls ==
    ASSUME ReasonerInv, (\E r \in Requests : Answer(r)) \/ Probe \/ UNCHANGED reasonerVars
    PROVE  ReasonerInv'
  <1>1. /\ rpc \in [Requests -> Early \cup Inside \cup Over] /\ at \in [Requests -> Nat]
        /\ retry \in [Requests -> Nat] /\ hadInfra \in [Requests -> BOOLEAN] /\ installed = lock
        /\ DOMAIN decision = Requests /\ DOMAIN events = Requests /\ DOMAIN log = Requests
    BY DEF ReasonerInv, Over
  <1>2. ASSUME NEW r \in Requests, Answer(r) PROVE ReasonerInv'
    <2>1. PICK phase \in {"ok", "failed"}, w \in {"success", "error"} : Leave(r, phase, <<>>, w)
      BY <1>2 DEF Answer
    <2>2. rpc[r] = "answered" /\ rpc[r] \in Inside /\ phase \in Over /\ phase \notin Inside /\ phase \notin Early
      BY <1>2 DEF Answer, Inside, Over, Early
    <2>3. Heard(Append(events[r], w), phase, log[r])
      BY <2>2, AtRequest, HeardEnd
    <2>4. RequestSound(input[r], phase, at[r], retry[r], hadInfra[r], decision[r], log[r])
      BY <2>2, AtRequest DEF RequestSound
    <2>5. events[r] \o (<<>> \o <<w>>) = Append(events[r], w)
      BY AtRequest, HeardWords DEF Heard, Kinds
    <2> QED
      BY <1>1, <1>2, <2>1, <2>2, <2>3, <2>4, <2>5, OneRequest
         DEF Answer, Leave, RMove, Tell, Uninstalled, Unlocked
  <1>3. CASE UNCHANGED <<input, rpc, at, retry, hadInfra, decision, lock, installed, events, log>>
    BY <1>3 DEF ReasonerInv
  <1>4. CASE Probe /\ installed # Nobody
    <2>1. PICK r \in Requests : r = installed
      BY <1>4 DEF ReasonerInv
    <2>2. rpc[r] \in Inside /\ Heard(events[r], rpc[r], log[r])
      BY <1>1, <2>1, AtRequest
    <2>3. Heard(Append(events[r], "probe"), rpc[r], log[r])
      BY <2>2, HeardProbe
    <2>4. RequestSound(input[r], rpc[r], at[r], retry[r], hadInfra[r], decision[r], log[r])
      BY AtRequest
    <2>5. events[r] \o <<"probe">> = Append(events[r], "probe")
      BY <2>2, HeardWords DEF Heard, Kinds
    <2>6. /\ UNCHANGED <<input, rpc, at, retry, hadInfra, decision, lock, installed, log>>
          /\ DOMAIN events' = Requests /\ events'[r] = Append(events[r], "probe")
          /\ \A s \in Requests \ {r} : events'[s] = events[s]
      BY <1>1, <1>4, <2>1, <2>5 DEF Probe, Tell
    <2>7. Alone(r)
      BY <1>1, <2>6 DEF Alone
    <2> QED
      BY <1>1, <2>3, <2>4, <2>6, <2>7, AloneStep
  <1> QED
    BY <1>2, <1>3, <1>4 DEF Probe, reasonerVars

\* Every reachable state satisfies the inductive invariant.
THEOREM ReasonerInvariant == ReasonerSpec => []ReasonerInv
  <1>1. ReasonerInit => ReasonerInv
    <2> SUFFICES ASSUME ReasonerInit PROVE ReasonerInv
      OBVIOUS
    <2>1. \A r \in Requests : input[r] \in Inputs /\ RequestSound(input[r], "new", 0, 0, FALSE, NoDecision, <<>>)
      BY NotCalled DEF ReasonerInit
    <2>2. Heard(<<>>, "new", <<>>)
      BY NothingReported DEF Heard
    <2> QED
      BY <2>1, <2>2, ReasonerAssumption DEF ReasonerInit, ReasonerInv, Early, Inside
  <1>2. ReasonerInv /\ [ReasonerNext]_reasonerVars => ReasonerInv'
    BY BeforeCalls, DuringCalls, AfterCalls DEF ReasonerNext, Step
  <1> QED
    BY <1>1, <1>2, PTL DEF ReasonerSpec

\* What EventsWellFormed says of the order of the words.
Listing(e, r) ==
    /\ \A i \in DOMAIN e : (e[i] = "start") <=> (i = 1)
    /\ Ended(r) <=> (e # <<>> /\ e[Len(e)] \in {"success", "error"})
    /\ \A i \in DOMAIN e : e[i] \in {"success", "error"} => i = Len(e)

\* What the decision, the order of the calls and the callbacks say of a request
\* is what happened to it.
THEOREM ReasonerIsSafe == ReasonerSpec => []ReasonerSafe
  <1>1. \A r, t, O : Calls(r, t, O) = Count(log[r], t, O)
    BY DEF Calls, Count, Hits
  <1>2. ReasonerInv => DecisionExplains
    BY <1>1 DEF ReasonerInv, RequestSound, Explains, DecisionExplains
  <1>3. ReasonerInv => ConfiguredFirst
    BY <1>1 DEF ReasonerInv, RequestSound, InOrder, ConfiguredFirst
  <1>4. ReasonerInv => EventsWellFormed
    <2> SUFFICES ASSUME ReasonerInv PROVE EventsWellFormed
      OBVIOUS
    <2>1. ASSUME NEW r \in Requests
          PROVE  /\ \A i \in DOMAIN events[r] : (events[r][i] = "start") <=> (i = 1)
                 /\ Ended(r) <=> (events[r] # <<>> /\ events[r][Len(events[r])] \in {"success", "error"})
                 /\ \A i \in DOMAIN events[r] : events[r][i] \in {"success", "error"} => i = Len(events[r])
                 /\ Tally(r, {"answer", "failure"}) <= Len(log[r])
                 /\ Tally(r, {"failure"}) <= Cardinality({i \in DOMAIN log[r] : log[r][i][2] \in Faults})
      <3> DEFINE e == events[r]
      <3>7. /\ Tally(r, {"answer", "failure"}) <= Len(log[r])
            /\ Tally(r, {"failure"}) <= Cardinality({i \in DOMAIN log[r] : log[r][i][2] \in Faults})
        <4>1. Reported(events[r], log[r])
          BY DEF ReasonerInv, Heard
        <4> QED
          BY <4>1 DEF Reported, TallyOf, Words, Failures, Tally
      <3>1. Heard(e, rpc[r], log[r]) /\ rpc[r] \in Early \cup Inside \cup Over
        BY DEF ReasonerInv, Over
      <3>2. e \in Seq(Kinds)
        BY <3>1 DEF Heard
      <3> HIDE DEF e
      <3>3. DOMAIN e = 1..Len(e) /\ Len(e) \in Nat /\ (e = <<>> <=> Len(e) = 0)
        <4> HIDE DEF Kinds
        <4> QED
          BY <3>2
      <3>4. ASSUME rpc[r] \in {"new", "waiting", "rejected"} PROVE Listing(e, r)
        BY <3>1, <3>3, <3>4 DEF Heard, Ended, Listing
      <3>5. ASSUME rpc[r] \in Inside PROVE Listing(e, r)
        <4>1. e # <<>> /\ e[1] = "start" /\ \A i \in DOMAIN e : i # 1 => e[i] \in Between
          BY <3>1, <3>5 DEF Heard, Inside
        <4>2. Len(e) \in DOMAIN e
          BY <3>3, <4>1
        <4>3. ~Ended(r)
          BY <3>5 DEF Inside, Ended
        <4> QED
          BY <4>1, <4>2, <4>3 DEF Between, Listing
      <3>6. ASSUME rpc[r] \in Over PROVE Listing(e, r)
        <4>1. /\ Len(e) > 1 /\ e[1] = "start" /\ e[Len(e)] \in {"success", "error"}
              /\ \A i \in DOMAIN e : i # 1 /\ i # Len(e) => e[i] \in Between
          BY <3>1, <3>6 DEF Heard, Over
        <4>2. Ended(r) /\ e # <<>>
          BY <3>3, <3>6, <4>1 DEF Over, Ended
        <4> QED
          BY <3>3, <4>1, <4>2 DEF Between, Listing
      <3> QED
        <4>1. Listing(e, r)
          BY <3>1, <3>4, <3>5, <3>6 DEF Early, Inside
        <4> QED
          BY <3>7, <4>1 DEF Listing, e
    <2>2. lock = Nobody => installed = Nobody
      BY DEF ReasonerInv
    <2> QED
      BY <2>1, <2>2 DEF EventsWellFormed
  <1>5. ReasonerInv => ReasonerSafe
    BY <1>2, <1>3, <1>4 DEF ReasonerSafe
  <1> QED
    BY ReasonerInvariant, <1>5, PTL
=============================================================================
