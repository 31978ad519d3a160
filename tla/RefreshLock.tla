---------------------------- MODULE RefreshLock ----------------------------
(***************************************************************************)
(* The lock file of data_platform/daily_refresh.py: one path per catalog   *)
(* and date, created with O_EXCL, holding the owner's pid and token.  A    *)
(* contender that finds the file reads it, and when its owner is dead and  *)
(* the lock is old it unlinks the path and tries once more.                *)
(*                                                                         *)
(* A process is one run of the command, so it stands for its pid, its      *)
(* token and the inode it creates.  The path of a date holds the inode of  *)
(* at most one process.                                                    *)
(***************************************************************************)
EXTENDS Naturals, FiniteSets

CONSTANTS
    Procs,          \* runs of the refresh command
    Dates,          \* partition dates
    NoProc          \* no file at the path

ASSUME LockAssumption == NoProc \notin Procs

VARIABLES
    lockFile,       \* path of a date -> the process whose inode is there
    written,        \* processes whose lock file has its payload
    lpc,            \* where a process is in acquire and release
    date,           \* the date a process refreshes
    dead,           \* processes that no longer exist
    judged,         \* the owner a contender found reclaimable
    raced           \* history: dates where another file than the judged one was unlinked

lockVars == <<lockFile, written, lpc, date, dead, judged, raced>>

LockPhases == {"new", "open", "found", "reclaim", "reopen", "write", "held", "unlink",
               "refused", "raised", "released", "crashed"}

LockTypeOK ==
    /\ lockFile \in [Dates -> Procs \cup {NoProc}]
    /\ written \in SUBSET Procs
    /\ lpc \in [Procs -> LockPhases]
    /\ date \in [Procs -> Dates]
    /\ dead \in SUBSET Procs
    /\ judged \in [Procs -> Procs \cup {NoProc}]
    /\ raced \in SUBSET Dates

LockInit ==
    /\ lockFile = [d \in Dates |-> NoProc]
    /\ written = {}
    /\ lpc = [p \in Procs |-> "new"]
    /\ date \in [Procs -> Dates]
    /\ dead = {}
    /\ judged = [p \in Procs |-> NoProc]
    /\ raced = {}

Move(p, phase) == lpc' = [lpc EXCEPT ![p] = phase]

-----------------------------------------------------------------------------
(* _acquire_refresh_lock                                                   *)

\* os.open with O_CREAT | O_EXCL; FileExistsError on the first attempt goes on
\* to read the owner, on the second it is final.
OpenLock(p) ==
    LET d == date[p]
    IN  /\ lpc[p] \in {"open", "reopen"}
        /\ IF lockFile[d] = NoProc
           THEN lockFile' = [lockFile EXCEPT ![d] = p] /\ Move(p, "write")
           ELSE /\ Move(p, IF lpc[p] = "open" THEN "found" ELSE "refused")
                /\ UNCHANGED lockFile
        /\ UNCHANGED <<written, date, dead, judged, raced>>

\* Mutant: the age of the lock alone decides.
Reclaimable_ByAge(d, old) == lockFile[d] \in written /\ old

\* _read_refresh_lock_owner and _refresh_lock_is_reclaimable: a file that has
\* vanished or has no payload yet does not parse; a live owner keeps its lock;
\* a dead one keeps it until it is old (or while its pid is in use again).
Reclaimable(d, old) == lockFile[d] \in written \cap dead /\ old

ReadOwner(p) ==
    /\ lpc[p] = "found"
    /\ \E old \in BOOLEAN :
          IF Reclaimable(date[p], old)
          THEN Move(p, "reclaim") /\ judged' = [judged EXCEPT ![p] = lockFile[date[p]]]
          ELSE Move(p, "refused") /\ UNCHANGED judged
    /\ UNCHANGED <<lockFile, written, date, dead, raced>>

\* unlink of the path, whatever file is there by now.
Unlink(p) == lockFile' = [lockFile EXCEPT ![date[p]] = NoProc]

ReclaimLock(p) ==
    /\ lpc[p] = "reclaim"
    /\ Unlink(p)
    /\ raced' = IF lockFile[date[p]] \in {judged[p], NoProc} THEN raced ELSE raced \cup {date[p]}
    /\ judged' = [judged EXCEPT ![p] = NoProc]
    /\ Move(p, "reopen")
    /\ UNCHANGED <<written, date, dead>>

WriteOwner(p) ==
    /\ lpc[p] = "write"
    /\ written' = written \cup {p}
    /\ Move(p, "held")
    /\ UNCHANGED <<lockFile, date, dead, judged, raced>>

\* os.write raises: the path is unlinked and the error leaves the program.
WriteOwnerFails(p) ==
    /\ lpc[p] = "write"
    /\ Unlink(p)
    /\ Move(p, "raised")
    /\ UNCHANGED <<written, date, dead, judged, raced>>

-----------------------------------------------------------------------------
(* _DailyRefreshLock.release                                               *)

\* _refresh_lock_matches_owner: same inode, and the token in it is p's.
MatchesOwner(p) == lockFile[date[p]] = p /\ p \in written

ReleaseCheck(p) ==
    /\ lpc[p] = "held"
    /\ Move(p, IF MatchesOwner(p) THEN "unlink" ELSE "released")
    /\ UNCHANGED <<lockFile, written, date, dead, judged, raced>>

Unlinked(p) == Unlink(p)

ReleaseUnlink(p) ==
    /\ lpc[p] = "unlink"
    /\ Unlinked(p)
    /\ Move(p, "released")
    /\ UNCHANGED <<written, date, dead, judged, raced>>

\* The process is gone: after its end, or killed at any point.
Exit(p) ==
    /\ p \notin dead
    /\ dead' = dead \cup {p}
    /\ lpc' = [lpc EXCEPT ![p] = IF @ \in {"refused", "raised", "released"} THEN @
                                 ELSE "crashed"]
    /\ judged' = [judged EXCEPT ![p] = NoProc]
    /\ UNCHANGED <<lockFile, written, date, raced>>

\* The caller begins to acquire once its configuration is complete.
BeginAcquire(p) ==
    /\ lpc[p] = "new"
    /\ Move(p, "open")
    /\ UNCHANGED <<lockFile, written, date, dead, judged, raced>>

LockNext ==
    \E p \in Procs :
        \/ BeginAcquire(p) \/ OpenLock(p) \/ ReadOwner(p) \/ ReclaimLock(p)
        \/ WriteOwner(p) \/ WriteOwnerFails(p) \/ ReleaseCheck(p) \/ ReleaseUnlink(p) \/ Exit(p)

LockSpec == LockInit /\ [][LockNext]_lockVars

-----------------------------------------------------------------------------
(* Properties                                                              *)

\* Holders of a date: the runs that believe they own its critical section.
Holders(d) == {p \in Procs : date[p] = d /\ lpc[p] \in {"held", "unlink"}}

\* Two runs refresh a date at once only after a contender unlinked a lock other
\* than the one it had judged: release, a failing write and a single contender
\* of a dead owner never open the critical section twice.
ExclusiveUnlessRaced == \A d \in Dates : d \notin raced => Cardinality(Holders(d)) <= 1

\* A run that ended by itself leaves no lock file of its own behind, so only a
\* crash can make a later run of the date wait for the lock to become old.
EndedRunsLeaveNoLock ==
    \A d \in Dates : lockFile[d] # NoProc =>
        lpc[lockFile[d]] \in {"write", "held", "unlink", "crashed"}

\* Runs of a date exclude each other but for the raced reclaim, and leave the
\* date free when they end.
LockSafe == ExclusiveUnlessRaced /\ EndedRunsLeaveNoLock

\* The docstring of DailyRefreshLockError (daily_refresh.py:221) speaks of "the
\* same catalog/date critical section": one owner at a time.
OneOwner == \A d \in Dates : Cardinality(Holders(d)) <= 1

=============================================================================
