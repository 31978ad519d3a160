------------------------ MODULE CollectorSupervisor ------------------------
(***************************************************************************)
(* scripts/collector_supervisor.sh: start, stop and restart commands, run  *)
(* by hand or by cron and possibly at the same time; the respawn loop that *)
(* start leaves behind in the background; the PID file that names the      *)
(* loop; and the collector process, which answers SIGTERM by finishing its *)
(* round and exiting with 0 (scripts/collector.py).                        *)
(*                                                                         *)
(* The loop of a start command bears the name of the command.  A loop has  *)
(* at most one collector at a time.                                        *)
(***************************************************************************)
EXTENDS Naturals, FiniteSets

CONSTANTS
    Cmds,           \* invocations of the script
    NoLoop          \* no PID file

ASSUME SupervisorAssumption == NoLoop \notin Cmds

VARIABLES
    pidFile,        \* the loop the PID file names
    cmd,            \* where a command is
    todo,           \* "start", "stop" or "restart"
    target,         \* the loop a stop has read from the PID file
    loop,           \* where the loop of a command is
    child,          \* its collector
    known,          \* loops whose variable child names their collector
    termed,         \* loops with a SIGTERM still to be handled
    signalled,      \* history: loops that were sent SIGTERM or SIGKILL
    disturbed       \* history: commands overlapped, or a loop lost its collector

supervisorVars == <<pidFile, cmd, todo, target, loop, child, known, termed, signalled, disturbed>>

CmdPhases  == {"new", "check", "spawn", "record", "verify",
               "look", "pkill", "kill", "await", "force", "forceLoop", "remove", "done"}
LoopPhases == {"none", "fork", "assign", "wait", "rest", "trap", "gone"}

SupervisorTypeOK ==
    /\ pidFile \in Cmds \cup {NoLoop}
    /\ cmd \in [Cmds -> CmdPhases]
    /\ todo \in [Cmds -> {"start", "stop", "restart"}]
    /\ target \in [Cmds -> Cmds \cup {NoLoop}]
    /\ loop \in [Cmds -> LoopPhases]
    /\ child \in [Cmds -> {"none", "up", "ending", "exited", "terminated"}]
    /\ known \in SUBSET Cmds
    /\ termed \in SUBSET Cmds
    /\ signalled \in SUBSET Cmds
    /\ disturbed \in BOOLEAN

SupervisorInit ==
    /\ pidFile = NoLoop
    /\ cmd = [c \in Cmds |-> "new"]
    /\ todo \in [Cmds -> {"start", "stop", "restart"}]
    /\ target = [c \in Cmds |-> NoLoop]
    /\ loop = [c \in Cmds |-> "none"]
    /\ child = [c \in Cmds |-> "none"]
    /\ known = {}
    /\ termed = {}
    /\ signalled = {}
    /\ disturbed = FALSE

LoopAlive(l)  == loop[l] \notin {"none", "gone"}
ChildAlive(l) == child[l] \in {"up", "ending"}
LoopVars == <<loop, child, known, termed, signalled>>
CMove(c, phase) == cmd' = [cmd EXCEPT ![c] = phase]

\* is_running: kill -0 on the PID in the file.
IsRunning(l) == l # NoLoop /\ LoopAlive(l)

-----------------------------------------------------------------------------
(* start_collector                                                         *)

Underway(c) == cmd[c] \notin {"new", "done"}

BeginCommand(c) ==
    /\ cmd[c] = "new"
    /\ CMove(c, IF todo[c] = "start" THEN "check" ELSE "look")
    /\ disturbed' = (disturbed \/ \E d \in Cmds : Underway(d))
    /\ UNCHANGED <<pidFile, todo, target, LoopVars>>

\* Mutant: a running loop does not keep a second one from being started.
MayStart_Always(c) == TRUE

MayStart(c) == ~IsRunning(pidFile)

StartCheck(c) ==
    /\ cmd[c] = "check"
    /\ CMove(c, IF MayStart(c) THEN "spawn" ELSE "done")
    /\ UNCHANGED <<pidFile, todo, target, LoopVars, disturbed>>

Spawn(c) ==
    /\ cmd[c] = "spawn"
    /\ loop' = [loop EXCEPT ![c] = "fork"]
    /\ CMove(c, "record")
    /\ UNCHANGED <<pidFile, todo, target, child, known, termed, signalled, disturbed>>

RecordPid(c) ==
    /\ cmd[c] = "record"
    /\ pidFile' = c
    /\ CMove(c, "verify")
    /\ UNCHANGED <<todo, target, LoopVars, disturbed>>

\* After a second: the PID file of a loop that has ended already is removed.
StartVerify(c) ==
    /\ cmd[c] = "verify"
    /\ pidFile' = IF IsRunning(pidFile) THEN pidFile ELSE NoLoop
    /\ CMove(c, "done")
    /\ UNCHANGED <<todo, target, LoopVars, disturbed>>

-----------------------------------------------------------------------------
(* stop_collector                                                          *)

StopLook(c) ==
    /\ cmd[c] = "look"
    /\ IF IsRunning(pidFile)
       THEN CMove(c, "pkill") /\ target' = [target EXCEPT ![c] = pidFile]
       ELSE CMove(c, "remove") /\ UNCHANGED target
    /\ UNCHANGED <<pidFile, todo, LoopVars, disturbed>>

\* A SIGTERM to the collector: its handler lets it finish the round, or it
\* arrives before the handler is installed and ends the process.
Terminate(l) ==
    IF child[l] # "up" THEN UNCHANGED child
    ELSE \E s \in {"ending", "terminated"} : child' = [child EXCEPT ![l] = s]

\* pkill -P: the children of the loop, the sleep of a resting loop included.
KillChildren(c) ==
    LET l == target[c]
    IN  /\ cmd[c] = "pkill"
        /\ IF LoopAlive(l) THEN Terminate(l) ELSE UNCHANGED child
        /\ CMove(c, "kill")
        /\ UNCHANGED <<pidFile, todo, target, loop, known, termed, signalled, disturbed>>

KillLoop(c) ==
    LET l == target[c]
    IN  /\ cmd[c] = "kill"
        /\ termed' = IF LoopAlive(l) THEN termed \cup {l} ELSE termed
        /\ signalled' = signalled \cup {l}
        /\ CMove(c, "await")
        /\ UNCHANGED <<pidFile, todo, target, loop, child, known, disturbed>>

\* Twenty looks, half a second apart.
AfterAwait(c) == IF IsRunning(pidFile) THEN "force" ELSE "remove"

StopAwait(c) ==
    /\ cmd[c] = "await"
    /\ CMove(c, AfterAwait(c))
    /\ UNCHANGED <<pidFile, todo, target, LoopVars, disturbed>>

\* pkill -KILL -P, then kill -KILL.
ForceChildren(c) ==
    LET l == target[c]
    IN  /\ cmd[c] = "force"
        /\ child' = IF LoopAlive(l) /\ ChildAlive(l) THEN [child EXCEPT ![l] = "exited"] ELSE child
        /\ CMove(c, "forceLoop")
        /\ UNCHANGED <<pidFile, todo, target, loop, known, termed, signalled, disturbed>>

Killed(l) == IF LoopAlive(l) THEN [loop EXCEPT ![l] = "gone"] ELSE loop

\* A loop whose next collector is up by now leaves it behind.
ForceLoop(c) ==
    LET l == target[c]
    IN  /\ cmd[c] = "forceLoop"
        /\ loop' = Killed(l)
        /\ termed' = termed \ {l}
        /\ disturbed' = (disturbed \/ (LoopAlive(l) /\ ChildAlive(l)))
        /\ CMove(c, "remove")
        /\ UNCHANGED <<pidFile, todo, target, child, known, signalled>>

\* rm -f; restart goes on with start_collector.
RemovePid(c) ==
    /\ cmd[c] = "remove"
    /\ pidFile' = NoLoop
    /\ target' = [target EXCEPT ![c] = NoLoop]
    /\ CMove(c, IF todo[c] = "restart" THEN "check" ELSE "done")
    /\ UNCHANGED <<todo, LoopVars, disturbed>>

-----------------------------------------------------------------------------
(* The respawn loop                                                        *)

\* A pending SIGTERM is handled before the next command of the loop.
Runs(l, phase) == loop[l] = phase /\ l \notin termed

Fork(l) ==
    /\ Runs(l, "fork")
    /\ child' = [child EXCEPT ![l] = "up"]
    /\ known' = known \ {l}
    /\ loop' = [loop EXCEPT ![l] = "assign"]
    /\ UNCHANGED <<pidFile, cmd, todo, target, termed, signalled, disturbed>>

Assign(l) ==
    /\ Runs(l, "assign")
    /\ known' = known \cup {l}
    /\ loop' = [loop EXCEPT ![l] = "wait"]
    /\ UNCHANGED <<pidFile, cmd, todo, target, child, termed, signalled, disturbed>>

\* Mutant: an exit with 0 is a clean stop, too.
CleanStop_Zero(l) == TRUE

\* Exit codes 130 and 143 end the loop; the collector's own handler exits with 0.
CleanStop(l) == child[l] = "terminated"

WaitReturns(l) ==
    /\ Runs(l, "wait")
    /\ child[l] \in {"exited", "terminated"}
    /\ loop' = [loop EXCEPT ![l] = IF CleanStop(l) THEN "gone" ELSE "rest"]
    /\ UNCHANGED <<pidFile, cmd, todo, target, child, known, termed, signalled, disturbed>>

\* sleep 5 is over or was killed.
Rest(l) ==
    /\ Runs(l, "rest")
    /\ loop' = [loop EXCEPT ![l] = "fork"]
    /\ UNCHANGED <<pidFile, cmd, todo, target, child, known, termed, signalled, disturbed>>

\* The trap: SIGTERM to the process in the variable child, if that is one.
Trap(l) ==
    /\ l \in termed
    /\ loop[l] \in {"fork", "assign", "wait", "rest"}
    /\ IF l \in known THEN Terminate(l) ELSE UNCHANGED child
    /\ loop' = [loop EXCEPT ![l] = "trap"]
    /\ UNCHANGED <<pidFile, cmd, todo, target, known, termed, signalled, disturbed>>

\* wait and exit 143.  A collector that was forked and not yet assigned stays.
LoopExit(l) ==
    /\ loop[l] = "trap"
    /\ l \in known => ~ChildAlive(l)
    /\ loop' = [loop EXCEPT ![l] = "gone"]
    /\ termed' = termed \ {l}
    /\ disturbed' = (disturbed \/ ChildAlive(l))
    /\ UNCHANGED <<pidFile, cmd, todo, target, child, known, signalled>>

-----------------------------------------------------------------------------
(* The collector, and what may happen to it                                *)

CollectorEnds(l) ==
    /\ child[l] = "ending"
    /\ child' = [child EXCEPT ![l] = "exited"]
    /\ UNCHANGED <<pidFile, cmd, todo, target, loop, known, termed, signalled, disturbed>>

CollectorCrashes(l) ==
    /\ child[l] = "up"
    /\ child' = [child EXCEPT ![l] = "exited"]
    /\ UNCHANGED <<pidFile, cmd, todo, target, loop, known, termed, signalled, disturbed>>

\* Somebody sends SIGTERM to the running collector, not to the loop.
CollectorTermed(l) ==
    /\ child[l] = "up" /\ loop[l] = "wait"
    /\ child' = [child EXCEPT ![l] = "ending"]
    /\ UNCHANGED <<pidFile, cmd, todo, target, loop, known, termed, signalled, disturbed>>

\* The loop is killed with SIGKILL; its collector goes on.
LoopDies(l) ==
    /\ LoopAlive(l)
    /\ loop' = [loop EXCEPT ![l] = "gone"]
    /\ termed' = termed \ {l}
    /\ signalled' = signalled \cup {l}
    /\ disturbed' = (disturbed \/ ChildAlive(l))
    /\ UNCHANGED <<pidFile, cmd, todo, target, child, known>>

Command(c) ==
    \/ BeginCommand(c) \/ StartCheck(c) \/ Spawn(c) \/ RecordPid(c) \/ StartVerify(c)
    \/ StopLook(c) \/ KillChildren(c) \/ KillLoop(c) \/ StopAwait(c)
    \/ ForceChildren(c) \/ ForceLoop(c) \/ RemovePid(c)

LoopStep(l) == Fork(l) \/ Assign(l) \/ WaitReturns(l) \/ Rest(l) \/ Trap(l) \/ LoopExit(l)

SupervisorNext ==
    \E c \in Cmds :
        \/ Command(c) \/ LoopStep(c) \/ CollectorEnds(c)
        \/ CollectorCrashes(c) \/ CollectorTermed(c) \/ LoopDies(c)

SupervisorSpec == SupervisorInit /\ [][SupervisorNext]_supervisorVars

\* Shells go on.  A collector told to end may hang in a request for good.
SupervisorFairness ==
    \A c \in Cmds : WF_supervisorVars(Command(c)) /\ WF_supervisorVars(LoopStep(c))

FairSupervisor == SupervisorSpec /\ SupervisorFairness

-----------------------------------------------------------------------------
(* Properties                                                              *)

Alive == {l \in Cmds : LoopAlive(l) \/ ChildAlive(l)}

\* Commands one after the other, whatever crashes: at most one loop is alive and
\* at most one collector writes the hot store, as HotStore assumes.
OneCollector == ~disturbed => Cardinality(Alive) <= 1

\* What runs can be found: when no command is under way, the PID file names
\* the loop that is alive; so a stop reaches it, and after a stop nothing runs.
StopCanFind ==
    ~disturbed /\ (\A c \in Cmds : ~Underway(c)) => Alive \subseteq {pidFile}

\* Commands that do not overlap leave at most one collector, and one that the
\* PID file leads to.
SupervisorSafe == OneCollector /\ StopCanFind

\* A collector that ends without its loop being signalled is started again,
\* whatever its exit code says about a SIGTERM it handled itself.
Respawned ==
    \A l \in Cmds : loop[l] = "wait" /\ child[l] = "exited" ~> child[l] = "up" \/ l \in signalled

\* Every command ends, a stop of a loop whose collector hangs included.
CommandsEnd == \A c \in Cmds : Underway(c) ~> cmd[c] = "done"

=============================================================================
