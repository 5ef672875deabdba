-------------------------- MODULE InstalledProject --------------------------
(***************************************************************************)
(* The life cycle of an installed project: install, uninstall, and what    *)
(* up, start, stop, restart and down do when the project is installed.  A  *)
(* command writes or unlinks one file, or makes one systemctl call, at a   *)
(* step; between two steps the compose file may be edited, a service may   *)
(* exit, the command may be interrupted and the machine may reboot.  One   *)
(* command runs at a time.                                                 *)
(***************************************************************************)
EXTENDS UnitFiles, SequencesExt, Naturals

CONSTANTS
    Requests,   \* the command lines a user may enter
    NameRank,   \* the position of a unit's file name in sorted order
    Faults,     \* the kinds of fault that may happen
    MaxFaults,  \* bound: faults in a behaviour
    MaxEdits    \* bound: edits of the compose file in a behaviour

Commands == {"install", "uninstall", "up", "start", "stop", "restart", "down"}

\* A command line: the command, the named services, --remove-orphans and --now.
Request == [cmd : Commands, names : Seq(Service), purge : BOOLEAN, now : BOOLEAN]

FaultKinds == {"reject", "raise", "crash", "reboot"}

\* cli.build_parser: install and uninstall take no service names.
ASSUME RequestsAssumption ==
    /\ Requests \subseteq Request
    /\ \A r \in Requests : r.cmd \in {"install", "uninstall"} => r.names = <<>>
ASSUME FaultsAssumption == Faults \subseteq FaultKinds
ASSUME BoundsAssumption == MaxFaults \in Nat /\ MaxEdits \in Nat

\* builders.unit_prefix, persistence.target_unit_name: every other file is named
\* after the project and a "-", the target after the project and a ".", which
\* sorts behind.  Likewise the files of a probe and of its timer go on with a "-"
\* after the service (builders.health_unit_name), its own file with a ".".
ASSUME NameRankAssumption ==
    /\ NameRank \in [Unit -> Nat]
    /\ \A u, v \in Unit : NameRank[u] = NameRank[v] => u = v
    /\ \A u \in ServiceUnits : NameRank[u] < NameRank[Target]
    /\ \A s \in Service : /\ NameRank[ProbeUnit(s)] < NameRank[MainUnit(s)]
                         /\ NameRank[TimerUnit(s)] < NameRank[MainUnit(s)]

VARIABLES
    file,    \* the compose file
    disk,    \* the generated unit files, by unit
    mgr,     \* the manager
    cmd,     \* the command that runs
    budget,  \* faults and edits still to come
    seen     \* history: see History below

vars == <<file, disk, mgr, cmd, budget, seen>>

Points == {"idle", "sync", "orphans", "stopOrphan", "unlink", "reload",
           "enable", "disable", "restartUpdated", "start", "stop", "restart"}

Command == [pc      : Points,
            cmd     : Commands,
            purge   : BOOLEAN,
            now     : BOOLEAN,
            file    : Files,            \* the file as the command read it
            names   : Seq(Service),     \* the services named, <<>> for the project
            at      : Unit,             \* sync_unit_files: the file to compare next
            todo    : Seq(Service),     \*    and its service, with those that follow
            left    : SUBSET Unit,      \* orphans to stop, or files to unlink
            updated : Seq(Service),     \* services to restart: their file was rewritten
            changed : BOOLEAN,          \* changes # []
            failed  : BOOLEAN]          \* exit_code != 0, or an exception

Idle(failed) ==
    [pc |-> "idle", cmd |-> "up", purge |-> FALSE, now |-> FALSE,
     file |-> CHOOSE f \in Files : TRUE, names |-> <<>>, at |-> Target, todo |-> <<>>,
     left |-> {}, updated |-> <<>>, changed |-> FALSE, failed |-> failed]

Note(P, failure) == [P EXCEPT !.failed = P.failed \/ failure]

-----------------------------------------------------------------------------
(* The control flow between two steps. *)

\* The end of the handler, for an exit code that is 0 or not.
Finish(P) == Idle(P.failed)

\* reconcile_installed_project: the changed units are restarted, then everything
\* is started.
RestartNext(P) == [P EXCEPT !.pc = IF P.updated = <<>> THEN "start" ELSE "restartUpdated"]

\* Mutant of AfterReload: the restart loop is entered with nothing to restart.
AfterReloadRestarts(P) ==
    CASE P.cmd = "install" -> [P EXCEPT !.pc = "enable"]
      [] P.cmd = "up"      -> [P EXCEPT !.pc = "restartUpdated"]
      [] OTHER             -> Finish(P)

AfterReload(P) ==
    CASE P.cmd = "install" -> [P EXCEPT !.pc = "enable"]
      [] P.cmd = "up"      -> RestartNext(P)
      [] OTHER             -> Finish(P)

\* All the files are written or unlinked.
AfterFiles(P) == IF P.changed THEN [P EXCEPT !.pc = "reload"] ELSE AfterReload(P)

\* persistence.remove_unit_files and remove_orphan_unit_files.
StartUnlink(P, units) ==
    IF units = {} THEN AfterFiles(P) ELSE [P EXCEPT !.pc = "unlink", !.left = units]

\* persistence.sync_unit_files has compared its last file.
Synced(P) == IF P.purge THEN [P EXCEPT !.pc = "orphans"] ELSE AfterFiles(P)

NextSynced(P) ==
    LET rest == Tail(P.todo)
    IN  IF rest = <<>> THEN Synced(P) ELSE [P EXCEPT !.todo = rest, !.at = MainUnit(Head(rest))]

\* The order of desired_unit_files: the target, then for each service its unit,
\* its probe and its timer.
AfterSync(P) ==
    CASE P.at = Target -> [P EXCEPT !.at = MainUnit(Head(P.todo))]
      [] P.at # Target /\ P.at.kind = "main" /\ HasHealth(P.file, P.at.of) ->
            [P EXCEPT !.at = ProbeUnit(P.at.of)]
      [] P.at # Target /\ P.at.kind = "probe" -> [P EXCEPT !.at = TimerUnit(P.at.of)]
      [] OTHER -> NextSynced(P)

\* Mutant of RestartsService: created files are restarted, rewritten ones are not.
RestartsServiceCreated(P, old) ==
    /\ P.at # Target /\ P.at.kind = "main"
    /\ old = NoFile
    /\ P.names = <<>> \/ P.at.of \in Range(P.names)

\* reconcile_installed_project restarts a unit whose file was rewritten, if it is
\* that of a service, and of a selected one.
RestartsService(P, old) ==
    /\ P.at # Target /\ P.at.kind = "main"
    /\ old \notin {NoFile, Generated(P.file, P.at)}
    /\ P.names = <<>> \/ P.at.of \in Range(P.names)

\* Mutant of FirstUnit: the files are unlinked in reverse order.
LastUnit(U) == CHOOSE u \in U : \A v \in U : NameRank[v] <= NameRank[u]

\* persistence.installed_project_unit_files is sorted.
FirstUnit(U) == CHOOSE u \in U : \A v \in U : NameRank[u] <= NameRank[v]

\* persistence.installed_orphan_unit_files: the generated files of services that
\* are not listed.  Those of a healthcheck that is gone are not among them.
Orphans(f) == {u \in OnDisk(disk) : u # Target /\ u.of \notin Listed(f)}

\* Mutant of ProjectUnits: only the files that would be generated today.
ProjectUnitsOfFile == OnDisk(disk) \cap DesiredUnits(file)

\* persistence.installed_project_unit_files: every generated file of the project.
ProjectUnits == OnDisk(disk)

\* Mutant of AfterList: the orphans are unlinked first, and then not stopped.
AfterListUnlinks(P, units) == StartUnlink(P, units)

\* The orphans are listed: `install` unlinks them, `up` and `down` stop them first.
AfterList(P, units) ==
    IF P.cmd = "install" \/ units = {} THEN StartUnlink(P, units)
    ELSE [P EXCEPT !.pc = "stopOrphan", !.left = units]

\* Mutant of AfterUnlink: removed files are not counted as changes.
AfterUnlinkUncounted(P, u) ==
    LET left == P.left \ {u}
        Q == [P EXCEPT !.left = left]
    IN  IF left = {} THEN AfterFiles(Q) ELSE Q

AfterUnlink(P, u) ==
    LET left == P.left \ {u}
        Q == [P EXCEPT !.left = left, !.changed = TRUE]
    IN  IF left = {} THEN AfterFiles(Q) ELSE Q

\* systemctl start, stop or restart: of the target, or of the services named.
\* The target always starts; a service does if what it requires is installed.
AllCanStart(m, names) == \A s \in Range(names) : CanStart(m, s)
StartRequest(m, names) == IF names = <<>> THEN StartTarget(m) ELSE StartServices(m, Range(names))
RestartRequest(m, names) == IF names = <<>> THEN StartTarget(m) ELSE RestartServices(m, Range(names))

\* Mutant of StopRequest: the target is stopped whatever is named.
StopRequestTarget(m, names) == m

StopRequest(m, names) == IF names = <<>> THEN m ELSE StopServices(m, Range(names))

\* systemctl stop of one orphan.
StopUnit(m, u) ==
    CASE u.kind = "main"  -> StopServices(m, {u.of})
      [] u.kind = "timer" -> StopTimers(m, {u.of})
      [] OTHER            -> m

-----------------------------------------------------------------------------
(* History: what the properties refer to.                                  *)
(*   held        : when it began, the manager held what the files say      *)
(*   fresh       : when it began, every running service ran what its file  *)
(*                 says                                                    *)
(*   synced      : the last install or up ended, the compose file is still *)
(*                 the one it read and nothing was uninstalled since       *)
(*   interrupted : a command was interrupted since the last reload         *)

RunsItsFile(s) == mgr.live[s] = disk[MainUnit(s)]
HoldsItsFile(u) == mgr.held[u] \in {disk[u], NoFile}

\* The history of a command ends with it.
Forget(h) == [h EXCEPT !.held = FALSE, !.fresh = FALSE]

\* The command takes a step and goes on as P.
Syncs(P) == cmd.cmd \in {"install", "up"} /\ ~P.failed /\ cmd.file = file
Goes(P) ==
    /\ cmd' = P
    /\ seen' = IF P.pc # "idle" THEN seen
               ELSE [Forget(seen) EXCEPT !.synced = seen.synced \/ Syncs(P)]

CanFault(kind) == kind \in Faults /\ budget.faults > 0
SpendFault == budget' = [budget EXCEPT !.faults = @ - 1]

-----------------------------------------------------------------------------
(* The commands. *)

\* The handler reads the compose file and looks whether the project is installed:
\* the commands of an uninstalled project are those of TransientProject.
Begin(r) ==
    LET P == [Idle(FALSE) EXCEPT !.cmd = r.cmd, !.purge = r.purge, !.now = r.now,
                                 !.file = file, !.names = r.names, !.todo = file.order]
        first == CASE r.cmd \in {"install", "up"} -> "sync"
                   [] r.cmd \in {"start", "restart"} -> r.cmd
                   [] r.cmd \in {"stop", "down"} -> "stop"
                   [] OTHER -> IF r.now THEN "stop" ELSE "disable"
    IN  /\ cmd.pc = "idle"
        /\ r.cmd \notin {"install", "uninstall"} => disk[Target] # NoFile
        /\ Range(r.names) \subseteq Listed(file)
        /\ cmd' = [P EXCEPT !.pc = first]
        /\ seen' = [seen EXCEPT
                      !.held = \A u \in Unit : HoldsItsFile(u),
                      !.fresh = \A s \in Running(mgr) : RunsItsFile(s),
                      !.synced = seen.synced /\ r.cmd \notin {"install", "up", "uninstall"}]
        /\ UNCHANGED <<file, disk, mgr, budget>>

\* One turn of the loop of persistence.sync_unit_files.
SyncFile ==
    LET old == disk[cmd.at]
        new == Generated(cmd.file, cmd.at)
    IN  /\ cmd.pc = "sync"
        /\ disk' = [disk EXCEPT ![cmd.at] = new]
        /\ Goes(AfterSync([cmd EXCEPT
                    !.changed = cmd.changed \/ old # new,
                    !.updated = IF RestartsService(cmd, old) THEN Append(cmd.updated, cmd.at.of)
                                ELSE cmd.updated]))
        /\ UNCHANGED <<file, mgr, budget>>

\* persistence.installed_orphan_unit_names.
ListOrphans ==
    /\ cmd.pc = "orphans"
    /\ Goes(AfterList(cmd, Orphans(cmd.file)))
    /\ UNCHANGED <<file, disk, mgr, budget>>

\* The orphan is done with.  After the last one the files are listed once more.
AfterOrphan(P, u) ==
    IF P.left = {u} THEN StartUnlink([P EXCEPT !.left = {}], Orphans(P.file))
    ELSE [P EXCEPT !.left = P.left \ {u}]

StopOrphan ==
    LET u == FirstUnit(cmd.left) IN
    /\ cmd.pc = "stopOrphan"
    /\ mgr' = StopUnit(mgr, u)
    /\ Goes(AfterOrphan(cmd, u))
    /\ UNCHANGED <<file, disk, budget>>

Unlink ==
    LET u == FirstUnit(cmd.left) IN
    /\ cmd.pc = "unlink"
    /\ disk' = [disk EXCEPT ![u] = NoFile]
    /\ Goes(AfterUnlink(cmd, u))
    /\ UNCHANGED <<file, mgr, budget>>

DaemonReload ==
    /\ cmd.pc = "reload"
    /\ mgr' = Reload(mgr, disk)
    /\ cmd' = AfterReload(cmd)
    /\ seen' = [IF cmd'.pc = "idle" THEN Forget(seen) ELSE seen EXCEPT !.interrupted = FALSE]
    /\ UNCHANGED <<file, disk, budget>>

\* systemctl enable and disable reload the manager too.
Enable ==
    /\ cmd.pc = "enable"
    /\ mgr' = [Reload(mgr, disk) EXCEPT !.enabled = TRUE]
    /\ Goes(IF cmd.now THEN [cmd EXCEPT !.pc = "start"] ELSE Finish(cmd))
    /\ UNCHANGED <<file, disk, budget>>

\* Disabling a unit that has no file fails, and `uninstall` goes on.
Disable ==
    /\ cmd.pc = "disable"
    /\ mgr' = IF disk[Target] = NoFile THEN mgr ELSE [Reload(mgr, disk) EXCEPT !.enabled = FALSE]
    /\ Goes(StartUnlink(Note(cmd, disk[Target] = NoFile), ProjectUnits))
    /\ UNCHANGED <<file, disk, budget>>

RestartUpdated ==
    LET m == ReadFiles(mgr, disk)
        s == Head(cmd.updated)
    IN  /\ cmd.pc = "restartUpdated"
        /\ mgr' = RestartServices(m, {s})
        /\ Goes(RestartNext([Note(cmd, ~CanStart(m, s)) EXCEPT !.updated = Tail(cmd.updated)]))
        /\ UNCHANGED <<file, disk, budget>>

\* start_installed_units, restart_installed_units, stop_installed_units.
StartUnits ==
    LET m == ReadFiles(mgr, disk) IN
    /\ cmd.pc = "start"
    /\ mgr' = StartRequest(m, cmd.names)
    /\ Goes(Finish(Note(cmd, ~AllCanStart(m, cmd.names))))
    /\ UNCHANGED <<file, disk, budget>>

RestartUnits ==
    LET m == ReadFiles(mgr, disk) IN
    /\ cmd.pc = "restart"
    /\ mgr' = RestartRequest(m, cmd.names)
    /\ Goes(Finish(Note(cmd, ~AllCanStart(m, cmd.names))))
    /\ UNCHANGED <<file, disk, budget>>

AfterStop(P) ==
    CASE P.cmd = "uninstall" -> [P EXCEPT !.pc = "disable"]
      [] P.cmd = "down" /\ P.purge -> [P EXCEPT !.pc = "orphans"]
      [] OTHER -> Finish(P)

StopUnits ==
    /\ cmd.pc = "stop"
    /\ mgr' = StopRequest(mgr, cmd.names)
    /\ Goes(AfterStop(cmd))
    /\ UNCHANGED <<file, disk, budget>>

\* systemctl fails without doing what it was asked, where the handler goes on.
Rejected ==
    /\ CanFault("reject") /\ SpendFault
    /\ \/ cmd.pc = "stopOrphan" /\ Goes(AfterOrphan(Note(cmd, TRUE), FirstUnit(cmd.left)))
       \/ cmd.pc = "disable" /\ Goes(StartUnlink(Note(cmd, TRUE), ProjectUnits))
       \/ cmd.pc = "restartUpdated"
            /\ Goes(RestartNext([Note(cmd, TRUE) EXCEPT !.updated = Tail(cmd.updated)]))
       \/ cmd.pc \in {"start", "restart"} /\ Goes(Idle(TRUE))
       \/ cmd.pc = "stop" /\ Goes(AfterStop(Note(cmd, TRUE)))
    /\ UNCHANGED <<file, disk, mgr>>

\* An exception leaves the handler: a file that cannot be written, a reload or an
\* enable that fails, an interrupt.
Raise ==
    /\ cmd.pc # "idle"
    /\ CanFault("raise") /\ SpendFault
    /\ cmd' = Idle(TRUE)
    /\ seen' = [Forget(seen) EXCEPT !.interrupted = TRUE]
    /\ UNCHANGED <<file, disk, mgr>>

-----------------------------------------------------------------------------
(* What happens around the commands. *)

EditFile ==
    /\ budget.edits > 0
    /\ budget' = [budget EXCEPT !.edits = @ - 1]
    /\ \E f \in Files \ {file} : file' = f
    /\ seen' = [seen EXCEPT !.synced = FALSE]
    /\ UNCHANGED <<disk, mgr, cmd>>

\* A service exits and is not restarted.
Crash ==
    /\ CanFault("crash") /\ SpendFault
    /\ \E s \in Running(mgr) : mgr' = StopServices(mgr, {s})
    /\ UNCHANGED <<file, disk, cmd, seen>>

Reboot ==
    /\ CanFault("reboot") /\ SpendFault
    /\ mgr' = Booted(mgr, disk)
    /\ cmd' = Idle(TRUE)
    /\ seen' = [Forget(seen) EXCEPT !.interrupted = FALSE]
    /\ UNCHANGED <<file, disk>>

-----------------------------------------------------------------------------
Init ==
    /\ file \in Files
    /\ disk = [u \in Unit |-> NoFile]
    /\ mgr = NothingInstalled
    /\ cmd = Idle(FALSE)
    /\ budget = [faults |-> MaxFaults, edits |-> MaxEdits]
    /\ seen = [held |-> FALSE, fresh |-> FALSE, synced |-> FALSE, interrupted |-> FALSE]

Step ==
    \/ SyncFile
    \/ ListOrphans \/ StopOrphan \/ Unlink
    \/ DaemonReload \/ Enable \/ Disable
    \/ RestartUpdated \/ StartUnits \/ RestartUnits \/ StopUnits

Next ==
    \/ \E r \in Requests : Begin(r)
    \/ Step
    \/ Rejected \/ Raise
    \/ EditFile \/ Crash \/ Reboot

Spec == Init /\ [][Next]_vars

-----------------------------------------------------------------------------
(* Properties. *)

\* A command is well formed: its loops stand where there is something left to do.
WellFormed(P) ==
    /\ P \in Command
    /\ P.pc # "idle" => P.todo # <<>>
    /\ P.pc = "sync" => P.at \in DesiredUnits(P.file) /\ (P.at = Target \/ P.at.of = Head(P.todo))
    /\ P.pc = "sync" => \A i \in DOMAIN P.todo : P.todo[i] \in Listed(P.file)
    /\ P.pc \in {"stopOrphan", "unlink"} => P.left # {}
    /\ P.pc = "stopOrphan" => P.left \subseteq ServiceUnits
    /\ P.pc = "restartUpdated" => P.updated # <<>>

TypeOK ==
    /\ file \in Files
    /\ disk \in [Unit -> Content \cup {NoFile}]
    /\ \A u \in OnDisk(disk) : \E f \in Files : u \in DesiredUnits(f) /\ disk[u] = Generated(f, u)
    /\ mgr \in Installed
    /\ WellFormed(cmd)
    /\ budget \in [faults : 0..MaxFaults, edits : 0..MaxEdits]
    /\ seen \in [held : BOOLEAN, fresh : BOOLEAN, synced : BOOLEAN, interrupted : BOOLEAN]

\* The project counts as installed as long as one of its files is there, wherever
\* a command that writes or removes them is interrupted: `up`, `down` and the
\* others never fall back to transient units beside persistent ones.
NoHeadlessProject == OnDisk(disk) # {} => Target \in OnDisk(disk)

\* Unless a command was interrupted before its reload, the manager holds no
\* definition that differs from the file when no command runs: each command
\* reloads it whenever it wrote or removed something.
ManagerUpToDate == cmd.pc = "idle" /\ ~seen.interrupted => \A u \in Unit : HoldsItsFile(u)

\* README: "`install` makes the project survive reboot".  After an install or an
\* up that succeeded, and until the compose file is edited or the project
\* uninstalled, a boot starts all its services with their present definitions,
\* monitors those with a healthcheck, and starts nothing else.
SurvivesReboot ==
    seen.synced /\ mgr.enabled =>
        LET m == Booted(mgr, disk)
        IN  /\ Running(m) = Listed(file)
            /\ \A s \in Listed(file) : m.live[s] = Hash(file, s)
            /\ m.timers = MonitoredIn(file)

Ended == cmd.pc # "idle" /\ cmd'.pc = "idle"
ExitsOk == Ended /\ ~cmd'.failed

\* An `up` of the whole project that reports success and that did not come after an
\* interrupted one leaves every service running and monitored; if every service ran
\* what its file said when it began, every service runs what the compose file says
\* now: nothing that was rewritten is left to run its old definition, whatever the
\* order in which dependencies and dependants are restarted.
UpHonest == [][
    ExitsOk /\ cmd.cmd = "up" /\ cmd.names = <<>> /\ seen.held =>
        /\ Listed(cmd.file) \subseteq Running(mgr')
        /\ MonitoredIn(cmd.file) \subseteq mgr'.timers
        /\ seen.fresh => \A s \in Listed(cmd.file) : mgr'.live[s] = Hash(cmd.file, s)]_vars

\* A `stop` or `down` of named services that reports success leaves none of them
\* running or monitored; a `start`, `restart` or `up` of named services leaves all
\* of them running.
NamedHonest == [][
    ExitsOk /\ cmd.names # <<>> =>
        /\ cmd.cmd \in {"stop", "down"} => Range(cmd.names) \cap (Running(mgr') \cup mgr'.timers) = {}
        /\ cmd.cmd \in {"start", "restart", "up"} => Range(cmd.names) \subseteq Running(mgr')]_vars

\* README: "`up --remove-orphans` stops and removes installed orphan units".  As
\* long as none of its calls failed, neither `up` nor `down` unlinks a file of a
\* service that runs or is monitored.
OrphansStopFirst == [][
    /\ cmd.cmd \in {"up", "down"} /\ ~cmd.failed
    => \A u \in OnDisk(disk) \ OnDisk(disk') : u.of \notin Running(mgr) \cup mgr.timers]_vars

\* An `uninstall` that reports success leaves no file behind and nothing enabled,
\* whatever interrupted commands and edits of the compose file came before.
UninstallClean == [][
    Ended /\ ~cmd'.failed /\ cmd.cmd = "uninstall" => OnDisk(disk') = {} /\ ~mgr'.enabled]_vars

\* README: "`uninstall --now` stops the project before removing generated
\* persistent units".
UninstallStops == [][
    ExitsOk /\ cmd.cmd = "uninstall" /\ cmd.now => Running(mgr') = {}]_vars

\* README: "Changed services have their unit files rewritten and are restarted":
\* after a successful `up` of the project every service runs what the compose
\* file says.
UpAligns == [][
    ExitsOk /\ cmd.cmd = "up" /\ cmd.names = <<>>
    => \A s \in Listed(cmd.file) : mgr'.live[s] = Hash(cmd.file, s)]_vars

=============================================================================
