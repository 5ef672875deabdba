----------------------- MODULE InstalledServiceProofs -----------------------
(***************************************************************************)
(* Theorems about what the services of an installed project do, for any    *)
(* services, compose files, command lines, faults and bounds: what a boot  *)
(* starts, what is stopped before its files go, and what a command that    *)
(* reports success leaves running.  They rest on the invariant Inv of      *)
(* InstalledProofs and on a second one, ServiceInv, that says of each      *)
(* point of a command which files are those of the compose file and which  *)
(* services run.                                                           *)
(***************************************************************************)
EXTENDS InstalledProofs

\* The units of U have the files, or the definitions, that f generates.
Agrees(d, f, U) == \A u \in U : d[u] = Generated(f, u)

\* The kinds of a service's units that are compared from the given one on.
KindsFrom(kind) ==
    CASE kind = "main"  -> {"main", "probe", "timer"}
      [] kind = "probe" -> {"probe", "timer"}
      [] OTHER          -> {"timer"}

\* The units that sync_unit_files has still to compare.
ToCompare(P) ==
    {u \in DesiredUnits(P.file) :
        P.at = Target \/ (u # Target /\ (u.of \in Range(Tail(P.todo))
                                          \/ (u.of = P.at.of /\ u.kind \in KindsFrom(P.at.kind))))}

OrphansOn(d, f) == {u \in OnDisk(d) : u # Target /\ u.of \notin Listed(f)}

\* The points that a command may stand at.
Route(command) ==
    CASE command = "install"   -> {"sync", "orphans", "unlink", "reload", "enable", "start"}
      [] command = "up"        -> {"sync", "orphans", "stopOrphan", "unlink", "reload",
                                   "restartUpdated", "start"}
      [] command = "down"      -> {"stop", "orphans", "stopOrphan", "unlink", "reload"}
      [] command = "uninstall" -> {"stop", "disable", "unlink", "reload"}
      [] OTHER                 -> {command}

\* The services that an `up` of the project has still to restart are noted: every
\* other one that runs and is listed runs what its file says.
RestartsNoted(P, d, m) ==
    \A s \in Running(m) \cap Listed(P.file) : m.live[s] = d[MainUnit(s)] \/ s \in Range(P.updated)

\* The services named for a `stop` or a `down` are stopped.
NamedStopped(P, m) == P.cmd \in {"stop", "down"} => Range(P.names) \cap Running(m) = {}

\* Once the files are compared and the units stopped.
Settled(P, d, m, fresh) ==
    /\ P.cmd \in {"install", "up"} => Agrees(d, P.file, DesiredUnits(P.file))
    /\ ~P.failed => NamedStopped(P, m)
    /\ fresh /\ ~P.failed /\ P.cmd = "up" /\ P.names = <<>> => RestartsNoted(P, d, m)

\* While the files are compared.
Comparing(P, d, m, fresh) ==
    /\ P.at = Target => P.todo = P.file.order
    /\ P.at # Target /\ P.at.kind # "main" => d[MainUnit(P.at.of)] # NoFile
    /\ Agrees(d, P.file, DesiredUnits(P.file) \ ToCompare(P))
    /\ fresh /\ ~P.failed /\ P.cmd = "up" /\ P.names = <<>> => RestartsNoted(P, d, m)

\* While the orphans are stopped: those done with are.
Stopping(P, d, m) ==
    /\ P.left \subseteq OrphansOn(d, P.file)
    /\ ~P.failed =>
         \A u \in OrphansOn(d, P.file) \ P.left : u.kind = "main" => u.of \notin Running(m)

\* While files are unlinked: those of services that run are kept for `uninstall`.
Unlinking(P, d, m) ==
    /\ P.left = IF P.cmd = "uninstall" THEN OnDisk(d) ELSE OrphansOn(d, P.file)
    /\ ~P.failed /\ P.cmd \in {"up", "down"} => \A u \in P.left : u.of \notin Running(m)

PointOk(P, d, m, fresh) ==
    P.pc # "idle" =>
        /\ P.pc \in Route(P.cmd)
        /\ P.pc = "sync" => Comparing(P, d, m, fresh)
        /\ P.pc \notin {"sync", "stop"} => Settled(P, d, m, fresh)
        /\ P.pc = "stopOrphan" => Stopping(P, d, m)
        /\ P.pc = "unlink" => Unlinking(P, d, m)
        /\ P.pc = "start" /\ P.cmd = "up" => P.updated = <<>>

\* A probe or a timer has a file only beside that of its service.
Companions(d) ==
    \A s \in Service : d[MainUnit(s)] = NoFile => d[ProbeUnit(s)] = NoFile /\ d[TimerUnit(s)] = NoFile

\* Only services that run are monitored.
MonitoredRun(m) == m.timers \subseteq Running(m)

SyncedOk ==
    seen.synced =>
        /\ Agrees(disk, file, DesiredUnits(file))
        /\ cmd.pc # "idle" => cmd.cmd \notin {"install", "up", "uninstall"} /\ cmd.file = file

\* When the command began, the manager held what the files said and the services
\* ran it.
Fresh == seen.fresh /\ seen.held

ServiceInv ==
    /\ PointOk(cmd, disk, mgr, Fresh)
    /\ Companions(disk)
    /\ MonitoredRun(mgr)
    /\ SyncedOk

-----------------------------------------------------------------------------
\* What a start of the target starts.

\* The units of a listed service, and what is generated for them.
LEMMA DesiredOf ==
    ASSUME NEW f \in Files, NEW s \in Listed(f)
    PROVE  /\ s \in Service
           /\ MainUnit(s) \in DesiredUnits(f) /\ MainUnit(s) \in ServiceUnits
           /\ MainUnit(s).of = s /\ MainUnit(s).kind = "main"
           /\ Generated(f, MainUnit(s)) = Hash(f, s)
           /\ HasHealth(f, s) => ProbeUnit(s) \in DesiredUnits(f) /\ TimerUnit(s) \in DesiredUnits(f)
<1>1. s \in Service
  BY ListedServices
<1>2. MainUnit(s) \in ServiceUnits /\ MainUnit(s).of = s /\ MainUnit(s).kind = "main"
  BY <1>1 DEF MainUnit, ServiceUnits
<1>3. MainUnit(s) # Target
  BY <1>2, TargetAssumption
<1>4. Generated(f, MainUnit(s)) = Hash(f, s)
  BY <1>2, <1>3 DEF Generated
<1>5. /\ MainUnit(s) \in DesiredUnits(f)
      /\ HasHealth(f, s) => ProbeUnit(s) \in DesiredUnits(f) /\ TimerUnit(s) \in DesiredUnits(f)
  BY DEF DesiredUnits, MonitoredIn
<1> QED
  BY <1>1, <1>2, <1>4, <1>5

\* The units of a service are none of them the target.
LEMMA OtherUnits ==
    ASSUME NEW s \in Service
    PROVE  /\ MainUnit(s) \in ServiceUnits /\ ProbeUnit(s) \in ServiceUnits /\ TimerUnit(s) \in ServiceUnits
           /\ MainUnit(s) # Target /\ ProbeUnit(s) # Target /\ TimerUnit(s) # Target
           /\ MainUnit(s) \in Unit /\ ProbeUnit(s) \in Unit /\ TimerUnit(s) \in Unit
  BY TargetAssumption DEF MainUnit, ProbeUnit, TimerUnit, ServiceUnits, Unit

\* Where the services of a compose file have their definitions, what they require is
\* among them: they can all start, and nothing else starts with them.
LEMMA ListedCanStart ==
    ASSUME NEW m, ManagerOk(m), NEW f \in Files, Agrees(m.held, f, DesiredUnits(f))
    PROVE  /\ Listed(f) \subseteq HeldServices(m)
           /\ \A s \in Listed(f) : CanStart(m, s) /\ m.held[MainUnit(s)] = Hash(f, s)
           /\ RequirementsOf(RequiresOf(m), Listed(f)) = Listed(f)
<1> DEFINE req == RequiresOf(m)
           L == Listed(f)
<1>1. req \in [Service -> SUBSET Service] /\ DOMAIN req = Service /\ L \subseteq Service
  BY RequiresOfType, ListedServices
<1>2. \A s \in L : m.held[MainUnit(s)] = Hash(f, s) /\ Hash(f, s) # NoFile
  BY DesiredOf, GeneratedContent DEF Agrees
<1>3. \A s \in L : req[s] \subseteq L
  <2> SUFFICES ASSUME NEW s \in L PROVE req[s] \subseteq L
    OBVIOUS
  <2>1. req[s] = DependsOn(Hash(f, s).own)
    BY <1>1, <1>2 DEF RequiresOf
  <2>2. Hash(f, s).own = f.def[s]
    BY DEF Hash
  <2>3. DependsOn(f.def[s]) \subseteq L
    BY FilesAssumption DEF IsComposeFile
  <2> QED
    BY <2>1, <2>2, <2>3
<1>4. L \subseteq HeldServices(m)
  BY <1>1, <1>2 DEF HeldServices
<1> HIDE DEF req, L
<1>5. DownwardClosed(req, L)
  BY <1>3 DEF DownwardClosed
<1>6. \A T \in SUBSET L : RequirementsOf(req, T) \subseteq L
  BY <1>1, <1>5, RequirementsLeast
<1>7. \A s \in L : CanStart(m, s)
  BY <1>4, <1>6 DEF CanStart, req
<1>8. L \subseteq RequirementsOf(req, L)
  BY <1>1, RequirementsContain
<1> QED
  BY <1>2, <1>4, <1>6, <1>7, <1>8 DEF req, L

\* Starting anew changes what the services started run, and nothing else.
LEMMA RunAnewLive ==
    ASSUME NEW m, ManagerOk(m), NEW R, R \subseteq HeldServices(m)
    PROVE  /\ \A s \in Service : RunAnew(m, R).live[s] = IF s \in R THEN m.held[MainUnit(s)] ELSE m.live[s]
           /\ Running(RunAnew(m, R)) = Running(m) \cup R
           /\ RunAnew(m, R).timers = m.timers
<1>1. m \in Installed
  BY DEF ManagerOk
<1>2. /\ \A s \in Service : RunAnew(m, R).live[s] = IF s \in R THEN m.held[MainUnit(s)] ELSE m.live[s]
      /\ RunAnew(m, R).timers = m.timers
  BY <1>1 DEF RunAnew, Installed
<1>3. \A s \in R : s \in Service /\ m.held[MainUnit(s)] # NoHash
  BY HeldMain, NoHashAssumption DEF HeldServices
<1> QED
  BY <1>2, <1>3 DEF Running

\* A start of the target, where the manager holds what a compose file generates,
\* starts all its services, with their present definitions, and their timers.
LEMMA StartTargetStarts ==
    ASSUME NEW m, ManagerOk(m), NEW f \in Files, Agrees(m.held, f, DesiredUnits(f))
    PROVE  /\ Running(StartTarget(m)) = Running(m) \cup Listed(f)
           /\ \A s \in Service : StartTarget(m).live[s] =
                IF s \in Listed(f) \ Running(m) THEN Hash(f, s) ELSE m.live[s]
           /\ StartTarget(m).timers = m.timers \cup MonitoredIn(f)
<1> DEFINE L == Listed(f)
           timers == {s \in WantedBy(m, "timer") : m.held[TimerUnit(s)] # NoFile /\ CanStart(m, s)}
           n == StartServices(m, WantedBy(m, "main") \cup timers)
           R == L \ Running(m)
<1>1. /\ L \subseteq HeldServices(m) /\ L \subseteq Service
      /\ \A s \in L : CanStart(m, s) /\ m.held[MainUnit(s)] = Hash(f, s)
      /\ RequirementsOf(RequiresOf(m), L) = L
  BY ListedCanStart, ListedServices
<1>2. m.held[Target] = [wants |-> Wanted(f)] /\ m.held[Target] # NoFile
  <2>1. Target \in DesiredUnits(f) /\ Generated(f, Target) = [wants |-> Wanted(f)]
    BY DEF DesiredUnits, Generated
  <2> QED
    BY <2>1, GeneratedContent DEF Agrees
<1>3. WantedBy(m, "main") = L /\ WantedBy(m, "timer") = MonitoredIn(f)
  <2>1. \A kind : WantedBy(m, kind) = {u.of : u \in {v \in Wanted(f) : v.kind = kind}}
    BY <1>2 DEF WantedBy
  <2>2. \A s : /\ MainUnit(s).kind = "main" /\ MainUnit(s).of = s
               /\ TimerUnit(s).kind = "timer" /\ TimerUnit(s).of = s
    BY DEF MainUnit, TimerUnit
  <2>3. {v \in Wanted(f) : v.kind = "main"} = {MainUnit(s) : s \in L}
    BY <2>2 DEF Wanted
  <2>4. {v \in Wanted(f) : v.kind = "timer"} = {TimerUnit(s) : s \in MonitoredIn(f)}
    BY <2>2 DEF Wanted
  <2>5. {u.of : u \in {MainUnit(s) : s \in L}} = L
    BY <2>2
  <2>6. {u.of : u \in {TimerUnit(s) : s \in MonitoredIn(f)}} = MonitoredIn(f)
    BY <2>2
  <2> QED
    BY <2>1, <2>3, <2>4, <2>5, <2>6
<1>4. timers = MonitoredIn(f)
  <2>1. \A s \in MonitoredIn(f) : s \in L /\ m.held[TimerUnit(s)] # NoFile
    BY DesiredOf, GeneratedContent DEF MonitoredIn, Agrees
  <2> QED
    BY <1>1, <1>3, <2>1
<1>5. WantedBy(m, "main") \cup timers = L /\ {s \in L : CanStart(m, s)} = L
  BY <1>1, <1>3, <1>4 DEF MonitoredIn
<1>6. n = RunAnew(m, R)
  BY <1>1, <1>5 DEF StartServices
<1>7. R \subseteq HeldServices(m)
  BY <1>1
<1>8. /\ \A s \in Service : n.live[s] = IF s \in R THEN Hash(f, s) ELSE m.live[s]
      /\ Running(n) = Running(m) \cup R
  <2> HIDE DEF n
  <2>1. \A s \in R : m.held[MainUnit(s)] = Hash(f, s)
    BY <1>1
  <2> HIDE DEF R
  <2>2. /\ \A s \in Service : RunAnew(m, R).live[s] = IF s \in R THEN m.held[MainUnit(s)] ELSE m.live[s]
        /\ Running(RunAnew(m, R)) = Running(m) \cup R
    BY <1>7, RunAnewLive
  <2> QED
    BY <1>6, <2>1, <2>2
<1>9. StartTarget(m) = [n EXCEPT !.timers = m.timers \cup timers]
  BY DEF StartTarget
<1>10. n \in Installed
  BY <1>6, <1>7, RunAnewOk DEF Keeps, ManagerOk
<1> HIDE DEF n, timers
<1>11. StartTarget(m).live = n.live /\ StartTarget(m).timers = m.timers \cup MonitoredIn(f)
  BY <1>4, <1>9, <1>10 DEF Installed
<1> QED
  BY <1>8, <1>11 DEF Running

-----------------------------------------------------------------------------
\* What the other requests start and stop.

\* Nothing is started, and what still runs goes on as it did.
Shrinks(m, n) == \A s \in Running(n) : s \in Running(m) /\ n.live[s] = m.live[s]

\* What runs either went on as it did or runs the definition held.
Starts(m, n) ==
    /\ Running(m) \subseteq Running(n)
    /\ \A s \in Running(n) :
         (s \in Running(m) /\ n.live[s] = m.live[s]) \/ n.live[s] = m.held[MainUnit(s)]

\* systemctl stop: the services named do not run, and no timer outlives its service.
LEMMA StopServicesStops ==
    ASSUME NEW m, ManagerOk(m), NEW S \in SUBSET Service
    PROVE  /\ Shrinks(m, StopServices(m, S))
           /\ S \cap Running(StopServices(m, S)) = {}
           /\ MonitoredRun(m) => MonitoredRun(StopServices(m, S))
<1> DEFINE n == StopServices(m, S)
           down == StopSet(m, S)
<1>1. m \in Installed
  BY DEF ManagerOk
<1>2. /\ \A s \in Service : n.live[s] = IF s \in down THEN NoHash ELSE m.live[s]
      /\ n.timers = m.timers \ down
  BY <1>1 DEF StopServices, Installed
<1>3. S \cap Running(m) \subseteq down
  <2>1. DOMAIN RequiresOf(m) = Service
    BY RequiresOfType
  <2> QED
    BY <2>1, DependentsContain DEF StopSet
<1> HIDE DEF n, down
<1>4. Running(n) = Running(m) \ down
  BY <1>2 DEF Running
<1>5. Shrinks(m, n)
  BY <1>2, <1>4 DEF Shrinks, Running
<1>6. S \cap Running(n) = {}
  BY <1>3, <1>4
<1>7. MonitoredRun(m) => MonitoredRun(n)
  BY <1>2, <1>4 DEF MonitoredRun
<1> QED
  BY <1>5, <1>6, <1>7 DEF n

\* A timer is stopped.
LEMMA StopTimersStops ==
    ASSUME NEW m, ManagerOk(m), NEW S
    PROVE  /\ Shrinks(m, StopTimers(m, S))
           /\ MonitoredRun(m) => MonitoredRun(StopTimers(m, S))
<1>1. m \in Installed
  BY DEF ManagerOk
<1>2. StopTimers(m, S).live = m.live /\ StopTimers(m, S).timers \subseteq m.timers
  BY <1>1 DEF StopTimers, Installed
<1> QED
  BY <1>2 DEF Shrinks, MonitoredRun, Running

\* systemctl start of services.
LEMMA StartServicesStarts ==
    ASSUME NEW m, ManagerOk(m), NEW S \in SUBSET Service
    PROVE  /\ Starts(m, StartServices(m, S))
           /\ \A s \in S : CanStart(m, s) => s \in Running(StartServices(m, S))
           /\ StartServices(m, S).timers = m.timers
<1> DEFINE able == {s \in S : CanStart(m, s)}
           started == RequirementsOf(RequiresOf(m), able)
           R == started \ Running(m)
<1>1. started \subseteq HeldServices(m)
  BY StartableHeld
<1>2. able \subseteq started
  <2>1. DOMAIN RequiresOf(m) = Service
    BY RequiresOfType
  <2> QED
    BY <2>1, RequirementsContain
<1>3. StartServices(m, S) = RunAnew(m, R)
  BY DEF StartServices
<1>4. R \subseteq HeldServices(m)
  BY <1>1
<1> HIDE DEF started, R
<1>5. /\ \A s \in Service : RunAnew(m, R).live[s] = IF s \in R THEN m.held[MainUnit(s)] ELSE m.live[s]
      /\ Running(RunAnew(m, R)) = Running(m) \cup R
      /\ RunAnew(m, R).timers = m.timers
  BY <1>4, RunAnewLive
<1>6. Starts(m, RunAnew(m, R))
  BY <1>5 DEF Starts, Running
<1>7. started \subseteq Running(m) \cup R
  BY DEF R
<1> QED
  BY <1>2, <1>3, <1>5, <1>6, <1>7

\* systemctl restart of services: they run the definitions held.
LEMMA RestartServicesStarts ==
    ASSUME NEW m, ManagerOk(m), NEW S \in SUBSET Service
    PROVE  /\ Starts(m, RestartServices(m, S))
           /\ \A s \in S : CanStart(m, s) =>
                /\ s \in Running(RestartServices(m, S))
                /\ RestartServices(m, S).live[s] = m.held[MainUnit(s)]
           /\ RestartServices(m, S).timers = m.timers
<1> DEFINE able == {s \in S : CanStart(m, s)}
           again == {s \in StopSet(m, able) : CanStart(m, s)}
           R == able \cup again
           n == StartServices(m, able)
<1>1. Starts(m, n) /\ n.timers = m.timers /\ Keeps(m, n)
  BY StartServicesStarts, StartServicesOk
<1>2. R \subseteq HeldServices(m)
  BY CanStartHeld DEF StopSet, Running
<1>3. RestartServices(m, S) = RunAnew(n, R)
  BY DEF RestartServices
<1>4. able \subseteq R /\ R \subseteq Service
  BY DEF StopSet, Running
<1> HIDE DEF n, R
<1>5. R \subseteq HeldServices(n) /\ ManagerOk(n) /\ n.held = m.held
  BY <1>1, <1>2 DEF Keeps, HeldServices
<1>6. /\ \A s \in Service : RunAnew(n, R).live[s] = IF s \in R THEN m.held[MainUnit(s)] ELSE n.live[s]
      /\ Running(RunAnew(n, R)) = Running(n) \cup R
      /\ RunAnew(n, R).timers = m.timers
  <2>1. /\ \A s \in Service : RunAnew(n, R).live[s] = IF s \in R THEN n.held[MainUnit(s)] ELSE n.live[s]
        /\ Running(RunAnew(n, R)) = Running(n) \cup R
        /\ RunAnew(n, R).timers = n.timers
    BY <1>5, RunAnewLive
  <2> QED
    BY <1>1, <1>5, <2>1
<1>7. Starts(m, RunAnew(n, R))
  BY <1>1, <1>6 DEF Starts, Running
<1> QED
  BY <1>3, <1>4, <1>6, <1>7

\* The requests of the commands: no timer runs without its service, and the services
\* named are started, or stopped, as asked.
LEMMA RequestsStart ==
    ASSUME NEW m, ManagerOk(m), MonitoredRun(m), NEW names \in Seq(Service)
    PROVE  /\ MonitoredRun(StartRequest(m, names))
           /\ MonitoredRun(RestartRequest(m, names))
           /\ AllCanStart(m, names) /\ names # <<>> =>
                /\ Range(names) \subseteq Running(StartRequest(m, names))
                /\ Range(names) \subseteq Running(RestartRequest(m, names))
           /\ MonitoredRun(StopRequest(m, names)) /\ Shrinks(m, StopRequest(m, names))
           /\ Range(names) \cap Running(StopRequest(m, names)) = {}
<1> DEFINE S == Range(names)
<1>1. S \in SUBSET Service /\ (names = <<>> => S = {})
  BY DEF Range
<1>2. MonitoredRun(StartTarget(m))
  <2> DEFINE timers == {s \in WantedBy(m, "timer") : m.held[TimerUnit(s)] # NoFile /\ CanStart(m, s)}
             T == WantedBy(m, "main") \cup timers
             n == StartServices(m, T)
  <2>1. T \in SUBSET Service
    BY WantedOfServices
  <2>2. Starts(m, n) /\ (\A s \in T : CanStart(m, s) => s \in Running(n)) /\ Keeps(m, n)
    BY <2>1, StartServicesStarts, StartServicesOk
  <2>3. timers \subseteq Running(n)
    BY <2>2
  <2>4. StartTarget(m) = [n EXCEPT !.timers = m.timers \cup timers]
    BY DEF StartTarget
  <2> HIDE DEF n, timers
  <2>5. n \in Installed
    BY <2>2 DEF Keeps, ManagerOk
  <2>6. StartTarget(m).live = n.live /\ StartTarget(m).timers = m.timers \cup timers
    BY <2>4, <2>5 DEF Installed
  <2> QED
    BY <2>2, <2>3, <2>6 DEF MonitoredRun, Starts, Running
<1>3. /\ MonitoredRun(StartServices(m, S)) /\ MonitoredRun(RestartServices(m, S))
      /\ (\A s \in S : CanStart(m, s)) =>
           S \subseteq Running(StartServices(m, S)) /\ S \subseteq Running(RestartServices(m, S))
  BY <1>1, StartServicesStarts, RestartServicesStarts DEF MonitoredRun, Starts
<1>4. /\ MonitoredRun(StopServices(m, S)) /\ Shrinks(m, StopServices(m, S))
      /\ S \cap Running(StopServices(m, S)) = {}
  BY <1>1, StopServicesStops
<1>5. Shrinks(m, m)
  BY DEF Shrinks
<1> QED
  BY <1>1, <1>2, <1>3, <1>4, <1>5 DEF StartRequest, RestartRequest, StopRequest, AllCanStart

-----------------------------------------------------------------------------
\* The control flow: what holds where a command goes on.

\* The command P goes on as Q.
GoesOn(P, Q, d, m, fresh) ==
    /\ Q.pc # "idle" => Q.cmd = P.cmd /\ Q.file = P.file
    /\ PointOk(Q, d, m, fresh)

\* The commands that stand at a point.
LEMMA CommandsAt ==
    ASSUME NEW command \in Commands, NEW pc \in Route(command)
    PROVE  /\ pc = "sync" => command \in {"install", "up"}
           /\ pc = "orphans" => command \in {"install", "up", "down"}
           /\ pc = "stopOrphan" => command \in {"up", "down"}
           /\ pc \in {"unlink", "reload"} => command \in {"install", "uninstall", "up", "down"}
           /\ pc = "enable" => command = "install"
           /\ pc = "disable" => command = "uninstall"
           /\ pc = "restartUpdated" => command = "up"
           /\ pc = "start" => command \in {"install", "up", "start"}
           /\ pc = "restart" => command = "restart"
           /\ pc = "stop" => command \in {"stop", "down", "uninstall"}
  BY DEF Commands, Route

\* Only the point of the command and what it unlinks change.
SameCommand(P, Q) ==
    /\ Q.cmd = P.cmd /\ Q.file = P.file /\ Q.names = P.names
    /\ Q.failed = P.failed /\ Q.updated = P.updated

\* What is settled stays so at the next point.
LEMMA PointReached ==
    ASSUME NEW P, NEW Q, SameCommand(P, Q), NEW d, NEW m, NEW fresh \in BOOLEAN,
           Settled(P, d, m, fresh), Q.pc \in Route(P.cmd) \ {"sync", "stop"},
           Q.pc = "stopOrphan" => Stopping(Q, d, m),
           Q.pc = "unlink" => Unlinking(Q, d, m),
           Q.pc = "start" /\ P.cmd = "up" => P.updated = <<>>
    PROVE  GoesOn(P, Q, d, m, fresh)
  BY DEF SameCommand, Settled, NamedStopped, RestartsNoted, GoesOn, PointOk

\* The command has ended.
LEMMA IdleGoes ==
    ASSUME NEW P, NEW failed, NEW d, NEW m, NEW fresh
    PROVE  GoesOn(P, Idle(failed), d, m, fresh)
  BY DEF Idle, GoesOn, PointOk

\* The next unit to restart, or the start of the rest.
LEMMA RestartNextGoes ==
    ASSUME NEW P, Body(P), P.cmd = "up", NEW d, NEW m, NEW fresh \in BOOLEAN, Settled(P, d, m, fresh)
    PROVE  GoesOn(P, RestartNext(P), d, m, fresh)
<1> DEFINE Q == RestartNext(P)
<1>1. /\ SameCommand(P, Q) /\ Q.pc \in {"start", "restartUpdated"}
      /\ Q.pc = "start" => P.updated = <<>>
  BY DEF RestartNext, SameCommand, Body, Command
<1> HIDE DEF Q
<1>2. GoesOn(P, Q, d, m, fresh)
  BY <1>1, PointReached DEF Route
<1> QED
  BY <1>2 DEF Q

\* The manager has read the files.
LEMMA AfterReloadGoes ==
    ASSUME NEW P, Body(P), NEW d, NEW m, NEW fresh \in BOOLEAN, Settled(P, d, m, fresh)
    PROVE  GoesOn(P, AfterReload(P), d, m, fresh)
<1>1. CASE P.cmd = "install"
  <2> DEFINE Q == [P EXCEPT !.pc = "enable"]
  <2>1. SameCommand(P, Q) /\ Q.pc = "enable"
    BY DEF SameCommand, Body, Command
  <2> HIDE DEF Q
  <2>2. GoesOn(P, Q, d, m, fresh)
    BY <1>1, <2>1, PointReached DEF Route
  <2> QED
    BY <1>1, <2>2 DEF AfterReload, Q
<1>2. CASE P.cmd = "up"
  BY <1>2, RestartNextGoes DEF AfterReload
<1>3. CASE P.cmd \notin {"install", "up"}
  BY <1>3, IdleGoes DEF AfterReload, Finish
<1> QED
  BY <1>1, <1>2, <1>3

\* All the files are written or unlinked.
LEMMA AfterFilesGoes ==
    ASSUME NEW P, Body(P), P.cmd \in {"install", "uninstall", "up", "down"},
           NEW d, NEW m, NEW fresh \in BOOLEAN, Settled(P, d, m, fresh)
    PROVE  GoesOn(P, AfterFiles(P), d, m, fresh)
<1>1. CASE P.changed
  <2> DEFINE Q == [P EXCEPT !.pc = "reload"]
  <2>1. SameCommand(P, Q) /\ Q.pc = "reload"
    BY DEF SameCommand, Body, Command
  <2> HIDE DEF Q
  <2>2. GoesOn(P, Q, d, m, fresh)
    BY <2>1, PointReached DEF Route
  <2> QED
    BY <1>1, <2>2 DEF AfterFiles, Q
<1>2. CASE ~P.changed
  BY <1>2, AfterReloadGoes DEF AfterFiles
<1> QED
  BY <1>1, <1>2

\* The first of the files is unlinked next.
LEMMA StartUnlinkGoes ==
    ASSUME NEW P, Body(P), P.cmd \in {"install", "uninstall", "up", "down"},
           NEW d, NEW m, NEW fresh \in BOOLEAN, Settled(P, d, m, fresh),
           NEW units, units = IF P.cmd = "uninstall" THEN OnDisk(d) ELSE OrphansOn(d, P.file),
           ~P.failed /\ P.cmd \in {"up", "down"} => \A u \in units : u.of \notin Running(m)
    PROVE  GoesOn(P, StartUnlink(P, units), d, m, fresh)
<1>1. CASE units = {}
  BY <1>1, AfterFilesGoes DEF StartUnlink
<1>2. CASE units # {}
  <2> DEFINE Q == [P EXCEPT !.pc = "unlink", !.left = units]
  <2>1. SameCommand(P, Q) /\ Q.pc = "unlink" /\ Q.left = units
    BY DEF SameCommand, Body, Command
  <2> HIDE DEF Q
  <2>2. Unlinking(Q, d, m)
    BY <2>1 DEF Unlinking, SameCommand
  <2>3. GoesOn(P, Q, d, m, fresh)
    BY <2>1, <2>2, PointReached DEF Route
  <2> QED
    BY <1>2, <2>3 DEF StartUnlink, Q
<1> QED
  BY <1>1, <1>2

\* The last file is compared.
LEMMA SyncedGoes ==
    ASSUME NEW P, Body(P), P.cmd \in {"install", "up"},
           NEW d, NEW m, NEW fresh \in BOOLEAN, Settled(P, d, m, fresh)
    PROVE  GoesOn(P, Synced(P), d, m, fresh)
<1>1. CASE P.purge
  <2> DEFINE Q == [P EXCEPT !.pc = "orphans"]
  <2>1. SameCommand(P, Q) /\ Q.pc = "orphans"
    BY DEF SameCommand, Body, Command
  <2> HIDE DEF Q
  <2>2. GoesOn(P, Q, d, m, fresh)
    BY <2>1, PointReached DEF Route
  <2> QED
    BY <1>1, <2>2 DEF Synced, Q
<1>2. CASE ~P.purge
  BY <1>2, AfterFilesGoes DEF Synced
<1> QED
  BY <1>1, <1>2

\* The orphans are stopped or unlinked next.
LEMMA AfterListGoes ==
    ASSUME NEW P, Body(P), P.cmd \in {"install", "up", "down"},
           NEW d, NEW m, NEW fresh \in BOOLEAN, Settled(P, d, m, fresh)
    PROVE  GoesOn(P, AfterList(P, OrphansOn(d, P.file)), d, m, fresh)
<1> DEFINE units == OrphansOn(d, P.file)
<1>1. CASE P.cmd = "install" \/ units = {}
  BY <1>1, StartUnlinkGoes DEF AfterList
<1>2. CASE ~(P.cmd = "install" \/ units = {})
  <2> DEFINE Q == [P EXCEPT !.pc = "stopOrphan", !.left = units]
  <2>1. SameCommand(P, Q) /\ Q.pc = "stopOrphan" /\ Q.left = units
    BY DEF SameCommand, Body, Command
  <2> HIDE DEF Q
  <2>2. Stopping(Q, d, m)
    BY <2>1 DEF Stopping, SameCommand
  <2>3. GoesOn(P, Q, d, m, fresh)
    BY <1>2, <2>1, <2>2, PointReached DEF Route
  <2> QED
    BY <1>2, <2>3 DEF AfterList, Q
<1> QED
  BY <1>1, <1>2

\* The next orphan is stopped; when all are, no service that has an orphan runs, as
\* its own file is one of them.
LEMMA AfterOrphanGoes ==
    ASSUME NEW P, Body(P), P.pc = "stopOrphan", P.cmd \in {"up", "down"},
           DiskOk(disk), Companions(disk), NEW m, NEW fresh \in BOOLEAN, Settled(P, disk, m, fresh),
           P.left \subseteq OrphansOn(disk, P.file), NEW u,
           ~P.failed => \A v \in OrphansOn(disk, P.file) \ (P.left \ {u}) :
                            v.kind = "main" => v.of \notin Running(m)
    PROVE  GoesOn(P, AfterOrphan(P, u), disk, m, fresh)
<1>1. CASE P.left = {u}
  <2> DEFINE Q == [P EXCEPT !.left = {}]
             units == OrphansOn(disk, P.file)
  <2>1. SameCommand(P, Q) /\ Body(Q)
    BY DEF SameCommand, Body, Command
  <2>2. AfterOrphan(P, u) = StartUnlink(Q, units)
    BY <1>1, <2>1 DEF AfterOrphan, Orphans, OrphansOn, SameCommand
  <2> HIDE DEF Q
  <2>3. Settled(Q, disk, m, fresh)
    BY <2>1 DEF SameCommand, Settled, NamedStopped, RestartsNoted
  <2>4. ASSUME ~P.failed, NEW v \in units PROVE v.of \notin Running(m)
    <3>1. v \in ServiceUnits /\ disk[v] # NoFile /\ v.of \notin Listed(P.file)
      BY DEF OrphansOn, OnDisk, Unit
    <3>2. v.of \in Service /\ v \in {MainUnit(v.of), ProbeUnit(v.of), TimerUnit(v.of)}
      BY <3>1 DEF ServiceUnits, MainUnit, ProbeUnit, TimerUnit
    <3>3. MainUnit(v.of) \in ServiceUnits /\ MainUnit(v.of).of = v.of /\ MainUnit(v.of).kind = "main"
      BY <3>2 DEF ServiceUnits, MainUnit
    <3>4. disk[MainUnit(v.of)] # NoFile
      BY <3>1, <3>2 DEF Companions
    <3>5. MainUnit(v.of) \in units
      BY <3>1, <3>3, <3>4, TargetAssumption DEF OrphansOn, OnDisk, Unit
    <3> QED
      BY <1>1, <2>4, <3>3, <3>5
  <2> HIDE DEF units
  <2>5. GoesOn(Q, StartUnlink(Q, units), disk, m, fresh)
    BY <2>1, <2>3, <2>4, StartUnlinkGoes DEF SameCommand, units
  <2> QED
    BY <2>1, <2>2, <2>5 DEF GoesOn, SameCommand
<1>2. CASE P.left # {u}
  <2> DEFINE Q == [P EXCEPT !.left = P.left \ {u}]
  <2>1. SameCommand(P, Q) /\ Q.pc = "stopOrphan" /\ Q.left = P.left \ {u}
    BY DEF SameCommand, Body, Command
  <2> HIDE DEF Q
  <2>2. Stopping(Q, disk, m)
    BY <2>1 DEF Stopping, SameCommand
  <2>3. GoesOn(P, Q, disk, m, fresh)
    BY <2>1, <2>2, PointReached DEF Route
  <2> QED
    BY <1>2, <2>3 DEF AfterOrphan, Q
<1> QED
  BY <1>1, <1>2

\* The units are stopped.
LEMMA AfterStopGoes ==
    ASSUME NEW P, Body(P), P.cmd \in {"stop", "down", "uninstall"},
           NEW d, NEW m, NEW fresh \in BOOLEAN, Settled(P, d, m, fresh)
    PROVE  GoesOn(P, AfterStop(P), d, m, fresh)
<1>1. CASE P.cmd = "uninstall"
  <2> DEFINE Q == [P EXCEPT !.pc = "disable"]
  <2>1. SameCommand(P, Q) /\ Q.pc = "disable"
    BY DEF SameCommand, Body, Command
  <2> HIDE DEF Q
  <2>2. GoesOn(P, Q, d, m, fresh)
    BY <1>1, <2>1, PointReached DEF Route
  <2> QED
    BY <1>1, <2>2 DEF AfterStop, Q
<1>2. CASE P.cmd = "down" /\ P.purge
  <2> DEFINE Q == [P EXCEPT !.pc = "orphans"]
  <2>1. SameCommand(P, Q) /\ Q.pc = "orphans"
    BY DEF SameCommand, Body, Command
  <2> HIDE DEF Q
  <2>2. GoesOn(P, Q, d, m, fresh)
    BY <1>2, <2>1, PointReached DEF Route
  <2> QED
    BY <1>2, <2>2 DEF AfterStop, Q
<1>3. CASE P.cmd # "uninstall" /\ ~(P.cmd = "down" /\ P.purge)
  BY <1>3, IdleGoes DEF AfterStop, Finish
<1> QED
  BY <1>1, <1>2, <1>3

\* A file is unlinked.  That of a service goes after those of its probe and its timer,
\* and a file that the compose file still generates goes only with all the others.
LEMMA AfterUnlinkGoes ==
    ASSUME NEW P, Body(P), P.pc = "unlink", P.left # {},
           NEW d, DiskOk(d), Companions(d), NEW m, NEW fresh \in BOOLEAN, PointOk(P, d, m, fresh)
    PROVE  LET u == FirstUnit(P.left)
           IN  /\ GoesOn(P, AfterUnlink(P, u), Without(d, u), m, fresh)
               /\ Companions(Without(d, u))
               /\ P.cmd # "uninstall" => u \notin DesiredUnits(P.file)
<1> DEFINE u == FirstUnit(P.left)
           e == Without(d, u)
           Q == [P EXCEPT !.left = P.left \ {u}, !.changed = TRUE]
<1>1. /\ Settled(P, d, m, fresh) /\ Unlinking(P, d, m) /\ P.file \in Files
      /\ P.cmd \in {"install", "uninstall", "up", "down"}
  <2>1. P.pc \in Route(P.cmd) /\ P.cmd \in Commands
    BY DEF PointOk, Body, Command
  <2>2. P.cmd \in {"install", "uninstall", "up", "down"}
    BY <2>1, CommandsAt
  <2> QED
    BY <2>2 DEF PointOk, Body, Command
<1>2. P.left \in SUBSET Unit
  BY DEF Body, Command
<1>3. u \in P.left /\ \A v \in P.left : NameRank[u] <= NameRank[v]
  BY <1>2, FirstUnitOf
<1> HIDE DEF u
<1>4. \A v \in Unit : e[v] = IF v = u THEN NoFile ELSE d[v]
  BY DEF DiskOk, Without
<1> HIDE DEF e
<1>5. ASSUME P.cmd # "uninstall"
      PROVE  u # Target /\ u.of \notin Listed(P.file) /\ u \notin DesiredUnits(P.file)
  <2>1. u # Target /\ u.of \notin Listed(P.file)
    BY <1>1, <1>3, <1>5 DEF Unlinking, OrphansOn
  <2> QED
    BY <1>1, <2>1, GeneratedContent
<1>6. Companions(e)
  <2> SUFFICES ASSUME NEW s \in Service, e[MainUnit(s)] = NoFile
               PROVE  e[ProbeUnit(s)] = NoFile /\ e[TimerUnit(s)] = NoFile
    BY DEF Companions
  <2>1. /\ MainUnit(s) \in ServiceUnits /\ ProbeUnit(s) \in ServiceUnits /\ TimerUnit(s) \in ServiceUnits
        /\ MainUnit(s).of = s /\ ProbeUnit(s).of = s /\ TimerUnit(s).of = s
    BY DEF MainUnit, ProbeUnit, TimerUnit, ServiceUnits
  <2>2. /\ MainUnit(s) \in Unit /\ ProbeUnit(s) \in Unit /\ TimerUnit(s) \in Unit
        /\ MainUnit(s) # Target /\ ProbeUnit(s) # Target /\ TimerUnit(s) # Target
    BY <2>1, TargetAssumption DEF Unit
  <2>3. CASE MainUnit(s) # u
    BY <1>4, <2>2, <2>3 DEF Companions
  <2>4. CASE MainUnit(s) = u
    <3>1. /\ NameRank[ProbeUnit(s)] < NameRank[u] /\ NameRank[TimerUnit(s)] < NameRank[u]
          /\ NameRank[ProbeUnit(s)] \in Nat /\ NameRank[TimerUnit(s)] \in Nat /\ NameRank[u] \in Nat
      BY <2>2, <2>4, NameRankAssumption
    <3>2. ProbeUnit(s) \notin P.left /\ TimerUnit(s) \notin P.left
      <4>1. \A v \in P.left : NameRank[v] \in Nat /\ ~(NameRank[v] < NameRank[u])
        BY <1>2, <1>3, <3>1, NameRankAssumption
      <4> QED
        BY <3>1, <4>1
    <3>3. \A v \in Unit : v # Target /\ v.of = s /\ d[v] # NoFile => v \in P.left
      <4>1. P.cmd # "uninstall" => s \notin Listed(P.file)
        BY <1>5, <2>1, <2>4
      <4> QED
        BY <1>1, <4>1 DEF Unlinking, OrphansOn, OnDisk
    <3> QED
      BY <1>4, <2>1, <2>2, <3>2, <3>3
  <2> QED
    BY <2>3, <2>4
<1>7. Settled(P, e, m, fresh)
  <2>1. P.cmd \in {"install", "up"} => Agrees(e, P.file, DesiredUnits(P.file))
    BY <1>1, <1>4, <1>5, GeneratedContent DEF Settled, Agrees
  <2>2. ASSUME P.cmd = "up", RestartsNoted(P, d, m) PROVE RestartsNoted(P, e, m)
    <3>1. \A s \in Listed(P.file) : MainUnit(s) \in Unit /\ MainUnit(s) # u
      BY <1>1, <1>5, <2>2, DesiredOf, GeneratedContent
    <3> QED
      BY <1>4, <2>2, <3>1 DEF RestartsNoted
  <2> QED
    BY <1>1, <2>1, <2>2 DEF Settled
<1>8. SameCommand(P, Q) /\ Body(Q) /\ Q.pc = "unlink" /\ Q.left = P.left \ {u}
  BY DEF SameCommand, Body, Command
<1>9. AfterUnlink(P, u) = IF P.left \ {u} = {} THEN AfterFiles(Q) ELSE Q
  BY DEF AfterUnlink
<1> HIDE DEF Q
<1>10. Settled(Q, e, m, fresh)
  BY <1>7, <1>8 DEF SameCommand, Settled, NamedStopped, RestartsNoted
<1>11. Unlinking(Q, e, m)
  <2>1. OnDisk(e) = OnDisk(d) \ {u}
    BY <1>2, <1>3, <1>4 DEF OnDisk
  <2> QED
    BY <1>1, <1>8, <2>1 DEF Unlinking, OrphansOn, SameCommand
<1>12. GoesOn(P, Q, e, m, fresh)
  BY <1>1, <1>7, <1>8, <1>11, PointReached DEF Route
<1>13. GoesOn(P, AfterFiles(Q), e, m, fresh)
  <2>1. GoesOn(Q, AfterFiles(Q), e, m, fresh)
    BY <1>1, <1>8, <1>10, AfterFilesGoes DEF SameCommand
  <2> QED
    BY <1>8, <2>1 DEF GoesOn, SameCommand
<1>14. GoesOn(P, AfterUnlink(P, u), e, m, fresh)
  BY <1>9, <1>12, <1>13
<1> QED
  BY <1>5, <1>6, <1>14 DEF u, e

\* The elements of a sequence are its head and those of its tail.
LEMMA RangeHeadTail ==
    ASSUME NEW S, NEW seq \in Seq(S), seq # <<>>
    PROVE  Range(seq) = {Head(seq)} \cup Range(Tail(seq))
<1>1. /\ Len(seq) \in Nat /\ Len(seq) > 0 /\ DOMAIN seq = 1..Len(seq)
      /\ Tail(seq) \in Seq(S) /\ Len(Tail(seq)) = Len(seq) - 1 /\ DOMAIN Tail(seq) = 1..Len(Tail(seq))
      /\ Head(seq) = seq[1] /\ \A i \in 1..Len(Tail(seq)) : Tail(seq)[i] = seq[i + 1]
  BY HeadTailProperties, EmptySeq, LenProperties
<1>2. \A i \in 2..Len(seq) : i - 1 \in 1..Len(Tail(seq)) /\ Tail(seq)[i - 1] = seq[i]
  <2> SUFFICES ASSUME NEW i \in 2..Len(seq)
               PROVE  i - 1 \in 1..Len(Tail(seq)) /\ Tail(seq)[i - 1] = seq[i]
    OBVIOUS
  <2>1. i - 1 \in 1..Len(Tail(seq)) /\ (i - 1) + 1 = i
    BY <1>1
  <2> QED
    BY <1>1, <2>1
<1>3. Range(seq) \subseteq {Head(seq)} \cup Range(Tail(seq))
  <2> SUFFICES ASSUME NEW i \in DOMAIN seq PROVE seq[i] \in {Head(seq)} \cup Range(Tail(seq))
    BY DEF Range
  <2>1. i = 1 \/ i \in 2..Len(seq)
    BY <1>1
  <2> QED
    BY <1>1, <1>2, <2>1 DEF Range
<1>4. Range(Tail(seq)) \subseteq Range(seq)
  <2> SUFFICES ASSUME NEW i \in DOMAIN Tail(seq) PROVE Tail(seq)[i] \in Range(seq)
    BY DEF Range
  <2>1. i + 1 \in DOMAIN seq /\ Tail(seq)[i] = seq[i + 1]
    BY <1>1
  <2> QED
    BY <2>1 DEF Range
<1>5. Head(seq) \in Range(seq)
  BY <1>1 DEF Range
<1> QED
  BY <1>3, <1>4, <1>5

\* An element is appended.
LEMMA RangeAppend ==
    ASSUME NEW S, NEW seq \in Seq(S), NEW x \in S
    PROVE  Append(seq, x) \in Seq(S) /\ Range(Append(seq, x)) = Range(seq) \cup {x}
<1>1. /\ Append(seq, x) \in Seq(S) /\ Len(seq) \in Nat /\ Len(Append(seq, x)) = Len(seq) + 1
      /\ DOMAIN seq = 1..Len(seq) /\ DOMAIN Append(seq, x) = 1..(Len(seq) + 1)
      /\ \A i \in 1..Len(seq) : Append(seq, x)[i] = seq[i]
      /\ Append(seq, x)[Len(seq) + 1] = x
  BY AppendProperties, LenProperties
<1>2. DOMAIN Append(seq, x) = DOMAIN seq \cup {Len(seq) + 1}
  BY <1>1
<1> QED
  BY <1>1, <1>2 DEF Range

\* A turn of the loop of sync_unit_files: each unit comes once, and after the last
\* one every file is what the compose file generates.
LEMMA AfterSyncGoes ==
    ASSUME NEW P, Body(P), P.pc = "sync", P.cmd \in {"install", "up"},
           P.at \in DesiredUnits(P.file), P.at = Target \/ P.at.of = Head(P.todo),
           \A i \in DOMAIN P.todo : P.todo[i] \in Listed(P.file),
           P.at = Target => P.todo = P.file.order,
           NEW d, NEW m, NEW fresh \in BOOLEAN,
           P.at # Target => d[MainUnit(P.at.of)] # NoFile,
           Agrees(d, P.file, (DesiredUnits(P.file) \ ToCompare(P)) \cup {P.at}),
           fresh /\ ~P.failed /\ P.cmd = "up" /\ P.names = <<>> => RestartsNoted(P, d, m)
    PROVE  GoesOn(P, AfterSync(P), d, m, fresh)
<1> DEFINE f == P.file
           rest == Tail(P.todo)
<1>1. /\ f \in Files /\ P.todo \in Seq(Service) /\ P.todo # <<>> /\ rest \in Seq(Service)
      /\ Range(P.todo) = {Head(P.todo)} \cup Range(rest)
      /\ Head(P.todo) \in Listed(f)
      /\ rest # <<>> => Range(rest) = {Head(rest)} \cup Range(Tail(rest))
  <2>1. f \in Files /\ P.todo \in Seq(Service) /\ P.todo # <<>> /\ rest \in Seq(Service)
    BY DEF Body, Command
  <2>2. Head(P.todo) \in Listed(f)
    BY <2>1
  <2>3. Range(P.todo) = {Head(P.todo)} \cup Range(rest)
    BY <2>1, RangeHeadTail
  <2> HIDE DEF rest
  <2>4. rest # <<>> => Range(rest) = {Head(rest)} \cup Range(Tail(rest))
    BY <2>1, RangeHeadTail
  <2> QED
    BY <2>1, <2>2, <2>3, <2>4
<1>2. \A v \in DesiredUnits(f) : v # Target =>
        /\ v \in {MainUnit(v.of), ProbeUnit(v.of), TimerUnit(v.of)}
        /\ v.kind \in {"main", "probe", "timer"} /\ v.of \in Listed(f)
        /\ v.kind # "main" => HasHealth(f, v.of)
  <2> SUFFICES ASSUME NEW v \in DesiredUnits(f), v # Target
               PROVE  /\ v \in {MainUnit(v.of), ProbeUnit(v.of), TimerUnit(v.of)}
                      /\ v.kind \in {"main", "probe", "timer"} /\ v.of \in Listed(f)
                      /\ v.kind # "main" => HasHealth(f, v.of)
    OBVIOUS
  <2>1. v \in ServiceUnits /\ v.of \in Listed(f) /\ (v.kind # "main" => HasHealth(f, v.of))
    BY <1>1, GeneratedContent DEF Unit
  <2> QED
    BY <2>1 DEF ServiceUnits, MainUnit, ProbeUnit, TimerUnit
<1>3. \A s : /\ MainUnit(s).of = s /\ ProbeUnit(s).of = s /\ TimerUnit(s).of = s
             /\ MainUnit(s).kind = "main" /\ ProbeUnit(s).kind = "probe" /\ TimerUnit(s).kind = "timer"
  BY DEF MainUnit, ProbeUnit, TimerUnit
\* The loop goes on with u.
<1>4. ASSUME NEW u, u # Target, NEW todo, u.kind # "main" => d[MainUnit(u.of)] # NoFile,
             \A v \in ToCompare(P) \ {P.at} : v # Target
                /\ (v.of \in Range(Tail(todo)) \/ (v.of = u.of /\ v.kind \in KindsFrom(u.kind)))
      PROVE  GoesOn(P, [P EXCEPT !.todo = todo, !.at = u], d, m, fresh)
  <2> DEFINE Q == [P EXCEPT !.todo = todo, !.at = u]
  <2>1. SameCommand(P, Q) /\ Q.pc = "sync" /\ Q.at = u /\ Q.todo = todo
    BY DEF SameCommand, Body, Command
  <2> HIDE DEF Q
  <2>2. ToCompare(P) \ {P.at} \subseteq ToCompare(Q)
    BY <1>4, <2>1 DEF ToCompare, SameCommand
  <2>3. Agrees(d, f, DesiredUnits(f) \ ToCompare(Q))
    BY <2>2 DEF Agrees
  <2>4. Comparing(Q, d, m, fresh)
    BY <1>4, <2>1, <2>3 DEF Comparing, SameCommand, RestartsNoted
  <2>5. GoesOn(P, Q, d, m, fresh)
    BY <2>1, <2>4 DEF GoesOn, PointOk, SameCommand, Route
  <2> QED
    BY <2>5 DEF Q
<1>5. ASSUME NEW u, u # Target, u.kind # "main" => d[MainUnit(u.of)] # NoFile,
             \A v \in ToCompare(P) \ {P.at} : v # Target
                /\ (v.of \in Range(rest) \/ (v.of = u.of /\ v.kind \in KindsFrom(u.kind)))
      PROVE  GoesOn(P, [P EXCEPT !.at = u], d, m, fresh)
  <2>1. [P EXCEPT !.at = u] = [P EXCEPT !.todo = P.todo, !.at = u]
    BY DEF Body, Command
  <2> QED
    BY <1>4, <1>5, <2>1
<1>6. CASE P.at = Target
  <2> DEFINE u == MainUnit(Head(P.todo))
  <2>1. AfterSync(P) = [P EXCEPT !.at = u]
    BY <1>6 DEF AfterSync
  <2>2. u # Target /\ u.kind = "main" /\ u.of = Head(P.todo)
    BY <1>1, <1>3, DesiredOf, TargetAssumption
  <2>3. Listed(f) = Range(P.todo)
    BY <1>6 DEF Listed
  <2>4. \A v \in ToCompare(P) \ {P.at} : v # Target
          /\ (v.of \in Range(rest) \/ (v.of = u.of /\ v.kind \in KindsFrom(u.kind)))
    BY <1>1, <1>2, <1>6, <2>2, <2>3 DEF ToCompare, KindsFrom
  <2> HIDE DEF u
  <2> QED
    BY <1>5, <2>1, <2>2, <2>4
<1>7. CASE P.at # Target /\ P.at.kind = "main" /\ HasHealth(f, P.at.of)
  <2> DEFINE u == ProbeUnit(P.at.of)
  <2>1. AfterSync(P) = [P EXCEPT !.at = u]
    BY <1>7 DEF AfterSync
  <2>2. u # Target /\ u.kind = "probe" /\ u.of = P.at.of
    BY <1>1, <1>2, <1>3, <1>7, OtherUnits
  <2>3. \A v \in ToCompare(P) \ {P.at} : v # Target
          /\ (v.of \in Range(rest) \/ (v.of = u.of /\ v.kind \in KindsFrom(u.kind)))
    BY <1>2, <1>3, <1>7, <2>2 DEF ToCompare, KindsFrom
  <2> HIDE DEF u
  <2> QED
    BY <1>5, <1>7, <2>1, <2>2, <2>3
<1>8. CASE P.at # Target /\ P.at.kind = "probe"
  <2> DEFINE u == TimerUnit(P.at.of)
  <2>1. AfterSync(P) = [P EXCEPT !.at = u]
    BY <1>8 DEF AfterSync
  <2>2. u # Target /\ u.kind = "timer" /\ u.of = P.at.of
    BY <1>1, <1>2, <1>3, <1>8, OtherUnits
  <2>3. \A v \in ToCompare(P) \ {P.at} : v # Target
          /\ (v.of \in Range(rest) \/ (v.of = u.of /\ v.kind \in KindsFrom(u.kind)))
    BY <1>2, <1>3, <1>8, <2>2 DEF ToCompare, KindsFrom
  <2> HIDE DEF u
  <2> QED
    BY <1>5, <1>8, <2>1, <2>2, <2>3
<1>9. CASE /\ P.at # Target /\ P.at.kind # "probe"
           /\ ~(P.at.kind = "main" /\ HasHealth(f, P.at.of))
  <2>1. AfterSync(P) = NextSynced(P)
    BY <1>9 DEF AfterSync
  <2>2. \A v \in ToCompare(P) \ {P.at} : v # Target /\ v.of \in Range(rest)
    BY <1>2, <1>3, <1>9 DEF ToCompare, KindsFrom
  <2>3. CASE rest = <<>>
    <3>1. Range(rest) = {}
      BY <2>3 DEF Range
    <3>2. Agrees(d, f, DesiredUnits(f))
      BY <2>2, <3>1 DEF Agrees
    <3>3. Settled(P, d, m, fresh)
      BY <3>2 DEF Settled, NamedStopped
    <3> QED
      BY <2>1, <2>3, <3>3, SyncedGoes DEF NextSynced
  <2>4. CASE rest # <<>>
    <3> DEFINE u == MainUnit(Head(rest))
    <3>1. AfterSync(P) = [P EXCEPT !.todo = rest, !.at = u]
      BY <2>1, <2>4 DEF NextSynced
    <3>2. Head(rest) \in Service
      BY <1>1, <2>4
    <3>3. u # Target /\ u.kind = "main" /\ u.of = Head(rest)
      BY <1>3, <3>2, OtherUnits
    <3>4. \A v \in ToCompare(P) \ {P.at} : v # Target
            /\ (v.of \in Range(Tail(rest)) \/ (v.of = u.of /\ v.kind \in KindsFrom(u.kind)))
      <4>1. ToCompare(P) \subseteq DesiredUnits(f)
        BY DEF ToCompare
      <4> QED
        BY <1>1, <1>2, <2>2, <2>4, <3>3, <4>1 DEF KindsFrom
    <3> HIDE DEF u, rest
    <3>5. GoesOn(P, [P EXCEPT !.todo = rest, !.at = u], d, m, fresh)
      BY <1>4, <3>3, <3>4
    <3> QED
      BY <3>1, <3>5
  <2> QED
    BY <2>3, <2>4
<1> QED
  BY <1>6, <1>7, <1>8, <1>9

\* The comparison of the files ends neither an `install` nor an `up`.
LEMMA AfterSyncRuns ==
    ASSUME NEW P, Body(P), P.pc = "sync", P.cmd \in {"install", "up"}
    PROVE  AfterSync(P).pc # "idle"
<1>1. P \in Command
  BY DEF Body
<1>2. \A pc \in Points : [P EXCEPT !.pc = pc].pc = pc
  BY <1>1 DEF Command
<1>3. RestartNext(P).pc # "idle"
  BY <1>2 DEF RestartNext, Points
<1>4. AfterReload(P).pc # "idle"
  BY <1>2, <1>3 DEF AfterReload, Points
<1>5. AfterFiles(P).pc # "idle"
  BY <1>2, <1>4 DEF AfterFiles, Points
<1>6. Synced(P).pc # "idle"
  BY <1>2, <1>5 DEF Synced, Points
<1>7. \A u, todo : [P EXCEPT !.at = u].pc = "sync" /\ [P EXCEPT !.todo = todo, !.at = u].pc = "sync"
  BY <1>1 DEF Command
<1>8. NextSynced(P).pc # "idle"
  BY <1>6, <1>7 DEF NextSynced
<1> QED
  BY <1>7, <1>8 DEF AfterSync

-----------------------------------------------------------------------------
\* The actions.

\* What the invariants say of a command that runs.
LEMMA RunningPoint ==
    ASSUME Inv, ServiceInv, cmd.pc # "idle"
    PROVE  /\ Body(cmd) /\ cmd.cmd \in Commands /\ cmd.pc \in Route(cmd.cmd)
           /\ cmd.file \in Files /\ cmd.names \in Seq(Service) /\ cmd.failed \in BOOLEAN
           /\ cmd.pc \notin {"sync", "stop"} => Settled(cmd, disk, mgr, Fresh)
           /\ Fresh \in BOOLEAN
           /\ DiskOk(disk) /\ ManagerOk(mgr) /\ Companions(disk) /\ MonitoredRun(mgr)
<1>1. /\ Body(cmd) /\ cmd.cmd \in Commands /\ cmd.file \in Files /\ cmd.names \in Seq(Service)
      /\ cmd.failed \in BOOLEAN
  BY RunningCommand DEF Body, Command
<1>2. Fresh \in BOOLEAN
  BY DEF Inv, Fresh
<1> QED
  BY <1>1, <1>2 DEF Inv, ServiceInv, PointOk

\* Where services only stop, and where the history forgets, the point holds on.
LEMMA PointWeakens ==
    ASSUME NEW P, NEW d, NEW m, NEW n, Shrinks(m, n),
           NEW fresh \in BOOLEAN, NEW less \in BOOLEAN, less => fresh
    PROVE  /\ Settled(P, d, m, fresh) => Settled(P, d, n, less)
           /\ PointOk(P, d, m, fresh) => PointOk(P, d, n, less)
<1>1. RestartsNoted(P, d, m) => RestartsNoted(P, d, n)
  BY DEF RestartsNoted, Shrinks
<1>2. NamedStopped(P, m) => NamedStopped(P, n)
  BY DEF NamedStopped, Shrinks
<1>3. Settled(P, d, m, fresh) => Settled(P, d, n, less)
  BY <1>1, <1>2 DEF Settled
<1>4. Comparing(P, d, m, fresh) => Comparing(P, d, n, less)
  BY <1>1 DEF Comparing
<1>5. Stopping(P, d, m) => Stopping(P, d, n)
  BY DEF Stopping, Shrinks
<1>6. Unlinking(P, d, m) => Unlinking(P, d, n)
  BY DEF Unlinking, Shrinks
<1> QED
  BY <1>3, <1>4, <1>5, <1>6 DEF PointOk

\* What is left to show of a step of a command.
LEMMA GoesService ==
    ASSUME Inv, ServiceInv, cmd.pc # "idle", NEW Q, Q.cmd = cmd.cmd, Q.file = cmd.file,
           NEW P, Goes(P), GoesOn(Q, P, disk', mgr', Fresh), file' = file,
           Companions(disk'), MonitoredRun(mgr'),
           seen.synced => Agrees(disk', file, DesiredUnits(file)),
           P.pc = "idle" /\ cmd.cmd \in {"install", "up"}
               => Agrees(disk', cmd.file, DesiredUnits(cmd.file))
    PROVE  ServiceInv'
<1>1. /\ cmd' = P /\ (P.pc # "idle" => seen' = seen)
      /\ P.pc = "idle" => seen' = [Forget(seen) EXCEPT !.synced = seen.synced \/ Syncs(P)]
  BY DEF Goes
<1>2. seen \in [held : BOOLEAN, fresh : BOOLEAN, synced : BOOLEAN, interrupted : BOOLEAN]
  BY DEF Inv
<1>3. Fresh' \in BOOLEAN /\ Fresh \in BOOLEAN /\ (Fresh' => Fresh)
  BY <1>1, <1>2 DEF Fresh, Forget
<1>4. PointOk(cmd', disk', mgr', Fresh')
  <2>1. PointOk(P, disk', mgr', Fresh)
    BY DEF GoesOn
  <2>2. Shrinks(mgr', mgr')
    BY DEF Shrinks
  <2> QED
    BY <1>1, <1>3, <2>1, <2>2, PointWeakens
<1>5. SyncedOk'
  <2>1. CASE P.pc # "idle"
    BY <1>1, <2>1 DEF ServiceInv, SyncedOk, GoesOn
  <2>2. CASE P.pc = "idle"
    <3>1. seen'.synced => seen.synced \/ (cmd.cmd \in {"install", "up"} /\ cmd.file = file)
      BY <1>1, <1>2, <2>2 DEF Forget, Syncs
    <3> QED
      BY <1>1, <2>2, <3>1 DEF SyncedOk
  <2> QED
    BY <2>1, <2>2
<1> QED
  BY <1>4, <1>5 DEF ServiceInv

\* The same for a step that writes no file, once the files are compared.
LEMMA KeepsFiles ==
    ASSUME Inv, ServiceInv, cmd.pc \notin {"idle", "sync"}, NEW Q, Q.cmd = cmd.cmd, Q.file = cmd.file,
           NEW P, Goes(P), GoesOn(Q, P, disk, mgr', Fresh), UNCHANGED <<file, disk>>,
           MonitoredRun(mgr')
    PROVE  ServiceInv'
<1>1. disk' = disk /\ file' = file /\ Companions(disk')
  BY DEF ServiceInv
<1>2. seen.synced => Agrees(disk', file, DesiredUnits(file))
  BY <1>1 DEF ServiceInv, SyncedOk
<1>3. cmd.cmd \in {"install", "up"} => Agrees(disk', cmd.file, DesiredUnits(cmd.file))
  <2>1. cmd.pc = "stop" => cmd.cmd \notin {"install", "up"}
    BY RunningPoint, CommandsAt
  <2> QED
    BY <1>1, <2>1, RunningPoint DEF Settled
<1>4. GoesOn(Q, P, disk', mgr', Fresh)
  BY <1>1
<1> QED
  BY <1>1, <1>2, <1>3, <1>4, GoesService

\* A file is compared, and written if it differs.
LEMMA SyncFileService ==
    ASSUME Inv, ServiceInv, SyncFile
    PROVE  ServiceInv'
<1> DEFINE old == disk[cmd.at]
           new == Generated(cmd.file, cmd.at)
           updated == IF RestartsService(cmd, old) THEN Append(cmd.updated, cmd.at.of) ELSE cmd.updated
           changed == cmd.changed \/ old # new
           P == [cmd EXCEPT !.changed = changed, !.updated = updated]
<1>1. /\ cmd.pc = "sync" /\ disk' = [disk EXCEPT ![cmd.at] = new] /\ Goes(AfterSync(P))
      /\ UNCHANGED <<file, mgr, budget>>
  BY DEF SyncFile
<1>2. /\ cmd.at \in DesiredUnits(cmd.file) /\ (cmd.at = Target \/ cmd.at.of = Head(cmd.todo))
      /\ \A i \in DOMAIN cmd.todo : cmd.todo[i] \in Listed(cmd.file)
  BY <1>1, RunningCommand DEF WellFormed
<1>3. /\ cmd.cmd \in {"install", "up"} /\ Comparing(cmd, disk, mgr, Fresh)
      /\ Body(cmd) /\ cmd.file \in Files /\ cmd.updated \in Seq(Service) /\ Fresh \in BOOLEAN
  BY <1>1, RunningPoint, RunningCommand, CommandsAt DEF ServiceInv, PointOk
<1>4. cmd.at \in Unit /\ new # NoFile
  BY <1>2, <1>3, GeneratedContent
<1>5. cmd.at # Target => cmd.at.of \in Service /\ cmd.at.of \in Listed(cmd.file)
                         /\ (cmd.at.kind = "main" => cmd.at = MainUnit(cmd.at.of))
  <2>1. cmd.at # Target => cmd.at \in ServiceUnits /\ cmd.at.of \in Listed(cmd.file)
    BY <1>2, <1>3, <1>4, GeneratedContent DEF Unit
  <2> QED
    BY <2>1 DEF ServiceUnits, MainUnit
<1>6. \A u \in Unit : disk'[u] = IF u = cmd.at THEN new ELSE disk[u]
  BY <1>1 DEF Inv, DiskOk
<1>7. updated \in Seq(Service) /\ Range(cmd.updated) \subseteq Range(updated)
      /\ (RestartsService(cmd, old) => cmd.at.of \in Range(updated))
  BY <1>3, <1>5, RangeAppend DEF RestartsService
<1>8. changed \in BOOLEAN
  OBVIOUS
<1> DEFINE d == disk'
<1>9. \A u \in Unit : disk[u] # NoFile => d[u] # NoFile
  BY <1>4, <1>6
<1>10. cmd.at # Target => d[MainUnit(cmd.at.of)] # NoFile
  <2>1. CASE cmd.at # Target /\ cmd.at.kind = "main"
    BY <1>4, <1>5, <1>6, <2>1
  <2>2. CASE cmd.at # Target /\ cmd.at.kind # "main"
    BY <1>3, <1>5, <1>9, <2>2, OtherUnits DEF Comparing
  <2> QED
    BY <2>1, <2>2
<1>11. Companions(d)
  <2> SUFFICES ASSUME NEW s \in Service, d[MainUnit(s)] = NoFile
               PROVE  d[ProbeUnit(s)] = NoFile /\ d[TimerUnit(s)] = NoFile
    BY DEF Companions
  <2>1. disk[MainUnit(s)] = NoFile /\ disk[ProbeUnit(s)] = NoFile /\ disk[TimerUnit(s)] = NoFile
    BY <1>9, OtherUnits DEF ServiceInv, Companions
  <2>2. cmd.at # ProbeUnit(s) /\ cmd.at # TimerUnit(s)
    <3>1. ProbeUnit(s).of = s /\ TimerUnit(s).of = s
      BY DEF ProbeUnit, TimerUnit
    <3> QED
      BY <1>10, <3>1, OtherUnits
  <2> QED
    BY <1>6, <2>1, <2>2, OtherUnits
<1>12. \A U \in SUBSET DesiredUnits(cmd.file) :
          Agrees(disk, cmd.file, U) => Agrees(d, cmd.file, U \cup {cmd.at})
  BY <1>2, <1>3, <1>6, GeneratedContent DEF Agrees
<1>13. cmd.cmd = "up" /\ cmd.names = <<>> /\ RestartsNoted(cmd, disk, mgr)
         => \A s \in Running(mgr) \cap Listed(cmd.file) :
               mgr.live[s] = d[MainUnit(s)] \/ s \in Range(updated)
  <2> SUFFICES ASSUME cmd.names = <<>>, RestartsNoted(cmd, disk, mgr),
                      NEW s \in Running(mgr) \cap Listed(cmd.file), mgr.live[s] # d[MainUnit(s)]
               PROVE  s \in Range(updated)
    OBVIOUS
  <2>1. mgr.live[s] \in Hashes
    BY DEF Running, Inv, ManagerOk, Installed
  <2>2. mgr.live[s] # NoFile
    BY <2>1, NoFileAssumption DEF Content
  <2>3. s \in Service /\ MainUnit(s) \in Unit /\ MainUnit(s) # Target
    BY OtherUnits DEF Running
  <2>4. CASE MainUnit(s) = cmd.at
    <3>1. MainUnit(s).kind = "main" /\ MainUnit(s).of = s
      BY DEF MainUnit
    <3>2. CASE s \in Range(cmd.updated)
      BY <1>7, <3>2
    <3>3. CASE mgr.live[s] = old
      BY <1>6, <1>7, <2>2, <2>3, <2>4, <3>1, <3>3 DEF RestartsService
    <3> QED
      BY <2>4, <3>2, <3>3 DEF RestartsNoted
  <2>5. CASE MainUnit(s) # cmd.at
    BY <1>6, <1>7, <2>3, <2>5 DEF RestartsNoted
  <2> QED
    BY <2>4, <2>5
<1> HIDE DEF updated, changed, d
<1>14. /\ Body(P) /\ P.pc = "sync" /\ P.at = cmd.at /\ P.file = cmd.file /\ P.todo = cmd.todo
       /\ P.cmd = cmd.cmd /\ P.names = cmd.names /\ P.failed = cmd.failed /\ P.updated = updated
  BY <1>1, <1>3, <1>7, <1>8 DEF Body, Command
<1> HIDE DEF P
<1>15. ToCompare(P) = ToCompare(cmd)
  BY <1>14 DEF ToCompare
<1>16. Agrees(d, P.file, (DesiredUnits(P.file) \ ToCompare(P)) \cup {P.at})
  BY <1>3, <1>12, <1>14, <1>15 DEF Comparing
<1>17. Fresh /\ ~P.failed /\ P.cmd = "up" /\ P.names = <<>> => RestartsNoted(P, d, mgr)
  BY <1>3, <1>13, <1>14 DEF Comparing, RestartsNoted
<1>18. GoesOn(P, AfterSync(P), d, mgr, Fresh)
  BY <1>2, <1>3, <1>10, <1>14, <1>16, <1>17, AfterSyncGoes DEF Comparing
<1>19. ~seen.synced
  BY <1>1, <1>3 DEF ServiceInv, SyncedOk
<1>20. AfterSync(P).pc # "idle"
  BY <1>3, <1>14, AfterSyncRuns
<1>21. mgr' = mgr /\ file' = file /\ MonitoredRun(mgr')
  BY <1>1 DEF ServiceInv
<1>22. GoesOn(P, AfterSync(P), disk', mgr', Fresh) /\ Companions(disk')
  BY <1>11, <1>18, <1>21 DEF d
<1> QED
  BY <1>1, <1>14, <1>19, <1>20, <1>21, <1>22, GoesService

\* The comparison of a file ends no command.
LEMMA SyncFileRuns ==
    ASSUME Inv, ServiceInv, SyncFile
    PROVE  cmd'.pc # "idle"
<1> DEFINE old == disk[cmd.at]
           updated == IF RestartsService(cmd, old) THEN Append(cmd.updated, cmd.at.of) ELSE cmd.updated
           changed == cmd.changed \/ old # Generated(cmd.file, cmd.at)
           P == [cmd EXCEPT !.changed = changed, !.updated = updated]
<1>1. cmd.pc = "sync" /\ cmd' = AfterSync(P)
  BY DEF SyncFile, Goes
<1>2. /\ cmd.cmd \in {"install", "up"} /\ Body(cmd) /\ cmd.updated \in Seq(Service)
      /\ cmd.file \in Files /\ cmd.at \in DesiredUnits(cmd.file)
  BY <1>1, RunningPoint, RunningCommand, CommandsAt DEF WellFormed
<1>3. cmd.at # Target => cmd.at.of \in Service
  BY <1>2, GeneratedContent, ListedServices
<1>4. updated \in Seq(Service) /\ changed \in BOOLEAN
  BY <1>2, <1>3, RangeAppend DEF RestartsService
<1> HIDE DEF updated, changed
<1>5. Body(P) /\ P.pc = "sync" /\ P.cmd = cmd.cmd
  BY <1>1, <1>2, <1>4 DEF Body, Command
<1> HIDE DEF P
<1> QED
  BY <1>1, <1>2, <1>5, AfterSyncRuns

\* The orphans are listed.
LEMMA ListOrphansService ==
    ASSUME Inv, ServiceInv, ListOrphans
    PROVE  ServiceInv'
<1>1. /\ cmd.pc = "orphans" /\ Goes(AfterList(cmd, Orphans(cmd.file)))
      /\ mgr' = mgr /\ UNCHANGED <<file, disk>>
  BY DEF ListOrphans
<1>2. Orphans(cmd.file) = OrphansOn(disk, cmd.file)
  BY DEF Orphans, OrphansOn
<1>3. GoesOn(cmd, AfterList(cmd, Orphans(cmd.file)), disk, mgr', Fresh)
  BY <1>1, <1>2, RunningPoint, CommandsAt, AfterListGoes
<1> QED
  BY <1>1, <1>3, RunningPoint, KeepsFiles

\* What a failed call leaves: less is promised.
LEMMA NoteSettled ==
    ASSUME NEW P, Body(P), NEW failure \in BOOLEAN, NEW d, NEW m, NEW fresh \in BOOLEAN
    PROVE  /\ Body(Note(P, failure)) /\ Note(P, failure).pc = P.pc /\ Note(P, failure).cmd = P.cmd
           /\ Note(P, failure).file = P.file /\ Note(P, failure).left = P.left
           /\ Note(P, failure).names = P.names /\ Note(P, failure).updated = P.updated
           /\ Note(P, failure).failed = (P.failed \/ failure)
           /\ Settled(P, d, m, fresh) => Settled(Note(P, failure), d, m, fresh)
<1>1. /\ Body(Note(P, failure)) /\ Note(P, failure).pc = P.pc /\ Note(P, failure).cmd = P.cmd
      /\ Note(P, failure).file = P.file /\ Note(P, failure).left = P.left
      /\ Note(P, failure).names = P.names /\ Note(P, failure).updated = P.updated
      /\ Note(P, failure).failed = (P.failed \/ failure)
  BY DEF Note, Body, Command
<1> QED
  BY <1>1 DEF Settled, NamedStopped, RestartsNoted

\* An orphan that is stopped does not run on, and nothing is started.
LEMMA OrphanStops ==
    ASSUME Inv, ServiceInv, StopOrphan
    PROVE  /\ Shrinks(mgr, mgr') /\ MonitoredRun(mgr')
           /\ FirstUnit(cmd.left).kind = "main" => FirstUnit(cmd.left).of \notin Running(mgr')
<1> DEFINE u == FirstUnit(cmd.left)
<1>1. cmd.pc = "stopOrphan" /\ mgr' = StopUnit(mgr, u)
  BY DEF StopOrphan
<1>2. ManagerOk(mgr) /\ MonitoredRun(mgr)
  BY <1>1, RunningPoint
<1>3. u \in ServiceUnits
  BY <1>1, OrphanToStop
<1> HIDE DEF u
<1>4. u.of \in Service
  BY <1>3 DEF ServiceUnits
<1>5. CASE u.kind = "main"
  <2>1. mgr' = StopServices(mgr, {u.of})
    BY <1>1, <1>5 DEF StopUnit
  <2> QED
    BY <1>2, <1>4, <2>1, StopServicesStops DEF u
<1>6. CASE u.kind = "timer"
  <2>1. mgr' = StopTimers(mgr, {u.of})
    BY <1>1, <1>6 DEF StopUnit
  <2> QED
    BY <1>2, <1>6, <2>1, StopTimersStops DEF u
<1>7. CASE u.kind \notin {"main", "timer"}
  <2>1. mgr' = mgr
    BY <1>1, <1>7 DEF StopUnit
  <2> QED
    BY <1>2, <1>7, <2>1 DEF Shrinks, u
<1> QED
  BY <1>5, <1>6, <1>7 DEF u

\* An orphan is stopped.
LEMMA StopOrphanService ==
    ASSUME Inv, ServiceInv, StopOrphan
    PROVE  ServiceInv'
<1> DEFINE u == FirstUnit(cmd.left)
<1>1. /\ cmd.pc = "stopOrphan" /\ mgr' = StopUnit(mgr, u) /\ Goes(AfterOrphan(cmd, u))
      /\ UNCHANGED <<file, disk>>
  BY DEF StopOrphan
<1>2. /\ Body(cmd) /\ cmd.cmd \in {"up", "down"} /\ Settled(cmd, disk, mgr, Fresh) /\ Fresh \in BOOLEAN
      /\ Stopping(cmd, disk, mgr) /\ DiskOk(disk) /\ ManagerOk(mgr) /\ Companions(disk) /\ MonitoredRun(mgr)
  BY <1>1, RunningPoint, CommandsAt DEF ServiceInv, PointOk
<1> HIDE DEF u
<1>3. /\ Shrinks(mgr, mgr') /\ MonitoredRun(mgr')
      /\ u.kind = "main" => u.of \notin Running(mgr')
  BY OrphanStops DEF u
<1>4. Settled(cmd, disk, mgr', Fresh)
  BY <1>2, <1>3, PointWeakens
<1>5. ~cmd.failed => \A v \in OrphansOn(disk, cmd.file) \ (cmd.left \ {u}) :
                        v.kind = "main" => v.of \notin Running(mgr')
  BY <1>2, <1>3 DEF Stopping, Shrinks
<1>6. GoesOn(cmd, AfterOrphan(cmd, u), disk, mgr', Fresh)
  BY <1>1, <1>2, <1>4, <1>5, AfterOrphanGoes DEF Stopping
<1> QED
  BY <1>1, <1>3, <1>6, KeepsFiles

\* A file is unlinked.
LEMMA UnlinkService ==
    ASSUME Inv, ServiceInv, Unlink
    PROVE  ServiceInv'
<1> DEFINE u == FirstUnit(cmd.left)
<1>1. /\ cmd.pc = "unlink" /\ disk' = Without(disk, u) /\ Goes(AfterUnlink(cmd, u))
      /\ mgr' = mgr /\ file' = file
  BY DEF Unlink, Without
<1>2. /\ Body(cmd) /\ cmd.left # {} /\ DiskOk(disk) /\ Companions(disk) /\ MonitoredRun(mgr)
      /\ PointOk(cmd, disk, mgr, Fresh) /\ Fresh \in BOOLEAN /\ Settled(cmd, disk, mgr, Fresh)
      /\ cmd.file \in Files /\ file \in Files
  BY <1>1, RunningPoint, RunningCommand DEF ServiceInv, WellFormed, Inv
<1>3. /\ GoesOn(cmd, AfterUnlink(cmd, u), disk', mgr', Fresh)
      /\ Companions(disk')
      /\ cmd.cmd # "uninstall" => u \notin DesiredUnits(cmd.file)
  BY <1>1, <1>2, AfterUnlinkGoes
<1> HIDE DEF u
<1>4. \A v \in Unit : v # u => disk'[v] = disk[v]
  BY <1>1 DEF Inv, DiskOk, Without
<1>5. seen.synced => Agrees(disk', file, DesiredUnits(file))
  BY <1>1, <1>2, <1>3, <1>4, GeneratedContent DEF ServiceInv, SyncedOk, Agrees
<1>6. cmd.cmd \in {"install", "up"} => Agrees(disk', cmd.file, DesiredUnits(cmd.file))
  BY <1>2, <1>3, <1>4, GeneratedContent DEF Settled, Agrees
<1> QED
  BY <1>1, <1>2, <1>3, <1>5, <1>6, GoesService

\* A reload changes nothing that runs.
LEMMA ReloadKeeps ==
    ASSUME Inv, ServiceInv, mgr'.live = mgr.live, mgr'.timers = mgr.timers
    PROVE  Shrinks(mgr, mgr') /\ MonitoredRun(mgr')
  BY DEF ServiceInv, Shrinks, MonitoredRun, Running

\* The manager reads what the files say.
LEMMA DaemonReloadService ==
    ASSUME Inv, ServiceInv, DaemonReload
    PROVE  ServiceInv'
<1>1. /\ cmd.pc = "reload" /\ mgr' = Reload(mgr, disk) /\ cmd' = AfterReload(cmd)
      /\ seen' = [IF cmd'.pc = "idle" THEN Forget(seen) ELSE seen EXCEPT !.interrupted = FALSE]
      /\ file' = file /\ disk' = disk
  BY DEF DaemonReload
<1>2. Shrinks(mgr, mgr') /\ MonitoredRun(mgr')
  <2>1. mgr \in Installed
    BY DEF Inv, ManagerOk
  <2>2. mgr'.live = mgr.live /\ mgr'.timers = mgr.timers
    BY <1>1, <2>1 DEF Reload, Installed
  <2> QED
    BY <2>2, ReloadKeeps
<1>3. Body(cmd) /\ Settled(cmd, disk, mgr, Fresh) /\ Fresh \in BOOLEAN /\ Companions(disk)
  BY <1>1, RunningPoint
<1>4. GoesOn(cmd, cmd', disk, mgr', Fresh)
  <2>1. Settled(cmd, disk, mgr', Fresh)
    BY <1>2, <1>3, PointWeakens
  <2> QED
    BY <1>1, <1>3, <2>1, AfterReloadGoes
<1>5. /\ seen'.synced = seen.synced /\ Fresh' \in BOOLEAN /\ (Fresh' => Fresh)
  <2>1. seen \in [held : BOOLEAN, fresh : BOOLEAN, synced : BOOLEAN, interrupted : BOOLEAN]
    BY DEF Inv
  <2>2. \/ seen' = [seen EXCEPT !.interrupted = FALSE]
        \/ seen' = [Forget(seen) EXCEPT !.interrupted = FALSE]
    BY <1>1
  <2> QED
    BY <2>1, <2>2 DEF Forget, Fresh
<1>6. PointOk(cmd', disk', mgr', Fresh')
  <2>1. PointOk(cmd', disk, mgr', Fresh) /\ Shrinks(mgr', mgr')
    BY <1>4 DEF GoesOn, Shrinks
  <2> QED
    BY <1>1, <1>3, <1>5, <2>1, PointWeakens
<1>7. SyncedOk'
  BY <1>1, <1>4, <1>5 DEF ServiceInv, SyncedOk, GoesOn
<1> QED
  BY <1>1, <1>2, <1>3, <1>6, <1>7 DEF ServiceInv

\* Enabling reloads, and the install goes on or ends.
LEMMA EnableService ==
    ASSUME Inv, ServiceInv, Enable
    PROVE  ServiceInv'
<1> DEFINE Q == [cmd EXCEPT !.pc = "start"]
           P == IF cmd.now THEN Q ELSE Finish(cmd)
<1>1. /\ cmd.pc = "enable" /\ mgr' = [Reload(mgr, disk) EXCEPT !.enabled = TRUE] /\ Goes(P)
      /\ UNCHANGED <<file, disk>>
  BY DEF Enable
<1>2. Shrinks(mgr, mgr') /\ MonitoredRun(mgr')
  <2>1. mgr \in Installed
    BY DEF Inv, ManagerOk
  <2>2. mgr'.live = mgr.live /\ mgr'.timers = mgr.timers
    BY <1>1, <2>1 DEF Reload, Installed
  <2> QED
    BY <2>2, ReloadKeeps
<1>3. Settled(cmd, disk, mgr', Fresh)
  BY <1>1, <1>2, RunningPoint, PointWeakens
<1>4. SameCommand(cmd, Q) /\ Q.pc = "start"
  BY <1>1, RunningPoint DEF SameCommand, Body, Command
<1> HIDE DEF Q
<1>5. GoesOn(cmd, Q, disk, mgr', Fresh)
  <2>1. cmd.cmd = "install"
    BY <1>1, RunningPoint, CommandsAt
  <2> QED
    BY <1>1, <1>3, <1>4, <2>1, RunningPoint, PointReached DEF Route
<1>6. GoesOn(cmd, P, disk, mgr', Fresh)
  BY <1>5, IdleGoes DEF Finish
<1> HIDE DEF P
<1> QED
  BY <1>1, <1>2, <1>6, KeepsFiles

\* The target is disabled, and every file goes.
LEMMA StartRemovalService ==
    ASSUME Inv, ServiceInv, cmd.pc = "disable", NEW failure \in BOOLEAN,
           Goes(StartUnlink(Note(cmd, failure), ProjectUnits)), UNCHANGED <<file, disk>>,
           Shrinks(mgr, mgr'), MonitoredRun(mgr')
    PROVE  ServiceInv'
<1> DEFINE Q == Note(cmd, failure)
<1>1. Body(cmd) /\ Fresh \in BOOLEAN /\ cmd.cmd = "uninstall" /\ Settled(cmd, disk, mgr', Fresh)
  BY RunningPoint, CommandsAt, PointWeakens
<1>2. Body(Q) /\ Q.cmd = cmd.cmd /\ Q.file = cmd.file /\ Settled(Q, disk, mgr', Fresh)
  BY <1>1, NoteSettled
<1>3. ProjectUnits = OnDisk(disk)
  BY DEF ProjectUnits
<1> HIDE DEF Q
<1>4. GoesOn(Q, StartUnlink(Q, ProjectUnits), disk, mgr', Fresh)
  BY <1>1, <1>2, <1>3, StartUnlinkGoes
<1>5. Goes(StartUnlink(Q, ProjectUnits))
  BY DEF Q
<1> QED
  BY <1>2, <1>4, <1>5, KeepsFiles

\* Disabling reloads too.
LEMMA DisableService ==
    ASSUME Inv, ServiceInv, Disable
    PROVE  ServiceInv'
<1> DEFINE none == disk[Target] = NoFile
<1>1. /\ cmd.pc = "disable" /\ Goes(StartUnlink(Note(cmd, none), ProjectUnits))
      /\ mgr' = IF none THEN mgr ELSE [Reload(mgr, disk) EXCEPT !.enabled = FALSE]
      /\ UNCHANGED <<file, disk>>
  BY DEF Disable
<1>2. mgr \in Installed
  BY DEF Inv, ManagerOk
<1>3. mgr'.live = mgr.live /\ mgr'.timers = mgr.timers
  BY <1>1, <1>2 DEF Reload, Installed
<1>4. none \in BOOLEAN
  OBVIOUS
<1> HIDE DEF none
<1> QED
  BY <1>1, <1>3, <1>4, ReloadKeeps, StartRemovalService

\* When the files are read on demand nothing that runs changes, and a manager that was
\* not behind them holds them all.
LEMMA ReadsHeld ==
    ASSUME Inv, ServiceInv
    PROVE  LET m == ReadFiles(mgr, disk)
           IN  /\ ManagerOk(m) /\ MonitoredRun(m) /\ m.live = mgr.live /\ m.timers = mgr.timers
               /\ Running(m) = Running(mgr)
               /\ Holds(mgr, disk) => \A u \in Unit : m.held[u] = disk[u]
<1> DEFINE m == ReadFiles(mgr, disk)
<1>1. mgr \in Installed
  BY DEF Inv, ManagerOk
<1>2. /\ m.live = mgr.live /\ m.timers = mgr.timers
      /\ \A u \in Unit : m.held[u] = IF mgr.held[u] = NoFile THEN disk[u] ELSE mgr.held[u]
  BY <1>1 DEF ReadFiles, Installed
<1>3. ManagerOk(m)
  BY ReadsOk DEF Inv
<1>4. Running(m) = Running(mgr) /\ MonitoredRun(m)
  BY <1>2 DEF Running, ServiceInv, MonitoredRun
<1>5. Holds(mgr, disk) => \A u \in Unit : m.held[u] = disk[u]
  BY <1>2 DEF Holds
<1> QED
  BY <1>2, <1>3, <1>4, <1>5

\* A command that began where the manager held what the files say stands there with a
\* manager that does, unless its reload is to come.
LEMMA FreshHolds ==
    ASSUME Inv, seen.held, cmd.pc \in {"restartUpdated", "start"}
    PROVE  Holds(mgr, disk)
  BY RunningCommand DEF Calm, Pending

\* A rewritten unit is restarted: it runs what its file says now, and so does what is
\* restarted with it.
LEMMA RestartUpdatedService ==
    ASSUME Inv, ServiceInv, RestartUpdated
    PROVE  ServiceInv'
<1> DEFINE m == ReadFiles(mgr, disk)
           s == Head(cmd.updated)
           failure == ~CanStart(m, s)
           Q == [Note(cmd, failure) EXCEPT !.updated = Tail(cmd.updated)]
<1>1. /\ cmd.pc = "restartUpdated" /\ mgr' = RestartServices(m, {s}) /\ Goes(RestartNext(Q))
      /\ UNCHANGED <<file, disk>>
  BY DEF RestartUpdated
<1>2. /\ Body(cmd) /\ cmd.cmd = "up" /\ Settled(cmd, disk, mgr, Fresh) /\ Fresh \in BOOLEAN
      /\ cmd.updated \in Seq(Service) /\ cmd.updated # <<>> /\ cmd.file \in Files /\ cmd.failed \in BOOLEAN
  BY <1>1, RunningPoint, RunningCommand, CommandsAt DEF WellFormed
<1>3. /\ s \in Service /\ Tail(cmd.updated) \in Seq(Service)
      /\ Range(cmd.updated) = {s} \cup Range(Tail(cmd.updated))
  BY <1>2, RangeHeadTail
<1>4. /\ ManagerOk(m) /\ MonitoredRun(m) /\ m.live = mgr.live /\ Running(m) = Running(mgr)
      /\ Fresh => \A u \in Unit : m.held[u] = disk[u]
  BY <1>1, ReadsHeld, FreshHolds DEF Fresh
<1>5. failure \in BOOLEAN /\ (~failure => CanStart(m, s))
  OBVIOUS
<1> HIDE DEF m, s, failure
<1>6. /\ Starts(m, mgr') /\ mgr'.timers = m.timers
      /\ CanStart(m, s) => mgr'.live[s] = m.held[MainUnit(s)]
  BY <1>1, <1>3, <1>4, RestartServicesStarts
<1>7. MonitoredRun(mgr')
  BY <1>4, <1>6 DEF MonitoredRun, Starts
<1>8. /\ Body(Q) /\ Q.cmd = cmd.cmd /\ Q.file = cmd.file /\ Q.names = cmd.names
      /\ Q.failed = (cmd.failed \/ failure) /\ Q.updated = Tail(cmd.updated)
  BY <1>2, <1>3, <1>5 DEF Note, Body, Command
<1> HIDE DEF Q
<1>9. Fresh /\ ~Q.failed /\ Q.names = <<>> => RestartsNoted(Q, disk, mgr')
  <2> SUFFICES ASSUME Fresh, ~Q.failed, Q.names = <<>>,
                      NEW t \in Running(mgr') \cap Listed(Q.file)
               PROVE  mgr'.live[t] = disk[MainUnit(t)] \/ t \in Range(Q.updated)
    BY DEF RestartsNoted
  <2>1. t \in Service /\ m.held[MainUnit(t)] = disk[MainUnit(t)]
    BY <1>4, OtherUnits DEF Running
  <2>2. RestartsNoted(cmd, disk, mgr)
    BY <1>2, <1>8 DEF Settled
  <2>3. CASE mgr'.live[t] = m.held[MainUnit(t)]
    BY <2>1, <2>3
  <2>4. CASE t \in Running(m) /\ mgr'.live[t] = m.live[t]
    <3>1. mgr.live[t] = disk[MainUnit(t)] \/ t \in Range(cmd.updated)
      BY <1>4, <1>8, <2>2, <2>4 DEF RestartsNoted
    <3>2. CASE t = s
      BY <1>5, <1>6, <1>8, <2>1, <3>2
    <3> QED
      BY <1>3, <1>4, <1>8, <2>4, <3>1, <3>2
  <2> QED
    BY <1>6, <2>3, <2>4 DEF Starts
<1>10. Settled(Q, disk, mgr', Fresh)
  BY <1>2, <1>8, <1>9 DEF Settled, NamedStopped
<1>11. GoesOn(Q, RestartNext(Q), disk, mgr', Fresh)
  BY <1>2, <1>8, <1>10, RestartNextGoes
<1> QED
  BY <1>1, <1>7, <1>8, <1>11, KeepsFiles

\* The commands end with a start, a restart or a stop.
LEMMA StartUnitsService ==
    ASSUME Inv, ServiceInv, StartUnits \/ RestartUnits
    PROVE  ServiceInv'
<1> DEFINE m == ReadFiles(mgr, disk)
           P == Finish(Note(cmd, ~AllCanStart(m, cmd.names)))
<1>1. /\ cmd.pc \in {"start", "restart"} /\ Goes(P) /\ UNCHANGED <<file, disk>>
      /\ mgr' = StartRequest(m, cmd.names) \/ mgr' = RestartRequest(m, cmd.names)
  BY DEF StartUnits, RestartUnits
<1>2. ManagerOk(m) /\ MonitoredRun(m) /\ cmd.names \in Seq(Service)
  BY <1>1, ReadsHeld, RunningPoint
<1>3. GoesOn(cmd, P, disk, mgr', Fresh)
  BY IdleGoes DEF Finish
<1> HIDE DEF m, P
<1>4. MonitoredRun(mgr')
  BY <1>1, <1>2, RequestsStart
<1> QED
  BY <1>1, <1>3, <1>4, KeepsFiles

\* Stopping is all that a `stop`, a `down` or an `uninstall` asks of the services.
LEMMA StopUnitsService ==
    ASSUME Inv, ServiceInv, StopUnits
    PROVE  ServiceInv'
<1>1. /\ cmd.pc = "stop" /\ mgr' = StopRequest(mgr, cmd.names) /\ Goes(AfterStop(cmd))
      /\ UNCHANGED <<file, disk>>
  BY DEF StopUnits
<1>2. /\ Body(cmd) /\ cmd.cmd \in {"stop", "down", "uninstall"} /\ cmd.names \in Seq(Service)
      /\ ManagerOk(mgr) /\ MonitoredRun(mgr) /\ Fresh \in BOOLEAN
  BY <1>1, RunningPoint, CommandsAt
<1>3. MonitoredRun(mgr') /\ Range(cmd.names) \cap Running(mgr') = {}
  BY <1>1, <1>2, RequestsStart
<1>4. Settled(cmd, disk, mgr', Fresh)
  BY <1>2, <1>3 DEF Settled, NamedStopped
<1>5. GoesOn(cmd, AfterStop(cmd), disk, mgr', Fresh)
  BY <1>2, <1>4, AfterStopGoes
<1> QED
  BY <1>1, <1>3, <1>5, KeepsFiles

\* systemctl fails, and the handler goes on.
LEMMA RejectedService ==
    ASSUME Inv, ServiceInv, Rejected
    PROVE  ServiceInv'
<1> DEFINE N == Note(cmd, TRUE)
<1>1. mgr' = mgr /\ UNCHANGED <<file, disk>> /\ MonitoredRun(mgr') /\ Shrinks(mgr, mgr')
  BY DEF Rejected, ServiceInv, Shrinks
<1>2. ASSUME cmd.pc # "idle"
      PROVE  /\ Body(N) /\ N.pc = cmd.pc /\ N.cmd = cmd.cmd /\ N.file = cmd.file /\ N.left = cmd.left
             /\ N.names = cmd.names /\ N.updated = cmd.updated /\ N.failed
             /\ Settled(cmd, disk, mgr, Fresh) => Settled(N, disk, mgr, Fresh)
  <2>1. Body(cmd) /\ Fresh \in BOOLEAN
    BY <1>2, RunningPoint
  <2>2. /\ Body(N) /\ N.pc = cmd.pc /\ N.cmd = cmd.cmd /\ N.file = cmd.file /\ N.left = cmd.left
        /\ N.names = cmd.names /\ N.updated = cmd.updated /\ N.failed
    BY <2>1 DEF Note, Body, Command
  <2> HIDE DEF N
  <2>3. Settled(cmd, disk, mgr, Fresh) => Settled(N, disk, mgr, Fresh)
    BY <2>2 DEF Settled
  <2> QED
    BY <2>2, <2>3
<1> HIDE DEF N
<1>3. CASE cmd.pc = "stopOrphan" /\ Goes(AfterOrphan(N, FirstUnit(cmd.left)))
  <2>1. /\ cmd.cmd \in {"up", "down"} /\ Stopping(cmd, disk, mgr) /\ Settled(cmd, disk, mgr, Fresh)
        /\ DiskOk(disk) /\ Companions(disk) /\ Fresh \in BOOLEAN
    BY <1>3, RunningPoint, CommandsAt DEF ServiceInv, PointOk
  <2>2. GoesOn(N, AfterOrphan(N, FirstUnit(cmd.left)), disk, mgr, Fresh)
    BY <1>2, <1>3, <2>1, AfterOrphanGoes DEF Stopping
  <2> QED
    BY <1>1, <1>2, <1>3, <2>2, KeepsFiles
<1>4. CASE cmd.pc = "disable" /\ Goes(StartUnlink(N, ProjectUnits))
  BY <1>1, <1>4, StartRemovalService DEF N
<1>5. CASE cmd.pc = "restartUpdated" /\ Goes(RestartNext([N EXCEPT !.updated = Tail(cmd.updated)]))
  <2> DEFINE Q == [N EXCEPT !.updated = Tail(cmd.updated)]
  <2>1. /\ cmd.cmd = "up" /\ Settled(cmd, disk, mgr, Fresh) /\ Fresh \in BOOLEAN
        /\ cmd.updated \in Seq(Service) /\ cmd.updated # <<>>
    BY <1>5, RunningPoint, RunningCommand, CommandsAt DEF WellFormed
  <2>2. /\ Body(Q) /\ Q.cmd = cmd.cmd /\ Q.file = cmd.file /\ Q.failed
    <3>1. Tail(cmd.updated) \in Seq(Service)
      BY <2>1
    <3> QED
      BY <1>2, <1>5, <3>1 DEF Body, Command
  <2> HIDE DEF Q
  <2>3. Settled(Q, disk, mgr, Fresh)
    BY <2>1, <2>2 DEF Settled
  <2>4. GoesOn(Q, RestartNext(Q), disk, mgr, Fresh)
    BY <2>1, <2>2, <2>3, RestartNextGoes
  <2>5. Goes(RestartNext(Q))
    BY <1>5 DEF Q
  <2> QED
    BY <1>1, <1>5, <2>2, <2>4, <2>5, KeepsFiles
<1>6. CASE cmd.pc \in {"start", "restart"} /\ Goes(Idle(TRUE))
  <2>1. GoesOn(cmd, Idle(TRUE), disk, mgr, Fresh)
    BY IdleGoes
  <2> QED
    BY <1>1, <1>6, <2>1, KeepsFiles
<1>7. CASE cmd.pc = "stop" /\ Goes(AfterStop(N))
  <2>1. cmd.cmd \in {"stop", "down", "uninstall"} /\ Fresh \in BOOLEAN
    BY <1>7, RunningPoint, CommandsAt
  <2>2. Settled(N, disk, mgr, Fresh)
    BY <1>2, <1>7, <2>1 DEF Settled
  <2>3. GoesOn(N, AfterStop(N), disk, mgr, Fresh)
    BY <1>2, <1>7, <2>1, <2>2, AfterStopGoes
  <2> QED
    BY <1>1, <1>2, <1>7, <2>3, KeepsFiles
<1> QED
  BY <1>3, <1>4, <1>5, <1>6, <1>7 DEF Rejected, N

\* A step that ends the command, or begins none, where no file changes.
LEMMA NoCommandService ==
    ASSUME Inv, ServiceInv, NEW failed, cmd' = Idle(failed), seen'.synced = seen.synced,
           UNCHANGED <<file, disk>>, MonitoredRun(mgr')
    PROVE  ServiceInv'
<1>1. cmd'.pc = "idle"
  BY DEF Idle
<1> QED
  BY <1>1 DEF ServiceInv, PointOk, SyncedOk

\* An exception leaves the handler.
LEMMA RaiseService ==
    ASSUME Inv, ServiceInv, Raise
    PROVE  ServiceInv'
<1>1. /\ cmd' = Idle(TRUE) /\ seen' = [Forget(seen) EXCEPT !.interrupted = TRUE]
      /\ UNCHANGED <<file, disk, mgr>>
  BY DEF Raise
<1>2. seen'.synced = seen.synced /\ MonitoredRun(mgr')
  BY <1>1 DEF Inv, Forget, ServiceInv
<1> QED
  BY <1>1, <1>2, NoCommandService

\* A boot leaves no service monitored that it did not start.
LEMMA BootedRuns ==
    ASSUME NEW m, ManagerOk(m), NEW d, DiskOk(d)
    PROVE  LET fresh == [NothingInstalled EXCEPT !.held = d, !.enabled = m.enabled]
           IN  /\ ManagerOk(fresh) /\ fresh.held = d /\ Running(fresh) = {} /\ fresh.timers = {}
               /\ Booted(m, d) = IF m.enabled THEN StartTarget(fresh) ELSE fresh
               /\ MonitoredRun(Booted(m, d))
<1> DEFINE fresh == [NothingInstalled EXCEPT !.held = d, !.enabled = m.enabled]
<1>1. /\ fresh \in Installed /\ fresh.held = d /\ fresh.timers = {}
      /\ \A s \in Service : fresh.live[s] = NoHash
      /\ Booted(m, d) = IF m.enabled THEN StartTarget(fresh) ELSE fresh
  <2>1. /\ NothingInstalled \in Installed /\ NothingInstalled.timers = {}
        /\ \A s \in Service : NothingInstalled.live[s] = NoHash
    BY DEF NothingInstalled, Installed
  <2>2. m.enabled \in BOOLEAN /\ d \in [Unit -> Content \cup {NoFile}]
    BY DEF ManagerOk, DiskOk, Installed
  <2>3. /\ fresh \in Installed /\ fresh.held = d /\ fresh.timers = {}
        /\ \A s \in Service : fresh.live[s] = NoHash
    BY <2>1, <2>2 DEF Installed
  <2>4. Booted(m, d) = IF m.enabled THEN StartTarget(fresh) ELSE fresh
    BY DEF Booted
  <2> QED
    BY <2>3, <2>4
<1> HIDE DEF fresh
<1>2. /\ ManagerOk(fresh) /\ fresh.held = d /\ Running(fresh) = {} /\ fresh.timers = {}
  BY <1>1 DEF ManagerOk, DiskOk, Installed, Running
<1>3. MonitoredRun(fresh) /\ <<>> \in Seq(Service)
  BY <1>2 DEF MonitoredRun
<1>4. MonitoredRun(StartRequest(fresh, <<>>))
  BY <1>2, <1>3, RequestsStart
<1>5. MonitoredRun(Booted(m, d))
  BY <1>1, <1>3, <1>4 DEF StartRequest
<1> QED
  BY <1>1, <1>2, <1>5 DEF fresh

\* The machine reboots.
LEMMA RebootService ==
    ASSUME Inv, ServiceInv, Reboot
    PROVE  ServiceInv'
<1>1. /\ cmd' = Idle(TRUE) /\ seen' = [Forget(seen) EXCEPT !.interrupted = FALSE]
      /\ mgr' = Booted(mgr, disk) /\ UNCHANGED <<file, disk>>
  BY DEF Reboot
<1>2. MonitoredRun(mgr')
  BY <1>1, BootedRuns DEF Inv
<1>3. seen'.synced = seen.synced
  BY <1>1 DEF Inv, Forget
<1> QED
  BY <1>1, <1>2, <1>3, NoCommandService

\* The compose file is edited.
LEMMA EditFileService ==
    ASSUME Inv, ServiceInv, EditFile
    PROVE  ServiceInv'
<1>1. seen' = [seen EXCEPT !.synced = FALSE] /\ UNCHANGED <<disk, mgr, cmd>>
  BY DEF EditFile
<1>2. ~seen'.synced /\ Fresh' = Fresh
  BY <1>1 DEF Inv, Fresh
<1> QED
  BY <1>1, <1>2 DEF ServiceInv, SyncedOk

\* A service exits.
LEMMA CrashService ==
    ASSUME Inv, ServiceInv, Crash
    PROVE  ServiceInv'
<1>1. /\ \E s \in Running(mgr) : mgr' = StopServices(mgr, {s})
      /\ UNCHANGED <<file, disk, cmd, seen>>
  BY DEF Crash
<1>2. Shrinks(mgr, mgr') /\ MonitoredRun(mgr')
  <2>1. PICK s \in Running(mgr) : mgr' = StopServices(mgr, {s})
    BY <1>1
  <2>2. {s} \in SUBSET Service
    BY DEF Running
  <2> QED
    BY <2>1, <2>2, StopServicesStops DEF Inv, ServiceInv
<1>3. Fresh \in BOOLEAN /\ Fresh' = Fresh
  BY <1>1 DEF Inv, Fresh
<1>4. PointOk(cmd, disk, mgr', Fresh)
  BY <1>2, <1>3, PointWeakens DEF ServiceInv
<1> QED
  BY <1>1, <1>2, <1>3, <1>4 DEF ServiceInv, SyncedOk

\* A command begins: nothing is compared yet, and the services run what the history
\* says of them.
LEMMA BeginService ==
    ASSUME Inv, ServiceInv, NEW r \in Requests, Begin(r)
    PROVE  ServiceInv'
<1> DEFINE first == CASE r.cmd \in {"install", "up"} -> "sync"
                      [] r.cmd \in {"start", "restart"} -> r.cmd
                      [] r.cmd \in {"stop", "down"} -> "stop"
                      [] OTHER -> IF r.now THEN "stop" ELSE "disable"
           held == \A u \in Unit : HoldsItsFile(u)
           fresh == \A s \in Running(mgr) : RunsItsFile(s)
           synced == seen.synced /\ r.cmd \notin {"install", "up", "uninstall"}
<1>1. /\ cmd' = [[Idle(FALSE) EXCEPT !.cmd = r.cmd, !.purge = r.purge, !.now = r.now,
                                     !.file = file, !.names = r.names, !.todo = file.order]
                   EXCEPT !.pc = first]
      /\ seen' = [seen EXCEPT !.held = held, !.fresh = fresh, !.synced = synced]
      /\ UNCHANGED <<file, disk, mgr>>
  BY DEF Begin
<1>2. r.cmd \in Commands
  BY RequestsAssumption DEF Request
<1>3. /\ first \in Route(r.cmd) \ {"idle", "orphans", "stopOrphan", "unlink", "reload"}
      /\ r.cmd \in {"install", "up"} <=> first = "sync"
      /\ r.cmd \in {"stop", "down"} => first = "stop"
  BY <1>2 DEF Route, Commands
<1>4. /\ fresh \in BOOLEAN /\ held \in BOOLEAN /\ synced \in BOOLEAN
      /\ fresh => \A s \in Running(mgr) : mgr.live[s] = disk[MainUnit(s)]
      /\ synced => seen.synced /\ r.cmd \notin {"install", "up", "uninstall"}
  BY DEF RunsItsFile, Inv
<1> HIDE DEF first, held, fresh, synced
<1>5. /\ cmd'.pc = first /\ cmd'.cmd = r.cmd /\ cmd'.file = file /\ cmd'.todo = file.order
      /\ cmd'.at = Target /\ cmd'.failed = FALSE
  BY <1>1 DEF Idle
<1>6. seen'.synced = synced /\ (Fresh' => fresh)
  BY <1>1, <1>4 DEF Inv, Fresh
<1>7. ToCompare(cmd') = DesiredUnits(cmd'.file)
  BY <1>5 DEF ToCompare
<1>8. RestartsNoted(cmd', disk, mgr) \/ ~Fresh'
  BY <1>4, <1>6 DEF RestartsNoted
<1>9. Comparing(cmd', disk, mgr, Fresh')
  BY <1>5, <1>7, <1>8 DEF Comparing, Agrees
<1>10. cmd'.pc \notin {"sync", "stop"} => Settled(cmd', disk, mgr, Fresh')
  BY <1>3, <1>5 DEF Settled, NamedStopped
<1>11. PointOk(cmd', disk, mgr, Fresh')
  BY <1>3, <1>5, <1>9, <1>10 DEF PointOk
<1>12. SyncedOk'
  BY <1>1, <1>4, <1>5, <1>6 DEF ServiceInv, SyncedOk
<1> QED
  BY <1>1, <1>11, <1>12 DEF ServiceInv

-----------------------------------------------------------------------------
\* The invariant.

LEMMA InitService == Init => ServiceInv
<1> SUFFICES ASSUME Init PROVE ServiceInv
  OBVIOUS
<1>1. cmd.pc = "idle" /\ ~seen.synced
  BY DEF Init, Idle
<1>2. Companions(disk)
  BY OtherUnits DEF Init, Companions
<1>3. MonitoredRun(mgr)
  BY DEF Init, NothingInstalled, MonitoredRun
<1> QED
  BY <1>1, <1>2, <1>3 DEF ServiceInv, PointOk, SyncedOk

\* Every step keeps the invariant.
LEMMA NextService == Inv /\ ServiceInv /\ [Next]_vars => ServiceInv'
<1> SUFFICES ASSUME Inv, ServiceInv, [Next]_vars PROVE ServiceInv'
  OBVIOUS
<1>1. CASE Next
  <2>1. ASSUME NEW r \in Requests, Begin(r) PROVE ServiceInv'
    BY <2>1, BeginService
  <2>2. CASE Step
    BY <2>2, SyncFileService, ListOrphansService, StopOrphanService, UnlinkService,
       DaemonReloadService, EnableService, DisableService, RestartUpdatedService,
       StartUnitsService, StopUnitsService DEF Step
  <2>3. CASE Rejected \/ Raise \/ EditFile \/ Crash \/ Reboot
    BY <2>3, RejectedService, RaiseService, EditFileService, CrashService, RebootService
  <2> QED
    BY <1>1, <2>1, <2>2, <2>3 DEF Next
<1>2. CASE UNCHANGED vars
  <2>1. UNCHANGED <<file, disk, mgr, cmd, budget, seen>>
    BY <1>2 DEF vars
  <2> QED
    BY <2>1 DEF ServiceInv, SyncedOk, Fresh
<1> QED
  BY <1>1, <1>2

\* The invariant is one of the specification.
LEMMA SpecService == Spec => [](Inv /\ ServiceInv)
<1>1. Inv /\ ServiceInv /\ [Next]_vars => (Inv /\ ServiceInv)'
  BY NextInv, NextService
<1>2. Init => Inv /\ ServiceInv
  BY InitInv, InitService
<1> QED
  BY <1>1, <1>2, PTL DEF Spec

-----------------------------------------------------------------------------
\* How commands end.

\* Q does not end an `up`, and reports what P has met.
EndsAs(P, Q) == Q.pc = "idle" => P.cmd # "up" /\ Q.failed = P.failed

LEMMA ControlEndsAs ==
    ASSUME NEW P, Body(P), P.pc # "idle"
    PROVE  /\ EndsAs(P, RestartNext(P)) /\ EndsAs(P, AfterReload(P)) /\ EndsAs(P, AfterFiles(P))
           /\ \A units : EndsAs(P, StartUnlink(P, units)) /\ EndsAs(P, AfterList(P, units))
           /\ \A u : EndsAs(P, AfterUnlink(P, u)) /\ EndsAs(P, AfterOrphan(P, u))
           /\ P.cmd # "up" => EndsAs(P, AfterStop(P))
<1> DEFINE At(Q) == Q \in Command /\ Q.pc # "idle" /\ Q.cmd = P.cmd /\ Q.failed = P.failed
<1>1. At(P)
  BY DEF Body
<1>2. ASSUME NEW Q, At(Q) PROVE \A pc \in Points : [Q EXCEPT !.pc = pc].pc = pc
  BY <1>2 DEF Command
<1>3. ASSUME NEW Q, At(Q) PROVE Finish(Q).pc = "idle" /\ Finish(Q).failed = P.failed
  BY <1>3 DEF Finish, Idle
<1>4. ASSUME NEW Q, At(Q) PROVE RestartNext(Q).pc # "idle"
  BY <1>2, <1>4 DEF RestartNext, Points
<1>5. ASSUME NEW Q, At(Q) PROVE EndsAs(P, AfterReload(Q))
  BY <1>2, <1>3, <1>4, <1>5 DEF AfterReload, EndsAs, Points
<1>6. ASSUME NEW Q, At(Q) PROVE EndsAs(P, AfterFiles(Q))
  BY <1>2, <1>5, <1>6 DEF AfterFiles, EndsAs, Points
<1>7. ASSUME NEW Q, At(Q), NEW units PROVE EndsAs(P, StartUnlink(Q, units))
  <2>1. [Q EXCEPT !.pc = "unlink", !.left = units].pc = "unlink"
    BY <1>7 DEF Command
  <2> QED
    BY <1>6, <1>7, <2>1 DEF StartUnlink, EndsAs
<1>8. ASSUME NEW units PROVE EndsAs(P, AfterList(P, units))
  <2>1. [P EXCEPT !.pc = "stopOrphan", !.left = units].pc = "stopOrphan"
    BY <1>1 DEF Command
  <2> QED
    BY <1>1, <1>7, <2>1 DEF AfterList, EndsAs
<1>9. ASSUME NEW u PROVE EndsAs(P, AfterUnlink(P, u))
  <2> DEFINE Q == [P EXCEPT !.left = P.left \ {u}, !.changed = TRUE]
  <2>1. At(Q)
    BY <1>1, <1>9 DEF Command
  <2>2. EndsAs(P, AfterFiles(Q)) /\ EndsAs(P, Q)
    <3> HIDE DEF Q
    <3> QED
      BY <1>6, <2>1 DEF EndsAs
  <2> QED
    BY <2>2 DEF AfterUnlink
<1>10. ASSUME NEW u PROVE EndsAs(P, AfterOrphan(P, u))
  <2> DEFINE Q == [P EXCEPT !.left = {}]
             R == [P EXCEPT !.left = P.left \ {u}]
  <2>1. At(Q) /\ R.pc = P.pc
    BY <1>1, <1>10 DEF Command
  <2>2. \A units : EndsAs(P, StartUnlink(Q, units))
    <3> HIDE DEF Q
    <3> QED
      BY <1>7, <2>1
  <2>3. EndsAs(P, R)
    BY <2>1 DEF EndsAs
  <2> QED
    BY <2>2, <2>3 DEF AfterOrphan
<1>11. P.cmd # "up" => EndsAs(P, AfterStop(P))
  BY <1>1, <1>2, <1>3 DEF AfterStop, EndsAs, Points
<1> HIDE DEF At
<1> QED
  BY <1>1, <1>4, <1>5, <1>6, <1>7, <1>8, <1>9, <1>10, <1>11 DEF EndsAs

\* A step that ends a command with success is its start, its restart or its stop, or
\* leaves the services as they are or stops some after they were stopped.
LEMMA SuccessfulEnd ==
    ASSUME Inv, ServiceInv, Next, ExitsOk
    PROVE  /\ cmd.pc # "idle" /\ ~cmd.failed
           /\ \/ StartUnits \/ RestartUnits \/ StopUnits
              \/ /\ cmd.pc \notin {"sync", "stop", "start", "restart"} /\ cmd.cmd # "up"
                 /\ Shrinks(mgr, mgr')
<1>1. cmd.pc # "idle" /\ cmd'.pc = "idle" /\ ~cmd'.failed
  BY DEF ExitsOk, Ended
<1>2. /\ Body(cmd) /\ cmd.pc \in Route(cmd.cmd) /\ cmd.cmd \in Commands /\ cmd.failed \in BOOLEAN
      /\ ManagerOk(mgr)
  BY <1>1, RunningPoint
<1>3. Idle(TRUE).failed
  BY DEF Idle
<1>4. \A failed : Idle(failed).failed = failed
  BY DEF Idle
<1>5. ASSUME mgr'.live = mgr.live PROVE Shrinks(mgr, mgr')
  BY <1>5 DEF Shrinks, Running
<1>6. ASSUME NEW r \in Requests, Begin(r) PROVE FALSE
  BY <1>1, <1>6 DEF Begin
<1>7. ASSUME SyncFile PROVE FALSE
  BY <1>1, <1>7, SyncFileRuns
<1>8. CASE ListOrphans
  <2>1. cmd.pc = "orphans" /\ cmd' = AfterList(cmd, Orphans(cmd.file)) /\ mgr' = mgr
    BY <1>8 DEF ListOrphans, Goes
  <2> QED
    BY <1>1, <1>2, <1>5, <2>1, ControlEndsAs DEF EndsAs
<1>9. CASE StopOrphan
  <2> DEFINE u == FirstUnit(cmd.left)
  <2>1. cmd.pc = "stopOrphan" /\ cmd' = AfterOrphan(cmd, u) /\ mgr' = StopUnit(mgr, u)
    BY <1>9 DEF StopOrphan, Goes
  <2>2. Shrinks(mgr, mgr')
    BY <1>9, OrphanStops
  <2> HIDE DEF u
  <2> QED
    BY <1>1, <1>2, <2>1, <2>2, ControlEndsAs DEF EndsAs
<1>10. CASE Unlink
  <2>1. cmd.pc = "unlink" /\ cmd' = AfterUnlink(cmd, FirstUnit(cmd.left)) /\ mgr' = mgr
    BY <1>10 DEF Unlink, Goes
  <2> QED
    BY <1>1, <1>2, <1>5, <2>1, ControlEndsAs DEF EndsAs
<1>11. CASE DaemonReload
  <2>1. cmd.pc = "reload" /\ cmd' = AfterReload(cmd) /\ mgr'.live = mgr.live
    BY <1>2, <1>11 DEF DaemonReload, Reload, ManagerOk, Installed
  <2> QED
    BY <1>1, <1>2, <1>5, <2>1, ControlEndsAs DEF EndsAs
<1>12. CASE Enable
  <2>1. /\ cmd.pc = "enable" /\ mgr'.live = mgr.live
        /\ cmd' = IF cmd.now THEN [cmd EXCEPT !.pc = "start"] ELSE Finish(cmd)
    BY <1>2, <1>12 DEF Enable, Goes, Reload, ManagerOk, Installed
  <2>2. [cmd EXCEPT !.pc = "start"].pc = "start"
    BY <1>2 DEF Body, Command
  <2>3. cmd' = Idle(cmd.failed)
    BY <1>1, <2>1, <2>2 DEF Finish
  <2>4. cmd.cmd = "install"
    BY <1>2, <2>1, CommandsAt
  <2> QED
    BY <1>1, <1>4, <1>5, <2>1, <2>3, <2>4
<1>13. CASE Disable
  <2> DEFINE N == Note(cmd, disk[Target] = NoFile)
  <2>1. cmd.pc = "disable" /\ cmd' = StartUnlink(N, ProjectUnits) /\ mgr'.live = mgr.live
    BY <1>2, <1>13 DEF Disable, Goes, Reload, ManagerOk, Installed
  <2>2. Body(N) /\ N.pc = cmd.pc /\ N.cmd = cmd.cmd /\ (cmd.failed => N.failed)
    BY <1>2 DEF Note, Body, Command
  <2> HIDE DEF N
  <2> QED
    BY <1>1, <1>2, <1>5, <2>1, <2>2, ControlEndsAs DEF EndsAs
<1>14. ASSUME RestartUpdated PROVE FALSE
  <2> DEFINE Q == [Note(cmd, ~CanStart(ReadFiles(mgr, disk), Head(cmd.updated)))
                     EXCEPT !.updated = Tail(cmd.updated)]
  <2>1. cmd.pc = "restartUpdated" /\ cmd' = RestartNext(Q)
    BY <1>14 DEF RestartUpdated, Goes
  <2>2. cmd' = [Q EXCEPT !.pc = "start"] \/ cmd' = [Q EXCEPT !.pc = "restartUpdated"]
    BY <2>1 DEF RestartNext
  <2>3. \A pc : [Q EXCEPT !.pc = pc].pc = pc
    BY <1>2 DEF Note, Body, Command
  <2> HIDE DEF Q
  <2> QED
    BY <1>1, <2>2, <2>3
<1>15. CASE StartUnits \/ RestartUnits
  <2> DEFINE able == AllCanStart(ReadFiles(mgr, disk), cmd.names)
  <2>1. cmd' = Idle(Note(cmd, ~able).failed)
    BY <1>15 DEF StartUnits, RestartUnits, Goes, Finish
  <2>2. Note(cmd, ~able).failed = (cmd.failed \/ ~able)
    BY <1>2 DEF Note, Body, Command
  <2> HIDE DEF able
  <2> QED
    BY <1>1, <1>4, <1>15, <2>1, <2>2
<1>16. CASE StopUnits
  <2>1. cmd.pc = "stop" /\ cmd' = AfterStop(cmd)
    BY <1>16 DEF StopUnits, Goes
  <2>2. cmd.cmd # "up"
    BY <1>2, <2>1, CommandsAt
  <2> QED
    BY <1>1, <1>2, <1>16, <2>1, <2>2, ControlEndsAs DEF EndsAs
<1>17. ASSUME Rejected PROVE FALSE
  <2> DEFINE N == Note(cmd, TRUE)
  <2>1. Body(N) /\ N.pc = cmd.pc /\ N.cmd = cmd.cmd /\ N.failed
    BY <1>2 DEF Note, Body, Command
  <2>2. N.pc # "idle"
    BY <1>1, <2>1
  <2>3. \/ cmd' = AfterOrphan(N, FirstUnit(cmd.left)) \/ cmd' = StartUnlink(N, ProjectUnits)
        \/ cmd' = RestartNext([N EXCEPT !.updated = Tail(cmd.updated)])
        \/ cmd' = Idle(TRUE)
        \/ cmd.pc = "stop" /\ cmd' = AfterStop(N)
    BY <1>17 DEF Rejected, Goes
  <2> HIDE DEF N
  <2>4. RestartNext([N EXCEPT !.updated = Tail(cmd.updated)]).pc # "idle"
    BY <2>1 DEF RestartNext, Body, Command
  <2>5. cmd.pc = "stop" => N.cmd # "up"
    BY <1>2, <2>1, CommandsAt
  <2> QED
    BY <1>1, <1>3, <2>1, <2>2, <2>3, <2>4, <2>5, ControlEndsAs DEF EndsAs
<1>18. ASSUME Raise \/ Reboot PROVE FALSE
  BY <1>1, <1>3, <1>18 DEF Raise, Reboot
<1>19. ASSUME EditFile \/ Crash PROVE FALSE
  BY <1>1, <1>19 DEF EditFile, Crash
<1> QED
  BY <1>1, <1>6, <1>7, <1>8, <1>9, <1>10, <1>11, <1>12, <1>13, <1>14, <1>15, <1>16, <1>17, <1>18,
     <1>19 DEF Next, Step

-----------------------------------------------------------------------------
\* The theorems.

\* README: "`install` makes the project survive reboot".  Whatever happened before: as
\* long as the compose file is the one that the last install or up read, a boot starts
\* all its services with their present definitions and monitors those with a
\* healthcheck, and starts nothing else.
THEOREM RebootStartsTheProject == Spec => []SurvivesReboot
<1>1. ASSUME Inv, ServiceInv PROVE SurvivesReboot
  <2> SUFFICES ASSUME seen.synced, mgr.enabled
               PROVE  /\ Running(Booted(mgr, disk)) = Listed(file)
                      /\ \A s \in Listed(file) : Booted(mgr, disk).live[s] = Hash(file, s)
                      /\ Booted(mgr, disk).timers = MonitoredIn(file)
    BY DEF SurvivesReboot
  <2>1. /\ ManagerOk(mgr) /\ DiskOk(disk) /\ file \in Files
        /\ Agrees(disk, file, DesiredUnits(file))
    BY <1>1 DEF Inv, ServiceInv, SyncedOk
  <2> DEFINE fresh == [NothingInstalled EXCEPT !.held = disk, !.enabled = mgr.enabled]
  <2>2. /\ ManagerOk(fresh) /\ fresh.held = disk /\ Running(fresh) = {} /\ fresh.timers = {}
        /\ Booted(mgr, disk) = StartTarget(fresh)
    BY <2>1, BootedRuns
  <2> HIDE DEF fresh
  <2>3. /\ Running(StartTarget(fresh)) = Listed(file)
        /\ \A s \in Service : StartTarget(fresh).live[s] =
             IF s \in Listed(file) THEN Hash(file, s) ELSE fresh.live[s]
        /\ StartTarget(fresh).timers = MonitoredIn(file)
    <3>1. Agrees(fresh.held, file, DesiredUnits(file))
      BY <2>1, <2>2
    <3>2. /\ Running(StartTarget(fresh)) = Running(fresh) \cup Listed(file)
          /\ \A s \in Service : StartTarget(fresh).live[s] =
               IF s \in Listed(file) \ Running(fresh) THEN Hash(file, s) ELSE fresh.live[s]
          /\ StartTarget(fresh).timers = fresh.timers \cup MonitoredIn(file)
      BY <2>1, <2>2, <3>1, StartTargetStarts
    <3> QED
      BY <2>2, <3>2
  <2>4. Listed(file) \subseteq Service
    BY <2>1, ListedServices
  <2> QED
    BY <2>2, <2>3, <2>4
<1> QED
  BY <1>1, SpecService, PTL

\* A step of an `up` or `down` all of whose calls succeeded that unlinks a file finds
\* its service stopped.
LEMMA OrphanStep ==
    ASSUME Inv, ServiceInv, Next, cmd.cmd \in {"up", "down"}, ~cmd.failed,
           NEW u \in OnDisk(disk) \ OnDisk(disk')
    PROVE  u.of \notin Running(mgr) \cup mgr.timers
<1>1. u \in Unit /\ disk[u] # NoFile /\ disk'[u] = NoFile
  BY DEF OnDisk
<1>2. ASSUME SyncFile PROVE FALSE
  <2>1. /\ cmd.pc = "sync" /\ disk' = [disk EXCEPT ![cmd.at] = Generated(cmd.file, cmd.at)]
    BY <1>2 DEF SyncFile
  <2>2. cmd.file \in Files /\ cmd.at \in DesiredUnits(cmd.file)
    BY <2>1, RunningPoint, RunningCommand DEF WellFormed
  <2> QED
    BY <1>1, <2>1, <2>2, GeneratedContent DEF Inv, DiskOk
<1>3. CASE Unlink
  <2>1. cmd.pc = "unlink" /\ disk' = [disk EXCEPT ![FirstUnit(cmd.left)] = NoFile]
    BY <1>3 DEF Unlink
  <2>2. u = FirstUnit(cmd.left)
    BY <1>1, <2>1 DEF Inv, DiskOk
  <2>3. cmd.left \in SUBSET Unit /\ cmd.left # {}
    BY <2>1, RunningCommand DEF Body, Command, WellFormed
  <2>4. u \in cmd.left
    BY <2>2, <2>3, FirstUnitOf
  <2>5. u.of \notin Running(mgr)
    BY <2>1, <2>4 DEF ServiceInv, PointOk, Unlinking
  <2> QED
    BY <2>5 DEF ServiceInv, MonitoredRun
<1>4. \/ SyncFile \/ Unlink \/ disk' = disk
  BY DEF Next, Step, Begin, ListOrphans, StopOrphan, DaemonReload, Enable, Disable, RestartUpdated,
         StartUnits, RestartUnits, StopUnits, Rejected, Raise, EditFile, Crash, Reboot
<1> QED
  BY <1>1, <1>2, <1>3, <1>4

\* Neither `up` nor `down`, as long as none of its calls failed, unlinks a file of a
\* service that runs or is monitored: orphans are stopped first, and with a service goes
\* its timer.
THEOREM OrphansAreStopped == Spec => OrphansStopFirst
<1>1. Inv /\ ServiceInv /\ [Next]_vars =>
        [/\ cmd.cmd \in {"up", "down"} /\ ~cmd.failed
         => \A u \in OnDisk(disk) \ OnDisk(disk') : u.of \notin Running(mgr) \cup mgr.timers]_vars
  BY OrphanStep
<1> QED
  BY <1>1, SpecService, PTL DEF Spec, OrphansStopFirst

\* A step that ends a command with success on the services it was named.
LEMMA NamedStep ==
    ASSUME Inv, ServiceInv, Next, ExitsOk, cmd.names # <<>>
    PROVE  /\ cmd.cmd \in {"stop", "down"} =>
                Range(cmd.names) \cap (Running(mgr') \cup mgr'.timers) = {}
           /\ cmd.cmd \in {"start", "restart", "up"} => Range(cmd.names) \subseteq Running(mgr')
<1>1. /\ cmd.pc # "idle" /\ ~cmd.failed
      /\ \/ StartUnits \/ RestartUnits \/ StopUnits
         \/ /\ cmd.pc \notin {"sync", "stop", "start", "restart"} /\ cmd.cmd # "up"
            /\ Shrinks(mgr, mgr')
  BY SuccessfulEnd
<1>2. /\ Body(cmd) /\ cmd.pc \in Route(cmd.cmd) /\ cmd.cmd \in Commands /\ cmd.names \in Seq(Service)
      /\ cmd.pc \notin {"sync", "stop"} => Settled(cmd, disk, mgr, Fresh)
      /\ ManagerOk(mgr) /\ MonitoredRun(mgr)
  BY <1>1, RunningPoint
<1>3. mgr'.timers \subseteq Running(mgr')
  BY NextService DEF ServiceInv, MonitoredRun
<1>4. CASE cmd.cmd \in {"stop", "down"}
  <2>1. ~(StartUnits \/ RestartUnits)
    BY <1>2, <1>4, CommandsAt DEF StartUnits, RestartUnits
  <2>2. ASSUME StopUnits PROVE Range(cmd.names) \cap Running(mgr') = {}
    BY <1>2, <2>2, RequestsStart DEF StopUnits
  <2>3. ASSUME cmd.pc \notin {"sync", "stop"}, Shrinks(mgr, mgr')
        PROVE  Range(cmd.names) \cap Running(mgr') = {}
    BY <1>1, <1>2, <1>4, <2>3 DEF Settled, NamedStopped, Shrinks
  <2>4. Range(cmd.names) \cap Running(mgr') = {}
    BY <1>1, <2>1, <2>2, <2>3
  <2> QED
    BY <1>3, <1>4, <2>4
<1>5. CASE cmd.cmd \in {"start", "restart", "up"}
  <2> DEFINE m == ReadFiles(mgr, disk)
  <2>1. StartUnits \/ RestartUnits
    BY <1>1, <1>2, <1>5, CommandsAt DEF StopUnits, Route
  <2>2. /\ mgr' = StartRequest(m, cmd.names) \/ mgr' = RestartRequest(m, cmd.names)
        /\ cmd' = Idle(Note(cmd, ~AllCanStart(m, cmd.names)).failed)
    BY <2>1 DEF StartUnits, RestartUnits, Goes, Finish
  <2>3. ManagerOk(m) /\ MonitoredRun(m)
    BY ReadsHeld
  <2>4. AllCanStart(m, cmd.names)
    <3> DEFINE able == AllCanStart(m, cmd.names)
    <3>1. Note(cmd, ~able).failed = (cmd.failed \/ ~able)
      BY <1>2 DEF Note, Body, Command
    <3>2. cmd'.failed = Note(cmd, ~able).failed
      BY <2>2 DEF Idle
    <3> HIDE DEF able
    <3>3. able
      BY <3>1, <3>2 DEF ExitsOk
    <3> QED
      BY <3>3 DEF able
  <2> HIDE DEF m
  <2> QED
    BY <1>2, <1>5, <2>2, <2>3, <2>4, RequestsStart
<1> QED
  BY <1>4, <1>5

\* A `stop` or `down` of named services that reports success leaves none of them running
\* or monitored, a `start`, `restart` or `up` of named services leaves all of them
\* running.
THEOREM NamedServicesDoAsTold == Spec => NamedHonest
<1>1. Inv /\ ServiceInv /\ [Next]_vars =>
        [ExitsOk /\ cmd.names # <<>> =>
           /\ cmd.cmd \in {"stop", "down"} => Range(cmd.names) \cap (Running(mgr') \cup mgr'.timers) = {}
           /\ cmd.cmd \in {"start", "restart", "up"} => Range(cmd.names) \subseteq Running(mgr')]_vars
  BY NamedStep
<1> QED
  BY <1>1, SpecService, PTL DEF Spec, NamedHonest

\* A step that ends an `up` of the project with success.
LEMMA UpStep ==
    ASSUME Inv, ServiceInv, Next, ExitsOk, cmd.cmd = "up", cmd.names = <<>>, seen.held
    PROVE  /\ Listed(cmd.file) \subseteq Running(mgr')
           /\ MonitoredIn(cmd.file) \subseteq mgr'.timers
           /\ seen.fresh => \A s \in Listed(cmd.file) : mgr'.live[s] = Hash(cmd.file, s)
<1> DEFINE m == ReadFiles(mgr, disk)
           f == cmd.file
<1>1. cmd.pc # "idle" /\ ~cmd.failed /\ (StartUnits \/ RestartUnits \/ StopUnits)
  BY SuccessfulEnd
<1>2. StartUnits
  BY <1>1, RunningPoint, CommandsAt DEF StopUnits, RestartUnits
<1>3. cmd.pc = "start" /\ mgr' = StartTarget(m)
  BY <1>2 DEF StartUnits, StartRequest
<1>4. /\ f \in Files /\ Settled(cmd, disk, mgr, Fresh) /\ cmd.updated = <<>>
  BY <1>1, <1>3, RunningPoint DEF ServiceInv, PointOk
<1>5. /\ ManagerOk(m) /\ m.live = mgr.live /\ Running(m) = Running(mgr)
      /\ \A u \in Unit : m.held[u] = disk[u]
  BY <1>3, ReadsHeld, FreshHolds
<1>6. Agrees(disk, f, DesiredUnits(f)) /\ DesiredUnits(f) \subseteq Unit
  BY <1>4, GeneratedContent DEF Settled
<1>7. Agrees(m.held, f, DesiredUnits(f))
  BY <1>5, <1>6 DEF Agrees
<1> HIDE DEF m
<1>8. /\ Running(mgr') = Running(m) \cup Listed(f)
      /\ \A s \in Service : mgr'.live[s] = IF s \in Listed(f) \ Running(m) THEN Hash(f, s) ELSE m.live[s]
      /\ mgr'.timers = m.timers \cup MonitoredIn(f)
  BY <1>3, <1>4, <1>5, <1>7, StartTargetStarts
<1>9. ASSUME seen.fresh, NEW s \in Listed(f) PROVE mgr'.live[s] = Hash(f, s)
  <2>1. /\ s \in Service /\ MainUnit(s) \in DesiredUnits(f) /\ Generated(f, MainUnit(s)) = Hash(f, s)
    BY <1>4, DesiredOf
  <2>2. CASE s \notin Running(m)
    BY <1>8, <2>1, <2>2
  <2>3. CASE s \in Running(m)
    <3>1. RestartsNoted(cmd, disk, mgr)
      BY <1>1, <1>4, <1>9 DEF Settled, Fresh
    <3>2. Range(cmd.updated) = {}
      BY <1>4 DEF Range
    <3>3. mgr.live[s] = disk[MainUnit(s)]
      BY <1>5, <1>9, <2>3, <3>1, <3>2 DEF RestartsNoted
    <3> QED
      BY <1>5, <1>6, <1>8, <2>1, <2>3, <3>3 DEF Agrees
  <2> QED
    BY <2>2, <2>3
<1> QED
  BY <1>8, <1>9

\* An `up` of an installed project that reports success, and that did not come after an
\* interrupted one, leaves every service running and monitored; where every service ran
\* what its file said, none is left to run an old definition.
THEOREM InstalledUpIsHonest == Spec => UpHonest
<1>1. Inv /\ ServiceInv /\ [Next]_vars =>
        [ExitsOk /\ cmd.cmd = "up" /\ cmd.names = <<>> /\ seen.held =>
           /\ Listed(cmd.file) \subseteq Running(mgr')
           /\ MonitoredIn(cmd.file) \subseteq mgr'.timers
           /\ seen.fresh => \A s \in Listed(cmd.file) : mgr'.live[s] = Hash(cmd.file, s)]_vars
  BY UpStep
<1> QED
  BY <1>1, SpecService, PTL DEF Spec, UpHonest

=============================================================================
