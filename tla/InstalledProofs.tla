-------------------------- MODULE InstalledProofs --------------------------
(***************************************************************************)
(* Theorems about InstalledProject, for any services, compose files,       *)
(* command lines, faults and bounds.                                       *)
(*                                                                         *)
(* The inductive invariant says of each point of a command what holds of   *)
(* the files and of the manager when the command stands there: CmdInv.     *)
(***************************************************************************)
EXTENDS InstalledProject, CommonProofs, SequenceTheorems

\* What the file of a unit may say.
Written(u) == {NoFile} \cup {Generated(f, u) : f \in {g \in Files : u \in DesiredUnits(g)}}

ManagerOk(m) == m \in Installed /\ \A u \in Unit : m.held[u] \in Written(u)
DiskOk(d) == d \in [Unit -> Content \cup {NoFile}] /\ \A u \in Unit : d[u] \in Written(u)

\* The manager holds no definition that differs from the file.
Holds(m, d) == \A u \in Unit : m.held[u] \in {d[u], NoFile}

\* The command changed a file and has its reload before it.
Pending(P) == P.changed /\ P.pc \in {"sync", "orphans", "stopOrphan", "unlink", "reload"}

\* An uninstall: it stands before the removal, removes all there is, or has removed it.
UninstallInv(P, d, m) ==
    /\ P.pc \in {"stop", "disable", "unlink", "reload"}
    /\ P.pc \in {"stop", "disable"} => ~P.changed
    /\ P.pc = "unlink" => OnDisk(d) \subseteq P.left
    /\ P.pc = "reload" => OnDisk(d) = {}
    /\ P.pc \in {"unlink", "reload"} => P.failed \/ ~m.enabled

CmdInv(P, d, m, calm) ==
    /\ WellFormed(P)
    /\ P.pc = "sync" /\ P.at # Target => d[Target] # NoFile
    /\ P.pc = "unlink" /\ Target \in P.left => OnDisk(d) \subseteq P.left
    /\ calm /\ ~Pending(P) => Holds(m, d)
    /\ P.cmd = "uninstall" => UninstallInv(P, d, m)

\* What the manager holds is not behind the files when a command begins: none was
\* interrupted before its reload, or nothing came of it.
Calm == ~seen.interrupted \/ seen.held

Inv ==
    /\ file \in Files
    /\ DiskOk(disk)
    /\ ManagerOk(mgr)
    /\ budget \in [faults : 0..MaxFaults, edits : 0..MaxEdits]
    /\ seen \in [held : BOOLEAN, fresh : BOOLEAN, synced : BOOLEAN, interrupted : BOOLEAN]
    /\ CmdInv(cmd, disk, mgr, Calm)
    /\ NoHeadlessProject

-----------------------------------------------------------------------------
\* The manager: what it holds stays what some file says.

\* A generated file has a content, and that of a service is a hash.
LEMMA GeneratedContent ==
    ASSUME NEW f \in Files, NEW u \in DesiredUnits(f)
    PROVE  /\ u \in Unit
           /\ Generated(f, u) \in Content /\ Generated(f, u) # NoFile
           /\ Generated(f, u) \in Written(u)
           /\ u # Target => u.of \in Listed(f)
           /\ u # Target /\ u.kind = "main" => Generated(f, u) \in Hashes
           /\ u # Target /\ u.kind # "main" => HasHealth(f, u.of)
<1>1. Listed(f) \subseteq Service /\ \A s \in Listed(f) : f.def[s] \in Definition /\ Hash(f, s) \in Hashes
  BY ListedServices
<1>2. CASE u = Target
  <2>1. Wanted(f) \subseteq ServiceUnits
    BY <1>1 DEF Wanted, MonitoredIn, MainUnit, TimerUnit, ServiceUnits
  <2>2. Generated(f, u) \in Content
    BY <1>2, <2>1 DEF Generated, Content
  <2> QED
    BY <1>2, <2>2, NoFileAssumption DEF Unit, Written
<1>3. CASE u # Target
  <2>1. u \in ServiceUnits /\ u.of \in Listed(f) /\ (u.kind # "main" => HasHealth(f, u.of))
    BY <1>1, <1>3 DEF DesiredUnits, MonitoredIn, MainUnit, ProbeUnit, TimerUnit, ServiceUnits
  <2>2. u.kind = "main" => Generated(f, u) \in Hashes
    BY <1>1, <1>3, <2>1 DEF Generated
  <2>3. u.kind # "main" => Generated(f, u) \in Variant
    <3>1. f.def[u.of].variant \in Variant
      BY <1>1, <2>1 DEF Definition
    <3> QED
      BY <1>3, <3>1 DEF Generated
  <2>4. Generated(f, u) \in Content
    BY <2>2, <2>3 DEF Content
  <2> QED
    BY <1>3, <2>1, <2>2, <2>4, NoFileAssumption DEF Unit, Written
<1> QED
  BY <1>2, <1>3

\* The definition held of a service is a hash.
LEMMA HeldMain ==
    ASSUME NEW m, ManagerOk(m), NEW s \in Service
    PROVE  MainUnit(s) \in Unit /\ m.held[MainUnit(s)] \in Hashes \cup {NoFile}
<1>1. MainUnit(s) \in ServiceUnits /\ MainUnit(s) \in Unit /\ MainUnit(s).kind = "main"
  BY DEF MainUnit, ServiceUnits, Unit
<1>2. m.held[MainUnit(s)] \in Written(MainUnit(s))
  BY <1>1 DEF ManagerOk
<1> QED
  BY <1>1, <1>2, GeneratedContent, TargetAssumption DEF Written

\* The edges are those of the definitions held.
LEMMA RequiresOfType ==
    ASSUME NEW m, ManagerOk(m)
    PROVE  RequiresOf(m) \in [Service -> SUBSET Service]
<1>1. ASSUME NEW s \in Service, m.held[MainUnit(s)] # NoFile
      PROVE  DependsOn(m.held[MainUnit(s)].own) \subseteq Service
  BY <1>1, HeldMain, HashDependencies
<1> QED
  BY <1>1 DEF RequiresOf

\* Units that can start have definitions for all they require.
LEMMA StartableHeld ==
    ASSUME NEW m, ManagerOk(m), NEW S \in SUBSET Service, \A s \in S : CanStart(m, s)
    PROVE  RequirementsOf(RequiresOf(m), S) \subseteq HeldServices(m)
<1> DEFINE req == RequiresOf(m)
           All == UNION {RequirementsOf(req, {s}) : s \in S}
<1>1. req \in [Service -> SUBSET Service] /\ DOMAIN req = Service
  BY RequiresOfType
<1> HIDE DEF req
<1>2. All \in SUBSET DOMAIN req
  BY DEF RequirementsOf
<1>3. S \subseteq All
  <2>1. \A s \in S : {s} \subseteq RequirementsOf(req, {s})
    BY <1>1, RequirementsContain
  <2> QED
    BY <2>1
<1>4. DownwardClosed(req, All)
  <2>1. \A s \in S : DownwardClosed(req, RequirementsOf(req, {s}))
    BY <1>1, RequirementsClosed
  <2> QED
    BY <2>1 DEF DownwardClosed
<1>5. RequirementsOf(req, S) \subseteq All
  BY <1>2, <1>3, <1>4 DEF RequirementsOf
<1>6. All \subseteq HeldServices(m)
  BY DEF CanStart, req
<1> QED
  BY <1>5, <1>6 DEF req

\* A request that only starts or stops leaves what the manager holds and enables.
Keeps(m, n) == ManagerOk(n) /\ n.held = m.held /\ n.enabled = m.enabled

\* Services start with the definitions held.
LEMMA RunAnewOk ==
    ASSUME NEW m, ManagerOk(m), NEW R, R \subseteq HeldServices(m)
    PROVE  Keeps(m, RunAnew(m, R))
<1>1. \A s \in R : s \in Service => m.held[MainUnit(s)] \in Hashes
  BY HeldMain DEF HeldServices
<1>2. m \in Installed
  BY DEF ManagerOk
<1>3. [s \in Service |-> IF s \in R THEN m.held[MainUnit(s)] ELSE m.live[s]]
        \in [Service -> Hashes \cup {NoHash}]
  BY <1>1, <1>2 DEF Installed
<1>4. RunAnew(m, R) \in Installed /\ RunAnew(m, R).held = m.held /\ RunAnew(m, R).enabled = m.enabled
  BY <1>2, <1>3 DEF RunAnew, Installed
<1> QED
  BY <1>4 DEF Keeps, ManagerOk

\* systemctl start of services.
LEMMA StartServicesOk ==
    ASSUME NEW m, ManagerOk(m), NEW S \in SUBSET Service
    PROVE  Keeps(m, StartServices(m, S))
<1>1. RequirementsOf(RequiresOf(m), {s \in S : CanStart(m, s)}) \subseteq HeldServices(m)
  BY StartableHeld
<1> QED
  BY <1>1, RunAnewOk DEF StartServices

\* What can start has a definition itself.
LEMMA CanStartHeld ==
    ASSUME NEW m, ManagerOk(m), NEW s \in Service, CanStart(m, s)
    PROVE  s \in HeldServices(m)
<1>1. DOMAIN RequiresOf(m) = Service
  BY RequiresOfType
<1> QED
  BY <1>1, RequirementsContain DEF CanStart

\* systemctl restart of services.
LEMMA RestartServicesOk ==
    ASSUME NEW m, ManagerOk(m), NEW S \in SUBSET Service
    PROVE  Keeps(m, RestartServices(m, S))
<1> DEFINE able == {s \in S : CanStart(m, s)}
           again == {s \in StopSet(m, able) : CanStart(m, s)}
           n == StartServices(m, able)
<1>1. Keeps(m, n)
  BY StartServicesOk
<1>2. able \cup again \subseteq HeldServices(m)
  BY CanStartHeld DEF StopSet, Running
<1>3. HeldServices(n) = HeldServices(m)
  BY <1>1 DEF Keeps, HeldServices
<1>4. Keeps(n, RunAnew(n, able \cup again))
  BY <1>1, <1>2, <1>3, RunAnewOk DEF Keeps
<1> QED
  BY <1>1, <1>4 DEF Keeps, RestartServices

\* systemctl stop of services and of timers.
LEMMA StopOk ==
    ASSUME NEW m, ManagerOk(m), NEW S
    PROVE  Keeps(m, StopServices(m, S)) /\ Keeps(m, StopTimers(m, S))
<1>1. m \in Installed
  BY DEF ManagerOk
<1>2. /\ StopServices(m, S) \in Installed /\ StopServices(m, S).held = m.held
      /\ StopServices(m, S).enabled = m.enabled
  BY <1>1 DEF StopServices, Installed
<1>3. /\ StopTimers(m, S) \in Installed /\ StopTimers(m, S).held = m.held
      /\ StopTimers(m, S).enabled = m.enabled
  BY <1>1 DEF StopTimers, Installed
<1> QED
  BY <1>2, <1>3 DEF Keeps, ManagerOk

\* The target wants units of services.
LEMMA WantedOfServices ==
    ASSUME NEW m, ManagerOk(m), NEW kind
    PROVE  WantedBy(m, kind) \subseteq Service
<1>1. m.held[Target] \in Written(Target)
  BY DEF ManagerOk, Unit
<1>2. m.held[Target] # NoFile => \E f \in Files : m.held[Target] = [wants |-> Wanted(f)]
  BY <1>1 DEF Written, Generated
<1>3. \A f \in Files : Wanted(f) \subseteq ServiceUnits
  BY ListedServices DEF Wanted, MonitoredIn, MainUnit, TimerUnit, ServiceUnits
<1>4. ASSUME m.held[Target] # NoFile
      PROVE  m.held[Target].wants \subseteq ServiceUnits
  <2>1. PICK f \in Files : m.held[Target] = [wants |-> Wanted(f)]
    BY <1>2, <1>4
  <2>2. m.held[Target].wants = Wanted(f)
    BY <2>1
  <2> QED
    BY <1>3, <2>2
<1> QED
  BY <1>4 DEF WantedBy, ServiceUnits

\* systemctl start of the target.
LEMMA StartTargetOk ==
    ASSUME NEW m, ManagerOk(m)
    PROVE  Keeps(m, StartTarget(m))
<1> DEFINE timers == {s \in WantedBy(m, "timer") : m.held[TimerUnit(s)] # NoFile /\ CanStart(m, s)}
           n == StartServices(m, WantedBy(m, "main") \cup timers)
<1>1. WantedBy(m, "main") \subseteq Service /\ timers \subseteq Service
  BY WantedOfServices
<1>2. Keeps(m, n)
  BY <1>1, StartServicesOk
<1>3. m \in Installed /\ n \in Installed /\ m.timers \cup timers \in SUBSET Service
  BY <1>1, <1>2 DEF Keeps, ManagerOk, Installed
<1>4. StartTarget(m) = [n EXCEPT !.timers = m.timers \cup timers]
  BY DEF StartTarget
<1> HIDE DEF n, timers
<1> QED
  BY <1>2, <1>3, <1>4 DEF Keeps, ManagerOk, Installed

\* Reading files: at a reload, when a unit is first needed, and at a boot.
LEMMA ReadsOk ==
    ASSUME NEW m, ManagerOk(m), NEW d, DiskOk(d)
    PROVE  /\ ManagerOk(Reload(m, d)) /\ Holds(Reload(m, d), d) /\ Reload(m, d).enabled = m.enabled
           /\ ManagerOk(ReadFiles(m, d)) /\ ReadFiles(m, d).enabled = m.enabled
           /\ Holds(m, d) => Holds(ReadFiles(m, d), d)
           /\ ManagerOk(Booted(m, d)) /\ Holds(Booted(m, d), d)
<1>1. m \in Installed /\ d \in [Unit -> Content \cup {NoFile}]
  BY DEF ManagerOk, DiskOk
<1>2. /\ Reload(m, d) \in Installed /\ Reload(m, d).held = d /\ Reload(m, d).enabled = m.enabled
  BY <1>1 DEF Reload, Installed
<1>3. ManagerOk(Reload(m, d)) /\ Holds(Reload(m, d), d)
  BY <1>2 DEF ManagerOk, DiskOk, Holds
<1>4. /\ ReadFiles(m, d) \in Installed /\ ReadFiles(m, d).enabled = m.enabled
      /\ \A u \in Unit : ReadFiles(m, d).held[u] = IF m.held[u] = NoFile THEN d[u] ELSE m.held[u]
  BY <1>1 DEF ReadFiles, Installed
<1>5. ManagerOk(ReadFiles(m, d)) /\ (Holds(m, d) => Holds(ReadFiles(m, d), d))
  BY <1>4 DEF ManagerOk, DiskOk, Holds
<1>6. ManagerOk(Booted(m, d)) /\ Holds(Booted(m, d), d)
  <2> DEFINE fresh == [NothingInstalled EXCEPT !.held = d, !.enabled = m.enabled]
  <2>1. fresh \in Installed /\ fresh.held = d
    BY <1>1 DEF NothingInstalled, Installed
  <2>2. ManagerOk(fresh) /\ Holds(fresh, d)
    BY <2>1 DEF ManagerOk, DiskOk, Holds
  <2>3. Booted(m, d) = IF m.enabled THEN StartTarget(fresh) ELSE fresh
    BY DEF Booted
  <2> HIDE DEF fresh
  <2> QED
    BY <2>2, <2>3, StartTargetOk DEF Keeps, Holds
<1> QED
  BY <1>2, <1>3, <1>4, <1>5, <1>6

-----------------------------------------------------------------------------
\* The control flow: where a command goes on, the invariant holds.

\* A command that runs.
Body(P) == P \in Command /\ P.todo # <<>>

\* The command has ended.
LEMMA IdleInv ==
    ASSUME Files # {}, NEW failed \in BOOLEAN, NEW d, NEW m, NEW calm \in BOOLEAN,
           calm => Holds(m, d)
    PROVE  CmdInv(Idle(failed), d, m, calm)
<1>1. Idle(failed) \in Command /\ Idle(failed).pc = "idle" /\ Idle(failed).cmd = "up"
  BY DEF Idle, Command, Points, Commands, Unit
<1> QED
  BY <1>1 DEF CmdInv, WellFormed

\* At these points nothing but the definitions held matters.
LEMMA PlainInv ==
    ASSUME NEW P, Body(P), NEW d, NEW m, NEW calm \in BOOLEAN, calm => Holds(m, d),
           NEW pc \in {"enable", "start", "restart", "restartUpdated"},
           pc = "restartUpdated" => P.updated # <<>>,
           P.cmd # "uninstall"
    PROVE  CmdInv([P EXCEPT !.pc = pc], d, m, calm)
<1> DEFINE Q == [P EXCEPT !.pc = pc]
<1>1. /\ Q \in Command /\ Q.pc = pc /\ Q.cmd # "uninstall" /\ Q.todo # <<>>
      /\ Q.updated = P.updated
  BY DEF Body, Command, Points
<1> HIDE DEF Q
<1>2. CmdInv(Q, d, m, calm)
  BY <1>1 DEF CmdInv, WellFormed
<1> QED
  BY <1>2 DEF Q

\* The next unit to restart, or the start of the rest.
LEMMA RestartNextInv ==
    ASSUME NEW P, Body(P), NEW d, NEW m, NEW calm \in BOOLEAN, calm => Holds(m, d),
           P.cmd # "uninstall"
    PROVE  CmdInv(RestartNext(P), d, m, calm)
<1>1. CASE P.updated = <<>>
  BY <1>1, PlainInv DEF RestartNext
<1>2. CASE P.updated # <<>>
  BY <1>2, PlainInv DEF RestartNext
<1> QED
  BY <1>1, <1>2

\* The manager holds what the files say.
LEMMA AfterReloadInv ==
    ASSUME Files # {}, NEW P, Body(P), NEW d, NEW m, NEW calm \in BOOLEAN, calm => Holds(m, d)
    PROVE  CmdInv(AfterReload(P), d, m, calm)
<1>1. CASE P.cmd = "install"
  BY <1>1, PlainInv DEF AfterReload
<1>2. CASE P.cmd = "up"
  BY <1>2, RestartNextInv DEF AfterReload
<1>3. CASE P.cmd \notin {"install", "up"}
  <2>1. P.failed \in BOOLEAN
    BY DEF Body, Command
  <2>2. AfterReload(P) = Idle(P.failed)
    BY <1>3 DEF AfterReload, Finish
  <2> QED
    BY <2>1, <2>2, IdleInv
<1> QED
  BY <1>1, <1>2, <1>3

\* All the files are written or unlinked.
LEMMA AfterFilesInv ==
    ASSUME Files # {}, NEW P, Body(P), NEW d, NEW m, NEW calm \in BOOLEAN,
           calm /\ ~P.changed => Holds(m, d),
           P.cmd = "uninstall" /\ P.changed => OnDisk(d) = {} /\ (P.failed \/ ~m.enabled)
    PROVE  CmdInv(AfterFiles(P), d, m, calm)
<1>1. CASE P.changed
  <2> DEFINE Q == [P EXCEPT !.pc = "reload"]
  <2>1. /\ Q \in Command /\ Q.pc = "reload" /\ Q.changed /\ Q.todo # <<>>
        /\ Q.cmd = P.cmd /\ Q.failed = P.failed
    BY <1>1 DEF Body, Command, Points
  <2> HIDE DEF Q
  <2>2. CmdInv(Q, d, m, calm)
    BY <1>1, <2>1 DEF CmdInv, WellFormed, Pending, UninstallInv
  <2> QED
    BY <1>1, <2>2 DEF AfterFiles, Q
<1>2. CASE ~P.changed
  BY <1>2, AfterReloadInv DEF AfterFiles
<1> QED
  BY <1>1, <1>2

\* The first file of `units` is unlinked next.
LEMMA StartUnlinkInv ==
    ASSUME Files # {}, NEW P, Body(P), NEW d, NEW m, NEW calm \in BOOLEAN,
           calm /\ ~P.changed => Holds(m, d),
           NEW units \in SUBSET Unit,
           Target \in units => OnDisk(d) \subseteq units,
           P.cmd = "uninstall" => units = OnDisk(d) /\ (P.failed \/ ~m.enabled)
    PROVE  CmdInv(StartUnlink(P, units), d, m, calm)
<1>1. CASE units = {}
  BY <1>1, AfterFilesInv DEF StartUnlink
<1>2. CASE units # {}
  <2> DEFINE Q == [P EXCEPT !.pc = "unlink", !.left = units]
  <2>1. /\ Q \in Command /\ Q.pc = "unlink" /\ Q.left = units /\ Q.todo # <<>>
        /\ Q.cmd = P.cmd /\ Q.failed = P.failed /\ Q.changed = P.changed
    BY DEF Body, Command, Points
  <2> HIDE DEF Q
  <2>2. CmdInv(Q, d, m, calm)
    BY <1>2, <2>1 DEF CmdInv, WellFormed, Pending, UninstallInv
  <2> QED
    BY <1>2, <2>2 DEF StartUnlink, Q
<1> QED
  BY <1>1, <1>2

\* The last file is compared.
LEMMA SyncedInv ==
    ASSUME Files # {}, NEW P, Body(P), NEW d, NEW m, NEW calm \in BOOLEAN,
           calm /\ ~P.changed => Holds(m, d), P.cmd # "uninstall"
    PROVE  CmdInv(Synced(P), d, m, calm)
<1>1. CASE P.purge
  <2> DEFINE Q == [P EXCEPT !.pc = "orphans"]
  <2>1. Q \in Command /\ Q.pc = "orphans" /\ Q.todo # <<>> /\ Q.cmd = P.cmd /\ Q.changed = P.changed
    BY DEF Body, Command, Points
  <2> HIDE DEF Q
  <2>2. CmdInv(Q, d, m, calm)
    BY <2>1 DEF CmdInv, WellFormed, Pending
  <2> QED
    BY <1>1, <2>2 DEF Synced, Q
<1>2. CASE ~P.purge
  BY <1>2, AfterFilesInv DEF Synced
<1> QED
  BY <1>1, <1>2

\* A turn of the loop of sync_unit_files leads to a file to compare, or ends it.
LEMMA AfterSyncInv ==
    ASSUME Files # {}, NEW P, Body(P), P.pc = "sync", NEW d, NEW m, NEW calm \in BOOLEAN,
           P.at \in DesiredUnits(P.file), P.at = Target \/ P.at.of = Head(P.todo),
           \A i \in DOMAIN P.todo : P.todo[i] \in Listed(P.file),
           d[Target] # NoFile, P.cmd # "uninstall",
           calm /\ ~P.changed => Holds(m, d)
    PROVE  CmdInv(AfterSync(P), d, m, calm)
<1>0. P.file \in Files /\ P.todo \in Seq(Service) /\ P.todo # <<>>
  BY DEF Body, Command
<1>1. Head(P.todo) \in Listed(P.file)
  BY <1>0
<1>2. ASSUME NEW u, u \in DesiredUnits(P.file), u \in ServiceUnits, NEW todo \in Seq(Service), todo # <<>>,
             u.of = Head(todo), \A i \in DOMAIN todo : todo[i] \in Listed(P.file)
      PROVE  CmdInv([P EXCEPT !.todo = todo, !.at = u], d, m, calm)
  <2> DEFINE Q == [P EXCEPT !.todo = todo, !.at = u]
  <2>1. u \in Unit
    BY <1>2 DEF Unit
  <2>2. /\ Q \in Command /\ Q.pc = "sync" /\ Q.todo = todo /\ Q.at = u /\ Q.file = P.file
        /\ Q.cmd = P.cmd /\ Q.changed = P.changed
    BY <2>1 DEF Body, Command
  <2> HIDE DEF Q
  <2>3. CmdInv(Q, d, m, calm)
    BY <1>2, <2>2 DEF CmdInv, WellFormed, Pending
  <2> QED
    BY <2>3 DEF Q
<1>3. ASSUME NEW u, u \in DesiredUnits(P.file), u \in ServiceUnits, u.of = Head(P.todo)
      PROVE  CmdInv([P EXCEPT !.at = u], d, m, calm)
  <2>1. [P EXCEPT !.at = u] = [P EXCEPT !.todo = P.todo, !.at = u]
    BY DEF Body, Command
  <2> QED
    BY <1>0, <1>2, <1>3, <2>1
<1>4. ASSUME NEW s \in Listed(P.file)
      PROVE  /\ MainUnit(s) \in DesiredUnits(P.file) /\ MainUnit(s) \in ServiceUnits /\ MainUnit(s).of = s
             /\ HasHealth(P.file, s) =>
                  /\ ProbeUnit(s) \in DesiredUnits(P.file) /\ ProbeUnit(s) \in ServiceUnits /\ ProbeUnit(s).of = s
                  /\ TimerUnit(s) \in DesiredUnits(P.file) /\ TimerUnit(s) \in ServiceUnits /\ TimerUnit(s).of = s
  <2>1. s \in Service
    BY <1>0, ListedServices
  <2> QED
    BY <2>1 DEF DesiredUnits, MonitoredIn, MainUnit, ProbeUnit, TimerUnit, ServiceUnits
<1>5. CASE P.at = Target
  BY <1>1, <1>3, <1>4, <1>5 DEF AfterSync
<1>6. CASE P.at # Target /\ P.at.kind = "main" /\ HasHealth(P.file, P.at.of)
  <2>1. AfterSync(P) = [P EXCEPT !.at = ProbeUnit(P.at.of)]
    BY <1>6 DEF AfterSync
  <2> QED
    BY <1>1, <1>3, <1>4, <1>6, <2>1
<1>7. CASE P.at # Target /\ P.at.kind = "probe"
  <2>1. AfterSync(P) = [P EXCEPT !.at = TimerUnit(P.at.of)]
    BY <1>7 DEF AfterSync
  <2>2. HasHealth(P.file, P.at.of)
    BY <1>0, <1>7, GeneratedContent
  <2> QED
    BY <1>1, <1>3, <1>4, <1>7, <2>1, <2>2
<1>8. CASE /\ P.at # Target /\ P.at.kind # "probe"
           /\ ~(P.at.kind = "main" /\ HasHealth(P.file, P.at.of))
  <2> DEFINE rest == Tail(P.todo)
  <2>1. AfterSync(P) = NextSynced(P)
    BY <1>8 DEF AfterSync
  <2>2. rest \in Seq(Service) /\ \A i \in DOMAIN rest : rest[i] \in Listed(P.file)
    BY <1>0
  <2>3. CASE rest = <<>>
    BY <2>1, <2>3, SyncedInv DEF NextSynced
  <2>4. CASE rest # <<>>
    <3>1. Head(rest) \in Listed(P.file)
      BY <2>2, <2>4
    <3>2. AfterSync(P) = [P EXCEPT !.todo = rest, !.at = MainUnit(Head(rest))]
      BY <2>1, <2>4 DEF NextSynced
    <3> HIDE DEF rest
    <3> DEFINE u == MainUnit(Head(rest))
    <3>3. u \in DesiredUnits(P.file) /\ u \in ServiceUnits /\ u.of = Head(rest)
      BY <1>4, <3>1
    <3> HIDE DEF u
    <3>4. CmdInv([P EXCEPT !.todo = rest, !.at = u], d, m, calm)
      BY <1>2, <2>2, <2>4, <3>3
    <3> QED
      BY <3>2, <3>4 DEF u
  <2> QED
    BY <2>3, <2>4
<1> QED
  BY <1>5, <1>6, <1>7, <1>8

\* The orphans are files of services.
LEMMA OrphansOfServices ==
    ASSUME NEW f
    PROVE  Orphans(f) \in SUBSET Unit /\ Orphans(f) \subseteq ServiceUnits /\ Target \notin Orphans(f)
  BY TargetAssumption DEF Orphans, OnDisk, Unit

\* The orphans are stopped or unlinked next.
LEMMA AfterListInv ==
    ASSUME Files # {}, NEW P, Body(P), NEW d, NEW m, NEW calm \in BOOLEAN,
           calm /\ ~P.changed => Holds(m, d), P.cmd # "uninstall",
           NEW units \in SUBSET Unit, units \subseteq ServiceUnits
    PROVE  CmdInv(AfterList(P, units), d, m, calm)
<1>1. CASE P.cmd = "install" \/ units = {}
  BY <1>1, StartUnlinkInv, TargetAssumption DEF AfterList
<1>2. CASE ~(P.cmd = "install" \/ units = {})
  <2> DEFINE Q == [P EXCEPT !.pc = "stopOrphan", !.left = units]
  <2>1. /\ Q \in Command /\ Q.pc = "stopOrphan" /\ Q.left = units /\ Q.todo # <<>>
        /\ Q.cmd = P.cmd /\ Q.changed = P.changed
    BY DEF Body, Command, Points
  <2> HIDE DEF Q
  <2>2. CmdInv(Q, d, m, calm)
    BY <1>2, <2>1 DEF CmdInv, WellFormed, Pending
  <2> QED
    BY <1>2, <2>2 DEF AfterList, Q
<1> QED
  BY <1>1, <1>2

\* The next orphan is stopped, or the orphans are unlinked.
LEMMA AfterOrphanInv ==
    ASSUME Files # {}, NEW P, Body(P), P.pc = "stopOrphan", P.left \subseteq ServiceUnits,
           NEW u \in P.left, NEW d, NEW m, NEW calm \in BOOLEAN,
           calm /\ ~P.changed => Holds(m, d), P.cmd # "uninstall"
    PROVE  CmdInv(AfterOrphan(P, u), d, m, calm)
<1>1. CASE P.left = {u}
  <2> DEFINE Q == [P EXCEPT !.left = {}]
  <2>1. Body(Q) /\ Q.changed = P.changed /\ Q.cmd = P.cmd
    BY DEF Body, Command
  <2>2. AfterOrphan(P, u) = StartUnlink(Q, Orphans(P.file))
    BY <1>1 DEF AfterOrphan
  <2> HIDE DEF Q
  <2> QED
    BY <2>1, <2>2, OrphansOfServices, StartUnlinkInv
<1>2. CASE P.left # {u}
  <2> DEFINE Q == [P EXCEPT !.left = P.left \ {u}]
  <2>1. /\ Q \in Command /\ Q.pc = "stopOrphan" /\ Q.left = P.left \ {u} /\ Q.todo # <<>>
        /\ Q.cmd = P.cmd /\ Q.changed = P.changed
    BY DEF Body, Command
  <2> HIDE DEF Q
  <2>2. CmdInv(Q, d, m, calm)
    BY <1>2, <2>1 DEF CmdInv, WellFormed, Pending
  <2> QED
    BY <1>2, <2>2 DEF AfterOrphan, Q
<1> QED
  BY <1>1, <1>2

\* The files are unlinked by name: the next one is among them, and the target
\* comes last.
LEMMA FirstUnitOf ==
    ASSUME NEW U \in SUBSET Unit, U # {}
    PROVE  /\ FirstUnit(U) \in U /\ \A v \in U : NameRank[FirstUnit(U)] <= NameRank[v]
           /\ FirstUnit(U) = Target => U = {Target}
<1> DEFINE T == {NameRank[u] : u \in U}
<1>1. T \subseteq Nat /\ T # {}
  BY NameRankAssumption
<1>2. PICK x \in T : \A y \in T : x <= y
  BY <1>1, LeastNat
<1>3. \E u \in U : \A v \in U : NameRank[u] <= NameRank[v]
  BY <1>2
<1>4. FirstUnit(U) \in U /\ \A v \in U : NameRank[FirstUnit(U)] <= NameRank[v]
  BY <1>3 DEF FirstUnit
<1>5. ASSUME FirstUnit(U) = Target, NEW v \in U PROVE v = Target
  <2>1. NameRank[Target] <= NameRank[v]
    BY <1>4, <1>5
  <2>2. NameRank[Target] \in Nat /\ NameRank[v] \in Nat
    BY NameRankAssumption DEF Unit
  <2>3. v \in ServiceUnits => NameRank[v] < NameRank[Target]
    BY NameRankAssumption
  <2> QED
    BY <2>1, <2>2, <2>3 DEF Unit
<1> QED
  BY <1>4, <1>5

Without(d, u) == [d EXCEPT ![u] = NoFile]
Headless(d) == OnDisk(d) # {} /\ Target \notin OnDisk(d)

\* A file is unlinked: the target never before the others.
LEMMA AfterUnlinkInv ==
    ASSUME Files # {}, NEW P, NEW d, DiskOk(d), NEW m, NEW calm \in BOOLEAN,
           CmdInv(P, d, m, calm), P.pc = "unlink", ~Headless(d)
    PROVE  /\ CmdInv(AfterUnlink(P, FirstUnit(P.left)), Without(d, FirstUnit(P.left)), m, calm)
           /\ DiskOk(Without(d, FirstUnit(P.left)))
           /\ ~Headless(Without(d, FirstUnit(P.left)))
<1> DEFINE u == FirstUnit(P.left)
           e == Without(d, u)
           Q == [P EXCEPT !.left = P.left \ {u}, !.changed = TRUE]
<1>1. Body(P) /\ P.left \in SUBSET Unit /\ P.left # {}
  BY DEF CmdInv, WellFormed, Body, Command
<1>2. u \in P.left /\ u \in Unit /\ (u = Target => P.left = {Target})
  BY <1>1, FirstUnitOf
<1> HIDE DEF u
<1>3. e = [d EXCEPT ![u] = NoFile]
  BY DEF Without
<1> HIDE DEF e
<1>4. DiskOk(e) /\ OnDisk(e) = OnDisk(d) \ {u}
  BY <1>2, <1>3 DEF DiskOk, Written, OnDisk
<1>5. /\ Target \in P.left => OnDisk(d) \subseteq P.left
      /\ P.cmd = "uninstall" => OnDisk(d) \subseteq P.left /\ (P.failed \/ ~m.enabled)
  BY DEF CmdInv, UninstallInv
<1>6. ~Headless(e)
  BY <1>2, <1>4, <1>5 DEF Headless
<1>7. /\ Q \in Command /\ Q.pc = "unlink" /\ Q.left = P.left \ {u} /\ Q.changed /\ Q.todo # <<>>
      /\ Q.cmd = P.cmd /\ Q.failed = P.failed
  BY <1>1 DEF Body, Command
<1>8. AfterUnlink(P, u) = IF P.left \ {u} = {} THEN AfterFiles(Q) ELSE Q
  BY DEF AfterUnlink
<1> HIDE DEF Q
<1>9. CASE P.left \ {u} = {}
  <2>1. Body(Q)
    BY <1>7 DEF Body
  <2>2. CmdInv(AfterFiles(Q), e, m, calm)
    BY <1>4, <1>5, <1>7, <1>9, <2>1, AfterFilesInv
  <2> QED
    BY <1>4, <1>6, <1>8, <1>9, <2>2 DEF u, e
<1>10. CASE P.left \ {u} # {}
  <2>1. CmdInv(Q, e, m, calm)
    BY <1>4, <1>5, <1>7, <1>10 DEF CmdInv, WellFormed, Pending, UninstallInv
  <2> QED
    BY <1>4, <1>6, <1>8, <1>10, <2>1 DEF u, e
<1> QED
  BY <1>9, <1>10

\* The units are stopped.
LEMMA AfterStopInv ==
    ASSUME Files # {}, NEW P, Body(P), NEW d, NEW m, NEW calm \in BOOLEAN,
           calm => Holds(m, d), P.cmd = "uninstall" => ~P.changed
    PROVE  CmdInv(AfterStop(P), d, m, calm)
<1>1. CASE P.cmd = "uninstall"
  <2> DEFINE Q == [P EXCEPT !.pc = "disable"]
  <2>1. Q \in Command /\ Q.pc = "disable" /\ Q.todo # <<>> /\ Q.cmd = P.cmd /\ Q.changed = P.changed
    BY DEF Body, Command, Points
  <2> HIDE DEF Q
  <2>2. CmdInv(Q, d, m, calm)
    BY <1>1, <2>1 DEF CmdInv, WellFormed, UninstallInv
  <2> QED
    BY <1>1, <2>2 DEF AfterStop, Q
<1>2. CASE P.cmd = "down" /\ P.purge
  <2> DEFINE Q == [P EXCEPT !.pc = "orphans"]
  <2>1. Q \in Command /\ Q.pc = "orphans" /\ Q.todo # <<>> /\ Q.cmd = P.cmd /\ Q.changed = P.changed
    BY DEF Body, Command, Points
  <2> HIDE DEF Q
  <2>2. CmdInv(Q, d, m, calm)
    BY <1>2, <2>1 DEF CmdInv, WellFormed, Pending
  <2> QED
    BY <1>2, <2>2 DEF AfterStop, Q
<1>3. CASE P.cmd # "uninstall" /\ ~(P.cmd = "down" /\ P.purge)
  <2>1. P.failed \in BOOLEAN /\ AfterStop(P) = Idle(P.failed)
    BY <1>3 DEF Body, Command, AfterStop, Finish
  <2> QED
    BY <2>1, IdleInv
<1> QED
  BY <1>1, <1>2, <1>3

-----------------------------------------------------------------------------
\* The actions.

\* What the invariant says of a command that runs.
LEMMA RunningCommand ==
    ASSUME Inv, cmd.pc # "idle"
    PROVE  /\ Files # {} /\ Body(cmd) /\ WellFormed(cmd)
           /\ cmd.file \in Files /\ cmd.names \in Seq(Service) /\ cmd.updated \in Seq(Service)
           /\ cmd.changed \in BOOLEAN /\ cmd.failed \in BOOLEAN /\ cmd.left \in SUBSET Unit
           /\ Calm \in BOOLEAN
           /\ Calm /\ ~Pending(cmd) => Holds(mgr, disk)
           /\ Calm /\ ~cmd.changed => Holds(mgr, disk)
           /\ cmd.cmd = "uninstall" => UninstallInv(cmd, disk, mgr)
  BY DEF Inv, CmdInv, WellFormed, Body, Command, Pending, Calm

\* A step of a command keeps the history typed and forgets no interrupt.
LEMMA GoesHistory ==
    ASSUME Inv, NEW P, Goes(P)
    PROVE  /\ cmd' = P /\ (Calm' => Calm) /\ Calm' \in BOOLEAN
           /\ seen' \in [held : BOOLEAN, fresh : BOOLEAN,
                         synced : BOOLEAN, interrupted : BOOLEAN]
<1> DEFINE synced == seen.synced \/ Syncs(P)
<1>1. synced \in BOOLEAN
  OBVIOUS
<1>2. seen' = seen \/ seen' = [Forget(seen) EXCEPT !.synced = synced]
  BY DEF Goes
<1> HIDE DEF synced
<1>3. seen \in [held : BOOLEAN, fresh : BOOLEAN, synced : BOOLEAN, interrupted : BOOLEAN]
  BY DEF Inv
<1>4. cmd' = P
  BY DEF Goes
<1> QED
  BY <1>1, <1>2, <1>3, <1>4 DEF Forget, Calm

\* What is left to show of a step of a command.
LEMMA GoesInv ==
    ASSUME Inv, NEW P, Goes(P), file' = file,
           budget' \in [faults : 0..MaxFaults, edits : 0..MaxEdits],
           DiskOk(disk'), ManagerOk(mgr'), NoHeadlessProject',
           CmdInv(P, disk', mgr', Calm)
    PROVE  Inv'
<1>1. CmdInv(cmd', disk', mgr', Calm')
  BY GoesHistory DEF CmdInv
<1> QED
  BY <1>1, GoesHistory DEF Inv

\* A step that writes no file leaves the files as they are.
LEMMA SameFiles ==
    ASSUME Inv, UNCHANGED <<file, disk, budget>>
    PROVE  /\ file' = file /\ disk' = disk /\ DiskOk(disk') /\ NoHeadlessProject'
           /\ budget' \in [faults : 0..MaxFaults, edits : 0..MaxEdits]
  BY DEF Inv, NoHeadlessProject

\* sync_unit_files writes the target first, and counts what it changes.
LEMMA SyncFileInv ==
    ASSUME Inv, SyncFile
    PROVE  Inv'
<1> DEFINE old == disk[cmd.at]
           new == Generated(cmd.file, cmd.at)
           updated == IF RestartsService(cmd, old) THEN Append(cmd.updated, cmd.at.of) ELSE cmd.updated
           changed == cmd.changed \/ old # new
           P == [cmd EXCEPT !.changed = changed, !.updated = updated]
<1>1. /\ cmd.pc = "sync" /\ disk' = [disk EXCEPT ![cmd.at] = new] /\ Goes(AfterSync(P))
      /\ UNCHANGED <<file, mgr, budget>>
  BY DEF SyncFile
<1>2. /\ cmd.at \in DesiredUnits(cmd.file) /\ (cmd.at = Target \/ cmd.at.of = Head(cmd.todo))
      /\ \A i \in DOMAIN cmd.todo : cmd.todo[i] \in Listed(cmd.file)
  BY <1>1, RunningCommand DEF WellFormed
<1>3. cmd.at \in Unit /\ new # NoFile /\ new \in Content /\ new \in Written(cmd.at)
  BY <1>1, <1>2, RunningCommand, GeneratedContent
<1>4. cmd.cmd # "uninstall"
  BY <1>1, RunningCommand DEF UninstallInv
<1>5. updated \in Seq(Service)
  <2>1. cmd.at # Target => cmd.at.of \in Service
    BY <1>1, <1>2, RunningCommand, GeneratedContent, ListedServices
  <2> QED
    BY <1>1, <2>1, RunningCommand DEF RestartsService
<1>6. changed \in BOOLEAN
  OBVIOUS
<1> DEFINE d == disk'
<1>7. DiskOk(d) /\ d[Target] # NoFile /\ (~changed => d = disk)
  <2>1. DiskOk(disk) /\ (cmd.at # Target => disk[Target] # NoFile)
    BY <1>1 DEF Inv, CmdInv
  <2>2. d[Target] # NoFile
    BY <1>1, <1>3, <2>1 DEF DiskOk, Unit
  <2>3. DiskOk(d)
    BY <1>1, <1>3, <2>1 DEF DiskOk
  <2>4. ~changed => d = disk
    BY <1>1, <1>3, <2>1 DEF DiskOk
  <2> QED
    BY <2>2, <2>3, <2>4
<1>8. NoHeadlessProject'
  BY <1>7 DEF NoHeadlessProject, OnDisk, Unit
<1> HIDE DEF updated, changed, d
<1>9. /\ Body(P) /\ P.pc = "sync" /\ P.at = cmd.at /\ P.file = cmd.file /\ P.todo = cmd.todo
      /\ P.cmd = cmd.cmd /\ P.changed = changed
  BY <1>1, <1>5, <1>6, RunningCommand DEF Body, Command
<1>10. Calm /\ ~changed => Holds(mgr, d)
  <2>1. ~changed => ~cmd.changed
    BY DEF changed
  <2> QED
    BY <1>1, <1>7, <2>1, RunningCommand
<1> HIDE DEF P
<1>11. CmdInv(AfterSync(P), d, mgr, Calm)
  BY <1>1, <1>2, <1>4, <1>7, <1>9, <1>10, RunningCommand, AfterSyncInv
<1>12. mgr' = mgr /\ ManagerOk(mgr) /\ budget' \in [faults : 0..MaxFaults, edits : 0..MaxEdits]
  BY <1>1 DEF Inv
<1> QED
  BY <1>1, <1>7, <1>8, <1>11, <1>12, GoesInv DEF d

\* The orphans are listed, stopped and unlinked.
LEMMA ListOrphansInv ==
    ASSUME Inv, ListOrphans
    PROVE  Inv'
<1>1. /\ cmd.pc = "orphans" /\ Goes(AfterList(cmd, Orphans(cmd.file)))
      /\ mgr' = mgr /\ UNCHANGED <<file, disk, budget>>
  BY DEF ListOrphans
<1>2. cmd.cmd # "uninstall"
  BY <1>1, RunningCommand DEF UninstallInv
<1>3. CmdInv(AfterList(cmd, Orphans(cmd.file)), disk, mgr, Calm)
  BY <1>1, <1>2, RunningCommand, OrphansOfServices, AfterListInv
<1> QED
  BY <1>1, <1>3, SameFiles, GoesInv DEF Inv

\* An orphan to stop is a unit of a service.
LEMMA OrphanToStop ==
    ASSUME Inv, cmd.pc = "stopOrphan"
    PROVE  /\ FirstUnit(cmd.left) \in cmd.left /\ cmd.left \subseteq ServiceUnits
           /\ cmd.cmd # "uninstall"
  BY RunningCommand, FirstUnitOf DEF WellFormed, UninstallInv

\* The orphans are stopped one after the other.
LEMMA StopOrphanInv ==
    ASSUME Inv, StopOrphan
    PROVE  Inv'
<1> DEFINE u == FirstUnit(cmd.left)
<1>1. /\ cmd.pc = "stopOrphan" /\ mgr' = StopUnit(mgr, u) /\ Goes(AfterOrphan(cmd, u))
      /\ UNCHANGED <<file, disk, budget>>
  BY DEF StopOrphan
<1>2. ManagerOk(mgr)
  BY DEF Inv
<1>3. Keeps(mgr, mgr')
  BY <1>1, <1>2, StopOk DEF StopUnit, Keeps
<1>4. Calm /\ ~cmd.changed => Holds(mgr', disk)
  BY <1>1, <1>3, RunningCommand DEF Keeps, Holds
<1>5. CmdInv(AfterOrphan(cmd, u), disk, mgr', Calm)
  BY <1>1, <1>4, RunningCommand, OrphanToStop, AfterOrphanInv
<1> QED
  BY <1>1, <1>3, <1>5, SameFiles, GoesInv DEF Keeps

\* A file is unlinked.
LEMMA UnlinkInv ==
    ASSUME Inv, Unlink
    PROVE  Inv'
<1> DEFINE u == FirstUnit(cmd.left)
<1>1. /\ cmd.pc = "unlink" /\ disk' = Without(disk, u)
      /\ Goes(AfterUnlink(cmd, u)) /\ UNCHANGED <<file, mgr, budget>>
  BY DEF Unlink, Without
<1>2. /\ DiskOk(disk) /\ ManagerOk(mgr) /\ CmdInv(cmd, disk, mgr, Calm)
      /\ ~Headless(disk)
      /\ budget \in [faults : 0..MaxFaults, edits : 0..MaxEdits]
  BY DEF Inv, NoHeadlessProject, Headless
<1>3. /\ CmdInv(AfterUnlink(cmd, u), Without(disk, u), mgr, Calm)
      /\ DiskOk(Without(disk, u)) /\ ~Headless(Without(disk, u))
  BY <1>1, <1>2, RunningCommand, AfterUnlinkInv
<1>4. DiskOk(disk') /\ ~Headless(disk') /\ ManagerOk(mgr')
  BY <1>1, <1>2, <1>3
<1>5. NoHeadlessProject'
  BY <1>4 DEF NoHeadlessProject, Headless
<1>6. CmdInv(AfterUnlink(cmd, u), disk', mgr', Calm)
  BY <1>1, <1>3
<1> QED
  BY <1>1, <1>2, <1>4, <1>5, <1>6, GoesInv

\* The manager reads what the files say.
LEMMA DaemonReloadInv ==
    ASSUME Inv, DaemonReload
    PROVE  Inv'
<1>1. /\ cmd.pc = "reload" /\ mgr' = Reload(mgr, disk) /\ cmd' = AfterReload(cmd)
      /\ seen' = [IF cmd'.pc = "idle" THEN Forget(seen) ELSE seen EXCEPT !.interrupted = FALSE]
      /\ UNCHANGED <<file, disk, budget>>
  BY DEF DaemonReload
<1>2. ManagerOk(mgr') /\ Holds(mgr', disk)
  BY <1>1, ReadsOk DEF Inv
<1>3. \A calm \in BOOLEAN : CmdInv(AfterReload(cmd), disk, mgr', calm)
  BY <1>1, <1>2, RunningCommand, AfterReloadInv
<1>4. /\ Calm' \in BOOLEAN
      /\ seen' \in [held : BOOLEAN, fresh : BOOLEAN, synced : BOOLEAN, interrupted : BOOLEAN]
  <2>1. seen \in [held : BOOLEAN, fresh : BOOLEAN, synced : BOOLEAN, interrupted : BOOLEAN]
    BY DEF Inv
  <2>2. \/ seen' = [seen EXCEPT !.interrupted = FALSE]
        \/ seen' = [Forget(seen) EXCEPT !.interrupted = FALSE]
    BY <1>1
  <2> QED
    BY <2>1, <2>2 DEF Forget, Calm
<1>5. CmdInv(cmd', disk', mgr', Calm')
  BY <1>1, <1>3, <1>4
<1> QED
  BY <1>1, <1>2, <1>4, <1>5, SameFiles DEF Inv

\* Enabling reloads, and the install goes on or ends.
LEMMA EnableInv ==
    ASSUME Inv, Enable
    PROVE  Inv'
<1> DEFINE P == IF cmd.now THEN [cmd EXCEPT !.pc = "start"] ELSE Finish(cmd)
<1>1. /\ cmd.pc = "enable" /\ mgr' = [Reload(mgr, disk) EXCEPT !.enabled = TRUE] /\ Goes(P)
      /\ UNCHANGED <<file, disk, budget>>
  BY DEF Enable
<1>2. ManagerOk(Reload(mgr, disk)) /\ Holds(Reload(mgr, disk), disk)
  BY ReadsOk DEF Inv
<1>3. mgr' \in Installed /\ mgr'.held = Reload(mgr, disk).held
  BY <1>1, <1>2 DEF ManagerOk, Installed
<1>4. ManagerOk(mgr') /\ Holds(mgr', disk)
  BY <1>2, <1>3 DEF ManagerOk, Holds
<1>5. cmd.cmd # "uninstall"
  BY <1>1, RunningCommand DEF UninstallInv
<1>6. CmdInv(P, disk, mgr', Calm)
  BY <1>1, <1>4, <1>5, RunningCommand, PlainInv, IdleInv DEF Finish
<1> HIDE DEF P
<1> QED
  BY <1>1, <1>4, <1>6, SameFiles, GoesInv

\* Where an uninstall has disabled the target, or failed to, every file goes.
LEMMA StartRemovalInv ==
    ASSUME Inv, cmd.pc = "disable", NEW m, NEW failure \in BOOLEAN, failure \/ ~m.enabled,
           Calm => Holds(m, disk)
    PROVE  CmdInv(StartUnlink(Note(cmd, failure), ProjectUnits), disk, m, Calm)
<1> DEFINE P == Note(cmd, failure)
<1>1. P.changed = cmd.changed /\ P.failed = (cmd.failed \/ failure) /\ P.cmd = cmd.cmd /\ Body(P)
  BY RunningCommand DEF Note, Body, Command
<1> HIDE DEF P
<1>2. ProjectUnits \in SUBSET Unit /\ ProjectUnits = OnDisk(disk)
  BY DEF ProjectUnits, OnDisk
<1>3. P.failed \/ ~m.enabled
  BY <1>1
<1>4. CmdInv(StartUnlink(P, ProjectUnits), disk, m, Calm)
  BY <1>1, <1>2, <1>3, RunningCommand, StartUnlinkInv
<1> QED
  BY <1>4 DEF P

\* Disabling reloads too, unless the target has no file.
LEMMA DisableInv ==
    ASSUME Inv, Disable
    PROVE  Inv'
<1> DEFINE none == disk[Target] = NoFile
<1>1. /\ cmd.pc = "disable"
      /\ mgr' = IF none THEN mgr ELSE [Reload(mgr, disk) EXCEPT !.enabled = FALSE]
      /\ Goes(StartUnlink(Note(cmd, none), ProjectUnits))
      /\ UNCHANGED <<file, disk, budget>>
  BY DEF Disable
<1>2. ManagerOk(Reload(mgr, disk)) /\ Holds(Reload(mgr, disk), disk) /\ ManagerOk(mgr)
  BY ReadsOk DEF Inv
<1>3. ASSUME ~none
      PROVE  ManagerOk(mgr') /\ Holds(mgr', disk) /\ ~mgr'.enabled
  <2>1. mgr' \in Installed /\ mgr'.held = Reload(mgr, disk).held /\ mgr'.enabled = FALSE
    BY <1>1, <1>2, <1>3 DEF ManagerOk, Installed
  <2> QED
    BY <1>2, <2>1 DEF ManagerOk, Holds
<1>4. Calm => Holds(mgr, disk)
  BY <1>1, RunningCommand DEF Pending
<1>5. ManagerOk(mgr') /\ (Calm => Holds(mgr', disk)) /\ (none \/ ~mgr'.enabled)
  BY <1>1, <1>2, <1>3, <1>4
<1>6. none \in BOOLEAN
  OBVIOUS
<1> HIDE DEF none
<1>7. CmdInv(StartUnlink(Note(cmd, none), ProjectUnits), disk, mgr', Calm)
  BY <1>1, <1>5, <1>6, StartRemovalInv
<1> QED
  BY <1>1, <1>5, <1>7, SameFiles, GoesInv

\* What systemctl is asked of the target or of the services named.
LEMMA RequestsOk ==
    ASSUME NEW m, ManagerOk(m), NEW names \in Seq(Service)
    PROVE  /\ Keeps(m, StartRequest(m, names))
           /\ Keeps(m, RestartRequest(m, names))
           /\ Keeps(m, StopRequest(m, names))
<1>1. Range(names) \in SUBSET Service
  BY DEF Range
<1>2. Keeps(m, m)
  BY DEF Keeps
<1> QED
  BY <1>1, <1>2, StartTargetOk, StartServicesOk, RestartServicesOk, StopOk
     DEF StartRequest, RestartRequest, StopRequest

\* The rewritten units are restarted one after the other.
LEMMA RestartUpdatedInv ==
    ASSUME Inv, RestartUpdated
    PROVE  Inv'
<1> DEFINE m == ReadFiles(mgr, disk)
           s == Head(cmd.updated)
           failure == ~CanStart(m, s)
           P == [Note(cmd, failure) EXCEPT !.updated = Tail(cmd.updated)]
<1>1. /\ cmd.pc = "restartUpdated" /\ mgr' = RestartServices(m, {s}) /\ Goes(RestartNext(P))
      /\ UNCHANGED <<file, disk, budget>>
  BY DEF RestartUpdated
<1>2. cmd.updated # <<>> /\ s \in Service /\ Tail(cmd.updated) \in Seq(Service) /\ cmd.cmd # "uninstall"
  BY <1>1, RunningCommand DEF WellFormed, UninstallInv
<1>3. ManagerOk(m) /\ (Calm => Holds(m, disk))
  BY <1>1, RunningCommand, ReadsOk DEF Inv, Pending
<1>4. failure \in BOOLEAN
  OBVIOUS
<1> HIDE DEF m, failure
<1>5. Keeps(m, mgr')
  BY <1>1, <1>2, <1>3, RestartServicesOk
<1>6. ManagerOk(mgr') /\ (Calm => Holds(mgr', disk))
  BY <1>3, <1>5 DEF Keeps, Holds
<1>7. Body(P) /\ P.cmd # "uninstall"
  BY <1>1, <1>2, <1>4, RunningCommand DEF Note, Body, Command
<1> HIDE DEF P
<1>8. CmdInv(RestartNext(P), disk, mgr', Calm)
  BY <1>1, <1>6, <1>7, RunningCommand, RestartNextInv
<1> QED
  BY <1>1, <1>6, <1>8, SameFiles, GoesInv

\* The command ends after a request that keeps what the manager holds.
LEMMA EndsInv ==
    ASSUME Inv, cmd.pc \in {"start", "restart"}, NEW failure \in BOOLEAN, Goes(Finish(Note(cmd, failure))),
           UNCHANGED <<file, disk, budget>>,
           Keeps(ReadFiles(mgr, disk), mgr')
    PROVE  Inv'
<1>1. ManagerOk(ReadFiles(mgr, disk)) /\ (Calm => Holds(ReadFiles(mgr, disk), disk))
  BY RunningCommand, ReadsOk DEF Inv, Pending
<1>2. ManagerOk(mgr') /\ (Calm => Holds(mgr', disk))
  BY <1>1 DEF Keeps, Holds
<1>3. Note(cmd, failure).failed \in BOOLEAN
  BY RunningCommand DEF Note, Body, Command
<1>4. CmdInv(Finish(Note(cmd, failure)), disk, mgr', Calm)
  BY <1>2, <1>3, RunningCommand, IdleInv DEF Finish
<1> QED
  BY <1>2, <1>4, SameFiles, GoesInv

\* The units are started, restarted or stopped.
LEMMA StartUnitsInv ==
    ASSUME Inv, StartUnits
    PROVE  Inv'
<1> DEFINE failure == ~AllCanStart(ReadFiles(mgr, disk), cmd.names)
<1>1. /\ cmd.pc = "start" /\ mgr' = StartRequest(ReadFiles(mgr, disk), cmd.names)
      /\ Goes(Finish(Note(cmd, failure))) /\ UNCHANGED <<file, disk, budget>>
  BY DEF StartUnits
<1>2. failure \in BOOLEAN
  OBVIOUS
<1> HIDE DEF failure
<1>3. ManagerOk(ReadFiles(mgr, disk)) /\ cmd.names \in Seq(Service)
  BY <1>1, RunningCommand, ReadsOk DEF Inv
<1> QED
  BY <1>1, <1>2, <1>3, RequestsOk, EndsInv

\* systemctl restart.
LEMMA RestartUnitsInv ==
    ASSUME Inv, RestartUnits
    PROVE  Inv'
<1> DEFINE failure == ~AllCanStart(ReadFiles(mgr, disk), cmd.names)
<1>1. /\ cmd.pc = "restart" /\ mgr' = RestartRequest(ReadFiles(mgr, disk), cmd.names)
      /\ Goes(Finish(Note(cmd, failure))) /\ UNCHANGED <<file, disk, budget>>
  BY DEF RestartUnits
<1>2. failure \in BOOLEAN
  OBVIOUS
<1> HIDE DEF failure
<1>3. ManagerOk(ReadFiles(mgr, disk)) /\ cmd.names \in Seq(Service)
  BY <1>1, RunningCommand, ReadsOk DEF Inv
<1> QED
  BY <1>1, <1>2, <1>3, RequestsOk, EndsInv

\* systemctl stop.
LEMMA StopUnitsInv ==
    ASSUME Inv, StopUnits
    PROVE  Inv'
<1>1. /\ cmd.pc = "stop" /\ mgr' = StopRequest(mgr, cmd.names) /\ Goes(AfterStop(cmd))
      /\ UNCHANGED <<file, disk, budget>>
  BY DEF StopUnits
<1>2. Keeps(mgr, mgr')
  BY <1>1, RunningCommand, RequestsOk DEF Inv
<1>3. ManagerOk(mgr') /\ (Calm => Holds(mgr', disk))
  BY <1>1, <1>2, RunningCommand DEF Keeps, Holds, Pending
<1>4. CmdInv(AfterStop(cmd), disk, mgr', Calm)
  BY <1>1, <1>3, RunningCommand, AfterStopInv DEF UninstallInv
<1> QED
  BY <1>1, <1>3, <1>4, SameFiles, GoesInv

\* A fault is taken from the budget.
LEMMA SpendFaultTyped ==
    ASSUME Inv, NEW kind, CanFault(kind), SpendFault
    PROVE  budget' \in [faults : 0..MaxFaults, edits : 0..MaxEdits]
  BY BoundsAssumption DEF Inv, CanFault, SpendFault

\* systemctl fails, and the handler goes on.
LEMMA RejectedInv ==
    ASSUME Inv, Rejected
    PROVE  Inv'
<1>1. CanFault("reject") /\ SpendFault /\ UNCHANGED <<file, disk, mgr>>
  BY DEF Rejected
<1>2. budget' \in [faults : 0..MaxFaults, edits : 0..MaxEdits]
  BY <1>1, SpendFaultTyped
<1>3. file' = file /\ DiskOk(disk') /\ ManagerOk(mgr') /\ NoHeadlessProject' /\ disk' = disk /\ mgr' = mgr
  BY <1>1 DEF Inv, NoHeadlessProject
<1>4. ASSUME NEW P, Goes(P), CmdInv(P, disk, mgr, Calm) PROVE Inv'
  BY <1>2, <1>3, <1>4, GoesInv
<1>5. ASSUME cmd.pc # "idle"
      PROVE  /\ Body(Note(cmd, TRUE)) /\ Note(cmd, TRUE).cmd = cmd.cmd /\ Note(cmd, TRUE).pc = cmd.pc
             /\ Note(cmd, TRUE).left = cmd.left /\ Note(cmd, TRUE).changed = cmd.changed
             /\ Note(cmd, TRUE).updated = cmd.updated
  BY <1>5, RunningCommand DEF Note, Body, Command
<1>6. CASE cmd.pc = "stopOrphan" /\ Goes(AfterOrphan(Note(cmd, TRUE), FirstUnit(cmd.left)))
  <2> DEFINE P == Note(cmd, TRUE)
  <2>1. /\ Body(P) /\ P.pc = "stopOrphan" /\ P.left = cmd.left /\ P.changed = cmd.changed
        /\ P.cmd = cmd.cmd
    BY <1>5, <1>6
  <2> HIDE DEF P
  <2>2. CmdInv(AfterOrphan(P, FirstUnit(cmd.left)), disk, mgr, Calm)
    BY <1>6, <2>1, RunningCommand, OrphanToStop, AfterOrphanInv
  <2> QED
    BY <1>4, <1>6, <2>2 DEF P
<1>7. CASE cmd.pc = "disable" /\ Goes(StartUnlink(Note(cmd, TRUE), ProjectUnits))
  <2>1. Calm => Holds(mgr, disk)
    BY <1>7, RunningCommand DEF Pending
  <2>2. CmdInv(StartUnlink(Note(cmd, TRUE), ProjectUnits), disk, mgr, Calm)
    BY <1>7, <2>1, StartRemovalInv
  <2> QED
    BY <1>4, <1>7, <2>2
<1>8. CASE /\ cmd.pc = "restartUpdated"
           /\ Goes(RestartNext([Note(cmd, TRUE) EXCEPT !.updated = Tail(cmd.updated)]))
  <2> DEFINE P == [Note(cmd, TRUE) EXCEPT !.updated = Tail(cmd.updated)]
  <2>1. cmd.updated # <<>> /\ cmd.cmd # "uninstall"
    BY <1>8, RunningCommand DEF WellFormed, UninstallInv
  <2>2. Body(P) /\ P.cmd # "uninstall"
    <3>1. Tail(cmd.updated) \in Seq(Service)
      BY <1>8, <2>1, RunningCommand
    <3> QED
      BY <1>8, <2>1, <3>1, RunningCommand DEF Note, Body, Command
  <2> HIDE DEF P
  <2>3. Calm => Holds(mgr, disk)
    BY <1>8, RunningCommand DEF Pending
  <2>4. CmdInv(RestartNext(P), disk, mgr, Calm)
    BY <1>8, <2>2, <2>3, RunningCommand, RestartNextInv
  <2> QED
    BY <1>4, <1>8, <2>4 DEF P
<1>9. CASE cmd.pc \in {"start", "restart"} /\ Goes(Idle(TRUE))
  <2>1. Calm => Holds(mgr, disk)
    BY <1>9, RunningCommand DEF Pending
  <2>2. CmdInv(Idle(TRUE), disk, mgr, Calm)
    BY <1>9, <2>1, RunningCommand, IdleInv
  <2> QED
    BY <1>4, <1>9, <2>2
<1>10. CASE cmd.pc = "stop" /\ Goes(AfterStop(Note(cmd, TRUE)))
  <2> DEFINE P == Note(cmd, TRUE)
  <2>1. Body(P) /\ (P.cmd = "uninstall" => ~P.changed)
    BY <1>5, <1>10, RunningCommand DEF UninstallInv
  <2> HIDE DEF P
  <2>2. Calm => Holds(mgr, disk)
    BY <1>10, RunningCommand DEF Pending
  <2>3. CmdInv(AfterStop(P), disk, mgr, Calm)
    BY <1>10, <2>1, <2>2, RunningCommand, AfterStopInv
  <2> QED
    BY <1>4, <1>10, <2>3 DEF P
<1> QED
  BY <1>6, <1>7, <1>8, <1>9, <1>10 DEF Rejected

\* A step that ends the command without touching the files.
LEMMA GoneInv ==
    ASSUME Inv, NEW calm \in BOOLEAN, cmd' = Idle(TRUE),
           seen' = [Forget(seen) EXCEPT !.interrupted = ~calm],
           UNCHANGED <<file, disk>>, ManagerOk(mgr'), calm => Holds(mgr', disk),
           budget' \in [faults : 0..MaxFaults, edits : 0..MaxEdits]
    PROVE  Inv'
<1>1. Files # {} /\ DiskOk(disk') /\ NoHeadlessProject' /\ disk' = disk /\ file' \in Files
  BY DEF Inv, NoHeadlessProject
<1>2. CmdInv(Idle(TRUE), disk, mgr', calm)
  BY <1>1, IdleInv
<1>3. /\ seen' \in [held : BOOLEAN, fresh : BOOLEAN, synced : BOOLEAN, interrupted : BOOLEAN]
      /\ Calm' = calm
  BY DEF Inv, Forget, Calm
<1> QED
  BY <1>1, <1>2, <1>3 DEF Inv

\* An exception leaves the handler.
LEMMA RaiseInv ==
    ASSUME Inv, Raise
    PROVE  Inv'
<1>1. /\ CanFault("raise") /\ SpendFault /\ cmd' = Idle(TRUE)
      /\ seen' = [Forget(seen) EXCEPT !.interrupted = ~FALSE] /\ UNCHANGED <<file, disk, mgr>>
  BY DEF Raise
<1>2. ManagerOk(mgr')
  BY <1>1 DEF Inv
<1>3. budget' \in [faults : 0..MaxFaults, edits : 0..MaxEdits]
  BY <1>1, SpendFaultTyped
<1> QED
  BY <1>1, <1>2, <1>3, GoneInv

\* The machine reboots.
LEMMA RebootInv ==
    ASSUME Inv, Reboot
    PROVE  Inv'
<1>1. /\ CanFault("reboot") /\ SpendFault /\ cmd' = Idle(TRUE) /\ mgr' = Booted(mgr, disk)
      /\ seen' = [Forget(seen) EXCEPT !.interrupted = ~TRUE] /\ UNCHANGED <<file, disk>>
  BY DEF Reboot
<1>2. ManagerOk(mgr') /\ Holds(mgr', disk)
  BY <1>1, ReadsOk DEF Inv
<1>3. budget' \in [faults : 0..MaxFaults, edits : 0..MaxEdits]
  BY <1>1, SpendFaultTyped
<1> QED
  BY <1>1, <1>2, <1>3, GoneInv

\* The compose file is edited.
LEMMA EditFileInv ==
    ASSUME Inv, EditFile
    PROVE  Inv'
<1>1. /\ budget.edits > 0 /\ budget' = [budget EXCEPT !.edits = @ - 1] /\ file' \in Files
      /\ seen' = [seen EXCEPT !.synced = FALSE] /\ UNCHANGED <<disk, mgr, cmd>>
  BY DEF EditFile
<1>2. budget' \in [faults : 0..MaxFaults, edits : 0..MaxEdits]
  BY <1>1, BoundsAssumption DEF Inv
<1>3. /\ seen' \in [held : BOOLEAN, fresh : BOOLEAN, synced : BOOLEAN, interrupted : BOOLEAN]
      /\ Calm' = Calm
  BY <1>1 DEF Inv, Calm
<1>4. CmdInv(cmd', disk', mgr', Calm')
  BY <1>1, <1>3 DEF Inv
<1>5. DiskOk(disk') /\ ManagerOk(mgr') /\ NoHeadlessProject'
  BY <1>1 DEF Inv, NoHeadlessProject
<1> QED
  BY <1>1, <1>2, <1>3, <1>4, <1>5 DEF Inv

\* A service exits.
LEMMA CrashInv ==
    ASSUME Inv, Crash
    PROVE  Inv'
<1>1. /\ CanFault("crash") /\ SpendFault /\ \E s \in Running(mgr) : mgr' = StopServices(mgr, {s})
      /\ UNCHANGED <<file, disk, cmd, seen>>
  BY DEF Crash
<1>2. Keeps(mgr, mgr')
  BY <1>1, StopOk DEF Inv
<1>3. budget' \in [faults : 0..MaxFaults, edits : 0..MaxEdits]
  BY <1>1, SpendFaultTyped
<1>4. /\ seen' \in [held : BOOLEAN, fresh : BOOLEAN, synced : BOOLEAN, interrupted : BOOLEAN]
      /\ Calm' = Calm
  BY <1>1 DEF Inv, Calm
<1>5. CmdInv(cmd, disk, mgr', Calm)
  BY <1>2 DEF Inv, CmdInv, Keeps, Holds, UninstallInv
<1>6. CmdInv(cmd', disk', mgr', Calm')
  BY <1>1, <1>4, <1>5
<1>7. DiskOk(disk') /\ ManagerOk(mgr') /\ NoHeadlessProject' /\ file' \in Files
  BY <1>1, <1>2 DEF Inv, NoHeadlessProject, Keeps
<1> QED
  BY <1>3, <1>4, <1>6, <1>7 DEF Inv

\* A command begins.
LEMMA BeginInv ==
    ASSUME Inv, NEW r \in Requests, Begin(r)
    PROVE  Inv'
<1> DEFINE P == [Idle(FALSE) EXCEPT !.cmd = r.cmd, !.purge = r.purge, !.now = r.now,
                                    !.file = file, !.names = r.names, !.todo = file.order]
           first == CASE r.cmd \in {"install", "up"} -> "sync"
                      [] r.cmd \in {"start", "restart"} -> r.cmd
                      [] r.cmd \in {"stop", "down"} -> "stop"
                      [] OTHER -> IF r.now THEN "stop" ELSE "disable"
           Q == [P EXCEPT !.pc = first]
<1>1. cmd.pc = "idle" /\ cmd' = Q /\ UNCHANGED <<file, disk, mgr, budget>>
  BY DEF Begin
<1>2. r \in Request /\ file \in Files
  BY RequestsAssumption DEF Inv
<1>3. /\ file.order \in Seq(Service) /\ file.order # <<>>
      /\ \A i \in DOMAIN file.order : file.order[i] \in Listed(file)
  BY <1>2, ListedServices
<1>4. /\ P \in Command /\ P.cmd = r.cmd /\ P.file = file /\ P.todo = file.order
      /\ P.at = Target /\ ~P.changed
  <2>1. /\ Idle(FALSE) \in Command /\ Idle(FALSE).at = Target /\ Idle(FALSE).changed = FALSE
    BY <1>2 DEF Idle, Command, Points, Commands, Unit
  <2>2. r.cmd \in Commands /\ r.purge \in BOOLEAN /\ r.now \in BOOLEAN /\ r.names \in Seq(Service)
    BY <1>2 DEF Request
  <2> QED
    BY <1>2, <1>3, <2>1, <2>2 DEF Command
<1>5. /\ first \in {"sync", "start", "restart", "stop", "disable"}
      /\ r.cmd = "uninstall" => first \in {"stop", "disable"}
  BY <1>2 DEF Request, Commands
<1> HIDE DEF P, first
<1>6. /\ Q \in Command /\ Q.cmd = r.cmd /\ Q.file = file /\ Q.todo = file.order
      /\ Q.at = Target /\ ~Q.changed /\ Q.pc = first
  BY <1>4, <1>5 DEF Command, Points
<1> HIDE DEF Q
<1>7. Target \in DesiredUnits(file)
  BY DEF DesiredUnits
<1>8. WellFormed(Q)
  BY <1>3, <1>5, <1>6, <1>7 DEF WellFormed
<1>9. /\ seen' \in [held : BOOLEAN, fresh : BOOLEAN, synced : BOOLEAN, interrupted : BOOLEAN]
      /\ Calm' \in BOOLEAN /\ (Calm' => Holds(mgr, disk))
  <2> DEFINE held == \A u \in Unit : HoldsItsFile(u)
             fresh == \A s \in Running(mgr) : RunsItsFile(s)
             synced == seen.synced /\ r.cmd \notin {"install", "up", "uninstall"}
  <2>1. seen' = [seen EXCEPT !.held = held, !.fresh = fresh, !.synced = synced]
    BY DEF Begin
  <2>2. held \in BOOLEAN /\ fresh \in BOOLEAN /\ synced \in BOOLEAN /\ (held => Holds(mgr, disk))
    BY DEF HoldsItsFile, Holds
  <2>3. ~seen.interrupted => Holds(mgr, disk)
    BY <1>1 DEF Inv, CmdInv, Pending, Calm
  <2> HIDE DEF held, fresh, synced
  <2> QED
    BY <2>1, <2>2, <2>3 DEF Inv, Calm
<1>10. CmdInv(Q, disk, mgr, Calm')
  BY <1>5, <1>6, <1>8, <1>9 DEF CmdInv, UninstallInv
<1>11. CmdInv(cmd', disk', mgr', Calm')
  BY <1>1, <1>10
<1>12. /\ DiskOk(disk') /\ ManagerOk(mgr') /\ NoHeadlessProject' /\ file' \in Files
       /\ budget' \in [faults : 0..MaxFaults, edits : 0..MaxEdits]
  BY <1>1 DEF Inv, NoHeadlessProject
<1> QED
  BY <1>9, <1>11, <1>12 DEF Inv

-----------------------------------------------------------------------------
\* The invariant holds initially.
LEMMA InitInv == Init => Inv
<1> SUFFICES ASSUME Init PROVE Inv
  OBVIOUS
<1>1. Files # {} /\ file \in Files
  BY DEF Init
<1>2. DiskOk(disk) /\ OnDisk(disk) = {}
  BY DEF Init, DiskOk, Written, OnDisk
<1>3. ManagerOk(mgr)
  BY DEF Init, ManagerOk, NothingInstalled, Installed, Written
<1>4. Holds(mgr, disk)
  BY DEF Init, Holds, NothingInstalled
<1>5. CmdInv(cmd, disk, mgr, Calm)
  <2>1. CmdInv(Idle(FALSE), disk, mgr, Calm)
    BY <1>1, <1>4, IdleInv DEF Calm
  <2> QED
    BY <2>1 DEF Init
<1>6. NoHeadlessProject
  BY <1>2 DEF NoHeadlessProject
<1>7. budget \in [faults : 0..MaxFaults, edits : 0..MaxEdits]
  BY BoundsAssumption DEF Init
<1>8. seen \in [held : BOOLEAN, fresh : BOOLEAN, synced : BOOLEAN, interrupted : BOOLEAN]
  BY DEF Init
<1> QED
  BY <1>1, <1>2, <1>3, <1>5, <1>6, <1>7, <1>8 DEF Inv

\* Every step keeps the invariant.
LEMMA NextInv == Inv /\ [Next]_vars => Inv'
<1> SUFFICES ASSUME Inv, [Next]_vars PROVE Inv'
  OBVIOUS
<1>1. CASE Next
  <2>1. ASSUME NEW r \in Requests, Begin(r) PROVE Inv'
    BY <2>1, BeginInv
  <2>2. CASE Step
    BY <2>2, SyncFileInv, ListOrphansInv, StopOrphanInv, UnlinkInv, DaemonReloadInv, EnableInv,
       DisableInv, RestartUpdatedInv, StartUnitsInv, RestartUnitsInv, StopUnitsInv DEF Step
  <2>3. CASE Rejected \/ Raise \/ EditFile \/ Crash \/ Reboot
    BY <2>3, RejectedInv, RaiseInv, EditFileInv, CrashInv, RebootInv
  <2> QED
    BY <1>1, <2>1, <2>2, <2>3 DEF Next
<1>2. CASE UNCHANGED vars
  <2>1. UNCHANGED <<file, disk, mgr, cmd, budget, seen>>
    BY <1>2 DEF vars
  <2> QED
    BY <2>1 DEF Inv, NoHeadlessProject, Calm
<1> QED
  BY <1>1, <1>2

\* The invariant is one of the specification.
LEMMA SpecInv == Spec => []Inv
  BY InitInv, NextInv, PTL DEF Spec

\* Every variable has its type, every file on disk says what some compose file
\* generates, and the loops of a command stand where there is something left to do,
\* in every behaviour.
THEOREM TypeCorrect == Spec => []TypeOK
<1>1. Inv => TypeOK
  <2> SUFFICES ASSUME Inv PROVE TypeOK
    OBVIOUS
  <2>1. ASSUME NEW u \in OnDisk(disk)
        PROVE  \E f \in Files : u \in DesiredUnits(f) /\ disk[u] = Generated(f, u)
    <3>1. disk[u] \in Written(u) /\ disk[u] # NoFile
      BY DEF Inv, DiskOk, OnDisk
    <3> QED
      BY <3>1 DEF Written
  <2> QED
    BY <2>1 DEF Inv, TypeOK, DiskOk, ManagerOk, CmdInv
<1> QED
  BY <1>1, SpecInv, PTL

\* The target's file is there as long as any file is, wherever install, up or
\* uninstall is interrupted: it is written first and unlinked last.
THEOREM TargetFirstAndLast == Spec => []NoHeadlessProject
<1>1. Inv => NoHeadlessProject
  BY DEF Inv
<1> QED
  BY <1>1, SpecInv, PTL

\* Every command that wrote or unlinked a file reloads the manager before it ends:
\* unless one was interrupted, the manager holds what the files say.
THEOREM ReloadsWhatItChanged == Spec => []ManagerUpToDate
<1>1. Inv => ManagerUpToDate
  BY DEF Inv, CmdInv, Pending, Holds, ManagerUpToDate, HoldsItsFile, Calm
<1> QED
  BY <1>1, SpecInv, PTL

\* A removal that begins in `disable` does not end there with success.
LEMMA RemovalGoesOn ==
    ASSUME Inv, cmd.pc = "disable", cmd.cmd = "uninstall", NEW failure \in BOOLEAN,
           disk[Target] = NoFile => failure
    PROVE  LET P == StartUnlink(Note(cmd, failure), ProjectUnits)
           IN  P.pc = "idle" => P.failed
<1> DEFINE N == Note(cmd, failure)
           P == StartUnlink(N, ProjectUnits)
<1>1. N \in Command /\ N.cmd = "uninstall" /\ ~N.changed /\ N.failed = (cmd.failed \/ failure)
  BY RunningCommand DEF Note, Body, Command, UninstallInv
<1> HIDE DEF N
<1>2. CASE ProjectUnits = {}
  <2>1. disk[Target] = NoFile
    BY <1>2 DEF ProjectUnits, OnDisk, Unit
  <2>2. P = Idle(N.failed) /\ N.failed
    BY <1>1, <1>2, <2>1 DEF StartUnlink, AfterFiles, AfterReload, Finish
  <2>3. P.failed
    BY <2>2 DEF Idle
  <2> QED
    BY <2>3 DEF N
<1>3. CASE ProjectUnits # {}
  <2>1. P = [N EXCEPT !.pc = "unlink", !.left = ProjectUnits]
    BY <1>3 DEF StartUnlink
  <2>2. P.pc = "unlink"
    BY <1>1, <2>1 DEF Command
  <2> QED
    BY <2>2 DEF N
<1> QED
  BY <1>2, <1>3

\* A step that ends an uninstall with success finds nothing left and nothing enabled.
LEMMA UninstallStep ==
    ASSUME Inv, Next, Ended, ~cmd'.failed, cmd.cmd = "uninstall"
    PROVE  OnDisk(disk') = {} /\ ~mgr'.enabled
<1>1. cmd.pc # "idle" /\ cmd'.pc = "idle"
  BY DEF Ended
<1>2. UninstallInv(cmd, disk, mgr) /\ Body(cmd) /\ cmd.failed \in BOOLEAN /\ WellFormed(cmd)
  BY <1>1, RunningCommand
<1>3. Idle(TRUE).failed
  BY DEF Idle
<1>4. ASSUME NEW P, Body(P), P.cmd = "uninstall" PROVE AfterStop(P).pc = "disable"
  BY <1>4 DEF AfterStop, Body, Command
<1>5. ASSUME NEW r \in Requests, Begin(r) PROVE FALSE
  BY <1>1, <1>5 DEF Begin
<1>6. ASSUME SyncFile \/ ListOrphans \/ StopOrphan \/ Enable \/ RestartUpdated \/ StartUnits \/ RestartUnits
      PROVE  FALSE
  BY <1>2, <1>6 DEF SyncFile, ListOrphans, StopOrphan, Enable, RestartUpdated, StartUnits,
                    RestartUnits, UninstallInv
<1>7. ASSUME Unlink PROVE FALSE
  <2> DEFINE u == FirstUnit(cmd.left)
             Q == [cmd EXCEPT !.left = cmd.left \ {u}, !.changed = TRUE]
  <2>1. cmd.pc = "unlink" /\ cmd' = AfterUnlink(cmd, u)
    BY <1>7 DEF Unlink, Goes
  <2>2. Q \in Command /\ Q.pc = "unlink" /\ Q.changed
    BY <1>2, <2>1 DEF Body, Command
  <2>3. AfterUnlink(cmd, u) = IF cmd.left \ {u} = {} THEN [Q EXCEPT !.pc = "reload"] ELSE Q
    BY <2>2 DEF AfterUnlink, AfterFiles
  <2> HIDE DEF Q
  <2>4. AfterUnlink(cmd, u).pc # "idle"
    BY <2>2, <2>3 DEF Command
  <2> QED
    BY <1>1, <2>1, <2>4
<1>8. CASE DaemonReload
  <2>1. /\ cmd.pc = "reload" /\ cmd' = AfterReload(cmd) /\ disk' = disk
        /\ mgr' = [mgr EXCEPT !.held = disk]
    BY <1>8 DEF DaemonReload, Reload
  <2>2. cmd' = Idle(cmd.failed)
    BY <2>1 DEF AfterReload, Finish
  <2>3. ~cmd.failed
    BY <2>2 DEF Idle
  <2>4. mgr'.enabled = mgr.enabled
    BY <2>1 DEF Inv, ManagerOk, Installed
  <2> QED
    BY <1>2, <2>1, <2>3, <2>4 DEF UninstallInv
<1>9. ASSUME Disable PROVE FALSE
  <2> DEFINE none == disk[Target] = NoFile
  <2>1. cmd.pc = "disable" /\ cmd' = StartUnlink(Note(cmd, none), ProjectUnits)
    BY <1>9 DEF Disable, Goes
  <2>2. none \in BOOLEAN /\ (disk[Target] = NoFile => none)
    OBVIOUS
  <2> HIDE DEF none
  <2> QED
    BY <1>1, <2>1, <2>2, RemovalGoesOn
<1>10. ASSUME StopUnits PROVE FALSE
  BY <1>1, <1>2, <1>4, <1>10 DEF StopUnits, Goes
<1>11. ASSUME Rejected PROVE FALSE
  <2>1. CASE cmd.pc = "disable" /\ Goes(StartUnlink(Note(cmd, TRUE), ProjectUnits))
    BY <1>1, <2>1, RemovalGoesOn DEF Goes
  <2>2. CASE cmd.pc = "stop" /\ Goes(AfterStop(Note(cmd, TRUE)))
    <3>1. Body(Note(cmd, TRUE)) /\ Note(cmd, TRUE).cmd = "uninstall"
      BY <1>2 DEF Note, Body, Command
    <3> QED
      BY <1>1, <1>4, <2>2, <3>1 DEF Goes
  <2>3. CASE cmd.pc \in {"stopOrphan", "restartUpdated", "start", "restart"}
    BY <1>2, <2>3 DEF UninstallInv
  <2> QED
    BY <1>11, <2>1, <2>2, <2>3 DEF Rejected
<1>12. ASSUME Raise \/ Reboot PROVE FALSE
  BY <1>3, <1>12 DEF Raise, Reboot
<1>13. ASSUME EditFile \/ Crash PROVE FALSE
  BY <1>1, <1>13 DEF EditFile, Crash
<1> QED
  BY <1>5, <1>6, <1>7, <1>8, <1>9, <1>10, <1>11, <1>12, <1>13 DEF Next, Step

\* An uninstall that reports success has removed every generated file and disabled
\* the target, whatever interrupted commands and edits came before.
THEOREM UninstallLeavesNothing == Spec => UninstallClean
<1>1. Inv /\ [Next]_vars =>
        [Ended /\ ~cmd'.failed /\ cmd.cmd = "uninstall" => OnDisk(disk') = {} /\ ~mgr'.enabled]_vars
  BY UninstallStep
<1> QED
  BY <1>1, SpecInv, PTL DEF Spec, UninstallClean

=============================================================================
