----------------------------- MODULE UnitFiles -----------------------------
(***************************************************************************)
(* The persistent unit files of an installed project and the manager that  *)
(* runs them.  The files are what persistence.py and builders.py generate; *)
(* the manager is not part of the repository, and is modelled as the code  *)
(* relies on it.                                                           *)
(*                                                                         *)
(* The manager holds the definition of a unit as it was in the file when   *)
(* it last read it: a file it holds no definition of is read when the unit *)
(* is first needed, all files are read again on a reload, and a service    *)
(* runs what its definition was when it was last started.                  *)
(*                                                                         *)
(*   held    : Unit -> the definition held, NoFile when there is none      *)
(*   live    : the hash a running service was started with, NoHash when it *)
(*             does not run                                                *)
(*   timers  : services whose healthcheck timer runs                       *)
(*   enabled : the project target is wanted by the default target          *)
(*                                                                         *)
(* Nothing depends on whether the project target is active: it only wants  *)
(* its units, so that starting it starts them and stopping it does nothing *)
(* to them (builders.build_project_target_unit: no service is PartOf= it). *)
(***************************************************************************)
EXTENDS ComposeFile, UnitGraph

CONSTANTS
    Target,  \* the project's target unit
    NoFile   \* the content of a file that does not exist

MainUnit(s)  == [kind |-> "main",  of |-> s]
ProbeUnit(s) == [kind |-> "probe", of |-> s]
TimerUnit(s) == [kind |-> "timer", of |-> s]

ServiceUnits == [kind : {"main", "probe", "timer"}, of : Service]
Unit == {Target} \cup ServiceUnits

ASSUME TargetAssumption == Target \notin ServiceUnits

MonitoredIn(f) == {s \in Listed(f) : HasHealth(f, s)}

\* persistence.desired_unit_files: the names of the files generated.
DesiredUnits(f) ==
    {Target} \cup {MainUnit(s) : s \in Listed(f)}
             \cup UNION {{ProbeUnit(s), TimerUnit(s)} : s \in MonitoredIn(f)}

\* Mutant of Wanted: the target does not want the timers.
WantedServices(f) == {MainUnit(s) : s \in Listed(f)}

\* desired_unit_files: the units the target wants.
Wanted(f) == {MainUnit(s) : s \in Listed(f)} \cup {TimerUnit(s) : s \in MonitoredIn(f)}

\* The content of a generated file: what the target wants, the definition of a
\* service (its hash is in its Description=), the fields of a healthcheck, which
\* are part of the variant.
Generated(f, u) ==
    CASE u = Target -> [wants |-> Wanted(f)]
      [] u # Target /\ u.kind = "main" -> Hash(f, u.of)
      [] OTHER -> f.def[u.of].variant

Content == [wants : SUBSET ServiceUnits] \cup Hashes \cup Variant

ASSUME NoFileAssumption == NoFile \notin Content

OnDisk(disk) == {u \in Unit : disk[u] # NoFile}

Installed == [held : [Unit -> Content \cup {NoFile}],
              live : [Service -> Hashes \cup {NoHash}],
              timers : SUBSET Service,
              enabled : BOOLEAN]

NothingInstalled == [held |-> [u \in Unit |-> NoFile], live |-> [s \in Service |-> NoHash],
                     timers |-> {}, enabled |-> FALSE]

Running(m) == {s \in Service : m.live[s] # NoHash}

-----------------------------------------------------------------------------
Reload(m, disk) == [m EXCEPT !.held = disk]

\* The files the manager holds no definition of are read.
ReadFiles(m, disk) ==
    [m EXCEPT !.held = [u \in Unit |-> IF m.held[u] = NoFile THEN disk[u] ELSE m.held[u]]]

\* builders.build_installed_service_unit: Requires=, After= and BindsTo= on every
\* service in depends_on.
RequiresOf(m) ==
    [s \in Service |-> IF m.held[MainUnit(s)] = NoFile THEN {}
                       ELSE DependsOn(m.held[MainUnit(s)].own)]

StopSet(m, S) == DependentsOf(RequiresOf(m), S) \cap Running(m)
HeldServices(m) == {s \in Service : m.held[MainUnit(s)] # NoFile}
CanStart(m, s) == RequirementsOf(RequiresOf(m), {s}) \subseteq HeldServices(m)

\* The services in S stop and with them what is bound to them, timers included
\* (builders.build_installed_health_timer_unit: BindsTo= on the timer).
StopServices(m, S) ==
    LET down == StopSet(m, S)
    IN  [m EXCEPT !.live = [s \in Service |-> IF s \in down THEN NoHash ELSE m.live[s]],
                  !.timers = m.timers \ down]
StopTimers(m, S) == [m EXCEPT !.timers = m.timers \ S]

\* The services in R run their definition from now on.
RunAnew(m, R) ==
    [m EXCEPT !.live = [s \in Service |-> IF s \in R THEN m.held[MainUnit(s)] ELSE m.live[s]]]

\* Those of S that can start do, with what they require.
StartServices(m, S) ==
    LET started == RequirementsOf(RequiresOf(m), {s \in S : CanStart(m, s)})
    IN  RunAnew(m, started \ Running(m))

\* A restart takes along the running services bound to the ones restarted.
RestartServices(m, S) ==
    LET able == {s \in S : CanStart(m, s)}
        again == {s \in StopSet(m, able) : CanStart(m, s)}
    IN  RunAnew(StartServices(m, able), able \cup again)

\* The target starts what it wants and can be started, and is started at once.
WantedBy(m, kind) ==
    IF m.held[Target] = NoFile THEN {} ELSE {u.of : u \in {v \in m.held[Target].wants : v.kind = kind}}
StartTarget(m) ==
    LET timers == {s \in WantedBy(m, "timer") : m.held[TimerUnit(s)] # NoFile /\ CanStart(m, s)}
    IN  [StartServices(m, WantedBy(m, "main") \cup timers) EXCEPT !.timers = m.timers \cup timers]

\* A reboot, and a start of the manager: enabled targets are started.
Booted(m, disk) ==
    LET fresh == [NothingInstalled EXCEPT !.held = disk, !.enabled = m.enabled]
    IN  IF m.enabled THEN StartTarget(fresh) ELSE fresh

=============================================================================
