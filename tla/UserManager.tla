---------------------------- MODULE UserManager ----------------------------
(***************************************************************************)
(* The systemd user manager as the transient commands use it.  It is not   *)
(* part of the repository: what is modelled is what the code relies on,    *)
(* each request of systemctl and systemd-run as an operator on the         *)
(* manager's state, with a predicate that says when it succeeds.           *)
(*                                                                         *)
(* A service of the project has a main unit, and, when it has a            *)
(* healthcheck, a timer that runs a oneshot probe.  All are transient: a   *)
(* unit that is inactive and that no kept unit refers to is unloaded at    *)
(* once, and its definition with it.  Main units are bound to the units    *)
(* they depend on (Requires=, After=, BindsTo=), timers and probes to      *)
(* their main unit.                                                        *)
(*                                                                         *)
(*   active : ActiveState of the main unit                                 *)
(*   hash   : the hash in its Description, NoHash when it is not loaded;   *)
(*            the hash is injective, so it also carries the definition     *)
(*            the unit was submitted with                                  *)
(*   timers : services whose healthcheck timer runs (a timer that does not *)
(*            run is unloaded: nothing refers to it)                       *)
(*   failedProbes : services whose last probe failed and was not reset; a  *)
(*            probe unit is loaded while its timer runs or it is failed    *)
(***************************************************************************)
EXTENDS ComposeFile, UnitGraph

ActiveState == {"inactive", "active", "activating", "failed"}

Manager == [active : [Service -> ActiveState],
            hash   : [Service -> Hashes \cup {NoHash}],
            timers : SUBSET Service,
            failedProbes : SUBSET Service]

EmptyManager == [active |-> [s \in Service |-> "inactive"],
                 hash   |-> [s \in Service |-> NoHash],
                 timers |-> {},
                 failedProbes |-> {}]

\* systemd_units.READY_DEPENDENCY_STATES and RUNNING_SERVICE_STATES, without
\* "reloading": nothing reloads a transient unit.
RunningStates == {"active", "activating"}

Loaded(m) == {s \in Service : m.hash[s] # NoHash}
Up(m)     == {s \in Service : m.active[s] \in RunningStates}
ProbesLoaded(m) == m.timers \cup m.failedProbes

\* Mutant of RequiredBy: the units are submitted without Requires=/BindsTo=.
RequiredByNothing(hash) == {}

\* builders.build_systemd_run_command: Requires=, After= and BindsTo= on every
\* service in depends_on.
RequiredBy(hash) == IF hash = NoHash THEN {} ELSE DependsOn(hash.own)
Requires(m) == [s \in Service |-> RequiredBy(m.hash[s])]

Runs(m, s, hash) == s \in Up(m) /\ m.hash[s] = hash

-----------------------------------------------------------------------------
\* Unload what nothing keeps: a unit stays loaded while it is not inactive,
\* or while its timer, its failed probe or a kept dependant refers to it.
Collect(m) ==
    LET anchors == {s \in Service : m.active[s] # "inactive"} \cup ProbesLoaded(m)
        kept    == RequirementsOf(Requires(m), anchors)
    IN  [m EXCEPT !.hash = [s \in Service |-> IF s \in kept THEN m.hash[s] ELSE NoHash]]

\* The units that go down when s does: BindsTo= and Requires= stop them.
BoundTo(m, s) == DependentsOf(Requires(m), {s}) \cap Up(m)

\* Mutant of TimersBoundTo: the timer is submitted without BindsTo=.
TimersBoundToNothing(S) == {}

\* The timers that go down with the main units in S.
\* builders.build_health_systemd_run_command: BindsTo= on the timer.
TimersBoundTo(S) == S

\* The units in S stop; those in `dirty` exit with an error and are failed.
TakeDown(m, S, dirty) ==
    Collect([m EXCEPT
        !.active = [t \in Service |->
            IF t \notin S THEN m.active[t]
            ELSE IF t \in dirty THEN "failed" ELSE "inactive"],
        !.timers = m.timers \ TimersBoundTo(S)])

StopMain(m, s, dirty) == TakeDown(m, BoundTo(m, s), dirty)
StopTimer(m, s) == Collect([m EXCEPT !.timers = m.timers \ {s}])

ResetMain(m, s) ==
    Collect([m EXCEPT !.active[s] = IF m.active[s] = "failed" THEN "inactive" ELSE m.active[s]])
ResetProbe(m, s) == Collect([m EXCEPT !.failedProbes = m.failedProbes \ {s}])

\* A start needs the unit and everything it requires to be loaded, and starts
\* what it requires first.
Startable(m, s) == RequirementsOf(Requires(m), {s}) \subseteq Loaded(m)
StartMain(m, s) ==
    [m EXCEPT !.active = [t \in Service |->
        IF t \in RequirementsOf(Requires(m), {s}) \ Up(m) THEN "active" ELSE m.active[t]]]

\* A restart restarts the running dependants and the timers with the unit: what
\* is seen of it afterwards is a started unit.
RestartMain(m, s) == [StartMain(m, s) EXCEPT !.active[s] = "active"]

\* systemd-run without a timer: refused when the unit is loaded.  When the start
\* job cannot be queued the new unit is there, inactive, until it is unloaded.
Submitted(m, s, hash) == [m EXCEPT !.hash[s] = hash]
CanCreate(m, s, hash) == s \notin Loaded(m) /\ Startable(Submitted(m, s, hash), s)
CreateMain(m, s, hash) ==
    IF s \in Loaded(m) THEN m
    ELSE IF Startable(Submitted(m, s, hash), s)
         THEN StartMain(Submitted(m, s, hash), s)
         ELSE Collect(Submitted(m, s, hash))

\* systemd-run --on-active: refused when the timer or the probe is loaded.  The
\* timer requires the main unit and starts it.
CanCreateTimer(m, s) == s \notin ProbesLoaded(m) /\ Startable(m, s)
CreateTimer(m, s) ==
    IF CanCreateTimer(m, s) THEN [StartMain(m, s) EXCEPT !.timers = m.timers \cup {s}] ELSE m

\* systemctl start X-health.timer: only a timer that runs is loaded.
CanStartTimer(m, s) == s \in m.timers

-----------------------------------------------------------------------------
\* What services do on their own.

\* The main process of s exits: Restart= does not apply.
CrashMain(m, s, dirty) == TakeDown(m, BoundTo(m, s), dirty \cap {s})

\* The main process of s exits and Restart= applies: s waits for its restart,
\* the units bound to it are stopped.
FlapMain(m, s) ==
    LET down == BoundTo(m, s) \ {s}
    IN  Collect([m EXCEPT
            !.active = [t \in Service |->
                IF t = s THEN "activating" ELSE IF t \in down THEN "inactive" ELSE m.active[t]],
            !.timers = m.timers \ TimersBoundTo(BoundTo(m, s))])
Restarted(m, s) == [m EXCEPT !.active[s] = "active"]

RunProbe(m, s, healthy) ==
    [m EXCEPT !.failedProbes = IF healthy THEN m.failedProbes \ {s} ELSE m.failedProbes \cup {s}]

-----------------------------------------------------------------------------
\* What the manager keeps true whatever it is asked.

NotFoundIsInactive(m) == \A s \in Service \ Loaded(m) : m.active[s] = "inactive"
ProbesKeepMain(m) == ProbesLoaded(m) \subseteq Loaded(m)
DependenciesUp(m) ==
    \A s \in Up(m) \cap Loaded(m) : DependsOn(m.hash[s].own) \subseteq Up(m)
MonitoredUp(m) == m.timers \subseteq Up(m)

ManagerInv(m) ==
    /\ m \in Manager
    /\ NotFoundIsInactive(m)
    /\ ProbesKeepMain(m)
    /\ DependenciesUp(m)
    /\ MonitoredUp(m)

=============================================================================
