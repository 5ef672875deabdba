-------------------------- MODULE TransientProject --------------------------
(***************************************************************************)
(* The life-cycle commands on a project that is not installed: up, start,  *)
(* restart, stop and down, as processes that drive the user manager one    *)
(* subprocess call at a time.  Between two calls of one command anything   *)
(* else may happen: another command's calls, an edit of the compose file,  *)
(* a service that exits, a probe that fails, an exception that ends the    *)
(* command.                                                                *)
(***************************************************************************)
EXTENDS UserManager, SequencesExt, Naturals

CONSTANTS
    Proc,        \* the command processes that may run at the same time
    Requests,    \* the command lines a user may enter
    Rank,        \* the position of a unit's name in reverse alphabetical order
    Faults,      \* the kinds of fault that may happen
    MaxFaults,   \* bound: faults in a behaviour
    MaxEdits,    \* bound: edits of the compose file in a behaviour
    MaxCommands  \* bound: commands other than a full `up` in a behaviour

Commands == {"up", "start", "restart", "stop", "down"}

\* A command line: the command, the named services and --remove-orphans, which
\* only `up` and `down` take.
Request == {r \in [cmd : Commands, names : Seq(Service), purge : BOOLEAN] :
              r.purge => r.cmd \in {"up", "down"}}

FaultKinds == {"reject", "raise", "dirty", "crash", "flap", "probe"}

ASSUME RequestsAssumption == Requests \subseteq Request
ASSUME FaultsAssumption == Faults \subseteq FaultKinds
ASSUME BoundsAssumption == MaxFaults \in Nat /\ MaxEdits \in Nat /\ MaxCommands \in Nat

VARIABLES
    file,    \* the compose file on disk
    mgr,     \* the user manager
    proc,    \* the command processes
    budget,  \* faults, edits and commands still to come
    quiet,   \* history: running commands that nothing has interfered with
    steady   \* history: see Steadily

vars == <<file, mgr, proc, budget, quiet, steady>>

-----------------------------------------------------------------------------
(* The state of a command process. *)

\* One systemctl call of a teardown.
Call == [verb : {"stop", "reset"}, kind : {"timer", "probe", "main"}, of : Service]

\* A loaded *.service of the project whose service is not in the compose file.
OrphanUnit == [of : Service, kind : {"main", "probe"}]

\* X-health comes before X in reverse order, and units of other services, like
\* X-api, may come between the two.
ASSUME RankAssumption ==
    /\ Rank \in [OrphanUnit -> Nat]
    /\ \A u, v \in OrphanUnit : Rank[u] = Rank[v] => u = v
    /\ \A s \in Service : Rank[[of |-> s, kind |-> "probe"]] < Rank[[of |-> s, kind |-> "main"]]

\* Where the process is: the call it makes next.
Points == {"idle",
           "orphans", "purge",
           "load", "active", "hash",
           "recreate", "depLoad", "depActive", "create", "createTimer",
           "start", "restart", "startTimer",
           "teardown"}

\* The points at which it works through `calls`.
Teardowns == {"recreate", "teardown", "purge"}

Process == [pc      : Points,
            cmd     : Commands,
            purge   : BOOLEAN,                  \* --remove-orphans
            file    : Files,                    \* the file as the command read it
            names   : Seq(Service),             \* selected_service_names
            todo    : Seq(Service),             \* its loop, from the current service on
            calls   : Seq(Call),                \* the calls left of a teardown
            orphans : SUBSET OrphanUnit,        \* the orphans left to clean up
            deps    : Seq(Service),             \* the loop of blocked_dependency
            active  : ActiveState,              \* UnitInspection.active_state
            bad     : BOOLEAN,                  \* cleanup_exit_code != 0
            failed  : BOOLEAN]                  \* exit_code != 0, or an exception

Idle(failed) ==
    [pc |-> "idle", cmd |-> "up", purge |-> FALSE, file |-> CHOOSE f \in Files : TRUE,
     names |-> <<>>, todo |-> <<>>, calls |-> <<>>, orphans |-> {}, deps |-> <<>>,
     active |-> "inactive", bad |-> FALSE, failed |-> failed]

Busy == {p \in Proc : proc[p].pc # "idle"}

This(P) == Head(P.todo)
Desired(P) == Hash(P.file, This(P))
Monitored(P) == HasHealth(P.file, This(P))

-----------------------------------------------------------------------------
(* The control flow between two calls. *)

Systemctl(verb, kind, s) == [verb |-> verb, kind |-> kind, of |-> s]

\* systemd_units.cleanup_health_units and cleanup_health_orphan_unit.
HealthCleanup(s) == <<Systemctl("stop", "timer", s), Systemctl("reset", "timer", s),
                      Systemctl("stop", "probe", s), Systemctl("reset", "probe", s)>>

\* systemd_units.cleanup_unit(unit, reset_failed=True).
MainCleanup(s) == <<Systemctl("stop", "main", s), Systemctl("reset", "main", s)>>

\* systemd_units.stop_health_units, then stop_unit.
StopCalls(f, s) ==
    (IF HasHealth(f, s) THEN <<Systemctl("stop", "timer", s)>> ELSE <<>>)
        \o <<Systemctl("stop", "main", s)>>

\* Mutant of DownCalls: the main unit is stopped and not reset.
DownCallsNoReset(f, s) ==
    (IF HasHealth(f, s) THEN HealthCleanup(s) ELSE <<>>) \o <<Systemctl("stop", "main", s)>>

\* The body of handle_down's loop.
DownCalls(f, s) == (IF HasHealth(f, s) THEN HealthCleanup(s) ELSE <<>>) \o MainCleanup(s)

\* Mutant of RecreateCalls: only the health units are cleaned up.
RecreateCallsHealthOnly(s) == HealthCleanup(s)

\* handle_up recreating a changed unit: the health units are cleaned up whether
\* or not the new definition has a healthcheck.
RecreateCalls(s) == HealthCleanup(s) \o MainCleanup(s)

Note(P, failure) == [P EXCEPT !.failed = P.failed \/ failure]

\* The process enters its loop's body for the first service of todo.
Enter(P) ==
    IF P.cmd \in {"up", "start", "restart"} THEN [P EXCEPT !.pc = "load"]
    ELSE [P EXCEPT !.pc = "teardown",
                   !.calls = IF P.cmd = "stop" THEN StopCalls(P.file, This(P))
                                               ELSE DownCalls(P.file, This(P))]

\* Mutant of NextService: `up` looks for orphans once more.
NextServiceOrphans(P) ==
    LET rest == Tail(P.todo)
        Q == [P EXCEPT !.todo = rest, !.calls = <<>>, !.deps = <<>>,
                       !.active = "inactive", !.bad = FALSE]
    IN  IF rest # <<>> THEN Enter(Q)
        ELSE IF P.purge THEN [Q EXCEPT !.pc = "orphans"]
        ELSE Idle(P.failed)

\* The end of the loop's body.  Only `down` still has orphans to look for.
NextService(P) ==
    LET rest == Tail(P.todo)
        Q == [P EXCEPT !.todo = rest, !.calls = <<>>, !.deps = <<>>,
                       !.active = "inactive", !.bad = FALSE]
    IN  IF rest # <<>> THEN Enter(Q)
        ELSE IF P.cmd = "down" /\ P.purge THEN [Q EXCEPT !.pc = "orphans"]
        ELSE Idle(P.failed)

\* cleanup_orphan_units goes through the sorted names in reverse.
FirstOrphan(U) == CHOOSE u \in U : \A v \in U : Rank[u] <= Rank[v]

\* The orphans come before the loop in `up` and after it in `down`.
NextOrphan(P) ==
    IF P.orphans = {}
    THEN IF P.cmd = "down" THEN Idle(P.failed) ELSE Enter([P EXCEPT !.calls = <<>>])
    ELSE LET u == FirstOrphan(P.orphans)
         IN  [P EXCEPT !.pc = "purge", !.orphans = P.orphans \ {u},
                       !.calls = IF u.kind = "probe" THEN HealthCleanup(u.of) ELSE MainCleanup(u.of)]

\* blocked_dependency: the dependencies left in `deps` are read in turn.
CheckDeps(P, deps) ==
    [P EXCEPT !.calls = <<>>, !.deps = deps, !.pc = IF deps = <<>> THEN "create" ELSE "depLoad"]

\* A call of a teardown has returned.
AfterCall(P) ==
    LET rest == Tail(P.calls)
        Q == [P EXCEPT !.calls = rest]
    IN  IF rest # <<>> THEN Q
        ELSE CASE P.pc = "recreate" -> IF P.bad THEN Idle(TRUE)
                                       ELSE CheckDeps(P, P.file.def[This(P)].deps)
               [] P.pc = "purge"    -> NextOrphan(P)
               [] OTHER             -> NextService(P)

\* A call of a teardown has failed.  When a unit is recreated, the cleanup of
\* its health units is not looked at, and that of the main unit is fatal.
FailedCall(P) ==
    IF P.pc # "recreate" THEN AfterCall(Note(P, TRUE))
    ELSE AfterCall([P EXCEPT !.bad = P.bad \/ Head(P.calls).kind = "main"])

\* Mutants of UpDecision: a running unit is skipped whatever its hash; an unchanged
\* unit is skipped whatever its state; a unit that is activating does not run.
UpDecisionNoHash(P, hash) ==
    CASE P.active \in RunningStates -> NextService(P)
      [] hash = Desired(P) /\ P.active \notin RunningStates -> [P EXCEPT !.pc = "start"]
      [] OTHER -> [P EXCEPT !.pc = "recreate", !.calls = RecreateCalls(This(P))]
UpDecisionNoState(P, hash) ==
    IF hash = Desired(P) THEN NextService(P)
    ELSE [P EXCEPT !.pc = "recreate", !.calls = RecreateCalls(This(P))]
UpDecisionActiveOnly(P, hash) ==
    CASE hash = Desired(P) /\ P.active = "active" -> NextService(P)
      [] hash = Desired(P) /\ P.active \in {"inactive", "failed"} -> [P EXCEPT !.pc = "start"]
      [] OTHER -> [P EXCEPT !.pc = "recreate", !.calls = RecreateCalls(This(P))]

\* Mutant of StartDecision: any unit that is not inactive counts as running.
StartDecisionFailedRuns(P) ==
    IF P.active # "inactive" THEN NextService(P) ELSE [P EXCEPT !.pc = "start"]

\* handle_up and handle_start once the unit is inspected.
UpDecision(P, hash) ==
    CASE hash = Desired(P) /\ P.active \in RunningStates -> NextService(P)
      [] hash = Desired(P) /\ P.active \notin RunningStates -> [P EXCEPT !.pc = "start"]
      [] OTHER -> [P EXCEPT !.pc = "recreate", !.calls = RecreateCalls(This(P))]
StartDecision(P) ==
    IF P.active \in RunningStates THEN NextService(P) ELSE [P EXCEPT !.pc = "start"]

Effect(m, c, dirty) ==
    CASE c.verb = "stop"  /\ c.kind = "main"  -> StopMain(m, c.of, dirty)
      [] c.verb = "reset" /\ c.kind = "main"  -> ResetMain(m, c.of)
      [] c.verb = "stop"  /\ c.kind = "timer" -> StopTimer(m, c.of)
      [] c.verb = "reset" /\ c.kind = "probe" -> ResetProbe(m, c.of)
      [] OTHER -> m  \* a timer is never failed, a probe does not outlast a call

\* Mutant of OrphanUnits: health units are not looked for.
OrphanUnitsMainOnly(m, f) ==
    {[of |-> s, kind |-> "main"] : s \in Loaded(m) \ Listed(f)}

\* systemd_units.find_orphan_units: the services of the project that systemctl
\* lists, inactive ones included, and that no listed service accounts for.
OrphanUnits(m, f) ==
    {u \in OrphanUnit : /\ u.of \notin Listed(f)
                        /\ u.of \in (IF u.kind = "main" THEN Loaded(m) ELSE ProbesLoaded(m))}

-----------------------------------------------------------------------------
(* History. *)

\* Process p takes a step: what other commands were doing is interfered with,
\* and so is p while another one runs.
Interfere(p) == quiet' = IF Busy \subseteq {p} THEN quiet ELSE {}
Disturbed == quiet' = {} /\ steady' = FALSE

\* A full `up`: no names, no --remove-orphans.
FullUp(r) == r.cmd = "up" /\ r.names = <<>> /\ ~r.purge

\* `steady`: since a moment when no command ran, only full `up`s of the present
\* file ran, none of them failed, and no service stopped on its own.
Steadily(p) == steady' = (steady /\ ~proc'[p].failed)

Moves(p, P) == proc' = [proc EXCEPT ![p] = P] /\ Interfere(p) /\ Steadily(p)
Reads(p, P) == Moves(p, P) /\ UNCHANGED <<file, mgr, budget>>
Asks(p, m, P) == mgr' = m /\ Moves(p, P) /\ UNCHANGED <<file, budget>>

CanFault(kind) == kind \in Faults /\ budget.faults > 0
SpendFault == budget' = [budget EXCEPT !.faults = @ - 1]

-----------------------------------------------------------------------------
(* The commands: one action per subprocess call. *)

\* The handler parses the file, selects the services and looks at its flags.
\* `up` always lists the orphans; without --remove-orphans it only reports them.
Begin(p, r) ==
    LET names == IF r.names = <<>> THEN file.order ELSE r.names
        P == [Idle(FALSE) EXCEPT
                !.cmd = r.cmd, !.purge = r.purge, !.file = file, !.names = names,
                !.todo = IF r.cmd \in {"stop", "down"} THEN Reverse(names) ELSE names]
    IN  /\ proc[p].pc = "idle"
        /\ Range(names) \subseteq Listed(file)
        /\ FullUp(r) \/ budget.commands > 0
        /\ budget' = IF FullUp(r) THEN budget ELSE [budget EXCEPT !.commands = @ - 1]
        /\ proc' = [proc EXCEPT ![p] = IF r.cmd = "up" THEN [P EXCEPT !.pc = "orphans"]
                                                       ELSE Enter(P)]
        /\ quiet' = IF Busy = {} THEN {p} ELSE {}
        /\ steady' = (FullUp(r) /\ (steady \/ Busy = {}))
        /\ UNCHANGED <<file, mgr>>

\* systemd_units.find_orphan_units.
ListOrphans(p) ==
    /\ proc[p].pc = "orphans"
    /\ Reads(p, IF proc[p].purge
                THEN NextOrphan([proc[p] EXCEPT !.orphans = OrphanUnits(mgr, proc[p].file)])
                ELSE Enter(proc[p]))

\* systemd_units.inspect_unit: three reads, and its answer to the handler.
ReadLoadState(p) ==
    LET P == proc[p] IN
    /\ P.pc = "load"
    /\ Reads(p, CASE This(P) \in Loaded(mgr) -> [P EXCEPT !.pc = "active"]
                  [] This(P) \notin Loaded(mgr) /\ P.cmd = "up" -> CheckDeps(P, P.file.def[This(P)].deps)
                  [] OTHER -> NextService(Note(P, TRUE)))

ReadActiveState(p) ==
    /\ proc[p].pc = "active"
    /\ Reads(p, [proc[p] EXCEPT !.pc = "hash", !.active = mgr.active[This(proc[p])]])

ReadDescription(p) ==
    LET P == proc[p] IN
    /\ P.pc = "hash"
    /\ Reads(p, CASE P.cmd = "up"    -> UpDecision(P, mgr.hash[This(P)])
                  [] P.cmd = "start" -> StartDecision(P)
                  [] OTHER           -> [P EXCEPT !.pc = "restart"])

\* systemd_units.blocked_dependency: a dependency that is not loaded is passed
\* over, one that is loaded and does not run blocks the service.
ReadDependencyLoadState(p) ==
    LET P == proc[p] IN
    /\ P.pc = "depLoad"
    /\ Reads(p, IF Head(P.deps) \in Loaded(mgr) THEN [P EXCEPT !.pc = "depActive"]
                ELSE CheckDeps(P, Tail(P.deps)))

ReadDependencyActiveState(p) ==
    LET P == proc[p] IN
    /\ P.pc = "depActive"
    /\ Reads(p, IF mgr.active[Head(P.deps)] \in RunningStates THEN CheckDeps(P, Tail(P.deps))
                ELSE NextService(Note(P, TRUE)))

\* A systemctl call of cleanup_unit, stop_unit and their health counterparts,
\* of which a unit that is not loaded is a success.
TearDown(p) ==
    LET P == proc[p] IN
    /\ P.pc \in Teardowns
    /\ Asks(p, Effect(mgr, Head(P.calls), {}), AfterCall(P))

\* The same when units that go down exit with an error.
TearDownDirty(p) ==
    LET P == proc[p] IN
    /\ P.pc \in Teardowns
    /\ Head(P.calls).verb = "stop" /\ Head(P.calls).kind = "main"
    /\ CanFault("dirty") /\ SpendFault
    /\ \E s \in BoundTo(mgr, Head(P.calls).of) : mgr' = Effect(mgr, Head(P.calls), {s})
    /\ Moves(p, AfterCall(P))
    /\ UNCHANGED file

\* systemd-run of the service: a failure is an exception.
Create(p) ==
    LET P == proc[p] IN
    /\ P.pc = "create"
    /\ Asks(p, CreateMain(mgr, This(P), Desired(P)),
               IF ~CanCreate(mgr, This(P), Desired(P)) THEN Idle(TRUE)
               ELSE IF Monitored(P) THEN [P EXCEPT !.pc = "createTimer"] ELSE NextService(P))

\* systemd-run of the healthcheck timer: a failure is an exception.
CreateHealthTimer(p) ==
    LET P == proc[p] IN
    /\ P.pc = "createTimer"
    /\ Asks(p, CreateTimer(mgr, This(P)),
               IF CanCreateTimer(mgr, This(P)) THEN NextService(P) ELSE Idle(TRUE))

\* After start_existing_unit or restart_existing_unit.
Started(P, ok) ==
    CASE ok /\ Monitored(P)  -> [P EXCEPT !.pc = "startTimer"]
      [] ok /\ ~Monitored(P) -> NextService(P)
      [] OTHER               -> NextService(Note(P, TRUE))

StartExisting(p) ==
    LET P == proc[p] IN
    /\ P.pc = "start"
    /\ Asks(p, IF Startable(mgr, This(P)) THEN StartMain(mgr, This(P)) ELSE mgr,
               Started(P, Startable(mgr, This(P))))

RestartExisting(p) ==
    LET P == proc[p] IN
    /\ P.pc = "restart"
    /\ Asks(p, IF Startable(mgr, This(P)) THEN RestartMain(mgr, This(P)) ELSE mgr,
               Started(P, Startable(mgr, This(P))))

\* systemd_units.start_health_unit: the timer of a unit that was stopped is gone.
StartHealthTimer(p) ==
    LET P == proc[p] IN
    /\ P.pc = "startTimer"
    /\ Reads(p, NextService(Note(P, ~CanStartTimer(mgr, This(P)))))

\* systemctl fails without doing what it was asked, where the handler goes on.
Rejected(p) ==
    LET P == proc[p] IN
    /\ CanFault("reject") /\ SpendFault
    /\ \/ /\ P.pc \in Teardowns
          /\ Moves(p, FailedCall(P))
       \/ /\ P.pc \in {"start", "restart", "startTimer"}
          /\ Moves(p, NextService(Note(P, TRUE)))
    /\ UNCHANGED <<file, mgr>>

\* An exception leaves the handler: a read or a systemd-run that fails, a volume
\* path that cannot be created, an interrupt.
Raise(p) ==
    /\ proc[p].pc # "idle"
    /\ CanFault("raise") /\ SpendFault
    /\ Moves(p, Idle(TRUE))
    /\ UNCHANGED <<file, mgr>>

-----------------------------------------------------------------------------
(* What happens around the commands. *)

EditFile ==
    /\ budget.edits > 0
    /\ budget' = [budget EXCEPT !.edits = @ - 1]
    /\ \E f \in Files \ {file} : file' = f
    /\ steady' = FALSE
    /\ UNCHANGED <<mgr, proc, quiet>>

\* A service exits, cleanly or not, and is not restarted.
Crash ==
    /\ CanFault("crash") /\ SpendFault
    /\ \E s \in Up(mgr), dirty \in SUBSET Service : mgr' = CrashMain(mgr, s, dirty)
    /\ Disturbed
    /\ UNCHANGED <<file, proc>>

\* A service exits and waits for its automatic restart.  One that, through others,
\* depends on itself would go down with them: that is a Crash.
Flap ==
    /\ CanFault("flap") /\ SpendFault
    /\ \E s \in Up(mgr) :
        /\ Requires(mgr)[s] \cap (BoundTo(mgr, s) \ {s}) = {}
        /\ mgr' = FlapMain(mgr, s)
    /\ Disturbed
    /\ UNCHANGED <<file, proc>>

AutoRestart ==
    /\ \E s \in Service : mgr.active[s] = "activating" /\ mgr' = Restarted(mgr, s)
    /\ UNCHANGED <<file, proc, budget, quiet, steady>>

ProbeFails ==
    /\ CanFault("probe") /\ SpendFault
    /\ \E s \in mgr.timers \ mgr.failedProbes : mgr' = RunProbe(mgr, s, FALSE)
    /\ UNCHANGED <<file, proc, quiet, steady>>

ProbeSucceeds ==
    /\ \E s \in mgr.timers \cap mgr.failedProbes : mgr' = RunProbe(mgr, s, TRUE)
    /\ UNCHANGED <<file, proc, budget, quiet, steady>>

-----------------------------------------------------------------------------
Init ==
    /\ file \in Files
    /\ mgr = EmptyManager
    /\ proc = [p \in Proc |-> Idle(FALSE)]
    /\ budget = [faults |-> MaxFaults, edits |-> MaxEdits, commands |-> MaxCommands]
    /\ quiet = {}
    /\ steady = FALSE

Step(p) ==
    \/ ListOrphans(p)
    \/ ReadLoadState(p) \/ ReadActiveState(p) \/ ReadDescription(p)
    \/ ReadDependencyLoadState(p) \/ ReadDependencyActiveState(p)
    \/ TearDown(p)
    \/ Create(p) \/ CreateHealthTimer(p)
    \/ StartExisting(p) \/ RestartExisting(p) \/ StartHealthTimer(p)

Fault(p) == TearDownDirty(p) \/ Rejected(p) \/ Raise(p)

Environment == EditFile \/ Crash \/ Flap \/ AutoRestart \/ ProbeFails \/ ProbeSucceeds

Next ==
    \/ \E p \in Proc : (\E r \in Requests : Begin(p, r)) \/ Step(p) \/ Fault(p)
    \/ Environment

Spec == Init /\ [][Next]_vars

\* A user who keeps running `up`: a command that runs makes its next call, and is
\* followed by another full `up`; a service in auto-restart is restarted.  A process
\* is idle or busy, so one fairness condition is enough for both.
Retry(p) == \E r \in Requests : FullUp(r) /\ Begin(p, r)
RetrySpec ==
    /\ Spec
    /\ \A p \in Proc : WF_vars(Retry(p) \/ Step(p))
    /\ WF_vars(AutoRestart)

-----------------------------------------------------------------------------
(* Properties. *)

\* A process is well formed: the loops stand where there is something left to do,
\* on services of the file the command read.
WellFormed(P) ==
    /\ P \in Process
    /\ \A i \in DOMAIN P.todo : P.todo[i] \in Listed(P.file)
    /\ P.pc \notin {"idle", "orphans", "purge"} => P.todo # <<>>
    /\ P.pc \in {"orphans", "purge"} => P.todo # <<>> \/ (P.cmd = "down" /\ P.purge)
    /\ P.pc \in Teardowns => P.calls # <<>>
    /\ P.pc \in {"depLoad", "depActive"} => P.deps # <<>>

TypeOK ==
    /\ file \in Files
    /\ mgr \in Manager
    /\ proc \in [Proc -> Process]
    /\ \A p \in Proc : WellFormed(proc[p])
    /\ budget \in [faults : 0..MaxFaults, edits : 0..MaxEdits, commands : 0..MaxCommands]
    /\ quiet \subseteq Proc
    /\ steady \in BOOLEAN

\* Every service that runs has what it depends on running: nothing the commands
\* do, in whatever order and however they end, leaves a service up on top of a
\* dependency that is down (the Requires=/BindsTo= of build_systemd_run_command).
DependencyBound == DependenciesUp(mgr)

\* A healthcheck timer never outlives the run of its service, and nothing that a
\* command leaves behind is loaded for a service that is not.
MonitorBound == MonitoredUp(mgr) /\ ProbesKeepMain(mgr)

ExitsOk(p) == proc[p].pc # "idle" /\ proc'[p].pc = "idle" /\ ~proc'[p].failed
Alone(p) == p \in quiet /\ p \in quiet'

\* No service comes before one it depends on, through others or not.
DependencyFirst(f, names) ==
    LET graph == [s \in Listed(f) |-> DependsOn(f.def[s])]
    IN  \A i, j \in DOMAIN names : i < j => names[i] \notin DependentsOf(graph, {names[j]})

\* Each service but the last is named together with what it depends on.
WithDependencies(f, names) ==
    \A i \in DOMAIN names : i < Len(names) => DependsOn(f.def[names[i]]) \subseteq Range(names)

Aligned(m, f, names) == \A s \in Range(names) : Runs(m, s, Hash(f, s))

\* An `up` that reports success, and that nothing interfered with, leaves every
\* service it names running with the definition of the file, provided the names
\* come in dependency order (handle_up takes them in the order given) and with
\* their dependencies: a dependency left out may be loaded with an older
\* definition, and through it a unit recreated later in the loop take down one
\* that was already looked at.  Otherwise it takes none of the earlier ones down,
\* and no unit is skipped, started or passed over wrongly.
UpHonest == [][\A p \in Proc :
    /\ ExitsOk(p) /\ Alone(p) /\ proc[p].cmd = "up"
    /\ DependencyFirst(proc[p].file, proc[p].names)
    /\ WithDependencies(proc[p].file, proc[p].names)
    => Aligned(mgr', proc[p].file, proc[p].names)]_vars

\* A `start` or `restart` that reports success leaves all its services running:
\* handle_start does not take a unit that is failed, or that an earlier step took
\* down, for a running one.
StartHonest == [][\A p \in Proc :
    ExitsOk(p) /\ Alone(p) /\ proc[p].cmd \in {"start", "restart"}
    => Range(proc[p].names) \subseteq Up(mgr')]_vars

\* A `stop` or `down` that reports success leaves none of its services running,
\* nor monitored, and `down` none of them failed (README: "`down` stops units and
\* resets failed transient units"), although each stop takes dependants with it.
StopHonest == [][\A p \in Proc :
    ExitsOk(p) /\ Alone(p) /\ proc[p].cmd \in {"stop", "down"}
    => \A s \in Range(proc[p].names) :
        /\ s \notin Up(mgr') \cup mgr'.timers
        /\ proc[p].cmd = "down" => mgr'.active[s] = "inactive"]_vars

\* An `up` or `down` of the whole file with --remove-orphans that reports success
\* leaves nothing of a service that is no longer listed: its unit does not run,
\* is not failed, is not monitored and has no failed probe.
PurgeHonest == [][\A p \in Proc :
    /\ ExitsOk(p) /\ Alone(p) /\ proc[p].purge
    /\ proc[p].names = proc[p].file.order /\ DependencyFirst(proc[p].file, proc[p].names)
    => \A s \in Service \ Listed(proc[p].file) :
        mgr'.active[s] = "inactive" /\ s \notin ProbesLoaded(mgr')]_vars

\* What an `up` may take down: orphans it was told to remove, named services
\* whose definition changed, and what depends on one of these.
MayTakeDown(P) ==
    LET changed == {s \in Range(P.names) : mgr.hash[s] # Hash(P.file, s)}
        orphans == IF P.purge THEN Service \ Listed(P.file) ELSE {}
    IN  DependentsOf(Requires(mgr), changed \cup orphans)

\* `up` never stops a service it has no reason to stop (README: "Skips unchanged
\* units that are already running").
NoNeedlessStop == [][\A p \in Proc :
    /\ proc[p].cmd = "up" /\ proc[p].pc # "idle" /\ proc' # proc
    /\ quiet = {p}
    => Up(mgr) \ Up(mgr') \subseteq MayTakeDown(proc[p])]_vars

\* When no command runs, and since the last moment like this only full `up`s of
\* the present file ran, all successful, with no service exiting meanwhile, then
\* the project is what the file says, whatever the interleaving of their calls:
\* no `up` undoes or misses what another does between its reads and its calls.
SteadyAligned ==
    steady /\ Busy = {} /\ DependencyFirst(file, file.order) => Aligned(mgr, file, file.order)

\* Running `up` again and again brings the project to the compose file, and it
\* stays there.
EventuallyAligned == <>[]Aligned(mgr, file, file.order)

\* README: "`up` submits missing units and keeps existing units aligned with the
\* compose file": after a successful `up` every healthcheck has its timer.
UpMonitors == [][\A p \in Proc :
    /\ ExitsOk(p) /\ Alone(p) /\ proc[p].cmd = "up"
    => \A s \in Range(proc[p].names) : HasHealth(proc[p].file, s) => s \in mgr'.timers]_vars

\* README: "Creates units that do not exist yet": an `up` with which nothing
\* interferes and to which no fault happens, on an empty manager or not, ends
\* with a unit for every service it names.
UpCreates == [][\A p \in Proc :
    /\ proc[p].pc # "idle" /\ proc'[p].pc = "idle" /\ Alone(p)
    /\ proc[p].cmd = "up" /\ budget'.faults = MaxFaults
    => Range(proc[p].names) \subseteq Loaded(mgr')]_vars

-----------------------------------------------------------------------------
(* What a user sees of it: the abstract specification. *)

Deployed(m) == [s \in Service |-> IF s \in Up(m) THEN m.hash[s] ELSE NoHash]
Abstract == INSTANCE Deployment WITH deployed <- Deployed(mgr), watched <- mgr.timers

\* Every call of every command, every fault and every service that exits is one
\* move of a deployment, or none: it starts services or stops services, never
\* swaps the definition under a service that runs, never gives a service the
\* definition of another, and never leaves one without its dependencies or a
\* healthcheck without its service, not even between two calls.
ImplementsDeployment == Abstract!Spec

=============================================================================
