----------------------------- MODULE Inspection -----------------------------
(***************************************************************************)
(* The commands that look at a project: ps and health, which read the unit *)
(* of a service and then that of its probe, and stats, which samples the   *)
(* services again and again and shows what they used in between.  They     *)
(* change nothing; whatever other commands ask of the manager, services    *)
(* that exit and probes that run come between any two of their reads.      *)
(*                                                                         *)
(* The manager is that of UserManager.  A probe takes time here, and what  *)
(* systemctl shows of it is kept: while it runs its Result and             *)
(* ExecMainStatus are reset to success and 0, which is also what is shown  *)
(* of a probe that never ran.                                              *)
(***************************************************************************)
EXTENDS UserManager, Integers

CONSTANTS
    Tick,    \* nanoseconds in a unit of the cgroup's counter
    MaxUse   \* bound: Service -> the CPU time it uses in a behaviour

ASSUME FilesExist == Files # {}
ASSUME TickAssumption == Tick \in Nat \ {0}
ASSUME MaxUseAssumption == MaxUse \in [Service -> Nat]

VARIABLES
    mgr,      \* the user manager
    probing,  \* the services whose probe runs now
    lenient,  \* the services whose failed probe timed out and exited with status 0
    cpu,      \* Service -> the CPU time its unit accounts for
    view,     \* the command that looks
    seen      \* history: see below

vars == <<mgr, probing, lenient, cpu, view, seen>>

Dash == -1     \* a cell without a value
NotSet == -1   \* a property without a value

\* A sample of a service.  `at` is history: what the service had used by then.
Sample == [ns : Nat \cup {NotSet}, at : Nat]
NoSample == [ns |-> NotSet, at |-> 0]

Reads == {"main", "probe", "sample"}
View == [cmd     : {"ps", "stats"},        \* health reads what ps reads
         pc      : {"idle", "print"} \cup Reads,
         stream  : BOOLEAN,                \* stats without --no-stream
         first   : BOOLEAN,                \* stats: there is no previous round
         file    : Files,                  \* the file as the command read it
         todo    : Seq(Service),           \* its loop, from the current service on
         current : [Service -> Sample],
         previous : [Service -> Sample]]

Idle == [cmd |-> "ps", pc |-> "idle", stream |-> FALSE, first |-> TRUE,
         file |-> CHOOSE f \in Files : TRUE, todo |-> <<>>,
         current |-> [s \in Service |-> NoSample], previous |-> [s \in Service |-> NoSample]]

This == Head(view.todo)

-----------------------------------------------------------------------------
(* What is shown. *)

\* What systemctl shows of the probe of s: the defaults of a unit that is not loaded,
\* of which `show` does not fail.  So the answer "not-found" that unit_file_properties
\* gives in the place of an error (systemd_units.py:54-56) is not seen.
ProbeProperties(s) ==
    LET failed == s \in mgr.failedProbes
    IN  [ActiveState |-> IF s \in probing THEN "activating" ELSE IF failed THEN "failed" ELSE "inactive",
         Result |-> IF failed THEN "failure" ELSE "success",
         ExecMainStatus |-> IF failed /\ s \notin lenient THEN "1" ELSE "0"]

\* Mutant of HealthStatus: a probe that runs has not succeeded yet.
HealthStatusRunning(p) ==
    IF p.ActiveState = "inactive" /\ p.Result = "success" THEN "healthy" ELSE "unhealthy"

\* What systemctl shows of a property without a value: one for all of them.
MissingValues == {""}

\* status.format_health_status
HealthStatus(p) ==
    IF p.Result = "success" \/ p.ExecMainStatus = "0" THEN "healthy"
    ELSE IF p.Result \notin MissingValues THEN "unhealthy"
    ELSE "starting"

\* Mutant of UsedBetween: a sample without a value counts as 0.
UsedBetweenZero(current, previous) ==
    IF current = NotSet THEN Dash
    ELSE IF previous = NotSet THEN current
    ELSE IF current < previous THEN Dash ELSE current - previous

\* stats.format_cpu_percent, as the CPU time its percentage stands for.
UsedBetween(current, previous) ==
    IF NotSet \in {current, previous} \/ current < previous THEN Dash ELSE current - previous

\* The counter of the cgroup is coarser than that of systemd.
Coarse(ns) == ns - (ns % Tick)

\* stats.collect_stats_snapshot: CPUUsageNSec, or what the cgroup of a running
\* service says when systemd has no value.
CpuUsage(s) ==
    CASE s \in Up(mgr) -> {cpu[s], Coarse(cpu[s]), NotSet}
      [] s \in Loaded(mgr) \ Up(mgr) -> {cpu[s], NotSet}
      [] OTHER -> {NotSet}

-----------------------------------------------------------------------------
(* The commands that look. *)

\* Mutant of Enter: the end of the loop is not noticed.
EnterEndless(V) == [V EXCEPT !.pc = IF V.cmd = "stats" THEN "sample" ELSE "main"]

\* The body of the loop begins.
Enter(V) ==
    IF V.todo # <<>> THEN [V EXCEPT !.pc = IF V.cmd = "stats" THEN "sample" ELSE "main"]
    ELSE IF V.cmd = "stats" THEN [V EXCEPT !.pc = "print"] ELSE Idle

NextRow(V) == Enter([V EXCEPT !.todo = Tail(V.todo)])

Looks(V) == view' = V /\ UNCHANGED <<mgr, probing, lenient, cpu, seen>>

Begin(cmd, stream, f) ==
    /\ view.pc = "idle"
    /\ Looks(Enter([Idle EXCEPT !.cmd = cmd, !.stream = stream, !.file = f, !.todo = f.order]))

\* One systemctl show of the service's unit.  collect_health_status goes on to the
\* probe if there is a healthcheck and the service runs; otherwise the row says
\* that there is none, that the unit is not created, or its ActiveState.
ReadMain ==
    /\ view.pc = "main"
    /\ Looks(IF HasHealth(view.file, This) /\ This \in Up(mgr) THEN [view EXCEPT !.pc = "probe"]
             ELSE NextRow(view))

\* The second read, of the probe's unit: the row shows its HealthStatus.
ReadProbe ==
    /\ view.pc = "probe"
    /\ Looks(NextRow(view))

TakeSample ==
    /\ view.pc = "sample"
    /\ \E ns \in CpuUsage(This) :
          Looks(Enter([view EXCEPT !.todo = Tail(view.todo),
                                   !.current[This] = [ns |-> ns, at |-> seen.total[This]]]))

\* handle_stats: a round ends with its table, which shows UsedBetween.  --no-stream
\* shows the second round only, and ends with it.
PrintTable ==
    /\ view.pc = "print"
    /\ Looks(IF view.stream \/ view.first
             THEN Enter([view EXCEPT !.first = FALSE, !.previous = view.current, !.todo = view.file.order])
             ELSE Idle)

\* systemctl fails, or the user interrupts the command.
GiveUp == view.pc # "idle" /\ Looks(Idle)

-----------------------------------------------------------------------------
(* What happens meanwhile. *)

\* History.
\*   total  : Service -> the CPU time it has used in all its runs
\*   failed : the services a probe of which failed since their unit was submitted,
\*            and none has succeeded since it did

\* The manager becomes m, and the services in `again` are restarted by it.  A
\* probe is bound to its service, and a new run is accounted for from 0.
Becomes(m, again) ==
    LET new == again \cup (Up(m) \ Up(mgr))
    IN  /\ mgr' = m
        /\ probing' = (probing \cap Up(m)) \ new
        /\ lenient' = lenient \cap m.failedProbes
        /\ cpu' = [s \in Service |-> IF s \in new \/ s \notin Loaded(m) THEN 0 ELSE cpu[s]]
        /\ seen' = [seen EXCEPT !.failed = @ \cap Loaded(m)]
        /\ UNCHANGED view

\* A call of one of the commands of TransientProject.
Asked(s) ==
    \/ \E dirty \in {{}, {s}} : Becomes(StopMain(mgr, s, dirty), {})
    \/ Becomes(StopTimer(mgr, s), {})
    \/ Becomes(ResetMain(mgr, s), {})
    \/ s \notin probing /\ Becomes(ResetProbe(mgr, s), {})
    \/ s \in Loaded(mgr) /\ Startable(mgr, s) /\ Becomes(StartMain(mgr, s), {})
    \/ s \in Loaded(mgr) /\ Startable(mgr, s) /\ Becomes(RestartMain(mgr, s), BoundTo(mgr, s))
    \/ \E f \in Files : s \in Listed(f) /\ Becomes(CreateMain(mgr, s, Hash(f, s)), {})
    \/ /\ s \in Loaded(mgr) \ probing /\ mgr.hash[s].own.health
       /\ Becomes(CreateTimer(mgr, s), {})

\* The main process of s exits, with an error or not.
Exits(s) ==
    /\ s \in Up(mgr)
    /\ \E dirty \in {{}, {s}} : Becomes(CrashMain(mgr, s, dirty), {})

\* A probe starts: what is shown of the one before is reset.
ProbeStarts(s) ==
    /\ s \in mgr.timers \ probing
    /\ mgr' = RunProbe(mgr, s, TRUE)
    /\ probing' = probing \cup {s}
    /\ lenient' = lenient \ {s}
    /\ UNCHANGED <<cpu, view, seen>>

\* It succeeds, fails, or times out, whatever it then exits with.
ProbeEnds(s) ==
    /\ s \in probing
    /\ probing' = probing \ {s}
    /\ \/ /\ mgr' = RunProbe(mgr, s, TRUE)
          /\ seen' = [seen EXCEPT !.failed = @ \ {s}]
          /\ UNCHANGED lenient
       \/ /\ mgr' = RunProbe(mgr, s, FALSE)
          /\ lenient' \in {lenient, lenient \cup {s}}
          /\ seen' = [seen EXCEPT !.failed = @ \cup {s}]
    /\ UNCHANGED <<cpu, view>>

\* A probe is stopped by a command that cleans up.
ProbeStopped(s) ==
    /\ s \in probing
    /\ probing' = probing \ {s}
    /\ UNCHANGED <<mgr, lenient, cpu, view, seen>>

Computes(s) ==
    /\ s \in Up(mgr) /\ seen.total[s] < MaxUse[s]
    /\ cpu' = [cpu EXCEPT ![s] = @ + 1]
    /\ seen' = [seen EXCEPT !.total[s] = @ + 1]
    /\ UNCHANGED <<mgr, probing, lenient, view>>

-----------------------------------------------------------------------------
Init ==
    /\ mgr = EmptyManager
    /\ probing = {} /\ lenient = {}
    /\ cpu = [s \in Service |-> 0]
    /\ view = Idle
    /\ seen = [total |-> [s \in Service |-> 0], failed |-> {}]

Look ==
    \/ \E f \in Files : Begin("ps", FALSE, f)
    \/ \E f \in Files, stream \in BOOLEAN : Begin("stats", stream, f)
    \/ ReadMain \/ ReadProbe \/ TakeSample \/ PrintTable \/ GiveUp

Meanwhile(s) ==
    Asked(s) \/ Exits(s) \/ ProbeStarts(s) \/ ProbeEnds(s) \/ ProbeStopped(s) \/ Computes(s)

Next == Look \/ \E s \in Service : Meanwhile(s)

Spec == Init /\ [][Next]_vars

-----------------------------------------------------------------------------
(* Properties. *)

\* A command reads only where its loop still has a service of its file.
WellFormed(V) ==
    /\ V \in View
    /\ Range(V.todo) \subseteq Listed(V.file)
    /\ V.pc \in Reads => V.todo # <<>>

TypeOK ==
    /\ mgr \in Manager
    /\ probing \in SUBSET Service
    /\ lenient \in SUBSET mgr.failedProbes
    /\ cpu \in [Service -> Nat]
    /\ WellFormed(view)
    /\ seen \in [total : [Service -> Nat], failed : SUBSET Service]

\* README: "`unhealthy` after the latest failed probe".  A service that `ps` or
\* `health` is about to show as unhealthy has failed a probe since the unit it has
\* now was submitted, none has succeeded since, and none runs: the probe is not that
\* of a unit taken down, or recreated with another definition, between the two
\* reads or before.
UnhealthyDeserved ==
    view.pc = "probe" /\ HealthStatus(ProbeProperties(This)) = "unhealthy" =>
        This \in Loaded(mgr) /\ This \in seen.failed \ probing

\* What `stats` shows a service to have used between two rounds it has used, up to
\* the grain of the coarser counter: whatever restarts, missing values and changes
\* from one source of the counter to the other came between the two samples.
CpuHonest ==
    view.pc = "print" => \A s \in Service :
        LET used == UsedBetween(view.current[s].ns, view.previous[s].ns)
        IN  used # Dash => /\ used >= 0
                           /\ used < view.current[s].at - view.previous[s].at + Tick

=============================================================================
