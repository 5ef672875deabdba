------------------------- MODULE UserManagerProofs -------------------------
(***************************************************************************)
(* Every request to the user manager, and everything a service does on its *)
(* own, preserves ManagerInv: a lemma per operator of UserManager, for any *)
(* set of services and any compose files.                                  *)
(***************************************************************************)
EXTENDS UserManager, CommonProofs

-----------------------------------------------------------------------------
\* The edges between main units are those of the definitions they were submitted with.
LEMMA RequiresType ==
    ASSUME NEW m \in Manager
    PROVE  /\ Requires(m) \in [Service -> SUBSET Service]
           /\ \A s \in Loaded(m) : Requires(m)[s] = DependsOn(m.hash[s].own)
           /\ \A s \in Service \ Loaded(m) : Requires(m)[s] = {}
<1>1. ASSUME NEW s \in Service PROVE RequiredBy(m.hash[s]) \subseteq Service
  <2>1. m.hash[s] \in Hashes \cup {NoHash}
    BY DEF Manager
  <2> QED
    BY <2>1, HashDependencies DEF RequiredBy
<1>2. Requires(m) \in [Service -> SUBSET Service]
  BY <1>1 DEF Requires
<1>3. \A s \in Service : Requires(m)[s] = RequiredBy(m.hash[s])
  BY DEF Requires
<1> QED
  BY <1>2, <1>3 DEF Loaded, RequiredBy

\* Under ManagerInv, what runs is loaded, and requires only what runs.
LEMMA UpFacts ==
    ASSUME NEW m, ManagerInv(m)
    PROVE  /\ Up(m) \subseteq Loaded(m)
           /\ Loaded(m) \subseteq Service
           /\ \A s \in Up(m) : Requires(m)[s] \subseteq Up(m)
<1>1. m \in Manager
  BY DEF ManagerInv
<1>2. Up(m) \subseteq Loaded(m)
  BY DEF ManagerInv, NotFoundIsInactive, Up, Loaded, RunningStates
<1>3. \A s \in Loaded(m) : Requires(m)[s] = DependsOn(m.hash[s].own)
  BY <1>1, RequiresType
<1>4. \A s \in Up(m) : Requires(m)[s] \subseteq Up(m)
  BY <1>2, <1>3 DEF ManagerInv, DependenciesUp
<1> QED
  BY <1>2, <1>4 DEF Loaded

-----------------------------------------------------------------------------
\* Unloading garbage takes nothing away that runs, is failed or is monitored.
LEMMA CollectInv ==
    ASSUME NEW m, ManagerInv(m)
    PROVE  ManagerInv(Collect(m)) /\ Up(Collect(m)) = Up(m)
<1> DEFINE anchors == {s \in Service : m.active[s] # "inactive"} \cup ProbesLoaded(m)
           kept == RequirementsOf(Requires(m), anchors)
           hash == [s \in Service |-> IF s \in kept THEN m.hash[s] ELSE NoHash]
           n == Collect(m)
<1>1. m \in Manager
  BY DEF ManagerInv
<1>2. anchors \subseteq Service
  BY <1>1 DEF Manager, ProbesLoaded
<1>3. anchors \subseteq kept
  <2>1. DOMAIN Requires(m) = Service
    BY DEF Requires
  <2> QED
    BY <1>2, <2>1, RequirementsContain
<1>4. n = [m EXCEPT !.hash = hash]
  BY DEF Collect
<1>5. hash \in [Service -> Hashes \cup {NoHash}]
  BY <1>1 DEF Manager
<1> HIDE DEF kept, anchors, hash
<1>6. /\ n \in Manager
      /\ n.active = m.active /\ n.timers = m.timers /\ n.failedProbes = m.failedProbes
      /\ n.hash = hash
  BY <1>1, <1>4, <1>5 DEF Manager
<1>7. \A s \in anchors : s \in Service /\ n.hash[s] = m.hash[s]
  BY <1>2, <1>3, <1>6 DEF hash
<1>8. \A s \in Service : n.hash[s] \in {m.hash[s], NoHash}
  BY <1>6 DEF hash
<1>9. Up(n) = Up(m) /\ Up(m) \subseteq anchors
  BY <1>6 DEF Up, RunningStates, anchors
<1>10. NotFoundIsInactive(n)
  <2>1. SUFFICES ASSUME NEW s \in Service, n.hash[s] = NoHash, m.active[s] # "inactive"
                 PROVE  FALSE
    BY <1>6 DEF NotFoundIsInactive, Loaded
  <2>2. s \in anchors
    BY <2>1 DEF anchors
  <2>3. m.hash[s] = NoHash
    BY <1>7, <2>1, <2>2
  <2> QED
    BY <2>1, <2>3 DEF ManagerInv, NotFoundIsInactive, Loaded
<1>11. ProbesKeepMain(n)
  <2>1. ProbesLoaded(n) = ProbesLoaded(m) /\ ProbesLoaded(m) \subseteq anchors
    BY <1>6 DEF ProbesLoaded, anchors
  <2>2. ProbesLoaded(m) \subseteq Loaded(m)
    BY DEF ManagerInv, ProbesKeepMain
  <2> QED
    BY <1>7, <2>1, <2>2 DEF ProbesKeepMain, Loaded
<1>12. DependenciesUp(n)
  <2>1. SUFFICES ASSUME NEW s \in Up(n), s \in Loaded(n)
                 PROVE  DependsOn(n.hash[s].own) \subseteq Up(n)
    BY DEF DependenciesUp
  <2>2. s \in Up(m) /\ n.hash[s] = m.hash[s] /\ s \in Loaded(m)
    BY <1>7, <1>9, <2>1 DEF Loaded
  <2> QED
    BY <1>9, <2>2 DEF ManagerInv, DependenciesUp
<1>13. MonitoredUp(n)
  BY <1>6, <1>9 DEF ManagerInv, MonitoredUp
<1> QED
  BY <1>6, <1>9, <1>10, <1>11, <1>12, <1>13 DEF ManagerInv

-----------------------------------------------------------------------------
\* A set of running units that holds its running dependants can stop.
LEMMA TakeDownInv ==
    ASSUME NEW m, ManagerInv(m), NEW S \in SUBSET Up(m), NEW dirty,
           \A t \in Up(m) : Requires(m)[t] \cap S # {} => t \in S
    PROVE  ManagerInv(TakeDown(m, S, dirty)) /\ Up(TakeDown(m, S, dirty)) = Up(m) \ S
<1> DEFINE active == [t \in Service |->
               IF t \notin S THEN m.active[t] ELSE IF t \in dirty THEN "failed" ELSE "inactive"]
           n == [m EXCEPT !.active = active, !.timers = m.timers \ TimersBoundTo(S)]
<1>1. m \in Manager
  BY DEF ManagerInv
<1>2. active \in [Service -> ActiveState]
  BY <1>1 DEF Manager, ActiveState
<1> HIDE DEF active
<1>3. /\ n \in Manager
      /\ n.active = active /\ n.hash = m.hash /\ n.failedProbes = m.failedProbes
      /\ n.timers = m.timers \ S
  BY <1>1, <1>2 DEF Manager, TimersBoundTo
<1>4. Up(n) = Up(m) \ S
  BY <1>3 DEF Up, RunningStates, active
<1>5. Loaded(n) = Loaded(m)
  BY <1>3 DEF Loaded
<1>6. NotFoundIsInactive(n)
  <2>1. S \subseteq Loaded(m)
    BY UpFacts
  <2> QED
    BY <1>3, <1>5, <2>1 DEF NotFoundIsInactive, ManagerInv, active
<1>7. ProbesKeepMain(n)
  BY <1>3, <1>5 DEF ProbesKeepMain, ProbesLoaded, ManagerInv
<1>8. DependenciesUp(n)
  <2>1. SUFFICES ASSUME NEW s \in Up(n), s \in Loaded(n)
                 PROVE  DependsOn(n.hash[s].own) \subseteq Up(n)
    BY DEF DependenciesUp
  <2>2. s \in Up(m) /\ s \notin S
    BY <1>4, <2>1
  <2>3. Requires(m)[s] = DependsOn(n.hash[s].own)
    BY <1>1, <1>3, <1>5, <2>1, RequiresType
  <2>4. Requires(m)[s] \subseteq Up(m)
    BY <2>2, UpFacts
  <2> QED
    BY <1>4, <2>2, <2>3, <2>4
<1>9. MonitoredUp(n)
  BY <1>3, <1>4 DEF MonitoredUp, ManagerInv
<1>10. ManagerInv(n)
  BY <1>3, <1>6, <1>7, <1>8, <1>9 DEF ManagerInv
<1>11. TakeDown(m, S, dirty) = Collect(n)
  BY DEF TakeDown, active
<1> HIDE DEF n
<1> QED
  BY <1>4, <1>10, <1>11, CollectInv

\* What goes down with a unit is such a set.
LEMMA BoundToClosed ==
    ASSUME NEW m, ManagerInv(m), NEW s \in Service
    PROVE  /\ BoundTo(m, s) \subseteq Up(m)
           /\ \A t \in Up(m) : Requires(m)[t] \cap BoundTo(m, s) # {} => t \in BoundTo(m, s)
           /\ s \in Up(m) => s \in BoundTo(m, s)
<1> DEFINE D == DependentsOf(Requires(m), {s})
<1>1. DOMAIN Requires(m) = Service /\ Up(m) \subseteq Service
  BY DEF Requires, Up
<1>2. s \in D
  BY <1>1, DependentsContain
<1>3. UpwardClosed(Requires(m), D)
  BY DependentsClosed
<1> QED
  BY <1>1, <1>2, <1>3 DEF BoundTo, UpwardClosed

\* systemctl stop of a main unit.
LEMMA StopMainInv ==
    ASSUME NEW m, ManagerInv(m), NEW s \in Service, NEW dirty
    PROVE  ManagerInv(StopMain(m, s, dirty)) /\ Up(StopMain(m, s, dirty)) = Up(m) \ BoundTo(m, s)
  BY BoundToClosed, TakeDownInv DEF StopMain

\* A main process that exits for good.
LEMMA CrashMainInv ==
    ASSUME NEW m, ManagerInv(m), NEW s \in Service, NEW dirty
    PROVE  ManagerInv(CrashMain(m, s, dirty))
  BY BoundToClosed, TakeDownInv DEF CrashMain

\* systemctl stop of a healthcheck timer.
LEMMA StopTimerInv ==
    ASSUME NEW m, ManagerInv(m), NEW s \in Service
    PROVE  ManagerInv(StopTimer(m, s)) /\ Up(StopTimer(m, s)) = Up(m)
<1> DEFINE n == [m EXCEPT !.timers = m.timers \ {s}]
<1>1. /\ n \in Manager
      /\ n.active = m.active /\ n.hash = m.hash /\ n.failedProbes = m.failedProbes
      /\ n.timers \subseteq m.timers
  BY DEF ManagerInv, Manager
<1>2. Up(n) = Up(m) /\ Loaded(n) = Loaded(m)
  BY <1>1 DEF Up, Loaded
<1>3. ManagerInv(n)
  BY <1>1, <1>2 DEF ManagerInv, NotFoundIsInactive, ProbesKeepMain, ProbesLoaded,
                    DependenciesUp, MonitoredUp
<1>4. StopTimer(m, s) = Collect(n)
  BY DEF StopTimer
<1> HIDE DEF n
<1> QED
  BY <1>2, <1>3, <1>4, CollectInv

\* systemctl reset-failed of a probe.
LEMMA ResetProbeInv ==
    ASSUME NEW m, ManagerInv(m), NEW s \in Service
    PROVE  ManagerInv(ResetProbe(m, s)) /\ Up(ResetProbe(m, s)) = Up(m)
<1> DEFINE n == [m EXCEPT !.failedProbes = m.failedProbes \ {s}]
<1>1. /\ n \in Manager
      /\ n.active = m.active /\ n.hash = m.hash /\ n.timers = m.timers
      /\ n.failedProbes \subseteq m.failedProbes
  BY DEF ManagerInv, Manager
<1>2. Up(n) = Up(m) /\ Loaded(n) = Loaded(m)
  BY <1>1 DEF Up, Loaded
<1>3. ManagerInv(n)
  BY <1>1, <1>2 DEF ManagerInv, NotFoundIsInactive, ProbesKeepMain, ProbesLoaded,
                    DependenciesUp, MonitoredUp
<1>4. ResetProbe(m, s) = Collect(n)
  BY DEF ResetProbe
<1> HIDE DEF n
<1> QED
  BY <1>2, <1>3, <1>4, CollectInv

\* systemctl reset-failed of a main unit.
LEMMA ResetMainInv ==
    ASSUME NEW m, ManagerInv(m), NEW s \in Service
    PROVE  ManagerInv(ResetMain(m, s)) /\ Up(ResetMain(m, s)) = Up(m)
<1> DEFINE n == [m EXCEPT !.active[s] = IF m.active[s] = "failed" THEN "inactive" ELSE m.active[s]]
<1>1. m \in Manager
  BY DEF ManagerInv
<1>2. /\ n \in Manager
      /\ n.hash = m.hash /\ n.timers = m.timers /\ n.failedProbes = m.failedProbes
      /\ \A t \in Service : n.active[t] = m.active[t]
                            \/ (m.active[t] = "failed" /\ n.active[t] = "inactive")
  BY <1>1 DEF Manager, ActiveState
<1>3. Up(n) = Up(m) /\ Loaded(n) = Loaded(m)
  BY <1>2 DEF Up, Loaded, RunningStates
<1>4. ManagerInv(n)
  BY <1>2, <1>3 DEF ManagerInv, NotFoundIsInactive, ProbesKeepMain, ProbesLoaded,
                    DependenciesUp, MonitoredUp
<1>5. ResetMain(m, s) = Collect(n)
  BY DEF ResetMain
<1> HIDE DEF n
<1> QED
  BY <1>3, <1>4, <1>5, CollectInv

\* Starting a unit, when it and all it requires are loaded, only adds to what runs.
LEMMA StartMainInv ==
    ASSUME NEW m, ManagerInv(m), NEW s \in Service, Startable(m, s)
    PROVE  /\ ManagerInv(StartMain(m, s))
           /\ Up(m) \subseteq Up(StartMain(m, s))
           /\ s \in Up(StartMain(m, s))
           /\ StartMain(m, s).hash = m.hash
           /\ StartMain(m, s).timers = m.timers
<1> DEFINE R == RequirementsOf(Requires(m), {s})
           active == [t \in Service |-> IF t \in R \ Up(m) THEN "active" ELSE m.active[t]]
           n == StartMain(m, s)
<1>1. m \in Manager
  BY DEF ManagerInv
<1>2. Requires(m) \in [Service -> SUBSET Service]
  BY <1>1, RequiresType
<1>3. s \in R /\ R \subseteq Loaded(m) /\ R \subseteq Service
  BY <1>2, RequirementsContain DEF Startable, RequirementsOf
<1>4. \A t \in R : Requires(m)[t] \subseteq R
  BY <1>2, <1>3, RequirementsClosed DEF DownwardClosed
<1>5. n = [m EXCEPT !.active = active]
  BY DEF StartMain
<1>6. active \in [Service -> ActiveState]
  BY <1>1 DEF Manager, ActiveState
<1> HIDE DEF R, active
<1>7. /\ n \in Manager
      /\ n.active = active /\ n.hash = m.hash
      /\ n.timers = m.timers /\ n.failedProbes = m.failedProbes
  BY <1>1, <1>5, <1>6 DEF Manager
<1>8. Up(n) = Up(m) \cup R /\ Loaded(n) = Loaded(m)
  BY <1>3, <1>7 DEF Up, RunningStates, Loaded, active
<1>9. NotFoundIsInactive(n)
  BY <1>3, <1>7, <1>8 DEF NotFoundIsInactive, ManagerInv, active
<1>10. DependenciesUp(n)
  <2>1. SUFFICES ASSUME NEW t \in Up(n), t \in Loaded(n)
                 PROVE  DependsOn(n.hash[t].own) \subseteq Up(n)
    BY DEF DependenciesUp
  <2>2. Requires(m)[t] = DependsOn(n.hash[t].own)
    BY <1>1, <1>7, <1>8, <2>1, RequiresType
  <2> QED
    BY <1>4, <1>8, <2>1, <2>2, UpFacts
<1>11. ProbesKeepMain(n) /\ MonitoredUp(n)
  BY <1>7, <1>8 DEF ManagerInv, ProbesKeepMain, ProbesLoaded, MonitoredUp
<1>12. Up(m) \subseteq Up(n) /\ s \in Up(n) /\ ManagerInv(n)
  BY <1>3, <1>7, <1>8, <1>9, <1>10, <1>11 DEF ManagerInv
<1> QED
  BY <1>7, <1>12

\* An active unit that was activating, or active already, is no less up.
LEMMA RestartedInv ==
    ASSUME NEW m, ManagerInv(m), NEW s \in Up(m)
    PROVE  ManagerInv(Restarted(m, s)) /\ Up(Restarted(m, s)) = Up(m) /\ Restarted(m, s).hash = m.hash
<1> DEFINE n == Restarted(m, s)
<1>1. m \in Manager /\ s \in Service
  BY DEF ManagerInv, Up
<1>2. /\ n \in Manager
      /\ n.hash = m.hash /\ n.timers = m.timers /\ n.failedProbes = m.failedProbes
      /\ n.active = [m.active EXCEPT ![s] = "active"]
  BY <1>1 DEF Manager, ActiveState, Restarted
<1>3. Up(n) = Up(m) /\ Loaded(n) = Loaded(m)
  BY <1>1, <1>2 DEF Up, Loaded, RunningStates, Manager
<1>4. NotFoundIsInactive(n)
  BY <1>1, <1>2, <1>3, UpFacts DEF ManagerInv, NotFoundIsInactive, Manager
<1>5. ProbesKeepMain(n) /\ DependenciesUp(n) /\ MonitoredUp(n)
  BY <1>2, <1>3 DEF ManagerInv, ProbesKeepMain, ProbesLoaded, DependenciesUp, MonitoredUp
<1> QED
  BY <1>2, <1>3, <1>4, <1>5 DEF ManagerInv

\* systemctl restart of a main unit that can be started.
LEMMA RestartMainInv ==
    ASSUME NEW m, ManagerInv(m), NEW s \in Service, Startable(m, s)
    PROVE  /\ ManagerInv(RestartMain(m, s))
           /\ Up(m) \subseteq Up(RestartMain(m, s))
           /\ RestartMain(m, s).hash = m.hash
<1> DEFINE n == StartMain(m, s)
<1>1. ManagerInv(n) /\ s \in Up(n) /\ Up(m) \subseteq Up(n) /\ n.hash = m.hash
  BY StartMainInv
<1>2. RestartMain(m, s) = Restarted(n, s)
  BY DEF RestartMain, Restarted
<1> HIDE DEF n
<1> QED
  BY <1>1, <1>2, RestartedInv

-----------------------------------------------------------------------------
\* A unit that is submitted, before it is started.
LEMMA SubmittedInv ==
    ASSUME NEW m, ManagerInv(m), NEW s \in Service \ Loaded(m), NEW h \in Hashes
    PROVE  ManagerInv(Submitted(m, s, h)) /\ Up(Submitted(m, s, h)) = Up(m)
<1> DEFINE n == Submitted(m, s, h)
<1>1. m \in Manager
  BY DEF ManagerInv
<1>2. /\ n \in Manager
      /\ n.active = m.active /\ n.timers = m.timers /\ n.failedProbes = m.failedProbes
      /\ n.hash = [m.hash EXCEPT ![s] = h]
  BY <1>1 DEF Manager, Submitted
<1>3. Up(n) = Up(m) /\ Loaded(n) = Loaded(m) \cup {s}
  BY <1>1, <1>2, NoHashAssumption DEF Up, Loaded, Manager
<1>4. s \notin Up(m)
  BY UpFacts
<1>5. NotFoundIsInactive(n) /\ ProbesKeepMain(n) /\ MonitoredUp(n)
  BY <1>2, <1>3 DEF ManagerInv, NotFoundIsInactive, ProbesKeepMain, ProbesLoaded, MonitoredUp
<1>6. DependenciesUp(n)
  <2>1. SUFFICES ASSUME NEW t \in Up(n), t \in Loaded(n)
                 PROVE  DependsOn(n.hash[t].own) \subseteq Up(n)
    BY DEF DependenciesUp
  <2>2. t \in Service /\ t # s /\ t \in Up(m) /\ t \in Loaded(m)
    BY <1>3, <1>4, <2>1, UpFacts
  <2>3. n.hash[t] = m.hash[t]
    BY <1>1, <1>2, <2>2 DEF Manager
  <2> QED
    BY <1>3, <2>2, <2>3 DEF ManagerInv, DependenciesUp
<1> QED
  BY <1>2, <1>3, <1>5, <1>6 DEF ManagerInv

\* systemd-run takes nothing down, whether it succeeds or not.
LEMMA CreateMainInv ==
    ASSUME NEW m, ManagerInv(m), NEW s \in Service, NEW h \in Hashes
    PROVE  ManagerInv(CreateMain(m, s, h)) /\ Up(m) \subseteq Up(CreateMain(m, s, h))
<1> DEFINE n == Submitted(m, s, h)
<1>1. CASE s \in Loaded(m)
  BY <1>1 DEF CreateMain
<1>2. CASE s \notin Loaded(m)
  <2>1. ManagerInv(n) /\ Up(n) = Up(m)
    BY <1>2, SubmittedInv
  <2>2. CASE Startable(n, s)
    <3>1. CreateMain(m, s, h) = StartMain(n, s)
      BY <1>2, <2>2 DEF CreateMain
    <3> HIDE DEF n
    <3>2. ManagerInv(StartMain(n, s)) /\ Up(n) \subseteq Up(StartMain(n, s))
      BY <2>1, <2>2, StartMainInv
    <3> QED
      BY <2>1, <3>1, <3>2
  <2>3. CASE ~Startable(n, s)
    <3>1. CreateMain(m, s, h) = Collect(n)
      BY <1>2, <2>3 DEF CreateMain
    <3> HIDE DEF n
    <3> QED
      BY <2>1, <3>1, CollectInv
  <2> QED
    BY <2>2, <2>3
<1> QED
  BY <1>1, <1>2

\* systemd-run of a healthcheck timer.
LEMMA CreateTimerInv ==
    ASSUME NEW m, ManagerInv(m), NEW s \in Service
    PROVE  /\ ManagerInv(CreateTimer(m, s))
           /\ Up(m) \subseteq Up(CreateTimer(m, s))
           /\ CreateTimer(m, s).hash = m.hash
<1>1. CASE ~CanCreateTimer(m, s)
  BY <1>1 DEF CreateTimer
<1>2. CASE CanCreateTimer(m, s)
  <2> DEFINE k == StartMain(m, s)
             n == [k EXCEPT !.timers = m.timers \cup {s}]
  <2>1. /\ ManagerInv(k) /\ s \in Up(k) /\ Up(m) \subseteq Up(k)
        /\ k.hash = m.hash /\ k.timers = m.timers
    BY <1>2, StartMainInv DEF CanCreateTimer
  <2>2. CreateTimer(m, s) = n
    BY <1>2 DEF CreateTimer
  <2> HIDE DEF k
  <2>3. /\ n \in Manager
        /\ n.active = k.active /\ n.hash = k.hash /\ n.failedProbes = k.failedProbes
        /\ n.timers = k.timers \cup {s}
    BY <2>1 DEF ManagerInv, Manager
  <2>4. Up(n) = Up(k) /\ Loaded(n) = Loaded(k) /\ s \in Loaded(k)
    BY <2>1, <2>3, UpFacts DEF Up, Loaded
  <2>5. ManagerInv(n)
    BY <2>1, <2>3, <2>4 DEF ManagerInv, NotFoundIsInactive, ProbesKeepMain, ProbesLoaded,
                            DependenciesUp, MonitoredUp
  <2> QED
    BY <2>1, <2>2, <2>3, <2>4, <2>5
<1> QED
  BY <1>1, <1>2

-----------------------------------------------------------------------------
\* A probe only changes whether it is failed.
LEMMA ProbeEndInv ==
    ASSUME NEW m, ManagerInv(m), NEW s \in Loaded(m), NEW healthy \in BOOLEAN
    PROVE  /\ ManagerInv(RunProbe(m, s, healthy))
           /\ Up(RunProbe(m, s, healthy)) = Up(m)
           /\ RunProbe(m, s, healthy).hash = m.hash
<1> DEFINE n == RunProbe(m, s, healthy)
<1>1. /\ n \in Manager
      /\ n.active = m.active /\ n.hash = m.hash /\ n.timers = m.timers
      /\ n.failedProbes \subseteq m.failedProbes \cup {s}
  BY DEF ManagerInv, Manager, RunProbe, Loaded
<1>2. Up(n) = Up(m) /\ Loaded(n) = Loaded(m)
  BY <1>1 DEF Up, Loaded
<1> QED
  BY <1>1, <1>2 DEF ManagerInv, NotFoundIsInactive, ProbesKeepMain, ProbesLoaded,
                    DependenciesUp, MonitoredUp

\* A timer only runs probes of loaded units.
LEMMA RunProbeInv ==
    ASSUME NEW m, ManagerInv(m), NEW s \in m.timers, NEW healthy \in BOOLEAN
    PROVE  /\ ManagerInv(RunProbe(m, s, healthy))
           /\ Up(RunProbe(m, s, healthy)) = Up(m)
           /\ RunProbe(m, s, healthy).hash = m.hash
<1>1. s \in Loaded(m)
  BY DEF ManagerInv, ProbesKeepMain, ProbesLoaded
<1> QED
  BY <1>1, ProbeEndInv

\* A service that waits for its restart is up, what is bound to it is not.
LEMMA FlapMainInv ==
    ASSUME NEW m, ManagerInv(m), NEW s \in Up(m),
           Requires(m)[s] \cap (BoundTo(m, s) \ {s}) = {}
    PROVE  ManagerInv(FlapMain(m, s))
<1> DEFINE B == BoundTo(m, s)
           active == [t \in Service |->
               IF t = s THEN "activating" ELSE IF t \in B \ {s} THEN "inactive" ELSE m.active[t]]
           n == [m EXCEPT !.active = active, !.timers = m.timers \ TimersBoundTo(B)]
<1>1. m \in Manager /\ s \in Service
  BY DEF ManagerInv, Up
<1>2. /\ B \subseteq Up(m) /\ s \in B
      /\ \A t \in Up(m) : Requires(m)[t] \cap B # {} => t \in B
  BY <1>1, BoundToClosed
<1>3. active \in [Service -> ActiveState]
  BY <1>1 DEF Manager, ActiveState
<1>4. FlapMain(m, s) = Collect(n)
  BY DEF FlapMain
<1> HIDE DEF B, active
<1>5. /\ n \in Manager
      /\ n.active = active /\ n.hash = m.hash /\ n.failedProbes = m.failedProbes
      /\ n.timers = m.timers \ B
  BY <1>1, <1>3 DEF Manager, TimersBoundTo
<1>6. Up(n) = (Up(m) \ B) \cup {s} /\ Loaded(n) = Loaded(m)
  BY <1>1, <1>5 DEF Up, RunningStates, Loaded, active
<1>7. NotFoundIsInactive(n)
  BY <1>2, <1>5, <1>6, UpFacts DEF NotFoundIsInactive, ManagerInv, active
<1>8. ProbesKeepMain(n) /\ MonitoredUp(n)
  BY <1>5, <1>6 DEF ProbesKeepMain, ProbesLoaded, MonitoredUp, ManagerInv
<1>9. DependenciesUp(n)
  <2>1. SUFFICES ASSUME NEW t \in Up(n), t \in Loaded(n)
                 PROVE  DependsOn(n.hash[t].own) \subseteq Up(n)
    BY DEF DependenciesUp
  <2>2. t \in Up(m) /\ Requires(m)[t] = DependsOn(n.hash[t].own) /\ Requires(m)[t] \subseteq Up(m)
    BY <1>1, <1>2, <1>5, <1>6, <2>1, RequiresType, UpFacts
  <2>3. CASE t # s
    BY <1>2, <1>6, <2>1, <2>2, <2>3
  <2>4. CASE t = s
    <3>1. Requires(m)[s] \cap (B \ {s}) = {}
      BY DEF B
    <3> QED
      BY <1>6, <2>2, <2>4, <3>1
  <2> QED
    BY <2>3, <2>4
<1> QED
  BY <1>4, <1>5, <1>7, <1>8, <1>9, CollectInv DEF ManagerInv

=============================================================================
