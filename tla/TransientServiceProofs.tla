----------------------- MODULE TransientServiceProofs -----------------------
(***************************************************************************)
(* What the transient commands promise to a user, in two parts.            *)
(*                                                                         *)
(* TransientProject implements Deployment.  A request to the manager       *)
(* either adds to what runs and is watched or takes from it, and every     *)
(* unit that stays loaded keeps its definition; only systemd-run gives a   *)
(* unit one, that of the file its command read, and only to a unit that    *)
(* was not loaded.  With the invariant of TransientProofs, each step is    *)
(* then a move of the deployment, or none.                                 *)
(*                                                                         *)
(* A command that reports success did what it was asked.  The invariant    *)
(* says of a command at work, that nothing interferes with, what is true   *)
(* of the services its loop is through with, and what it may rely on at    *)
(* the point where it is; of full `up`s that run at the same time, that    *)
(* each service that is not as the file says still has one of them to come *)
(* to it.                                                                  *)
(***************************************************************************)
EXTENDS TransientProofs

\* No unit gets another definition; what runs and is watched grows or shrinks.
Follows(m, n) ==
    /\ \A s \in Service : n.hash[s] \in {m.hash[s], NoHash}
    /\ \/ Up(m) \subseteq Up(n) /\ m.timers \subseteq n.timers
       \/ Up(n) \subseteq Up(m) /\ n.timers \subseteq m.timers

\* Every loaded unit has a definition that a compose file gives its service.
OwnDefinitions(m) == \A s \in Loaded(m) : m.hash[s] \in Abstract!DefinitionsOf(s)

-----------------------------------------------------------------------------
\* Unloading takes definitions away and nothing else.
LEMMA CollectFollows ==
    ASSUME NEW m, ManagerInv(m)
    PROVE  /\ \A s \in Service : Collect(m).hash[s] \in {m.hash[s], NoHash}
           /\ Collect(m).timers = m.timers
           /\ Up(Collect(m)) = Up(m)
<1> DEFINE kept == RequirementsOf(Requires(m),
                       {s \in Service : m.active[s] # "inactive"} \cup ProbesLoaded(m))
           hash == [s \in Service |-> IF s \in kept THEN m.hash[s] ELSE NoHash]
<1>1. m \in Manager
  BY DEF ManagerInv
<1>2. Collect(m) = [m EXCEPT !.hash = hash]
  BY DEF Collect
<1> HIDE DEF kept
<1>3. Collect(m).hash = hash /\ Collect(m).timers = m.timers
  BY <1>1, <1>2 DEF Manager
<1> QED
  BY <1>3, CollectInv

\* Units that go down keep their definition while they are loaded.
LEMMA TakeDownFollows ==
    ASSUME NEW m, ManagerInv(m), NEW s \in Service, NEW dirty
    PROVE  Follows(m, TakeDown(m, BoundTo(m, s), dirty))
<1> DEFINE S == BoundTo(m, s)
           n == [m EXCEPT
                   !.active = [t \in Service |->
                       IF t \notin S THEN m.active[t] ELSE IF t \in dirty THEN "failed" ELSE "inactive"],
                   !.timers = m.timers \ TimersBoundTo(S)]
<1>1. TakeDown(m, S, dirty) = Collect(n)
  BY DEF TakeDown
<1>2. n.hash = m.hash /\ n.timers \subseteq m.timers
  BY DEF ManagerInv, Manager
<1>3. Up(TakeDown(m, S, dirty)) = Up(m) \ S
  BY BoundToClosed, TakeDownInv
<1>4. Collect(n).timers = n.timers /\ \A t \in Service : Collect(n).hash[t] \in {n.hash[t], NoHash}
  <2> HIDE DEF n
  <2>1. n \in [active : [Service -> ActiveState], hash : [Service -> Hashes \cup {NoHash}],
               timers : SUBSET Service, failedProbes : SUBSET Service]
    <3>1. m \in Manager
      BY DEF ManagerInv
    <3> QED
      BY <3>1 DEF n, Manager, ActiveState, TimersBoundTo
  <2> DEFINE kept == RequirementsOf(Requires(n),
                         {t \in Service : n.active[t] # "inactive"} \cup ProbesLoaded(n))
             hash == [t \in Service |-> IF t \in kept THEN n.hash[t] ELSE NoHash]
  <2>2. Collect(n) = [n EXCEPT !.hash = hash]
    BY DEF Collect
  <2> HIDE DEF kept
  <2> QED
    BY <2>1, <2>2
<1> HIDE DEF n
<1> QED
  BY <1>1, <1>2, <1>3, <1>4 DEF Follows

\* The calls of a teardown.
LEMMA EffectFollows ==
    ASSUME NEW m, ManagerInv(m), NEW c \in Call, NEW dirty
    PROVE  Follows(m, Effect(m, c, dirty))
<1>1. m \in Manager /\ c.of \in Service
  BY DEF ManagerInv, Call
<1>2. Follows(m, m)
  BY DEF Follows
<1>3. Follows(m, StopMain(m, c.of, dirty))
  BY <1>1, TakeDownFollows DEF StopMain
<1>4. Follows(m, StopTimer(m, c.of))
  <2> DEFINE n == [m EXCEPT !.timers = m.timers \ {c.of}]
  <2>1. n.hash = m.hash /\ n.active = m.active /\ n.timers \subseteq m.timers /\ n \in Manager
    BY <1>1 DEF Manager
  <2>2. Up(n) = Up(m) /\ Loaded(n) = Loaded(m)
    BY <2>1 DEF Up, Loaded
  <2>3. n.failedProbes = m.failedProbes
    BY <1>1 DEF Manager
  <2>4. ManagerInv(n)
    BY <2>1, <2>2, <2>3 DEF ManagerInv, NotFoundIsInactive, ProbesKeepMain, ProbesLoaded,
                            DependenciesUp, MonitoredUp
  <2>5. StopTimer(m, c.of) = Collect(n)
    BY DEF StopTimer
  <2> HIDE DEF n
  <2> QED
    BY <2>1, <2>2, <2>4, <2>5, CollectFollows DEF Follows
<1>5. Follows(m, ResetProbe(m, c.of))
  <2> DEFINE n == [m EXCEPT !.failedProbes = m.failedProbes \ {c.of}]
  <2>1. n.hash = m.hash /\ n.active = m.active /\ n.timers = m.timers /\ n \in Manager
        /\ n.failedProbes \subseteq m.failedProbes
    BY <1>1 DEF Manager
  <2>2. Up(n) = Up(m) /\ Loaded(n) = Loaded(m)
    BY <2>1 DEF Up, Loaded
  <2>3. ManagerInv(n)
    BY <2>1, <2>2 DEF ManagerInv, NotFoundIsInactive, ProbesKeepMain, ProbesLoaded,
                      DependenciesUp, MonitoredUp
  <2>4. ResetProbe(m, c.of) = Collect(n)
    BY DEF ResetProbe
  <2> HIDE DEF n
  <2> QED
    BY <2>1, <2>2, <2>3, <2>4, CollectFollows DEF Follows
<1>6. Follows(m, ResetMain(m, c.of))
  <2> DEFINE n == [m EXCEPT !.active[c.of] =
                      IF m.active[c.of] = "failed" THEN "inactive" ELSE m.active[c.of]]
  <2>1. /\ n \in Manager
        /\ n.hash = m.hash /\ n.timers = m.timers /\ n.failedProbes = m.failedProbes
        /\ \A t \in Service : n.active[t] = m.active[t]
                              \/ (m.active[t] = "failed" /\ n.active[t] = "inactive")
    BY <1>1 DEF Manager, ActiveState
  <2>2. Up(n) = Up(m) /\ Loaded(n) = Loaded(m)
    BY <2>1 DEF Up, Loaded, RunningStates
  <2>3. ManagerInv(n)
    BY <2>1, <2>2 DEF ManagerInv, NotFoundIsInactive, ProbesKeepMain, ProbesLoaded,
                      DependenciesUp, MonitoredUp
  <2>4. ResetMain(m, c.of) = Collect(n)
    BY DEF ResetMain
  <2> HIDE DEF n
  <2> QED
    BY <2>1, <2>2, <2>3, <2>4, CollectFollows DEF Follows
<1> QED
  BY <1>2, <1>3, <1>4, <1>5, <1>6 DEF Effect

\* A service that waits for its restart goes on with its definition.
LEMMA FlapFollows ==
    ASSUME NEW m, ManagerInv(m), NEW s \in Up(m)
    PROVE  Follows(m, FlapMain(m, s))
<1> DEFINE B == BoundTo(m, s)
           active == [t \in Service |->
               IF t = s THEN "activating" ELSE IF t \in B \ {s} THEN "inactive" ELSE m.active[t]]
           n == [m EXCEPT !.active = active, !.timers = m.timers \ TimersBoundTo(B)]
           kept == RequirementsOf(Requires(n),
                       {t \in Service : n.active[t] # "inactive"} \cup ProbesLoaded(n))
           hash == [t \in Service |-> IF t \in kept THEN n.hash[t] ELSE NoHash]
<1>1. m \in Manager /\ s \in Service
  BY DEF ManagerInv, Up
<1>2. B \subseteq Up(m) /\ s \in B
  BY <1>1, BoundToClosed
<1>3. FlapMain(m, s) = Collect(n)
  BY DEF FlapMain
<1>4. Collect(n) = [n EXCEPT !.hash = hash]
  BY DEF Collect
<1> HIDE DEF kept, B, active
<1>5. /\ Collect(n).active = active /\ Collect(n).hash = hash /\ n.hash = m.hash
      /\ Collect(n).timers \subseteq m.timers
  BY <1>1, <1>4 DEF Manager
<1>6. Up(Collect(n)) \subseteq Up(m)
  BY <1>2, <1>5 DEF Up, RunningStates, active
<1> QED
  BY <1>3, <1>5, <1>6 DEF Follows

\* Starts and restarts of loaded units, and systemd-run of a timer.
LEMMA StartFollows ==
    ASSUME NEW m, ManagerInv(m), NEW s \in Service, Startable(m, s)
    PROVE  Follows(m, StartMain(m, s)) /\ Follows(m, RestartMain(m, s))
<1>1. RestartMain(m, s).timers = StartMain(m, s).timers
  BY DEF RestartMain, StartMain
<1> QED
  BY <1>1, StartMainInv, RestartMainInv DEF Follows

LEMMA CreateTimerFollows ==
    ASSUME NEW m, ManagerInv(m), NEW s \in Service
    PROVE  Follows(m, CreateTimer(m, s))
<1>1. CASE ~CanCreateTimer(m, s)
  BY <1>1 DEF CreateTimer, Follows
<1>2. CASE CanCreateTimer(m, s)
  <2>1. m.timers \subseteq CreateTimer(m, s).timers
    BY <1>2 DEF CreateTimer, StartMain, ManagerInv, Manager
  <2> QED
    BY <2>1, CreateTimerInv DEF Follows
<1> QED
  BY <1>1, <1>2

\* systemd-run of a service: the unit gets the definition submitted if it was not
\* loaded, and nothing else changes its own.
LEMMA CreateMainMoves ==
    ASSUME NEW m, ManagerInv(m), NEW s \in Service, NEW h \in Hashes
    PROVE  \/ CreateMain(m, s, h) = m
           \/ /\ s \notin Loaded(m)
              /\ CreateMain(m, s, h).hash[s] \in {h, NoHash}
              /\ \A t \in Service \ {s} : CreateMain(m, s, h).hash[t] \in {m.hash[t], NoHash}
              /\ Up(m) \subseteq Up(CreateMain(m, s, h))
              /\ m.timers \subseteq CreateMain(m, s, h).timers
<1> DEFINE n == Submitted(m, s, h)
           r == CreateMain(m, s, h)
<1>1. CASE s \in Loaded(m)
  BY <1>1 DEF CreateMain
<1>2. CASE s \notin Loaded(m)
  <2>1. ManagerInv(n) /\ Up(n) = Up(m)
    BY <1>2, SubmittedInv
  <2>2. n.hash = [m.hash EXCEPT ![s] = h] /\ n.timers = m.timers /\ m.hash \in [Service -> Hashes \cup {NoHash}]
    BY DEF Submitted, ManagerInv, Manager
  <2>3. r = IF Startable(n, s) THEN StartMain(n, s) ELSE Collect(n)
    BY <1>2 DEF CreateMain
  <2> HIDE DEF n
  <2>4. (\A t \in Service : r.hash[t] \in {n.hash[t], NoHash}) /\ r.timers = n.timers
    BY <2>1, <2>3, StartMainInv, CollectFollows
  <2>5. Up(m) \subseteq Up(r)
    BY CreateMainInv
  <2> HIDE DEF r
  <2>6. r.hash[s] \in {h, NoHash}
    BY <2>2, <2>4
  <2>7. \A t \in Service \ {s} : r.hash[t] \in {m.hash[t], NoHash}
    BY <2>2, <2>4
  <2>8. m.timers \subseteq r.timers
    BY <2>2, <2>4
  <2> QED
    BY <1>2, <2>5, <2>6, <2>7, <2>8 DEF r
<1> QED
  BY <1>1, <1>2

-----------------------------------------------------------------------------
\* The abstract specification reads compose files as the detailed one does.
LEMMA SameDefinitions ==
    /\ Abstract!Hashes = Hashes
    /\ \A def : Abstract!DependsOn(def) = DependsOn(def)
    /\ \A f \in Files : \A s \in Listed(f) : Hash(f, s) \in Abstract!DefinitionsOf(s)
<1>1. \A def : Abstract!DependsOn(def) = DependsOn(def)
  BY DEF Abstract!DependsOn, DependsOn, Abstract!Range, Range
<1>2. \A f : Abstract!Listed(f) = Listed(f)
  BY DEF Abstract!Listed, Listed, Abstract!Range, Range
<1>3. \A f, s : Abstract!Hash(f, s) = Hash(f, s)
  BY <1>1 DEF Abstract!Hash, Hash
<1>4. Abstract!Hashes = Hashes
  BY <1>2, <1>3 DEF Abstract!Hashes, Hashes
<1>5. \A f \in Files : \A s \in Listed(f) : Hash(f, s) \in Abstract!DefinitionsOf(s)
  BY <1>2, <1>3 DEF Abstract!DefinitionsOf
<1> QED
  BY <1>1, <1>4, <1>5

\* Under ManagerInv a manager shows a consistent deployment if its units have
\* definitions of their own.
LEMMA ConsistentManager ==
    ASSUME NEW m, ManagerInv(m), OwnDefinitions(m)
    PROVE  /\ Abstract!Consistent(Deployed(m), m.timers)
           /\ Abstract!Running(Deployed(m)) = Up(m)
           /\ \A s \in Service : Deployed(m)[s] = IF s \in Up(m) THEN m.hash[s] ELSE NoHash
<1> DEFINE d == Deployed(m)
<1>1. m \in Manager /\ Up(m) \subseteq Loaded(m) /\ Loaded(m) \subseteq Service
  BY UpFacts DEF ManagerInv
<1>2. \A s \in Service : d[s] = IF s \in Up(m) THEN m.hash[s] ELSE NoHash
  BY DEF Deployed
<1>3. d \in [Service -> Hashes \cup {NoHash}]
  BY <1>1 DEF Deployed, Manager
<1>4. Abstract!Running(d) = Up(m)
  BY <1>1, <1>2 DEF Abstract!Running, Loaded
<1>5. \A s \in Up(m) : d[s] \in Abstract!DefinitionsOf(s)
  BY <1>1, <1>2 DEF OwnDefinitions
<1>6. \A s \in Up(m) : DependsOn(d[s].own) \subseteq Up(m)
  BY <1>1, <1>2 DEF ManagerInv, DependenciesUp
<1>7. m.timers \subseteq Up(m)
  BY DEF ManagerInv, MonitoredUp
<1> HIDE DEF d
<1>8. Abstract!Consistent(d, m.timers)
  BY <1>3, <1>4, <1>5, <1>6, <1>7, SameDefinitions DEF Abstract!Consistent
<1> QED
  BY <1>2, <1>4, <1>8 DEF d

\* A step that follows is a move of the deployment.
LEMMA FollowsMoves ==
    ASSUME NEW m, NEW n, ManagerInv(m), OwnDefinitions(m), ManagerInv(n), Follows(m, n)
    PROVE  /\ OwnDefinitions(n)
           /\ \A s \in Up(n) : n.hash[s] = m.hash[s]
<1>1. Up(n) \subseteq Loaded(n) /\ Loaded(n) \subseteq Service
  BY UpFacts
<1>2. \A s \in Loaded(n) : n.hash[s] = m.hash[s] /\ s \in Loaded(m)
  BY <1>1 DEF Follows, Loaded
<1> QED
  BY <1>1, <1>2 DEF OwnDefinitions

\* What the manager does in a step: it follows, or it creates a unit.
Created(m, n) ==
    \E s \in Service \ Loaded(m) : \E h \in Abstract!DefinitionsOf(s) :
        /\ n.hash[s] \in {h, NoHash}
        /\ \A t \in Service \ {s} : n.hash[t] \in {m.hash[t], NoHash}
        /\ Up(m) \subseteq Up(n)
        /\ m.timers \subseteq n.timers

\* A process asks the manager for nothing else.
LEMMA StepMoves ==
    ASSUME Inv, NEW p \in Proc, Step(p)
    PROVE  mgr' = mgr \/ Follows(mgr, mgr') \/ Created(mgr, mgr')
<1> DEFINE P == proc[p]
<1>1. ManagerInv(mgr) /\ WellFormed(P)
  BY CurrentProcess
<1>2. CASE TearDown(p)
  <2>1. P.pc \in Teardowns /\ mgr' = Effect(mgr, Head(P.calls), {})
    BY <1>2 DEF TearDown, Asks
  <2>2. Head(P.calls) \in Call
    BY <2>1, CurrentProcess
  <2> QED
    BY <1>1, <2>1, <2>2, EffectFollows
<1>3. CASE Create(p)
  <2>1. P.pc = "create" /\ mgr' = CreateMain(mgr, This(P), Desired(P))
    BY <1>3 DEF Create, Asks
  <2>2. P.todo # <<>>
    BY <2>1, CurrentProcess
  <2>3. This(P) \in Listed(P.file) /\ This(P) \in Service /\ Desired(P) \in Hashes /\ P.file \in Files
    BY <1>1, <2>2, ThisListed DEF WellFormed, Process
  <2>4. Desired(P) \in Abstract!DefinitionsOf(This(P))
    BY <2>3, SameDefinitions DEF Desired
  <2> QED
    BY <1>1, <2>1, <2>3, <2>4, CreateMainMoves DEF Created
<1>4. CASE CreateHealthTimer(p)
  <2>1. P.pc = "createTimer" /\ mgr' = CreateTimer(mgr, This(P))
    BY <1>4 DEF CreateHealthTimer, Asks
  <2>2. This(P) \in Service
    BY <1>1, <2>1, CurrentProcess, ThisListed
  <2> QED
    BY <1>1, <2>1, <2>2, CreateTimerFollows
<1>5. CASE StartExisting(p) \/ RestartExisting(p)
  <2>1. /\ P.pc \in {"start", "restart"}
        /\ mgr' \in {mgr, StartMain(mgr, This(P)), RestartMain(mgr, This(P))}
        /\ mgr' # mgr => Startable(mgr, This(P))
    BY <1>5 DEF StartExisting, RestartExisting, Asks
  <2>2. This(P) \in Service
    BY <1>1, <2>1, CurrentProcess, ThisListed
  <2> QED
    BY <1>1, <2>1, <2>2, StartFollows
<1>6. CASE \/ ListOrphans(p)
           \/ ReadLoadState(p) \/ ReadActiveState(p) \/ ReadDescription(p)
           \/ ReadDependencyLoadState(p) \/ ReadDependencyActiveState(p)
           \/ StartHealthTimer(p)
  BY <1>6 DEF ListOrphans, ReadLoadState, ReadActiveState, ReadDescription,
              ReadDependencyLoadState, ReadDependencyActiveState, StartHealthTimer, Reads
<1> QED
  BY <1>2, <1>3, <1>4, <1>5, <1>6 DEF Step

\* Neither does anything around the commands.
LEMMA OtherMoves ==
    ASSUME Inv, Next, ~ \E p \in Proc : Step(p)
    PROVE  mgr' = mgr \/ Follows(mgr, mgr')
<1>1. ManagerInv(mgr)
  BY DEF Inv
<1>2. ASSUME NEW p \in Proc, Fault(p) PROVE mgr' = mgr \/ Follows(mgr, mgr')
  <2>1. CASE Rejected(p) \/ Raise(p)
    BY <2>1 DEF Rejected, Raise
  <2>2. CASE TearDownDirty(p)
    <3>1. Head(proc[p].calls) \in Call
      BY <2>2, CurrentProcess DEF TearDownDirty
    <3>2. \E dirty : mgr' = Effect(mgr, Head(proc[p].calls), dirty)
      BY <2>2 DEF TearDownDirty
    <3> QED
      BY <1>1, <3>1, <3>2, EffectFollows
  <2> QED
    BY <1>2, <2>1, <2>2 DEF Fault
<1>3. ASSUME NEW p \in Proc, \E r \in Requests : Begin(p, r) PROVE mgr' = mgr
  BY <1>3 DEF Begin
<1>4. CASE Crash
  <2>1. PICK s \in Up(mgr), dirty \in SUBSET Service : mgr' = CrashMain(mgr, s, dirty)
    BY <1>4 DEF Crash
  <2>2. s \in Service
    BY DEF Up
  <2> QED
    BY <1>1, <2>1, <2>2, TakeDownFollows DEF CrashMain
<1>5. CASE Flap
  BY <1>1, <1>5, FlapFollows DEF Flap
<1>6. CASE AutoRestart
  <2>1. PICK s \in Service : mgr.active[s] = "activating" /\ mgr' = Restarted(mgr, s)
    BY <1>6 DEF AutoRestart
  <2>2. s \in Up(mgr)
    BY <2>1 DEF Up, RunningStates
  <2>3. mgr'.timers = mgr.timers
    BY <2>1 DEF Restarted
  <2> QED
    BY <1>1, <2>1, <2>2, <2>3, RestartedInv DEF Follows
<1>7. CASE ProbeFails \/ ProbeSucceeds
  <2>1. \E s \in mgr.timers, healthy \in BOOLEAN : mgr' = RunProbe(mgr, s, healthy)
    BY <1>7 DEF ProbeFails, ProbeSucceeds
  <2>2. mgr'.timers = mgr.timers
    BY <2>1 DEF RunProbe
  <2> QED
    BY <1>1, <2>1, <2>2, RunProbeInv DEF Follows
<1>8. CASE EditFile
  BY <1>8 DEF EditFile
<1> QED
  BY <1>2, <1>3, <1>4, <1>5, <1>6, <1>7, <1>8 DEF Next, Environment

\* A step of the commands and of what is around them is a move of the deployment,
\* or leaves it as it is.
LEMMA NextMoves ==
    ASSUME Inv, OwnDefinitions(mgr), [Next]_vars
    PROVE  OwnDefinitions(mgr') /\ [Abstract!Next]_(Abstract!vars)
<1> DEFINE d == Deployed(mgr)
           e == Deployed(mgr')
<1>1. ManagerInv(mgr) /\ ManagerInv(mgr')
  BY NextInv DEF Inv
<1>2. /\ Abstract!Running(d) = Up(mgr)
      /\ \A s \in Service : d[s] = IF s \in Up(mgr) THEN mgr.hash[s] ELSE NoHash
  BY <1>1, ConsistentManager
<1>3. /\ Up(mgr) \subseteq Loaded(mgr) /\ Up(mgr') \subseteq Loaded(mgr')
      /\ Loaded(mgr') \subseteq Service /\ Up(mgr) \subseteq Service
  BY <1>1, UpFacts
<1>4. CASE mgr' = mgr
  BY <1>4 DEF Abstract!vars
<1>5. CASE Follows(mgr, mgr')
  <2>1. OwnDefinitions(mgr') /\ \A s \in Up(mgr') : mgr'.hash[s] = mgr.hash[s]
    BY <1>1, <1>5, FollowsMoves
  <2>2. /\ Abstract!Consistent(e, mgr'.timers)
        /\ \A s \in Service : e[s] = IF s \in Up(mgr') THEN mgr'.hash[s] ELSE NoHash
    BY <1>1, <2>1, ConsistentManager
  <2> HIDE DEF d, e
  <2>3. CASE Up(mgr) \subseteq Up(mgr') /\ mgr.timers \subseteq mgr'.timers
    <3>1. \A s \in Up(mgr) : e[s] = d[s]
      BY <1>2, <1>3, <2>1, <2>2, <2>3
    <3> QED
      BY <1>2, <2>1, <2>2, <2>3, <3>1 DEF Abstract!Next, Abstract!Start, d, e
  <2>4. CASE Up(mgr') \subseteq Up(mgr) /\ mgr'.timers \subseteq mgr.timers
    <3>1. \A s \in Service : e[s] \in {d[s], NoHash}
      BY <1>2, <1>3, <2>1, <2>2, <2>4
    <3> QED
      BY <2>1, <2>2, <2>4, <3>1 DEF Abstract!Next, Abstract!Stop, d, e
  <2> QED
    BY <1>5, <2>3, <2>4 DEF Follows
<1>6. CASE Created(mgr, mgr')
  <2>1. PICK s \in Service \ Loaded(mgr) : \E h \in Abstract!DefinitionsOf(s) :
           /\ mgr'.hash[s] \in {h, NoHash}
           /\ \A t \in Service \ {s} : mgr'.hash[t] \in {mgr.hash[t], NoHash}
           /\ Up(mgr) \subseteq Up(mgr')
           /\ mgr.timers \subseteq mgr'.timers
    BY <1>6 DEF Created
  <2>2. \A t \in Loaded(mgr') : t = s \/ (t \in Loaded(mgr) /\ mgr'.hash[t] = mgr.hash[t])
    BY <2>1 DEF Loaded
  <2>3. OwnDefinitions(mgr')
    BY <2>1, <2>2 DEF OwnDefinitions, Loaded
  <2>4. /\ Abstract!Consistent(e, mgr'.timers)
        /\ \A t \in Service : e[t] = IF t \in Up(mgr') THEN mgr'.hash[t] ELSE NoHash
    BY <1>1, <2>3, ConsistentManager
  <2> HIDE DEF d, e
  <2>5. \A t \in Up(mgr) : e[t] = d[t]
    BY <1>2, <1>3, <2>1, <2>2, <2>4
  <2> QED
    BY <1>2, <2>1, <2>3, <2>4, <2>5 DEF Abstract!Next, Abstract!Start, d, e
<1>7. CASE UNCHANGED vars
  BY <1>4, <1>7 DEF vars
<1> QED
  BY <1>4, <1>5, <1>6, <1>7, StepMoves, OtherMoves

\* Whatever the services, the compose files and the number of commands that run at
\* once, the transient commands and all that happens around them move a deployment
\* as the abstract specification allows: services start on running dependencies,
\* keep their definition until they are stopped, and stop with all that needs them.
THEOREM TransientImplementsDeployment == Spec => ImplementsDeployment
<1>1. Init => OwnDefinitions(mgr) /\ Abstract!Init
  <2> SUFFICES ASSUME Init PROVE OwnDefinitions(mgr) /\ Abstract!Init
    OBVIOUS
  <2>1. mgr = EmptyManager
    BY DEF Init
  <2>2. Up(mgr) = {} /\ Loaded(mgr) = {} /\ mgr.timers = {}
    BY <2>1 DEF EmptyManager, Up, Loaded, RunningStates
  <2>3. Deployed(mgr) = [s \in Service |-> NoHash]
    BY <2>2 DEF Deployed
  <2> QED
    BY <2>2, <2>3 DEF OwnDefinitions, Abstract!Init
<1>2. Inv /\ OwnDefinitions(mgr) /\ [Next]_vars
      => Inv' /\ OwnDefinitions(mgr)' /\ [Abstract!Next]_(Abstract!vars)
  BY NextInv, NextMoves DEF OwnDefinitions, Loaded
<1> QED
  BY <1>1, <1>2, InitInv, PTL DEF Spec, ImplementsDeployment, Abstract!Spec

-----------------------------------------------------------------------------
(* What a command is through with. *)

\* The services the loop is through with.
Done(P) == Range(P.names) \ Range(P.todo)

\* `rest` is what is left of `seq`.
Remains(rest, seq) ==
    \E k \in 0..Len(seq) :
        Len(rest) + k = Len(seq) /\ \A i \in DOMAIN rest : rest[i] = seq[i + k]

\* The commands that take the names in the order given.
Forward == {"up", "start", "restart"}

OrphanCalls(u) == IF u.kind = "probe" THEN HealthCleanup(u.of) ELSE MainCleanup(u.of)

\* Where a command can be, and what is left of its loops there.
Shaped(P) == P.pc # "idle" =>
    /\ Range(P.todo) \subseteq Range(P.names) /\ Range(P.names) \subseteq Listed(P.file)
    /\ P.purge => P.cmd \in {"up", "down"}
    /\ P.cmd \in Forward => Remains(P.todo, P.names)
    /\ P.pc \in {"load", "active", "hash", "startTimer"} => P.cmd \in Forward
    /\ P.pc = "start" => P.cmd \in {"up", "start"}
    /\ P.pc = "restart" => P.cmd = "restart"
    /\ P.pc \in {"depLoad", "depActive", "create", "createTimer"} => P.cmd = "up"
    /\ P.pc = "recreate" => P.cmd = "up" /\ Remains(P.calls, RecreateCalls(This(P)))
    /\ P.pc = "teardown" => \/ P.cmd = "stop" /\ Remains(P.calls, StopCalls(P.file, This(P)))
                            \/ P.cmd = "down" /\ Remains(P.calls, DownCalls(P.file, This(P)))
    /\ P.pc \in {"orphans", "purge"} => \/ P.cmd = "up" /\ P.todo = P.names
                                        \/ P.cmd = "down" /\ P.todo = <<>>
    /\ P.pc = "purge" =>
        /\ P.purge
        /\ \A u \in P.orphans : u.of \notin Listed(P.file)
        /\ \E u \in OrphanUnit : u.of \notin Listed(P.file) /\ Remains(P.calls, OrphanCalls(u))

-----------------------------------------------------------------------------
(* Sequences. *)

LEMMA RemainsAll ==
    ASSUME NEW S, NEW seq \in Seq(S)
    PROVE  Remains(seq, seq)
<1>1. Len(seq) \in Nat /\ DOMAIN seq = 1..Len(seq)
  OBVIOUS
<1>2. 0 \in 0..Len(seq) /\ Len(seq) + 0 = Len(seq) /\ \A i \in DOMAIN seq : seq[i] = seq[i + 0]
  BY <1>1
<1> QED
  BY <1>2 DEF Remains

LEMMA RemainsTail ==
    ASSUME NEW S, NEW rest \in Seq(S), NEW seq \in Seq(S), rest # <<>>, Remains(rest, seq)
    PROVE  Remains(Tail(rest), seq)
<1>1. PICK k \in 0..Len(seq) : Len(rest) + k = Len(seq) /\ \A i \in DOMAIN rest : rest[i] = seq[i + k]
  BY DEF Remains
<1>2. /\ Len(Tail(rest)) = Len(rest) - 1 /\ DOMAIN Tail(rest) = 1..Len(rest) - 1
      /\ \A i \in 1..Len(rest) - 1 : Tail(rest)[i] = rest[i + 1]
      /\ Len(rest) \in Nat /\ Len(seq) \in Nat /\ Len(rest) >= 1 /\ DOMAIN rest = 1..Len(rest)
  OBVIOUS
<1>3. k + 1 \in 0..Len(seq) /\ Len(Tail(rest)) + (k + 1) = Len(seq)
  BY <1>1, <1>2
<1>4. \A i \in DOMAIN Tail(rest) : Tail(rest)[i] = seq[i + (k + 1)]
  <2> TAKE i \in DOMAIN Tail(rest)
  <2>1. i \in Int /\ i + 1 \in DOMAIN rest /\ Tail(rest)[i] = rest[i + 1]
    BY <1>2
  <2>2. rest[i + 1] = seq[(i + 1) + k]
    BY <1>1, <2>1
  <2>3. (i + 1) + k = i + (k + 1)
    BY <1>1, <2>1
  <2> QED
    BY <2>1, <2>2, <2>3
<1> QED
  BY <1>3, <1>4 DEF Remains

LEMMA RangeTail ==
    ASSUME NEW S, NEW seq \in Seq(S), seq # <<>>
    PROVE  Range(seq) = {Head(seq)} \cup Range(Tail(seq))
<1>1. /\ DOMAIN seq = 1..Len(seq) /\ Len(seq) \in Nat /\ Len(seq) >= 1 /\ Head(seq) = seq[1]
      /\ DOMAIN Tail(seq) = 1..Len(seq) - 1
      /\ \A i \in 1..Len(seq) - 1 : Tail(seq)[i] = seq[i + 1]
  OBVIOUS
<1>2. Range(seq) \subseteq {Head(seq)} \cup Range(Tail(seq))
  <2> SUFFICES ASSUME NEW i \in 1..Len(seq), i # 1 PROVE seq[i] \in Range(Tail(seq))
    BY <1>1 DEF Range
  <2>1. i - 1 \in 1..Len(seq) - 1 /\ (i - 1) + 1 = i
    BY <1>1
  <2> QED
    BY <1>1, <2>1 DEF Range
<1>3. {Head(seq)} \cup Range(Tail(seq)) \subseteq Range(seq)
  <2>1. 1 \in DOMAIN seq /\ \A i \in 1..Len(seq) - 1 : i + 1 \in DOMAIN seq
    BY <1>1
  <2> QED
    BY <1>1, <2>1 DEF Range
<1> QED
  BY <1>2, <1>3

LEMMA RangeReverse ==
    ASSUME NEW S, NEW seq \in Seq(S)
    PROVE  Range(Reverse(seq)) = Range(seq)
<1>1. /\ DOMAIN seq = 1..Len(seq) /\ Len(seq) \in Nat
      /\ Reverse(seq) = [i \in 1..Len(seq) |-> seq[(Len(seq) - i) + 1]]
  BY DEF Reverse
<1>2. \A i \in 1..Len(seq) : (Len(seq) - i) + 1 \in 1..Len(seq)
                             /\ (Len(seq) - ((Len(seq) - i) + 1)) + 1 = i
  BY <1>1
<1>3. DOMAIN Reverse(seq) = 1..Len(seq)
      /\ \A i \in 1..Len(seq) : Reverse(seq)[i] = seq[(Len(seq) - i) + 1]
  BY <1>1
<1>4. Range(Reverse(seq)) \subseteq Range(seq)
  BY <1>1, <1>2, <1>3 DEF Range
<1>5. Range(seq) \subseteq Range(Reverse(seq))
  <2> SUFFICES ASSUME NEW i \in 1..Len(seq) PROVE seq[i] \in Range(Reverse(seq))
    BY <1>1 DEF Range
  <2> DEFINE j == (Len(seq) - i) + 1
  <2>1. j \in 1..Len(seq) /\ (Len(seq) - j) + 1 = i
    BY <1>2
  <2> HIDE DEF j
  <2>2. Reverse(seq)[j] = seq[i]
    BY <1>3, <2>1
  <2> QED
    BY <1>3, <2>1, <2>2 DEF Range
<1> QED
  BY <1>4, <1>5

-----------------------------------------------------------------------------
(* The control flow keeps the shape of a command. *)

SameCommand(P, Q) ==
    Q.cmd = P.cmd /\ Q.purge = P.purge /\ Q.file = P.file /\ Q.names = P.names

LEMMA EnterFields ==
    ASSUME NEW P \in Process
    PROVE  LET Q == Enter(P) IN
           /\ SameCommand(P, Q) /\ Q.todo = P.todo /\ Q.failed = P.failed /\ Q.active = P.active
           /\ P.cmd \in Forward => Q.pc = "load"
           /\ P.cmd \notin Forward =>
                /\ Q.pc = "teardown"
                /\ Q.calls = IF P.cmd = "stop" THEN StopCalls(P.file, This(P)) ELSE DownCalls(P.file, This(P))
  BY DEF Enter, Process, SameCommand, Forward

LEMMA EnterShaped ==
    ASSUME NEW P \in Process, P.todo # <<>>,
           Range(P.todo) \subseteq Range(P.names), Range(P.names) \subseteq Listed(P.file),
           P.purge => P.cmd \in {"up", "down"},
           P.cmd \in Forward => Remains(P.todo, P.names)
    PROVE  Shaped(Enter(P))
<1> DEFINE Q == Enter(P)
<1>1. /\ SameCommand(P, Q) /\ Q.todo = P.todo
      /\ P.cmd \in Forward => Q.pc = "load"
      /\ P.cmd \notin Forward =>
           /\ Q.pc = "teardown"
           /\ Q.calls = IF P.cmd = "stop" THEN StopCalls(P.file, This(P)) ELSE DownCalls(P.file, This(P))
  BY EnterFields
<1>2. P.cmd \in Commands /\ P.file \in Files /\ P.todo \in Seq(Service)
  BY DEF Process
<1>3. Head(P.todo) \in Service
  BY <1>2
<1>4. /\ Remains(StopCalls(P.file, This(P)), StopCalls(P.file, This(P)))
      /\ Remains(DownCalls(P.file, This(P)), DownCalls(P.file, This(P)))
  BY <1>3, TeardownCalls, RemainsAll DEF This
<1> HIDE DEF Q
<1>5. This(Q) = This(P)
  BY <1>1 DEF This
<1>6. Q.pc \in {"load", "teardown"}
  BY <1>1
<1>7. Q.pc = "teardown" => \/ Q.cmd = "stop" /\ Remains(Q.calls, StopCalls(Q.file, This(Q)))
                           \/ Q.cmd = "down" /\ Remains(Q.calls, DownCalls(Q.file, This(Q)))
  BY <1>1, <1>2, <1>4, <1>5 DEF SameCommand, Commands, Forward
<1>8. Q.pc = "load" => Q.cmd \in Forward
  BY <1>1 DEF SameCommand
<1> QED
  BY <1>1, <1>6, <1>7, <1>8 DEF Shaped, SameCommand, Q

\* The end of the loop's body: the next service, the orphans, or the end.
LEMMA NextServiceFields ==
    ASSUME NEW P, WellFormed(P), P.todo # <<>>
    PROVE  LET Q == NextService(P) IN
           \/ Q = Idle(P.failed) /\ Tail(P.todo) = <<>> /\ ~(P.cmd = "down" /\ P.purge)
           \/ /\ SameCommand(P, Q) /\ Q.todo = Tail(P.todo) /\ Q.failed = P.failed
              /\ \/ Q.pc = "orphans" /\ Q.todo = <<>> /\ P.cmd = "down" /\ P.purge
                 \/ Q.pc = "load" /\ P.cmd \in Forward
                 \/ Q.pc = "teardown" /\ P.cmd \notin Forward /\ Q.todo # <<>>
                    /\ Q.calls = IF P.cmd = "stop" THEN StopCalls(P.file, This(Q))
                                                   ELSE DownCalls(P.file, This(Q))
<1> DEFINE R == [P EXCEPT !.todo = Tail(P.todo), !.calls = <<>>, !.deps = <<>>,
                          !.active = "inactive", !.bad = FALSE]
<1>1. P \in Process
  BY DEF WellFormed
<1>2. Tail(P.todo) \in Seq(Service) /\ <<>> \in Seq(Service) /\ <<>> \in Seq(Call)
  BY <1>1 DEF Process
<1>3. R \in Process
  <2> DEFINE rest == Tail(P.todo)
  <2> HIDE DEF rest
  <2> QED
    BY <1>1, <1>2 DEF Process, ActiveState, rest
<1>4. SameCommand(P, R) /\ R.todo = Tail(P.todo) /\ R.failed = P.failed
  BY <1>1 DEF Process, SameCommand
<1>5. NextService(P) = IF Tail(P.todo) # <<>> THEN Enter(R)
                       ELSE IF P.cmd = "down" /\ P.purge THEN [R EXCEPT !.pc = "orphans"]
                       ELSE Idle(P.failed)
  BY DEF NextService
<1> HIDE DEF R
<1>6. CASE Tail(P.todo) # <<>>
  <2> DEFINE Q == Enter(R)
  <2>1. /\ SameCommand(R, Q) /\ Q.todo = R.todo /\ Q.failed = R.failed
        /\ R.cmd \in Forward => Q.pc = "load"
        /\ R.cmd \notin Forward =>
             /\ Q.pc = "teardown"
             /\ Q.calls = IF R.cmd = "stop" THEN StopCalls(R.file, This(R)) ELSE DownCalls(R.file, This(R))
    BY <1>3, EnterFields
  <2> HIDE DEF Q
  <2>2. This(R) = This(Q)
    BY <2>1 DEF This
  <2>3. NextService(P) = Q
    BY <1>5, <1>6 DEF Q
  <2> QED
    BY <1>4, <1>6, <2>1, <2>2, <2>3 DEF SameCommand
<1>7. CASE Tail(P.todo) = <<>> /\ P.cmd = "down" /\ P.purge
  <2>1. NextService(P) = [R EXCEPT !.pc = "orphans"]
    BY <1>5, <1>7
  <2> QED
    BY <1>3, <1>4, <1>7, <2>1 DEF Process, SameCommand
<1>8. CASE Tail(P.todo) = <<>> /\ ~(P.cmd = "down" /\ P.purge)
  BY <1>5, <1>8
<1> QED
  BY <1>6, <1>7, <1>8

LEMMA NextServiceShaped ==
    ASSUME NEW P, WellFormed(P), P.todo # <<>>, Shaped(P), P.pc # "idle"
    PROVE  Shaped(NextService(P))
<1> DEFINE Q == NextService(P)
<1>1. P.todo \in Seq(Service) /\ P.names \in Seq(Service)
      /\ P.cmd \in Commands /\ P.file \in Files
  BY DEF WellFormed, Process
<1>2. Range(P.todo) = {Head(P.todo)} \cup Range(Tail(P.todo)) /\ Tail(P.todo) \in Seq(Service)
  BY <1>1, RangeTail
<1>3. P.cmd \in Forward => Remains(Tail(P.todo), P.names)
  BY <1>1, RemainsTail DEF Shaped
<1>4. \/ Q.pc = "idle"
      \/ /\ SameCommand(P, Q) /\ Q.todo = Tail(P.todo)
         /\ \/ Q.pc = "orphans" /\ Q.todo = <<>> /\ P.cmd = "down"
            \/ Q.pc = "load" /\ P.cmd \in Forward
            \/ Q.pc = "teardown" /\ P.cmd \notin Forward /\ Q.todo # <<>>
               /\ Q.calls = IF P.cmd = "stop" THEN StopCalls(P.file, This(Q)) ELSE DownCalls(P.file, This(Q))
  BY NextServiceFields DEF Idle
<1> HIDE DEF Q
<1>5. CASE Q.pc = "idle"
  BY <1>5 DEF Shaped, Q
<1>6. CASE SameCommand(P, Q) /\ Q.todo = Tail(P.todo) /\ Q.pc = "orphans" /\ Q.todo = <<>> /\ P.cmd = "down"
  BY <1>2, <1>6 DEF Shaped, SameCommand, Forward, Q
<1>7. CASE SameCommand(P, Q) /\ Q.todo = Tail(P.todo) /\ Q.pc = "load" /\ P.cmd \in Forward
  BY <1>2, <1>3, <1>7 DEF Shaped, SameCommand, Q
<1>8. CASE /\ SameCommand(P, Q) /\ Q.todo = Tail(P.todo)
           /\ Q.pc = "teardown" /\ P.cmd \notin Forward /\ Q.todo # <<>>
           /\ Q.calls = IF P.cmd = "stop" THEN StopCalls(P.file, This(Q)) ELSE DownCalls(P.file, This(Q))
  <2>1. Head(Q.todo) \in Service
    BY <1>2, <1>8
  <2>2. /\ Remains(StopCalls(P.file, This(Q)), StopCalls(P.file, This(Q)))
        /\ Remains(DownCalls(P.file, This(Q)), DownCalls(P.file, This(Q)))
    BY <2>1, TeardownCalls, RemainsAll DEF This
  <2>3. P.cmd \in {"stop", "down"}
    BY <1>1, <1>8 DEF Commands, Forward
  <2>4. \/ Q.cmd = "stop" /\ Remains(Q.calls, StopCalls(Q.file, This(Q)))
        \/ Q.cmd = "down" /\ Remains(Q.calls, DownCalls(Q.file, This(Q)))
    BY <1>8, <2>2, <2>3 DEF SameCommand
  <2> QED
    BY <1>2, <1>8, <2>4 DEF Shaped, SameCommand, Q
<1> QED
  BY <1>4, <1>5, <1>6, <1>7, <1>8

\* The orphan that is cleaned up next, or what follows the last one.
LEMMA NextOrphanFields ==
    ASSUME NEW P \in Process
    PROVE  LET Q == NextOrphan(P) IN
           \/ P.orphans = {} /\ P.cmd = "down" /\ Q = Idle(P.failed)
           \/ P.orphans = {} /\ P.cmd # "down" /\ Q = Enter([P EXCEPT !.calls = <<>>])
           \/ \E u \in P.orphans :
                /\ SameCommand(P, Q) /\ Q.todo = P.todo /\ Q.failed = P.failed
                /\ Q.pc = "purge" /\ Q.orphans = P.orphans \ {u} /\ Q.calls = OrphanCalls(u)
<1>1. CASE P.orphans = {}
  BY <1>1 DEF NextOrphan
<1>2. CASE P.orphans # {}
  <2> DEFINE u == FirstOrphan(P.orphans)
  <2>1. P.orphans \subseteq OrphanUnit
    BY DEF Process
  <2>2. u \in P.orphans
    BY <1>2, <2>1, FirstOrphanExists
  <2> HIDE DEF u
  <2> DEFINE calls == OrphanCalls(u)
  <2>3. NextOrphan(P) = [P EXCEPT !.pc = "purge", !.orphans = P.orphans \ {u}, !.calls = calls]
    BY <1>2 DEF NextOrphan, OrphanCalls, u
  <2> HIDE DEF calls
  <2>4. LET Q == NextOrphan(P) IN
        /\ SameCommand(P, Q) /\ Q.todo = P.todo /\ Q.failed = P.failed
        /\ Q.pc = "purge" /\ Q.orphans = P.orphans \ {u} /\ Q.calls = calls
    BY <2>3 DEF Process, SameCommand
  <2> QED
    BY <2>2, <2>4 DEF calls
<1> QED
  BY <1>1, <1>2

LEMMA OrphanCallsType ==
    ASSUME NEW u \in OrphanUnit
    PROVE  OrphanCalls(u) \in Seq(Call) \ {<<>>} /\ Remains(OrphanCalls(u), OrphanCalls(u))
<1>1. u.of \in Service
  BY DEF OrphanUnit
<1>2. OrphanCalls(u) \in Seq(Call) \ {<<>>}
  BY <1>1, TeardownCalls DEF OrphanCalls
<1> QED
  BY <1>2, RemainsAll

LEMMA NextOrphanShaped ==
    ASSUME NEW P \in Process, P.purge, Range(P.names) \subseteq Listed(P.file),
           \/ P.cmd = "up" /\ P.todo = P.names /\ P.todo # <<>>
           \/ P.cmd = "down" /\ P.todo = <<>>,
           \A u \in P.orphans : u.of \notin Listed(P.file)
    PROVE  Shaped(NextOrphan(P))
<1> DEFINE Q == NextOrphan(P)
<1>1. CASE P.orphans = {} /\ P.cmd = "down" /\ Q = Idle(P.failed)
  BY <1>1 DEF Shaped, Idle
<1>2. CASE P.orphans = {} /\ P.cmd # "down" /\ Q = Enter([P EXCEPT !.calls = <<>>])
  <2> DEFINE R == [P EXCEPT !.calls = <<>>]
  <2>1. <<>> \in Seq(Call)
    OBVIOUS
  <2>2. R \in Process /\ R.todo = P.todo /\ R.names = P.names /\ R.file = P.file /\ R.cmd = P.cmd
        /\ R.purge = P.purge
    BY <2>1 DEF Process
  <2>3. Q = Enter(R)
    BY <1>2
  <2> HIDE DEF R, Q
  <2>4. Remains(R.todo, R.names)
    BY <1>2, <2>2, RemainsAll DEF Process
  <2>5. Shaped(Enter(R))
    BY <1>2, <2>2, <2>4, EnterShaped
  <2> QED
    BY <2>3, <2>5 DEF Q
<1>3. CASE \E u \in P.orphans :
             /\ SameCommand(P, Q) /\ Q.todo = P.todo /\ Q.failed = P.failed
             /\ Q.pc = "purge" /\ Q.orphans = P.orphans \ {u} /\ Q.calls = OrphanCalls(u)
  <2>1. PICK u \in P.orphans :
             /\ SameCommand(P, Q) /\ Q.todo = P.todo /\ Q.failed = P.failed
             /\ Q.pc = "purge" /\ Q.orphans = P.orphans \ {u} /\ Q.calls = OrphanCalls(u)
    BY <1>3
  <2> HIDE DEF Q
  <2>2. u \in OrphanUnit
    BY DEF Process
  <2>3. u.of \notin Listed(P.file) /\ Remains(Q.calls, OrphanCalls(u))
    BY <2>1, <2>2, OrphanCallsType
  <2>4. Q.cmd \in Forward => Remains(Q.todo, Q.names)
    BY <2>1, RemainsAll DEF Process, SameCommand, Forward
  <2>5. Range(Q.todo) \subseteq Range(Q.names)
    BY <2>1 DEF SameCommand, Range
  <2> QED
    BY <2>1, <2>2, <2>3, <2>4, <2>5 DEF Shaped, SameCommand, Q
<1> QED
  BY <1>1, <1>2, <1>3, NextOrphanFields

LEMMA CheckDepsFields ==
    ASSUME NEW P \in Process, NEW deps \in Seq(Service)
    PROVE  LET Q == CheckDeps(P, deps) IN
           /\ SameCommand(P, Q) /\ Q.todo = P.todo /\ Q.failed = P.failed
           /\ Q.pc \in {"create", "depLoad"}
  BY DEF CheckDeps, Process, SameCommand

LEMMA NoteFields ==
    ASSUME NEW P \in Process, NEW b \in BOOLEAN
    PROVE  LET Q == Note(P, b) IN
           /\ SameCommand(P, Q) /\ Q.todo = P.todo /\ Q.failed = (P.failed \/ b)
           /\ Q.pc = P.pc /\ Q.calls = P.calls /\ Q.orphans = P.orphans /\ Q.active = P.active
  BY DEF Note, Process, SameCommand

LEMMA NoteShaped ==
    ASSUME NEW P \in Process, NEW b \in BOOLEAN, Shaped(P)
    PROVE  Shaped(Note(P, b))
<1> DEFINE Q == Note(P, b)
<1>1. /\ SameCommand(P, Q) /\ Q.todo = P.todo
      /\ Q.pc = P.pc /\ Q.calls = P.calls /\ Q.orphans = P.orphans
  BY NoteFields
<1> HIDE DEF Q
<1>2. This(Q) = This(P)
  BY <1>1 DEF This
<1> QED
  BY <1>1, <1>2 DEF Shaped, SameCommand, Q

-----------------------------------------------------------------------------
(* What a request to the manager does to the other services. *)

\* What stops with a unit stays out of a set that is closed under Requires=.
LEMMA ClosedKept ==
    ASSUME NEW m, m \in Manager, NEW s \in Service, NEW D \in SUBSET Service, s \notin D,
           \A t \in D : Requires(m)[t] \subseteq D
    PROVE  BoundTo(m, s) \cap D = {}
<1> DEFINE req == Requires(m)
<1>1. req \in [Service -> SUBSET Service]
  BY RequiresType
<1> HIDE DEF req
<1>2. DOMAIN req = Service
  BY <1>1
<1>3. UpwardClosed(req, Service \ D)
  <2> SUFFICES ASSUME NEW t \in Service, req[t] \cap (Service \ D) # {} PROVE t \in Service \ D
    BY <1>2 DEF UpwardClosed
  <2> QED
    BY DEF req
<1>4. DependentsOf(req, {s}) \subseteq Service \ D
  BY <1>2, <1>3 DEF DependentsOf
<1> QED
  BY <1>4 DEF BoundTo, req

\* What starts with a unit stays in such a set.
LEMMA ClosedStarts ==
    ASSUME NEW m, m \in Manager, NEW s \in Service, NEW K \in SUBSET Service, s \in K,
           \A t \in K : Requires(m)[t] \subseteq K
    PROVE  \A t \in Service \ K : /\ StartMain(m, s).active[t] = m.active[t]
                                  /\ RestartMain(m, s).active[t] = m.active[t]
<1> DEFINE req == Requires(m)
           needed == RequirementsOf(req, {s})
           active == [t \in Service |-> IF t \in needed \ Up(m) THEN "active" ELSE m.active[t]]
<1>1. req \in [Service -> SUBSET Service]
  BY RequiresType
<1>2. DownwardClosed(req, K)
  BY DEF DownwardClosed
<1>3. needed \subseteq K
  BY <1>1, <1>2, RequirementsLeast
<1>4. StartMain(m, s) = [m EXCEPT !.active = active]
  BY DEF StartMain
<1> HIDE DEF needed
<1>5. StartMain(m, s).active = active
  BY <1>4 DEF Manager
<1>6. RestartMain(m, s).active = [active EXCEPT ![s] = "active"]
  BY <1>4 DEF Manager, RestartMain
<1> QED
  BY <1>3, <1>5, <1>6

LEMMA CollectFields ==
    ASSUME NEW m, m \in Manager
    PROVE  /\ Collect(m).active = m.active /\ Collect(m).timers = m.timers
           /\ Collect(m).failedProbes = m.failedProbes
           /\ \A s \in Service : Collect(m).hash[s] \in {m.hash[s], NoHash}
<1> DEFINE kept == RequirementsOf(Requires(m),
                       {s \in Service : m.active[s] # "inactive"} \cup ProbesLoaded(m))
           hash == [s \in Service |-> IF s \in kept THEN m.hash[s] ELSE NoHash]
<1>1. Collect(m) = [m EXCEPT !.hash = hash]
  BY DEF Collect
<1> HIDE DEF kept
<1> QED
  BY <1>1 DEF Manager

\* A unit that is inactive is left alone by a teardown, and nothing is started,
\* monitored or failed by one.
Sinks(m, n) ==
    /\ Up(n) \subseteq Up(m)
    /\ n.timers \subseteq m.timers /\ n.failedProbes \subseteq m.failedProbes
    /\ \A s \in Service : /\ n.hash[s] \in {m.hash[s], NoHash}
                          /\ m.active[s] = "inactive" => n.active[s] = "inactive"

LEMMA StopMainSinks ==
    ASSUME NEW m, ManagerInv(m), NEW s \in Service, NEW dirty
    PROVE  /\ Sinks(m, StopMain(m, s, dirty))
           /\ Up(StopMain(m, s, dirty)) = Up(m) \ BoundTo(m, s)
           /\ s \notin Up(StopMain(m, s, dirty))
<1> DEFINE S == BoundTo(m, s)
           active == [t \in Service |->
               IF t \notin S THEN m.active[t] ELSE IF t \in dirty THEN "failed" ELSE "inactive"]
           timers == m.timers \ TimersBoundTo(S)
           n == [m EXCEPT !.active = active, !.timers = timers]
<1>1. m \in Manager /\ S \subseteq Up(m) /\ (s \in Up(m) => s \in S)
  BY BoundToClosed DEF ManagerInv
<1>2. StopMain(m, s, dirty) = Collect(n)
  BY DEF StopMain, TakeDown
<1>3. active \in [Service -> ActiveState]
  BY <1>1 DEF Manager, ActiveState
<1>4. \A t \in Service : m.active[t] = "inactive" => active[t] = "inactive"
  BY <1>1 DEF Up, RunningStates
<1>5. timers \in SUBSET Service /\ timers \subseteq m.timers
  BY <1>1 DEF Manager
<1> HIDE DEF active, timers, S
<1>6. n \in Manager /\ n.active = active /\ n.timers = timers
      /\ n.failedProbes = m.failedProbes /\ n.hash = m.hash
  BY <1>1, <1>3, <1>5 DEF Manager
<1> HIDE DEF n
<1>7. Up(StopMain(m, s, dirty)) = Up(m) \ S
  BY StopMainInv DEF S
<1>8. Sinks(m, Collect(n))
  <2>1. Up(Collect(n)) \subseteq Up(m)
    BY <1>2, <1>7
  <2>2. Collect(n).timers \subseteq m.timers /\ Collect(n).failedProbes \subseteq m.failedProbes
    BY <1>5, <1>6, CollectFields
  <2>3. \A t \in Service : Collect(n).hash[t] \in {m.hash[t], NoHash} /\ Collect(n).active[t] = active[t]
    BY <1>6, CollectFields
  <2> QED
    BY <1>4, <2>1, <2>2, <2>3 DEF Sinks
<1> QED
  BY <1>1, <1>2, <1>7, <1>8 DEF S

LEMMA OtherEffects ==
    ASSUME NEW m, ManagerInv(m), NEW s \in Service
    PROVE  /\ Sinks(m, m)
           /\ Sinks(m, ResetMain(m, s)) /\ (s \notin Up(m) => ResetMain(m, s).active[s] = "inactive")
           /\ Sinks(m, StopTimer(m, s)) /\ s \notin StopTimer(m, s).timers
           /\ Sinks(m, ResetProbe(m, s)) /\ s \notin ResetProbe(m, s).failedProbes
           /\ Up(ResetMain(m, s)) = Up(m) /\ Up(StopTimer(m, s)) = Up(m) /\ Up(ResetProbe(m, s)) = Up(m)
<1>1. m \in Manager
  BY DEF ManagerInv
<1>2. Sinks(m, m)
  BY DEF Sinks
<1>3. /\ Sinks(m, ResetMain(m, s)) /\ (s \notin Up(m) => ResetMain(m, s).active[s] = "inactive")
  <2> DEFINE active == [m.active EXCEPT ![s] = IF m.active[s] = "failed" THEN "inactive" ELSE m.active[s]]
             n == [m EXCEPT !.active = active]
  <2>1. ResetMain(m, s) = Collect(n)
    BY DEF ResetMain
  <2>2. active \in [Service -> ActiveState]
    BY <1>1 DEF Manager, ActiveState
  <2>3. \A t \in Service : m.active[t] = "inactive" => active[t] = "inactive"
    BY <1>1 DEF Manager
  <2>4. s \notin Up(m) => active[s] = "inactive"
    BY <1>1 DEF Manager, Up, RunningStates, ActiveState
  <2> HIDE DEF active
  <2>5. n \in Manager /\ n.active = active /\ n.timers = m.timers
        /\ n.failedProbes = m.failedProbes /\ n.hash = m.hash
    BY <1>1, <2>2 DEF Manager
  <2> HIDE DEF n
  <2>6. /\ Collect(n).active = active /\ Collect(n).timers = m.timers
        /\ Collect(n).failedProbes = m.failedProbes
        /\ \A t \in Service : Collect(n).hash[t] \in {m.hash[t], NoHash}
    BY <2>5, CollectFields
  <2>7. Up(Collect(n)) = Up(m)
    BY <2>1, ResetMainInv
  <2> QED
    BY <2>1, <2>3, <2>4, <2>6, <2>7 DEF Sinks
<1>4. Sinks(m, StopTimer(m, s)) /\ s \notin StopTimer(m, s).timers
  <2> DEFINE timers == m.timers \ {s}
             n == [m EXCEPT !.timers = timers]
  <2>1. StopTimer(m, s) = Collect(n)
    BY DEF StopTimer
  <2>2. timers \in SUBSET Service /\ timers \subseteq m.timers /\ s \notin timers
    BY <1>1 DEF Manager
  <2> HIDE DEF timers
  <2>3. n \in Manager /\ n.active = m.active /\ n.timers = timers
        /\ n.failedProbes = m.failedProbes /\ n.hash = m.hash
    BY <1>1, <2>2 DEF Manager
  <2> HIDE DEF n
  <2>4. /\ Collect(n).active = m.active /\ Collect(n).timers = timers
        /\ Collect(n).failedProbes = m.failedProbes
        /\ \A t \in Service : Collect(n).hash[t] \in {m.hash[t], NoHash}
    BY <2>3, CollectFields
  <2>5. Up(Collect(n)) = Up(m)
    BY <2>1, StopTimerInv
  <2> QED
    BY <2>1, <2>2, <2>4, <2>5 DEF Sinks
<1>5. Sinks(m, ResetProbe(m, s)) /\ s \notin ResetProbe(m, s).failedProbes
  <2> DEFINE failed == m.failedProbes \ {s}
             n == [m EXCEPT !.failedProbes = failed]
  <2>1. ResetProbe(m, s) = Collect(n)
    BY DEF ResetProbe
  <2>2. failed \in SUBSET Service /\ failed \subseteq m.failedProbes /\ s \notin failed
    BY <1>1 DEF Manager
  <2> HIDE DEF failed
  <2>3. n \in Manager /\ n.active = m.active /\ n.timers = m.timers
        /\ n.failedProbes = failed /\ n.hash = m.hash
    BY <1>1, <2>2 DEF Manager
  <2> HIDE DEF n
  <2>4. /\ Collect(n).active = m.active /\ Collect(n).timers = m.timers
        /\ Collect(n).failedProbes = failed
        /\ \A t \in Service : Collect(n).hash[t] \in {m.hash[t], NoHash}
    BY <2>3, CollectFields
  <2>5. Up(Collect(n)) = Up(m)
    BY <2>1, ResetProbeInv
  <2> QED
    BY <2>1, <2>2, <2>4, <2>5 DEF Sinks
<1> QED
  BY <1>2, <1>3, <1>4, <1>5, ResetMainInv, StopTimerInv, ResetProbeInv

\* One call of a teardown.
LEMMA EffectSinks ==
    ASSUME NEW m, ManagerInv(m), NEW c \in Call, NEW dirty
    PROVE  LET n == Effect(m, c, dirty) IN
           /\ Sinks(m, n)
           /\ Up(n) = IF c.verb = "stop" /\ c.kind = "main" THEN Up(m) \ BoundTo(m, c.of) ELSE Up(m)
           /\ c.verb = "stop" /\ c.kind = "main" => c.of \notin Up(n)
           /\ c.verb = "reset" /\ c.kind = "main" /\ c.of \notin Up(m) => n.active[c.of] = "inactive"
           /\ c.verb = "stop" /\ c.kind = "timer" => c.of \notin n.timers
           /\ c.verb = "reset" /\ c.kind = "probe" => c.of \notin n.failedProbes
<1> DEFINE n == Effect(m, c, dirty)
<1>1. c.of \in Service /\ c.verb \in {"stop", "reset"} /\ c.kind \in {"timer", "probe", "main"}
  BY DEF Call
<1>2. CASE c.verb = "stop" /\ c.kind = "main"
  <2>1. n = StopMain(m, c.of, dirty)
    BY <1>2 DEF Effect
  <2> QED
    BY <1>1, <1>2, <2>1, StopMainSinks
<1>3. CASE c.verb = "reset" /\ c.kind = "main"
  <2>1. n = ResetMain(m, c.of)
    BY <1>3 DEF Effect
  <2> QED
    BY <1>1, <1>3, <2>1, OtherEffects
<1>4. CASE c.verb = "stop" /\ c.kind = "timer"
  <2>1. n = StopTimer(m, c.of)
    BY <1>4 DEF Effect
  <2> QED
    BY <1>1, <1>4, <2>1, OtherEffects
<1>5. CASE c.verb = "reset" /\ c.kind = "probe"
  <2>1. n = ResetProbe(m, c.of)
    BY <1>5 DEF Effect
  <2> QED
    BY <1>1, <1>5, <2>1, OtherEffects
<1>6. CASE \/ c.verb = "reset" /\ c.kind = "timer"
           \/ c.verb = "stop" /\ c.kind = "probe"
  <2>1. n = m
    BY <1>6 DEF Effect
  <2> QED
    BY <1>1, <1>6, <2>1, OtherEffects
<1> QED
  BY <1>1, <1>2, <1>3, <1>4, <1>5, <1>6

\* Nothing stops, and nothing but `s` gets a timer or another definition.
Lifts(m, n, s) ==
    /\ Up(m) \subseteq Up(n) /\ s \in Up(n)
    /\ n.timers \subseteq m.timers \cup {s} /\ n.failedProbes = m.failedProbes
    /\ \A t \in Service \ {s} : n.hash[t] = m.hash[t]

\* Whatever starts with `s`, or has a timer then, is in K.
Within(m, n, s, K) ==
    /\ \A t \in Service \ K : n.active[t] = m.active[t]
    /\ n.timers \subseteq m.timers \cup K

LEMMA StartLifts ==
    ASSUME NEW m, ManagerInv(m), NEW s \in Service, Startable(m, s),
           NEW n, n \in {StartMain(m, s), RestartMain(m, s)}
    PROVE  /\ Lifts(m, n, s) /\ n.hash = m.hash /\ n.timers = m.timers
           /\ \A K \in SUBSET Service :
                s \in K /\ (\A t \in K : Requires(m)[t] \subseteq K) => Within(m, n, s, K)
<1>1. m \in Manager
  BY DEF ManagerInv
<1>2. n.hash = m.hash /\ n.timers = m.timers /\ n.failedProbes = m.failedProbes
  <2> DEFINE active == [t \in Service |->
                 IF t \in RequirementsOf(Requires(m), {s}) \ Up(m) THEN "active" ELSE m.active[t]]
             b == [m EXCEPT !.active = active]
  <2>1. StartMain(m, s) = b /\ RestartMain(m, s) = [b EXCEPT !.active[s] = "active"]
    BY DEF StartMain, RestartMain
  <2> HIDE DEF active
  <2>2. /\ b.hash = m.hash /\ b.timers = m.timers /\ b.failedProbes = m.failedProbes
        /\ b \in [active : {b.active}, hash : {b.hash}, timers : {b.timers}, failedProbes : {b.failedProbes}]
    BY <1>1 DEF Manager
  <2> HIDE DEF b
  <2> QED
    BY <2>1, <2>2
<1>3. Up(m) \subseteq Up(n)
  BY StartMainInv, RestartMainInv
<1>4. s \in Up(n)
  <2>1. n = StartMain(m, s) => s \in Up(n)
    BY StartMainInv
  <2>2. RestartMain(m, s).active[s] = "active"
    BY <1>1 DEF StartMain, RestartMain, Manager
  <2> QED
    BY <2>1, <2>2 DEF Up, RunningStates
<1>5. ASSUME NEW K \in SUBSET Service, s \in K, \A t \in K : Requires(m)[t] \subseteq K
      PROVE  Within(m, n, s, K)
  BY <1>1, <1>2, <1>5, ClosedStarts DEF Within
<1> QED
  BY <1>2, <1>3, <1>4, <1>5 DEF Lifts

LEMMA CreateLifts ==
    ASSUME NEW m, ManagerInv(m), NEW s \in Service, NEW h \in Hashes, CanCreate(m, s, h)
    PROVE  LET n == CreateMain(m, s, h) IN
           /\ Lifts(m, n, s) /\ n.hash[s] = h
           /\ \A K \in SUBSET Service :
                /\ s \in K /\ DependsOn(h.own) \subseteq K
                /\ \A t \in K \ {s} : Requires(m)[t] \subseteq K
                => Within(m, n, s, K)
<1> DEFINE b == Submitted(m, s, h)
           n == CreateMain(m, s, h)
<1>1. m \in Manager /\ s \notin Loaded(m) /\ Startable(b, s)
  BY DEF ManagerInv, CanCreate
<1>2. ManagerInv(b) /\ Up(b) = Up(m)
  BY <1>1, SubmittedInv
<1>3. n = StartMain(b, s)
  BY <1>1 DEF CreateMain
<1>4. /\ b.hash = [m.hash EXCEPT ![s] = h] /\ b.timers = m.timers
      /\ b.failedProbes = m.failedProbes /\ b.active = m.active
  BY <1>1 DEF Submitted, Manager
<1>5. b.hash[s] = h /\ \A t \in Service \ {s} : b.hash[t] = m.hash[t]
  BY <1>1, <1>4 DEF Manager
<1> HIDE DEF b, n
<1>6. Lifts(b, n, s) /\ n.hash = b.hash
  BY <1>1, <1>2, <1>3, StartLifts
<1>7. Lifts(m, n, s) /\ n.hash[s] = h
  BY <1>2, <1>4, <1>5, <1>6 DEF Lifts
<1>8. ASSUME NEW K \in SUBSET Service, s \in K, DependsOn(h.own) \subseteq K,
             \A t \in K \ {s} : Requires(m)[t] \subseteq K
      PROVE  Within(m, n, s, K)
  <2>1. Requires(b)[s] = DependsOn(h.own)
    BY <1>5, NoHashAssumption DEF Requires, RequiredBy
  <2>2. \A t \in K \ {s} : Requires(b)[t] = Requires(m)[t]
    BY <1>5 DEF Requires
  <2>3. Within(b, n, s, K)
    BY <1>1, <1>2, <1>3, <1>8, <2>1, <2>2, StartLifts
  <2> QED
    BY <1>4, <2>3 DEF Within
<1> QED
  BY <1>7, <1>8 DEF n

LEMMA TimerLifts ==
    ASSUME NEW m, ManagerInv(m), NEW s \in Service, CanCreateTimer(m, s)
    PROVE  LET n == CreateTimer(m, s) IN
           /\ Lifts(m, n, s) /\ n.hash = m.hash
           /\ \A K \in SUBSET Service :
                s \in K /\ (\A t \in K : Requires(m)[t] \subseteq K) => Within(m, n, s, K)
<1> DEFINE b == StartMain(m, s)
           n == CreateTimer(m, s)
<1>1. m \in Manager /\ Startable(m, s)
  BY DEF ManagerInv, CanCreateTimer
<1>2. /\ Lifts(m, b, s) /\ b.hash = m.hash /\ b.timers = m.timers
      /\ \A K \in SUBSET Service :
           s \in K /\ (\A t \in K : Requires(m)[t] \subseteq K) => Within(m, b, s, K)
  BY <1>1, StartLifts
<1>3. n = [b EXCEPT !.timers = m.timers \cup {s}]
  BY DEF CreateTimer
<1>4. /\ n.active = b.active /\ n.hash = b.hash /\ n.failedProbes = b.failedProbes
      /\ n.timers = m.timers \cup {s}
  BY <1>1, <1>3 DEF StartMain, Manager
<1> HIDE DEF b, n
<1>5. Up(n) = Up(b)
  BY <1>4 DEF Up
<1>6. ASSUME NEW K \in SUBSET Service, s \in K, Within(m, b, s, K)
      PROVE  Within(m, n, s, K)
  BY <1>4, <1>6 DEF Within
<1>7. Lifts(m, n, s)
  BY <1>2, <1>4, <1>5 DEF Lifts
<1> QED
  BY <1>2, <1>4, <1>6, <1>7 DEF n

-----------------------------------------------------------------------------
(* The order of the names. *)

\* A file's own order leaves no dependency out.
LEMMA FullOrdered ==
    ASSUME NEW f \in Files
    PROVE  WithDependencies(f, f.order)
<1>1. /\ f.order \in Seq(Service)
      /\ \A s \in Listed(f) : DependsOn(f.def[s]) \subseteq Listed(f)
  BY FilesAssumption DEF IsComposeFile
<1>2. \A i \in DOMAIN f.order : f.order[i] \in Listed(f)
  BY ListedServices
<1> QED
  BY <1>1, <1>2 DEF WithDependencies, Listed

\* In dependency order, nothing the loop is through with depends on what is left,
\* and the current service on nothing that is left after it.
LEMMA OrderedNames ==
    ASSUME NEW P, WellFormed(P), Shaped(P), P.pc # "idle", P.todo # <<>>, P.cmd \in Forward,
           DependencyFirst(P.file, P.names)
    PROVE  /\ \A u \in Done(P) : DependsOn(P.file.def[u]) \cap Range(P.todo) = {}
           /\ DependsOn(P.file.def[This(P)]) \cap Range(Tail(P.todo)) = {}
<1> DEFINE graph == [s \in Listed(P.file) |-> DependsOn(P.file.def[s])]
           n == Len(P.names)
<1>1. /\ P.names \in Seq(Service) /\ P.todo \in Seq(Service) /\ P.file \in Files
      /\ n \in Nat /\ DOMAIN P.names = 1..n /\ Len(P.todo) \in Nat /\ Len(P.todo) >= 1
      /\ DOMAIN P.todo = 1..Len(P.todo)
  BY DEF WellFormed, Process
<1>2. PICK k \in 0..n : Len(P.todo) + k = n /\ \A i \in DOMAIN P.todo : P.todo[i] = P.names[i + k]
  BY DEF Shaped, Remains
<1>3. Range(P.names) \subseteq Listed(P.file)
  BY DEF Shaped
<1> HIDE DEF n
<1>4. ASSUME NEW i \in 1..n, NEW j \in 1..n, i < j
      PROVE  P.names[j] \notin DependsOn(P.file.def[P.names[i]])
  <2> DEFINE u == P.names[i]
             v == P.names[j]
  <2>1. u \in Listed(P.file) /\ v \in Listed(P.file)
    BY <1>1, <1>3 DEF Range
  <2>2. u \notin DependentsOf(graph, {v})
    BY <1>1, <1>4 DEF DependencyFirst
  <2>3. DOMAIN graph = Listed(P.file) /\ graph[u] = DependsOn(P.file.def[u])
    BY <2>1
  <2> HIDE DEF graph, u, v
  <2>4. v \in DependentsOf(graph, {v}) /\ UpwardClosed(graph, DependentsOf(graph, {v}))
    BY <2>1, <2>3, DependentsContain, DependentsClosed
  <2>5. v \notin DependsOn(P.file.def[u])
    BY <2>1, <2>2, <2>3, <2>4 DEF UpwardClosed
  <2> QED
    BY <2>5 DEF u, v
<1> HIDE DEF graph
<1>5. ASSUME NEW u \in Done(P), NEW v \in Range(P.todo) PROVE v \notin DependsOn(P.file.def[u])
  <2>1. PICK i \in 1..n : u = P.names[i]
    BY <1>1 DEF Done, Range
  <2>2. PICK j \in 1..Len(P.todo) : v = P.todo[j]
    BY <1>1 DEF Range
  <2>3. j + k \in 1..n /\ v = P.names[j + k]
    <3>1. j \in DOMAIN P.todo
      BY <1>1
    <3>2. P.todo[j] = P.names[j + k]
      BY <1>2, <3>1
    <3>3. j + k \in 1..n
      BY <1>1, <1>2
    <3> QED
      BY <2>2, <3>2, <3>3
  <2>4. i <= k
    <3> SUFFICES ASSUME i > k PROVE FALSE
      BY <1>2
    <3>1. i - k \in 1..Len(P.todo) /\ (i - k) + k = i
      BY <1>1, <1>2
    <3>2. P.todo[i - k] = P.names[i]
      BY <1>1, <1>2, <3>1
    <3> QED
      BY <1>1, <2>1, <3>1, <3>2 DEF Done, Range
  <2>5. i < j + k
    BY <1>2, <2>3, <2>4
  <2> QED
    BY <1>4, <2>1, <2>3, <2>5
<1>6. ASSUME NEW v \in Range(Tail(P.todo)) PROVE v \notin DependsOn(P.file.def[This(P)])
  <2>1. /\ DOMAIN Tail(P.todo) = 1..Len(P.todo) - 1
        /\ \A i \in 1..Len(P.todo) - 1 : Tail(P.todo)[i] = P.todo[i + 1]
        /\ Head(P.todo) = P.todo[1]
    BY <1>1
  <2>2. PICK j \in 1..Len(P.todo) - 1 : v = P.todo[j + 1]
    BY <2>1 DEF Range
  <2>3. 1 \in DOMAIN P.todo /\ j + 1 \in DOMAIN P.todo
    BY <1>1
  <2>4. This(P) = P.names[1 + k] /\ v = P.names[(j + 1) + k]
    BY <1>2, <2>1, <2>2, <2>3 DEF This
  <2>5. 1 + k \in 1..n /\ (j + 1) + k \in 1..n /\ 1 + k < (j + 1) + k
    BY <1>1, <1>2
  <2> QED
    BY <1>4, <2>4, <2>5
<1> QED
  BY <1>5, <1>6

\* Named with their dependencies too, the services done are closed under depends_on.
LEMMA OrderedDone ==
    ASSUME NEW P, WellFormed(P), Shaped(P), P.pc # "idle", P.todo # <<>>, P.cmd \in Forward,
           DependencyFirst(P.file, P.names), WithDependencies(P.file, P.names)
    PROVE  \A u \in Done(P) : DependsOn(P.file.def[u]) \subseteq Done(P)
<1>1. /\ P.names \in Seq(Service) /\ P.todo \in Seq(Service)
      /\ Len(P.names) \in Nat /\ DOMAIN P.names = 1..Len(P.names)
      /\ Len(P.todo) \in Nat /\ Len(P.todo) >= 1 /\ DOMAIN P.todo = 1..Len(P.todo)
  BY DEF WellFormed, Process
<1>2. PICK k \in 0..Len(P.names) :
        Len(P.todo) + k = Len(P.names) /\ \A i \in DOMAIN P.todo : P.todo[i] = P.names[i + k]
  BY DEF Shaped, Remains
<1> SUFFICES ASSUME NEW u \in Done(P) PROVE DependsOn(P.file.def[u]) \subseteq Range(P.names)
  BY OrderedNames DEF Done
<1>3. PICK i \in 1..Len(P.names) : u = P.names[i]
  BY <1>1 DEF Done, Range
<1>4. i # Len(P.names)
  <2> SUFFICES ASSUME i = Len(P.names) PROVE FALSE
    OBVIOUS
  <2>1. Len(P.todo) \in DOMAIN P.todo /\ Len(P.todo) + k = Len(P.names)
    BY <1>1, <1>2
  <2>2. P.todo[Len(P.todo)] = u
    BY <1>2, <1>3, <2>1
  <2> QED
    BY <2>1, <2>2 DEF Done, Range
<1> QED
  BY <1>1, <1>3, <1>4 DEF WithDependencies

-----------------------------------------------------------------------------
(* What a command that nothing interferes with may count on. *)

Ordered(P) == DependencyFirst(P.file, P.names) /\ WithDependencies(P.file, P.names)

\* The service is as the command promises to leave it.
Served(m, P, s) ==
    /\ P.cmd = "up" /\ Ordered(P) => Runs(m, s, Hash(P.file, s))
    /\ P.cmd \in {"start", "restart"} => s \in Up(m)
    /\ P.cmd = "stop" => s \notin Up(m)
    /\ P.cmd = "down" => m.active[s] = "inactive"

\* An `up` or `down` of the whole file with --remove-orphans.
FullPurge(P) == P.purge /\ P.names = P.file.order /\ DependencyFirst(P.file, P.names)

Unlisted(P) == {u \in OrphanUnit : u.of \notin Listed(P.file)}
OrphanGone(m, u) ==
    /\ u.kind = "main" => m.active[u.of] = "inactive"
    /\ u.kind = "probe" => u.of \notin ProbesLoaded(m)
AllGone(m, P) == \A u \in Unlisted(P) : OrphanGone(m, u)

\* What the calls for an orphan have done so far.
Cleaned(m, calls, u) ==
    /\ u.kind = "main" /\ Len(calls) = 1 => u.of \notin Up(m)
    /\ u.kind = "probe" /\ Len(calls) < 4 => u.of \notin m.timers

\* The orphan at hand is being cleaned up, and all but those left are gone.
PurgePoint(m, P) ==
    \E u \in Unlisted(P) :
        /\ Remains(P.calls, OrphanCalls(u)) /\ Cleaned(m, P.calls, u)
        /\ \A v \in Unlisted(P) \ (P.orphans \cup {u}) : OrphanGone(m, v)

\* What has been read or done of the current service.
AtPoint(m, P) ==
    /\ P.pc = "hash" /\ P.active \in RunningStates => This(P) \in Up(m)
    /\ P.pc = "start" /\ P.cmd = "up" => m.hash[This(P)] = Desired(P)
    /\ P.pc = "startTimer" => This(P) \in Up(m) /\ (P.cmd = "up" => m.hash[This(P)] = Desired(P))
    /\ P.pc = "createTimer" => Runs(m, This(P), Desired(P))
    /\ P.pc = "recreate" => m.hash[This(P)] # Desired(P)
    /\ P.pc = "teardown" /\ P.cmd = "down" /\ Len(P.calls) = 1 /\ ~P.failed => This(P) \notin Up(m)

\* What the loop relies on in its body, and leaves to what follows it.
LoopHeld(m, P) == ~P.failed =>
    /\ \A s \in Done(P) : Served(m, P, s)
    /\ FullPurge(P) /\ P.cmd = "up" => AllGone(m, P)

Kept(m, P) == P.pc # "idle" =>
    /\ AtPoint(m, P)
    /\ ~P.failed => \A s \in Done(P) : Served(m, P, s)
    /\ ~P.failed /\ P.pc = "purge" => PurgePoint(m, P)
    /\ P.pc \notin {"orphans", "purge"} => LoopHeld(m, P)

\* What a command that succeeds has done.
Fulfilled(m, P) ==
    /\ \A s \in Range(P.names) : Served(m, P, s)
    /\ FullPurge(P) => AllGone(m, P)

\* P goes on as Q.
Reached(m, P, Q) ==
    /\ Shaped(Q) /\ Kept(m, Q)
    /\ Q.pc = "idle" /\ ~Q.failed => Fulfilled(m, P)

LEMMA SameServed ==
    ASSUME NEW P, NEW Q, SameCommand(P, Q), NEW m
    PROVE  /\ \A s : Served(m, Q, s) <=> Served(m, P, s)
           /\ FullPurge(Q) <=> FullPurge(P)
           /\ Unlisted(Q) = Unlisted(P)
           /\ AllGone(m, Q) <=> AllGone(m, P)
<1>1. /\ Q.cmd = P.cmd /\ Q.purge = P.purge /\ Q.file = P.file /\ Q.names = P.names
  BY DEF SameCommand
<1>2. Ordered(Q) <=> Ordered(P)
  BY <1>1 DEF Ordered
<1>3. \A s : Hash(Q.file, s) = Hash(P.file, s)
  BY <1>1
<1>4. ASSUME NEW s PROVE Served(m, Q, s) <=> Served(m, P, s)
  BY <1>1, <1>2, <1>3 DEF Served
<1>5. FullPurge(Q) <=> FullPurge(P)
  BY <1>1 DEF FullPurge
<1>6. Unlisted(Q) = Unlisted(P)
  BY <1>1 DEF Unlisted
<1> QED
  BY <1>4, <1>5, <1>6 DEF AllGone

LEMMA IdleReached ==
    ASSUME NEW m, NEW P
    PROVE  Reached(m, P, Idle(TRUE))
<1>1. Idle(TRUE).pc = "idle" /\ Idle(TRUE).failed = TRUE
  BY DEF Idle
<1> QED
  BY <1>1 DEF Reached, Shaped, Kept

\* Another point of the same service.
LEMMA PointReached ==
    ASSUME NEW m, NEW P, NEW Q, SameCommand(P, Q), Q.todo = P.todo, Q.failed = P.failed,
           Q.pc \notin {"idle", "orphans", "purge"}, Shaped(Q), AtPoint(m, Q), LoopHeld(m, P)
    PROVE  Reached(m, P, Q)
<1>1. Done(Q) = Done(P)
  BY DEF Done, SameCommand
<1>2. LoopHeld(m, Q)
  BY <1>1, SameServed DEF LoopHeld, SameCommand
<1> QED
  BY <1>2 DEF Reached, Kept, LoopHeld

LEMMA RemainsHead ==
    ASSUME NEW S, NEW rest \in Seq(S), NEW seq \in Seq(S), rest # <<>>, Remains(rest, seq)
    PROVE  /\ Len(rest) \in 1..Len(seq) /\ Head(rest) = seq[(Len(seq) - Len(rest)) + 1]
           /\ Head(rest) \in Range(seq)
<1>1. /\ Len(rest) \in Nat /\ Len(seq) \in Nat /\ Len(rest) >= 1 /\ DOMAIN rest = 1..Len(rest)
      /\ DOMAIN seq = 1..Len(seq) /\ Head(rest) = rest[1]
  OBVIOUS
<1>2. PICK k \in 0..Len(seq) : Len(rest) + k = Len(seq) /\ \A i \in DOMAIN rest : rest[i] = seq[i + k]
  BY DEF Remains
<1>3. rest[1] = seq[1 + k]
  BY <1>1, <1>2
<1>4. 1 + k = (Len(seq) - Len(rest)) + 1 /\ Len(rest) \in 1..Len(seq) /\ 1 + k \in DOMAIN seq
  BY <1>1, <1>2
<1> QED
  BY <1>1, <1>3, <1>4 DEF Range

\* The calls of a teardown, by how many are left of them.
LEMMA CleanupCalls ==
    ASSUME NEW calls \in Seq(Call), calls # <<>>, NEW s \in Service
    PROVE  /\ Remains(calls, MainCleanup(s)) =>
                /\ Len(calls) \in {1, 2}
                /\ Len(calls) = 2 => Head(calls) = Systemctl("stop", "main", s)
                /\ Len(calls) = 1 => Head(calls) = Systemctl("reset", "main", s)
           /\ Remains(calls, HealthCleanup(s)) =>
                /\ Len(calls) \in 1..4
                /\ Len(calls) = 4 => Head(calls) = Systemctl("stop", "timer", s)
                /\ Len(calls) = 1 => Head(calls) = Systemctl("reset", "probe", s)
           /\ Remains(calls, MainCleanup(s)) \/ Remains(calls, HealthCleanup(s)) => Head(calls).of = s
<1>1. ASSUME Remains(calls, MainCleanup(s))
      PROVE  /\ Len(calls) \in {1, 2} /\ Head(calls).of = s
             /\ Len(calls) = 2 => Head(calls) = Systemctl("stop", "main", s)
             /\ Len(calls) = 1 => Head(calls) = Systemctl("reset", "main", s)
  <2> DEFINE a == Systemctl("stop", "main", s)
             b == Systemctl("reset", "main", s)
  <2>1. a.of = s /\ b.of = s
    BY DEF Systemctl
  <2>2. MainCleanup(s) = <<a, b>> /\ MainCleanup(s) \in Seq(Call)
    BY TeardownCalls DEF MainCleanup
  <2> HIDE DEF a, b
  <2>3. Len(MainCleanup(s)) = 2 /\ MainCleanup(s)[1] = a /\ MainCleanup(s)[2] = b
    BY <2>2
  <2>4. Len(calls) \in 1..2 /\ Head(calls) = MainCleanup(s)[(2 - Len(calls)) + 1]
    BY <1>1, <2>2, <2>3, RemainsHead
  <2>5. \/ Len(calls) = 1 /\ (2 - Len(calls)) + 1 = 2
        \/ Len(calls) = 2 /\ (2 - Len(calls)) + 1 = 1
    <3>1. \A n \in 1..2 : (n = 1 /\ (2 - n) + 1 = 2) \/ (n = 2 /\ (2 - n) + 1 = 1)
      OBVIOUS
    <3> QED
      BY <2>4, <3>1
  <2>6. /\ Len(calls) \in {1, 2} /\ Head(calls).of = s
        /\ Len(calls) = 2 => Head(calls) = a
        /\ Len(calls) = 1 => Head(calls) = b
    BY <2>1, <2>3, <2>4, <2>5
  <2> QED
    BY <2>6 DEF a, b
<1>2. ASSUME Remains(calls, HealthCleanup(s))
      PROVE  /\ Len(calls) \in 1..4 /\ Head(calls).of = s
             /\ Len(calls) = 4 => Head(calls) = Systemctl("stop", "timer", s)
             /\ Len(calls) = 1 => Head(calls) = Systemctl("reset", "probe", s)
  <2> DEFINE a == Systemctl("stop", "timer", s)
             b == Systemctl("reset", "timer", s)
             c == Systemctl("stop", "probe", s)
             d == Systemctl("reset", "probe", s)
  <2>1. a.of = s /\ b.of = s /\ c.of = s /\ d.of = s
    BY DEF Systemctl
  <2>2. HealthCleanup(s) = <<a, b, c, d>> /\ HealthCleanup(s) \in Seq(Call)
    BY TeardownCalls DEF HealthCleanup
  <2> HIDE DEF a, b, c, d
  <2>3. /\ Len(HealthCleanup(s)) = 4 /\ HealthCleanup(s)[1] = a /\ HealthCleanup(s)[2] = b
        /\ HealthCleanup(s)[3] = c /\ HealthCleanup(s)[4] = d
    BY <2>2
  <2>4. Len(calls) \in 1..4 /\ Head(calls) = HealthCleanup(s)[(4 - Len(calls)) + 1]
    BY <1>2, <2>2, <2>3, RemainsHead
  <2>5. \/ Len(calls) = 1 /\ (4 - Len(calls)) + 1 = 4
        \/ Len(calls) = 2 /\ (4 - Len(calls)) + 1 = 3
        \/ Len(calls) = 3 /\ (4 - Len(calls)) + 1 = 2
        \/ Len(calls) = 4 /\ (4 - Len(calls)) + 1 = 1
    <3>1. \A n \in 1..4 : \/ n = 1 /\ (4 - n) + 1 = 4
                          \/ n = 2 /\ (4 - n) + 1 = 3
                          \/ n = 3 /\ (4 - n) + 1 = 2
                          \/ n = 4 /\ (4 - n) + 1 = 1
      OBVIOUS
    <3> QED
      BY <2>4, <3>1
  <2>6. /\ Len(calls) \in 1..4 /\ Head(calls).of = s
        /\ Len(calls) = 4 => Head(calls) = a
        /\ Len(calls) = 1 => Head(calls) = d
    <3>1. CASE Len(calls) = 1 /\ (4 - Len(calls)) + 1 = 4
      BY <2>1, <2>3, <2>4, <3>1
    <3>2. CASE Len(calls) = 2 /\ (4 - Len(calls)) + 1 = 3
      BY <2>1, <2>3, <2>4, <3>2
    <3>3. CASE Len(calls) = 3 /\ (4 - Len(calls)) + 1 = 2
      BY <2>1, <2>3, <2>4, <3>3
    <3>4. CASE Len(calls) = 4 /\ (4 - Len(calls)) + 1 = 1
      BY <2>1, <2>3, <2>4, <3>4
    <3> QED
      BY <2>5, <3>1, <3>2, <3>3, <3>4
  <2> QED
    BY <2>6 DEF a, d
<1> QED
  BY <1>1, <1>2

LEMMA CommandCalls ==
    ASSUME NEW calls \in Seq(Call), calls # <<>>, NEW s \in Service, NEW f
    PROVE  /\ Remains(calls, RecreateCalls(s)) => Head(calls).of = s
           /\ Remains(calls, StopCalls(f, s)) /\ Len(calls) = 1 =>
                Head(calls) = Systemctl("stop", "main", s)
           /\ Remains(calls, DownCalls(f, s)) =>
                /\ Len(calls) = 2 => Head(calls) = Systemctl("stop", "main", s)
                /\ Len(calls) = 1 => Head(calls) = Systemctl("reset", "main", s)
           /\ Len(DownCalls(f, s)) >= 2
<1> DEFINE a == Systemctl("stop", "timer", s)
           b == Systemctl("reset", "timer", s)
           c == Systemctl("stop", "probe", s)
           d == Systemctl("reset", "probe", s)
           x == Systemctl("stop", "main", s)
           y == Systemctl("reset", "main", s)
<1>1. a.of = s /\ b.of = s /\ c.of = s /\ d.of = s /\ x.of = s /\ y.of = s
  BY DEF Systemctl
<1>2. /\ RecreateCalls(s) = <<a, b, c, d>> \o <<x, y>>
      /\ StopCalls(f, s) = (IF HasHealth(f, s) THEN <<a>> ELSE <<>>) \o <<x>>
      /\ DownCalls(f, s) = (IF HasHealth(f, s) THEN <<a, b, c, d>> ELSE <<>>) \o <<x, y>>
  BY DEF RecreateCalls, StopCalls, DownCalls, HealthCleanup, MainCleanup
<1>3. /\ RecreateCalls(s) \in Seq(Call) /\ StopCalls(f, s) \in Seq(Call) /\ DownCalls(f, s) \in Seq(Call)
  BY TeardownCalls
<1> HIDE DEF a, b, c, d, x, y
<1>4. ASSUME NEW k \in {<<>>, <<a>>, <<a, b, c, d>>}
      PROVE  /\ Len(k \o <<x>>) = Len(k) + 1 /\ (k \o <<x>>)[Len(k) + 1] = x
             /\ Len(k \o <<x, y>>) = Len(k) + 2
             /\ (k \o <<x, y>>)[Len(k) + 1] = x /\ (k \o <<x, y>>)[Len(k) + 2] = y
             /\ Len(k) \in Nat
  OBVIOUS
<1>5. PICK k \in {<<>>, <<a>>, <<a, b, c, d>>} : StopCalls(f, s) = k \o <<x>>
  BY <1>2
<1>6. PICK l \in {<<>>, <<a>>, <<a, b, c, d>>} : DownCalls(f, s) = l \o <<x, y>>
  BY <1>2
<1>7. /\ Len(StopCalls(f, s)) = Len(k) + 1 /\ StopCalls(f, s)[Len(k) + 1] = x /\ Len(k) \in Nat
  BY <1>4, <1>5
<1>8. /\ Len(DownCalls(f, s)) = Len(l) + 2 /\ Len(l) \in Nat
      /\ DownCalls(f, s)[Len(l) + 1] = x /\ DownCalls(f, s)[Len(l) + 2] = y
  BY <1>4, <1>6
<1>9. ASSUME Remains(calls, StopCalls(f, s)), Len(calls) = 1 PROVE Head(calls) = x
  <2>1. Head(calls) = StopCalls(f, s)[(Len(StopCalls(f, s)) - Len(calls)) + 1]
    BY <1>3, <1>9, RemainsHead
  <2>2. (Len(StopCalls(f, s)) - Len(calls)) + 1 = Len(k) + 1
    BY <1>7, <1>9
  <2> QED
    BY <1>7, <2>1, <2>2
<1>10. ASSUME Remains(calls, DownCalls(f, s))
       PROVE  (Len(calls) = 2 => Head(calls) = x) /\ (Len(calls) = 1 => Head(calls) = y)
  <2>1. Head(calls) = DownCalls(f, s)[(Len(DownCalls(f, s)) - Len(calls)) + 1]
    BY <1>3, <1>10, RemainsHead
  <2>2. /\ Len(calls) = 2 => (Len(DownCalls(f, s)) - Len(calls)) + 1 = Len(l) + 1
        /\ Len(calls) = 1 => (Len(DownCalls(f, s)) - Len(calls)) + 1 = Len(l) + 2
    <3>1. \A n \in Nat : ((n + 2) - 2) + 1 = n + 1 /\ ((n + 2) - 1) + 1 = n + 2
      OBVIOUS
    <3> QED
      BY <1>8, <3>1
  <2> QED
    BY <1>8, <2>1, <2>2
<1>11. ASSUME Remains(calls, RecreateCalls(s)) PROVE Head(calls).of = s
  <2>1. Head(calls) \in Range(RecreateCalls(s))
    BY <1>3, <1>11, RemainsHead
  <2>2. \A i \in DOMAIN RecreateCalls(s) : RecreateCalls(s)[i] \in {a, b, c, d, x, y}
    BY <1>2
  <2> QED
    BY <1>1, <2>1, <2>2 DEF Range
<1> QED
  BY <1>8, <1>9, <1>10, <1>11 DEF x, y

-----------------------------------------------------------------------------
(* Each way a command can go on. *)

LEMMA NextServiceReached ==
    ASSUME NEW m, NEW P, WellFormed(P), P.todo # <<>>, Shaped(P), P.pc # "idle",
           LoopHeld(m, P), ~P.failed => Served(m, P, This(P))
    PROVE  Reached(m, P, NextService(P))
<1> DEFINE Q == NextService(P)
<1>1. /\ P.todo \in Seq(Service) /\ P.names \in Seq(Service) /\ P.failed \in BOOLEAN
      /\ P.cmd \in Commands /\ P \in Process
  BY DEF WellFormed, Process
<1>2. Range(P.todo) = {This(P)} \cup Range(Tail(P.todo)) /\ Tail(P.todo) \in Seq(Service)
  BY <1>1, RangeTail DEF This
<1>3. Shaped(Q)
  BY NextServiceShaped
<1>4. \/ Q = Idle(P.failed) /\ Tail(P.todo) = <<>> /\ ~(P.cmd = "down" /\ P.purge)
      \/ /\ SameCommand(P, Q) /\ Q.todo = Tail(P.todo) /\ Q.failed = P.failed
         /\ \/ Q.pc = "orphans" /\ Q.todo = <<>> /\ P.cmd = "down" /\ P.purge
            \/ Q.pc = "load" /\ P.cmd \in Forward
            \/ Q.pc = "teardown" /\ P.cmd \notin Forward /\ Q.todo # <<>>
               /\ Q.calls = IF P.cmd = "stop" THEN StopCalls(P.file, This(Q))
                                              ELSE DownCalls(P.file, This(Q))
  BY NextServiceFields
<1> HIDE DEF Q
<1>5. CASE Q = Idle(P.failed) /\ Tail(P.todo) = <<>> /\ ~(P.cmd = "down" /\ P.purge)
  <2>1. Q.pc = "idle" /\ Q.failed = P.failed
    BY <1>5 DEF Idle
  <2>2. ASSUME ~P.failed PROVE Fulfilled(m, P)
    <3>1. \A s \in Range(P.names) : s \in Done(P) \/ s = This(P)
      <4>1. Range(Tail(P.todo)) = {}
        BY <1>5 DEF Range
      <4> QED
        BY <1>2, <4>1 DEF Done
    <3>2. FullPurge(P) => P.cmd = "up"
      BY <1>5 DEF FullPurge, Shaped
    <3> QED
      BY <2>2, <3>1, <3>2 DEF Fulfilled, LoopHeld
  <2> QED
    BY <1>3, <2>1, <2>2 DEF Reached, Kept, Q
<1>6. CASE /\ SameCommand(P, Q) /\ Q.todo = Tail(P.todo) /\ Q.failed = P.failed
           /\ \/ Q.pc = "orphans" /\ Q.todo = <<>> /\ P.cmd = "down" /\ P.purge
              \/ Q.pc = "load" /\ P.cmd \in Forward
              \/ Q.pc = "teardown" /\ P.cmd \notin Forward /\ Q.todo # <<>>
                 /\ Q.calls = IF P.cmd = "stop" THEN StopCalls(P.file, This(Q))
                                                ELSE DownCalls(P.file, This(Q))
  <2>1. \A s \in Done(Q) : s \in Done(P) \/ s = This(P)
    BY <1>2, <1>6 DEF Done, SameCommand
  <2>2. LoopHeld(m, Q)
    BY <1>6, <2>1, SameServed DEF LoopHeld, SameCommand
  <2>3. AtPoint(m, Q)
    <3>1. CASE Q.pc \in {"orphans", "load"}
      BY <3>1 DEF AtPoint
    <3>2. CASE Q.pc = "teardown" /\ Q.cmd # "down"
      BY <3>2 DEF AtPoint
    <3>3. CASE Q.pc = "teardown" /\ Q.cmd = "down"
      <4>1. This(Q) \in Service
        BY <1>2, <1>6, <3>3 DEF This
      <4>2. Q.calls = DownCalls(P.file, This(Q))
        BY <1>6, <3>3 DEF SameCommand
      <4>3. Len(Q.calls) # 1
        <5>1. DownCalls(P.file, This(Q)) \in Seq(Call) \ {<<>>}
          BY <4>1, TeardownCalls
        <5>2. Len(DownCalls(P.file, This(Q))) >= 2
          BY <4>1, <5>1, CommandCalls
        <5>3. ~ 1 >= 2
          OBVIOUS
        <5> QED
          BY <4>2, <5>2, <5>3
      <4> QED
        BY <3>3, <4>3 DEF AtPoint
    <3> QED
      BY <1>6, <3>1, <3>2, <3>3
  <2> QED
    BY <1>3, <1>6, <2>2, <2>3 DEF Reached, Kept, LoopHeld, Q
<1> QED
  BY <1>4, <1>5, <1>6

\* A service that is given up is noted.
LEMMA GivenUpReached ==
    ASSUME NEW m, NEW P, WellFormed(P), P.todo # <<>>, Shaped(P), P.pc # "idle"
    PROVE  Reached(m, P, NextService(Note(P, TRUE)))
<1> DEFINE R == Note(P, TRUE)
<1>1. P \in Process
  BY DEF WellFormed
<1>2. /\ SameCommand(P, R) /\ R.todo = P.todo /\ R.failed = TRUE /\ R.pc = P.pc
  BY <1>1, NoteFields
<1>3. WellFormed(R) /\ Shaped(R)
  BY <1>1, NoteType, NoteShaped
<1> HIDE DEF R
<1>4. LoopHeld(m, R)
  BY <1>2 DEF LoopHeld
<1>5. Reached(m, R, NextService(R))
  BY <1>2, <1>3, <1>4, NextServiceReached
<1>6. NextService(R).pc = "idle" => NextService(R).failed
  <2>1. \/ NextService(R) = Idle(R.failed)
        \/ NextService(R).pc \in {"orphans", "load", "teardown"}
    BY <1>2, <1>3, NextServiceFields
  <2> QED
    BY <1>2, <2>1 DEF Idle
<1> QED
  BY <1>5, <1>6 DEF Reached, R

LEMMA NextOrphanReached ==
    ASSUME NEW m, NEW P \in Process, P.purge, Range(P.names) \subseteq Listed(P.file),
           \/ P.cmd = "up" /\ P.todo = P.names /\ P.todo # <<>>
           \/ P.cmd = "down" /\ P.todo = <<>>,
           P.orphans \subseteq Unlisted(P),
           ~P.failed => \A s \in Done(P) : Served(m, P, s),
           ~P.failed => \A v \in Unlisted(P) \ P.orphans : OrphanGone(m, v)
    PROVE  Reached(m, P, NextOrphan(P))
<1> DEFINE Q == NextOrphan(P)
<1>1. Shaped(Q)
  BY NextOrphanShaped DEF Unlisted
<1>2. CASE P.orphans = {} /\ P.cmd = "down" /\ Q = Idle(P.failed)
  <2>1. P.cmd = "down" /\ P.todo = <<>>
    BY <1>2
  <2>2. Done(P) = Range(P.names)
    BY <2>1 DEF Done, Range
  <2>3. ~P.failed => Fulfilled(m, P)
    BY <1>2, <2>2 DEF Fulfilled, AllGone
  <2>4. Q.pc = "idle" /\ Q.failed = P.failed
    BY <1>2 DEF Idle
  <2> HIDE DEF Q
  <2> QED
    BY <1>1, <2>3, <2>4 DEF Reached, Kept, Q
<1>3. CASE P.orphans = {} /\ P.cmd # "down" /\ Q = Enter([P EXCEPT !.calls = <<>>])
  <2> DEFINE R == [P EXCEPT !.calls = <<>>]
  <2>1. <<>> \in Seq(Call)
    OBVIOUS
  <2>2. R \in Process /\ SameCommand(P, R) /\ R.todo = P.todo /\ R.failed = P.failed
    BY <2>1 DEF Process, SameCommand
  <2>3. Q = Enter(R) /\ P.cmd = "up"
    BY <1>3
  <2> HIDE DEF R, Q
  <2>4. SameCommand(R, Q) /\ Q.todo = R.todo /\ Q.failed = R.failed /\ Q.pc = "load"
    BY <2>2, <2>3, EnterFields DEF SameCommand, Forward
  <2>5. SameCommand(P, Q) /\ Q.todo = P.names /\ Q.failed = P.failed
    BY <1>3, <2>2, <2>4 DEF SameCommand
  <2>6. Done(Q) = {}
    BY <2>5 DEF Done, SameCommand
  <2>7. ~Q.failed => AllGone(m, Q)
    BY <1>3, <2>5, SameServed DEF AllGone
  <2>8. AtPoint(m, Q)
    BY <2>4 DEF AtPoint
  <2> QED
    BY <1>1, <2>4, <2>6, <2>7, <2>8 DEF Reached, Kept, LoopHeld, Q
<1>4. CASE \E u \in P.orphans :
             /\ SameCommand(P, Q) /\ Q.todo = P.todo /\ Q.failed = P.failed
             /\ Q.pc = "purge" /\ Q.orphans = P.orphans \ {u} /\ Q.calls = OrphanCalls(u)
  <2>1. PICK u \in P.orphans :
             /\ SameCommand(P, Q) /\ Q.todo = P.todo /\ Q.failed = P.failed
             /\ Q.pc = "purge" /\ Q.orphans = P.orphans \ {u} /\ Q.calls = OrphanCalls(u)
    BY <1>4
  <2> HIDE DEF Q
  <2>2. u \in Unlisted(P) /\ u \in OrphanUnit
    BY DEF Unlisted
  <2>3. Unlisted(Q) = Unlisted(P) /\ Done(Q) = Done(P)
    BY <2>1, SameServed DEF Done, SameCommand
  <2>4. Remains(Q.calls, OrphanCalls(u))
    BY <2>1, <2>2, OrphanCallsType
  <2>5. Cleaned(m, Q.calls, u)
    <3>1. Len(OrphanCalls(u)) = IF u.kind = "probe" THEN 4 ELSE 2
      BY DEF OrphanCalls, HealthCleanup, MainCleanup
    <3> QED
      BY <2>1, <3>1 DEF Cleaned
  <2>6. ~Q.failed => PurgePoint(m, Q)
    <3> SUFFICES ASSUME ~Q.failed PROVE PurgePoint(m, Q)
      OBVIOUS
    <3>1. \A v \in Unlisted(Q) \ (Q.orphans \cup {u}) : OrphanGone(m, v)
      BY <2>1, <2>3
    <3> QED
      BY <2>2, <2>3, <2>4, <2>5, <3>1 DEF PurgePoint
  <2>7. AtPoint(m, Q)
    BY <2>1 DEF AtPoint
  <2>8. ~Q.failed => \A s \in Done(Q) : Served(m, Q, s)
    BY <2>1, <2>3, SameServed
  <2> QED
    BY <1>1, <2>1, <2>6, <2>7, <2>8 DEF Reached, Kept, Q
<1> QED
  BY <1>2, <1>3, <1>4, NextOrphanFields

-----------------------------------------------------------------------------
(* What a request does to what the loop relies on. *)

\* A teardown, of which `up` does not feel what it stops.
LEMMA SinksHeld ==
    ASSUME NEW m, NEW n, NEW P, WellFormed(P), Shaped(P), P.pc # "idle",
           ManagerInv(m), ManagerInv(n), Sinks(m, n), P.cmd \in {"up", "stop", "down"}
    PROVE  /\ \A s \in Done(P) :
                Served(m, P, s) /\ (P.cmd = "up" /\ Ordered(P) /\ s \in Up(m) => s \in Up(n))
                => Served(n, P, s)
           /\ \A v \in OrphanUnit : OrphanGone(m, v) => OrphanGone(n, v)
<1>1. m \in Manager /\ n \in Manager /\ Up(n) \subseteq Loaded(n)
  BY UpFacts DEF ManagerInv
<1>2. ASSUME NEW s \in Done(P), Served(m, P, s),
             P.cmd = "up" /\ Ordered(P) /\ s \in Up(m) => s \in Up(n)
      PROVE  Served(n, P, s)
  <2>1. s \in Service
    BY DEF Done, Range, WellFormed, Process
  <2>2. ASSUME P.cmd = "up", Ordered(P) PROVE Runs(n, s, Hash(P.file, s))
    <3>1. s \in Up(n) /\ m.hash[s] = Hash(P.file, s)
      BY <1>2, <2>2 DEF Served, Runs
    <3>2. n.hash[s] = m.hash[s]
      BY <1>1, <2>1, <3>1 DEF Sinks, Loaded
    <3> QED
      BY <3>1, <3>2 DEF Runs
  <2> QED
    BY <1>2, <2>1, <2>2 DEF Served, Sinks
<1>3. ASSUME NEW v \in OrphanUnit, OrphanGone(m, v) PROVE OrphanGone(n, v)
  <2>1. v.of \in Service
    BY DEF OrphanUnit
  <2> QED
    BY <1>3, <2>1 DEF OrphanGone, Sinks, ProbesLoaded
<1> QED
  BY <1>2, <1>3

\* A start, all of it among the named services where the orphans are gone.
LEMMA LiftsHeld ==
    ASSUME NEW m, NEW n, NEW P, WellFormed(P), Shaped(P), P.pc # "idle", P.todo # <<>>,
           P.cmd \in Forward, ManagerInv(m), ManagerInv(n), Lifts(m, n, This(P)), LoopHeld(m, P),
           P.cmd = "up" /\ ~P.failed /\ FullPurge(P) =>
               \E K \in SUBSET Range(P.names) : Within(m, n, This(P), K)
    PROVE  LoopHeld(n, P)
<1>1. P.todo \in Seq(Service) /\ P.names \in Seq(Service)
  BY DEF WellFormed, Process
<1>2. This(P) \in Range(P.todo)
  BY <1>1, RangeTail DEF This
<1> SUFFICES ASSUME ~P.failed
             PROVE  /\ \A s \in Done(P) : Served(n, P, s)
                    /\ FullPurge(P) /\ P.cmd = "up" => AllGone(n, P)
  BY DEF LoopHeld
<1>3. ASSUME NEW s \in Done(P) PROVE Served(n, P, s)
  <2>1. s \in Service \ {This(P)}
    BY <1>1, <1>2 DEF Done, Range
  <2>2. n.hash[s] = m.hash[s] /\ Up(m) \subseteq Up(n) /\ Served(m, P, s)
    BY <2>1 DEF Lifts, LoopHeld
  <2> QED
    BY <2>2 DEF Served, Runs, Forward
<1>4. ASSUME FullPurge(P), P.cmd = "up", NEW u \in Unlisted(P) PROVE OrphanGone(n, u)
  <2>1. PICK K \in SUBSET Range(P.names) : Within(m, n, This(P), K)
    BY <1>4
  <2>2. u.of \in Service \ K
    BY DEF Unlisted, OrphanUnit, Shaped
  <2>3. OrphanGone(m, u)
    BY <1>4 DEF LoopHeld, AllGone
  <2> QED
    BY <2>1, <2>2, <2>3 DEF OrphanGone, Within, Lifts, ProbesLoaded
<1> QED
  BY <1>3, <1>4 DEF AllGone

-----------------------------------------------------------------------------
(* Every step of a command keeps its shape. *)

LEMMA PointShaped ==
    ASSUME NEW P, NEW Q, SameCommand(P, Q), Q.todo = P.todo, Shaped(P), P.pc # "idle",
           \/ Q.pc \in {"load", "active", "hash", "startTimer"} /\ P.cmd \in Forward
           \/ Q.pc = "start" /\ P.cmd \in {"up", "start"}
           \/ Q.pc = "restart" /\ P.cmd = "restart"
           \/ Q.pc \in {"depLoad", "depActive", "create", "createTimer"} /\ P.cmd = "up"
           \/ Q.pc = "recreate" /\ P.cmd = "up" /\ Remains(Q.calls, RecreateCalls(This(P)))
    PROVE  Shaped(Q)
<1>1. This(Q) = This(P)
  BY DEF This
<1> QED
  BY <1>1 DEF Shaped, SameCommand

\* The services and orphans a teardown is about.
LEMMA TeardownFacts ==
    ASSUME NEW P, WellFormed(P), Shaped(P), P.pc \in Teardowns
    PROVE  /\ P \in Process /\ P.calls \in Seq(Call) /\ P.calls # <<>>
           /\ Tail(P.calls) \in Seq(Call) /\ Head(P.calls) \in Call
           /\ P.pc # "purge" => P.todo # <<>> /\ This(P) \in Service
           /\ P.pc = "purge" =>
                /\ P.purge /\ Range(P.names) \subseteq Listed(P.file)
                /\ P.orphans \subseteq Unlisted(P)
                /\ \/ P.cmd = "up" /\ P.todo = P.names /\ P.todo # <<>>
                   \/ P.cmd = "down" /\ P.todo = <<>>
                /\ \E u \in Unlisted(P) : Remains(P.calls, OrphanCalls(u))
<1>1. P \in Process /\ P.calls \in Seq(Call) /\ P.calls # <<>>
  BY DEF WellFormed, Process
<1>2. Tail(P.calls) \in Seq(Call) /\ Head(P.calls) \in Call
  BY <1>1
<1>3. P.pc # "purge" => P.todo # <<>> /\ This(P) \in Service
  BY ThisListed DEF WellFormed, Teardowns
<1>4. ASSUME P.pc = "purge"
      PROVE  /\ P.purge /\ Range(P.names) \subseteq Listed(P.file)
             /\ P.orphans \subseteq Unlisted(P)
             /\ \/ P.cmd = "up" /\ P.todo = P.names /\ P.todo # <<>>
                \/ P.cmd = "down" /\ P.todo = <<>>
             /\ \E u \in Unlisted(P) : Remains(P.calls, OrphanCalls(u))
  <2>1. P.orphans \subseteq OrphanUnit
    BY <1>1 DEF Process
  <2>2. P.todo # <<>> \/ P.cmd = "down"
    BY <1>4 DEF WellFormed
  <2> QED
    BY <1>4, <2>1, <2>2 DEF Shaped, Unlisted
<1> QED
  BY <1>1, <1>2, <1>3, <1>4

LEMMA AfterCallCases ==
    ASSUME NEW P, WellFormed(P), Shaped(P), P.pc \in Teardowns
    PROVE  \/ /\ Tail(P.calls) # <<>>
              /\ LET Q == AfterCall(P) IN
                 /\ SameCommand(P, Q) /\ Q.todo = P.todo /\ Q.failed = P.failed
                 /\ Q.pc = P.pc /\ Q.orphans = P.orphans /\ Q.calls = Tail(P.calls)
           \/ Tail(P.calls) = <<>> /\ P.pc = "recreate" /\ AfterCall(P) = Idle(TRUE)
           \/ Tail(P.calls) = <<>> /\ P.pc = "recreate"
              /\ AfterCall(P) = CheckDeps(P, P.file.def[This(P)].deps)
           \/ Tail(P.calls) = <<>> /\ P.pc = "purge" /\ AfterCall(P) = NextOrphan(P)
           \/ Tail(P.calls) = <<>> /\ P.pc = "teardown" /\ AfterCall(P) = NextService(P)
<1> DEFINE rest == Tail(P.calls)
<1>1. P \in Process /\ rest \in Seq(Call)
  BY TeardownFacts
<1>2. CASE rest # <<>>
  <2>1. AfterCall(P) = [P EXCEPT !.calls = rest]
    BY <1>2 DEF AfterCall
  <2> HIDE DEF rest
  <2>2. LET Q == AfterCall(P) IN
        /\ SameCommand(P, Q) /\ Q.todo = P.todo /\ Q.failed = P.failed
        /\ Q.pc = P.pc /\ Q.orphans = P.orphans /\ Q.calls = rest
    BY <1>1, <2>1 DEF Process, SameCommand
  <2> QED
    BY <1>2, <2>2 DEF rest
<1>3. CASE rest = <<>>
  BY <1>3 DEF AfterCall, Teardowns
<1> QED
  BY <1>2, <1>3

LEMMA AfterCallShaped ==
    ASSUME NEW P, WellFormed(P), Shaped(P), P.pc \in Teardowns
    PROVE  Shaped(AfterCall(P))
<1> DEFINE Q == AfterCall(P)
<1>1. /\ P \in Process /\ P.calls \in Seq(Call) /\ P.calls # <<>> /\ P.pc # "idle"
      /\ P.pc # "purge" => P.todo # <<>> /\ This(P) \in Service
  BY TeardownFacts DEF Teardowns
<1>2. CASE /\ Tail(P.calls) # <<>>
           /\ SameCommand(P, Q) /\ Q.todo = P.todo
           /\ Q.pc = P.pc /\ Q.orphans = P.orphans /\ Q.calls = Tail(P.calls)
  <2> HIDE DEF Q
  <2>1. \A seq \in Seq(Call) : Remains(P.calls, seq) => Remains(Q.calls, seq)
    BY <1>1, <1>2, RemainsTail
  <2>2. This(Q) = This(P)
    BY <1>2 DEF This
  <2>3. CASE P.pc = "recreate"
    <3>1. Remains(Q.calls, RecreateCalls(This(P)))
      BY <1>1, <2>1, <2>3, TeardownCalls DEF Shaped
    <3> QED
      BY <1>2, <2>2, <2>3, <3>1 DEF Shaped, SameCommand, Q
  <2>4. CASE P.pc = "teardown"
    <3>1. StopCalls(P.file, This(P)) \in Seq(Call) /\ DownCalls(P.file, This(P)) \in Seq(Call)
      BY <1>1, <2>4, TeardownCalls
    <3>2. \/ P.cmd = "stop" /\ Remains(Q.calls, StopCalls(P.file, This(P)))
          \/ P.cmd = "down" /\ Remains(Q.calls, DownCalls(P.file, This(P)))
      BY <2>1, <2>4, <3>1 DEF Shaped
    <3> QED
      BY <1>2, <2>2, <2>4, <3>2 DEF Shaped, SameCommand, Q
  <2>5. CASE P.pc = "purge"
    <3>1. PICK u \in Unlisted(P) : Remains(P.calls, OrphanCalls(u))
      BY <2>5, TeardownFacts
    <3>2. u \in OrphanUnit /\ u.of \notin Listed(P.file)
      BY DEF Unlisted
    <3>3. Remains(Q.calls, OrphanCalls(u))
      BY <2>1, <3>1, <3>2, OrphanCallsType
    <3> QED
      BY <1>2, <2>5, <3>2, <3>3 DEF Shaped, SameCommand, Q
  <2> QED
    BY <2>3, <2>4, <2>5 DEF Teardowns
<1>3. CASE Q = Idle(TRUE)
  BY <1>3 DEF Shaped, Idle
<1>4. CASE P.pc = "recreate" /\ Q = CheckDeps(P, P.file.def[This(P)].deps)
  <2>1. P.file.def[This(P)].deps \in Seq(Service)
    BY <1>1, <1>4, ThisListed
  <2>2. P.cmd = "up"
    BY <1>4 DEF Shaped
  <2>3. /\ SameCommand(P, Q) /\ Q.todo = P.todo /\ Q.pc \in {"create", "depLoad"}
    BY <1>1, <1>4, <2>1, CheckDepsFields
  <2> HIDE DEF Q
  <2> QED
    BY <1>1, <2>2, <2>3, PointShaped DEF Q
<1>5. CASE P.pc = "purge" /\ Q = NextOrphan(P)
  BY <1>1, <1>5, TeardownFacts, NextOrphanShaped DEF Unlisted
<1>6. CASE P.pc = "teardown" /\ Q = NextService(P)
  BY <1>1, <1>6, NextServiceShaped
<1> QED
  BY <1>2, <1>3, <1>4, <1>5, <1>6, AfterCallCases

\* A call that failed, of a unit that is recreated or of any other.
LEMMA FailedCallCases ==
    ASSUME NEW P, WellFormed(P), Shaped(P), P.pc \in Teardowns
    PROVE  \E R : /\ FailedCall(P) = AfterCall(R)
                  /\ WellFormed(R) /\ Shaped(R) /\ SameCommand(P, R)
                  /\ R.pc = P.pc /\ R.todo = P.todo /\ R.calls = P.calls
                  /\ R.failed \/ (P.pc = "recreate" /\ R.failed = P.failed)
<1>1. P \in Process
  BY TeardownFacts
<1>2. CASE P.pc # "recreate"
  <2>1. FailedCall(P) = AfterCall(Note(P, TRUE))
    BY <1>2 DEF FailedCall
  <2>2. WellFormed(Note(P, TRUE)) /\ Shaped(Note(P, TRUE))
    BY <1>1, NoteType, NoteShaped
  <2> DEFINE R == Note(P, TRUE)
  <2>3. /\ SameCommand(P, R) /\ R.todo = P.todo /\ R.failed = TRUE
        /\ R.pc = P.pc /\ R.calls = P.calls
    BY <1>1, NoteFields
  <2> HIDE DEF R
  <2> QED
    BY <2>1, <2>2, <2>3 DEF R
<1>3. CASE P.pc = "recreate"
  <2> DEFINE bad == P.bad \/ Head(P.calls).kind = "main"
             R == [P EXCEPT !.bad = bad]
  <2>1. FailedCall(P) = AfterCall(R)
    BY <1>3 DEF FailedCall
  <2>2. bad \in BOOLEAN
    OBVIOUS
  <2> HIDE DEF bad
  <2>3. /\ SameCommand(P, R) /\ R.todo = P.todo /\ R.failed = P.failed
        /\ R.pc = P.pc /\ R.calls = P.calls /\ R.orphans = P.orphans
    BY <1>1, <2>2 DEF Process, SameCommand
  <2>4. WellFormed(R)
    BY <2>2 DEF WellFormed, Process
  <2> HIDE DEF R
  <2>5. This(R) = This(P)
    BY <2>3 DEF This
  <2>6. Shaped(R)
    BY <2>3, <2>5 DEF Shaped, SameCommand
  <2> QED
    BY <1>3, <2>1, <2>3, <2>4, <2>6
<1> QED
  BY <1>2, <1>3

LEMMA MovesFields ==
    ASSUME Inv, NEW p \in Proc, NEW P, Moves(p, P)
    PROVE  proc'[p] = P /\ \A q \in Proc \ {p} : proc'[q] = proc[q]
  BY DEF Moves, Inv, TypeOK

LEMMA PcFields ==
    ASSUME NEW P \in Process, NEW pc
    PROVE  LET Q == [P EXCEPT !.pc = pc] IN
           /\ SameCommand(P, Q) /\ Q.todo = P.todo /\ Q.failed = P.failed
           /\ Q.pc = pc /\ Q.active = P.active /\ Q.calls = P.calls
  BY DEF Process, SameCommand

\* What the handlers do once the unit is inspected.
LEMMA UpDecisionCases ==
    ASSUME NEW P \in Process, NEW hash
    PROVE  LET Q == UpDecision(P, hash) IN
           \/ Q = NextService(P) /\ hash = Desired(P) /\ P.active \in RunningStates
           \/ /\ SameCommand(P, Q) /\ Q.todo = P.todo /\ Q.failed = P.failed
              /\ \/ Q.pc = "start" /\ hash = Desired(P)
                 \/ Q.pc = "recreate" /\ hash # Desired(P) /\ Q.calls = RecreateCalls(This(P))
<1> DEFINE calls == RecreateCalls(This(P))
           R == [P EXCEPT !.pc = "recreate", !.calls = calls]
           S == [P EXCEPT !.pc = "start"]
<1>1. /\ SameCommand(P, S) /\ S.todo = P.todo /\ S.failed = P.failed /\ S.pc = "start"
  BY PcFields
<1>2. UpDecision(P, hash) = IF hash = Desired(P) /\ P.active \in RunningStates THEN NextService(P)
                            ELSE IF hash = Desired(P) THEN S ELSE R
  BY DEF UpDecision
<1> HIDE DEF calls
<1>3. /\ SameCommand(P, R) /\ R.todo = P.todo /\ R.failed = P.failed
      /\ R.pc = "recreate" /\ R.calls = calls
  BY DEF Process, SameCommand
<1> HIDE DEF R, S
<1> QED
  BY <1>1, <1>2, <1>3 DEF calls

LEMMA StartDecisionCases ==
    ASSUME NEW P \in Process
    PROVE  LET Q == StartDecision(P) IN
           \/ Q = NextService(P) /\ P.active \in RunningStates
           \/ /\ SameCommand(P, Q) /\ Q.todo = P.todo /\ Q.failed = P.failed
              /\ Q.pc = "start"
  BY PcFields DEF StartDecision

\* After a start that went through or not.
LEMMA StartedCases ==
    ASSUME NEW P \in Process, NEW ok \in BOOLEAN
    PROVE  LET Q == Started(P, ok) IN
           \/ ~ok /\ Q = NextService(Note(P, TRUE))
           \/ ok /\ Q = NextService(P)
           \/ /\ ok /\ SameCommand(P, Q) /\ Q.todo = P.todo /\ Q.failed = P.failed
              /\ Q.pc = "startTimer"
<1> DEFINE S == [P EXCEPT !.pc = "startTimer"]
<1>1. /\ SameCommand(P, S) /\ S.todo = P.todo /\ S.failed = P.failed /\ S.pc = "startTimer"
  BY PcFields
<1> HIDE DEF S
<1>2. Started(P, ok) = IF ok /\ Monitored(P) THEN S ELSE IF ok THEN NextService(P)
                       ELSE NextService(Note(P, TRUE))
  BY DEF Started, S
<1> QED
  BY <1>1, <1>2

LEMMA GivenUpShaped ==
    ASSUME NEW P, WellFormed(P), P.todo # <<>>, Shaped(P), P.pc # "idle", NEW b \in BOOLEAN
    PROVE  Shaped(NextService(Note(P, b)))
<1>1. P \in Process
  BY DEF WellFormed
<1> DEFINE R == Note(P, b)
<1>2. WellFormed(R) /\ Shaped(R) /\ R.todo = P.todo /\ R.pc = P.pc
  BY <1>1, NoteType, NoteShaped
<1> HIDE DEF R
<1>3. Shaped(NextService(R))
  BY <1>2, NextServiceShaped
<1> QED
  BY <1>3 DEF R

LEMMA StepShaped ==
    ASSUME Inv, NEW p \in Proc, Shaped(proc[p]), Step(p) \/ Fault(p)
    PROVE  Shaped(proc'[p]) /\ \A q \in Proc \ {p} : proc'[q] = proc[q]
<1> DEFINE P == proc[p]
<1>1. /\ WellFormed(P) /\ P \in Process
      /\ P.pc \notin {"idle", "orphans", "purge"} => P.todo # <<>>
      /\ P.pc \in {"depLoad", "depActive"} => Tail(P.deps) \in Seq(Service)
  BY CurrentProcess
<1>2. ASSUME NEW Q, Moves(p, Q) PROVE proc'[p] = Q /\ \A q \in Proc \ {p} : proc'[q] = proc[q]
  BY <1>2, MovesFields
<1>3. ASSUME P.todo # <<>>, P.pc # "idle", NEW b \in BOOLEAN
      PROVE  Shaped(NextService(P)) /\ Shaped(NextService(Note(P, b)))
  BY <1>1, <1>3, NextServiceShaped, GivenUpShaped
<1>4. Shaped(Idle(TRUE))
  BY DEF Shaped, Idle
<1>5. ASSUME P.pc # "idle", P.cmd = "up", NEW deps \in Seq(Service)
      PROVE  Shaped(CheckDeps(P, deps))
  <2> DEFINE Q == CheckDeps(P, deps)
  <2>1. SameCommand(P, Q) /\ Q.todo = P.todo /\ Q.pc \in {"create", "depLoad"}
    BY <1>1, <1>5, CheckDepsFields
  <2> HIDE DEF Q, P
  <2>2. Shaped(P)
    BY DEF P
  <2>3. Shaped(Q)
    BY <1>5, <2>1, <2>2, PointShaped
  <2> QED
    BY <2>3 DEF Q
<1>6. ASSUME P.pc # "idle",
             NEW pc, \/ pc \in {"active", "startTimer"} /\ P.cmd \in Forward
                     \/ pc = "start" /\ P.cmd \in {"up", "start"}
                     \/ pc = "restart" /\ P.cmd = "restart"
                     \/ pc \in {"depActive", "createTimer"} /\ P.cmd = "up"
      PROVE  Shaped([P EXCEPT !.pc = pc])
  <2> DEFINE Q == [P EXCEPT !.pc = pc]
  <2>1. SameCommand(P, Q) /\ Q.todo = P.todo /\ Q.pc = pc
    BY <1>1, PcFields
  <2> HIDE DEF Q, P
  <2>2. Shaped(P)
    BY DEF P
  <2>3. Shaped(Q)
    BY <1>6, <2>1, <2>2, PointShaped
  <2> QED
    BY <2>3 DEF Q
<1>7. CASE ListOrphans(p)
  <2> DEFINE R == [P EXCEPT !.orphans = OrphanUnits(mgr, P.file)]
  <2>1. P.pc = "orphans" /\ Moves(p, IF P.purge THEN NextOrphan(R) ELSE Enter(P))
    BY <1>7 DEF ListOrphans, Reads
  <2>2. OrphanUnits(mgr, P.file) \subseteq OrphanUnit
        /\ \A u \in OrphanUnits(mgr, P.file) : u.of \notin Listed(P.file)
    BY DEF OrphanUnits
  <2>3. /\ R \in Process /\ R.purge = P.purge /\ R.names = P.names /\ R.file = P.file
        /\ R.cmd = P.cmd /\ R.todo = P.todo /\ R.orphans = OrphanUnits(mgr, P.file)
    BY <1>1, <2>2 DEF Process
  <2>4. P.todo # <<>> \/ (P.cmd = "down" /\ P.purge)
    BY <1>1, <2>1 DEF WellFormed
  <2>5. /\ \/ P.cmd = "up" /\ P.todo = P.names
           \/ P.cmd = "down" /\ P.todo = <<>>
        /\ Range(P.names) \subseteq Listed(P.file) /\ Range(P.todo) \subseteq Range(P.names)
        /\ P.cmd \in Forward => Remains(P.todo, P.names)
        /\ P.purge => P.cmd \in {"up", "down"}
    BY <2>1 DEF Shaped
  <2> HIDE DEF R, P
  <2>6. P.purge => Shaped(NextOrphan(R))
    BY <2>2, <2>3, <2>4, <2>5, NextOrphanShaped
  <2>7. ~P.purge => Shaped(Enter(P))
    BY <1>1, <2>4, <2>5, EnterShaped
  <2> QED
    BY <1>2, <2>1, <2>6, <2>7
<1>8. CASE ReadLoadState(p)
  <2>1. P.pc = "load" /\ P.todo # <<>> /\ P.cmd \in Forward
    BY <1>1, <1>8 DEF ReadLoadState, Shaped
  <2>2. P.file.def[This(P)].deps \in Seq(Service)
    BY <1>1, <2>1, ThisListed
  <2>3. \/ Moves(p, [P EXCEPT !.pc = "active"])
        \/ P.cmd = "up" /\ Moves(p, CheckDeps(P, P.file.def[This(P)].deps))
        \/ Moves(p, NextService(Note(P, TRUE)))
    BY <1>8 DEF ReadLoadState, Reads
  <2> HIDE DEF P
  <2> QED
    BY <1>2, <1>3, <1>5, <1>6, <2>1, <2>2, <2>3
<1>9. CASE ReadActiveState(p)
  <2> DEFINE Q == [P EXCEPT !.pc = "hash", !.active = mgr.active[This(P)]]
  <2>1. P.pc = "active" /\ P.cmd \in Forward /\ Moves(p, Q)
    BY <1>9 DEF ReadActiveState, Reads, Shaped
  <2>2. SameCommand(P, Q) /\ Q.todo = P.todo /\ Q.pc = "hash"
    BY <1>1 DEF Process, SameCommand
  <2> HIDE DEF Q, P
  <2>3. Shaped(P)
    BY DEF P
  <2>4. Shaped(Q)
    BY <2>1, <2>2, <2>3, PointShaped
  <2> QED
    BY <1>2, <2>1, <2>4
<1>10. CASE ReadDescription(p)
  <2> DEFINE hash == mgr.hash[This(P)]
  <2>1. P.pc = "hash" /\ P.todo # <<>> /\ P.cmd \in Forward
    BY <1>1, <1>10 DEF ReadDescription, Shaped
  <2>2. \/ P.cmd = "up" /\ Moves(p, UpDecision(P, hash))
        \/ P.cmd = "start" /\ Moves(p, StartDecision(P))
        \/ P.cmd = "restart" /\ Moves(p, [P EXCEPT !.pc = "restart"])
    BY <1>10, <2>1 DEF ReadDescription, Reads, Forward
  <2>3. Remains(RecreateCalls(This(P)), RecreateCalls(This(P)))
    <3>1. This(P) \in Service
      BY <1>1, <2>1, ThisListed
    <3> QED
      BY <3>1, TeardownCalls, RemainsAll
  <2> HIDE DEF hash, P
  <2>4. Shaped(P)
    BY DEF P
  <2>5. P.cmd = "up" => Shaped(UpDecision(P, hash))
    BY <1>1, <1>3, <2>1, <2>3, <2>4, UpDecisionCases, PointShaped
  <2>6. P.cmd = "start" => Shaped(StartDecision(P))
    BY <1>1, <1>3, <2>1, <2>4, StartDecisionCases, PointShaped
  <2> QED
    BY <1>2, <1>6, <2>1, <2>2, <2>5, <2>6
<1>11. CASE ReadDependencyLoadState(p) \/ ReadDependencyActiveState(p)
  <2>1. /\ P.pc \in {"depLoad", "depActive"} /\ P.todo # <<>> /\ P.cmd = "up"
        /\ \/ Moves(p, [P EXCEPT !.pc = "depActive"])
           \/ Moves(p, CheckDeps(P, Tail(P.deps)))
           \/ Moves(p, NextService(Note(P, TRUE)))
    BY <1>1, <1>11 DEF ReadDependencyLoadState, ReadDependencyActiveState, Reads, Shaped
  <2> HIDE DEF P
  <2> QED
    BY <1>1, <1>2, <1>3, <1>5, <1>6, <2>1
<1>12. CASE TearDown(p) \/ TearDownDirty(p)
  <2>1. P.pc \in Teardowns /\ Moves(p, AfterCall(P))
    BY <1>12 DEF TearDown, TearDownDirty, Asks
  <2> QED
    BY <1>1, <1>2, <2>1, AfterCallShaped
<1>13. CASE Create(p) \/ CreateHealthTimer(p)
  <2>1. /\ P.pc \in {"create", "createTimer"} /\ P.todo # <<>> /\ P.cmd = "up"
        /\ \/ Moves(p, Idle(TRUE))
           \/ Moves(p, [P EXCEPT !.pc = "createTimer"])
           \/ Moves(p, NextService(P))
    BY <1>1, <1>13 DEF Create, CreateHealthTimer, Asks, Shaped
  <2> HIDE DEF P
  <2> QED
    BY <1>2, <1>3, <1>4, <1>6, <2>1
<1>14. CASE StartExisting(p) \/ RestartExisting(p)
  <2>1. /\ P.pc \in {"start", "restart"} /\ P.todo # <<>> /\ P.cmd \in Forward
        /\ \E ok \in BOOLEAN : Moves(p, Started(P, ok))
    <3>1. Startable(mgr, This(P)) \in BOOLEAN
      BY DEF Startable
    <3> QED
      BY <1>1, <1>14, <3>1 DEF StartExisting, RestartExisting, Asks, Shaped, Forward
  <2>2. PICK ok \in BOOLEAN : Moves(p, Started(P, ok))
    BY <2>1
  <2> HIDE DEF P
  <2>3. Shaped(P)
    BY DEF P
  <2>4. Shaped(Started(P, ok))
    BY <1>1, <1>3, <2>1, <2>3, StartedCases, PointShaped
  <2> QED
    BY <1>2, <2>2, <2>4
<1>15. CASE StartHealthTimer(p)
  <2>1. P.pc = "startTimer" /\ P.todo # <<>>
        /\ \E b \in BOOLEAN : Moves(p, NextService(Note(P, b)))
    BY <1>1, <1>15 DEF StartHealthTimer, Reads, CanStartTimer
  <2> HIDE DEF P
  <2> QED
    BY <1>2, <1>3, <2>1
<1>16. CASE Rejected(p)
  <2>1. CASE P.pc \in Teardowns /\ Moves(p, FailedCall(P))
    <3>1. PICK R : FailedCall(P) = AfterCall(R) /\ WellFormed(R) /\ Shaped(R) /\ R.pc = P.pc
      BY <1>1, <2>1, FailedCallCases
    <3> QED
      BY <1>2, <2>1, <3>1, AfterCallShaped
  <2>2. CASE P.pc \in {"start", "restart", "startTimer"} /\ Moves(p, NextService(Note(P, TRUE)))
    BY <1>1, <1>2, <1>3, <2>2
  <2> QED
    BY <1>16, <2>1, <2>2 DEF Rejected
<1>17. CASE Raise(p)
  BY <1>2, <1>4, <1>17 DEF Raise
<1> QED
  BY <1>7, <1>8, <1>9, <1>10, <1>11, <1>12, <1>13, <1>14, <1>15, <1>16, <1>17 DEF Step, Fault

-----------------------------------------------------------------------------
(* Every step of a command keeps what it may count on. *)

LEMMA SameReached ==
    ASSUME NEW m, NEW P, NEW R, NEW Q, SameCommand(P, R), Reached(m, R, Q)
    PROVE  Reached(m, P, Q)
<1>1. \A s : Served(m, R, s) <=> Served(m, P, s)
  BY SameServed
<1>2. (FullPurge(R) <=> FullPurge(P)) /\ (AllGone(m, R) <=> AllGone(m, P)) /\ R.names = P.names
  BY SameServed DEF SameCommand
<1> QED
  BY <1>1, <1>2 DEF Reached, Fulfilled

\* The calls that are left of a teardown.
LEMMA MoreCallsReached ==
    ASSUME NEW m, NEW P, WellFormed(P), Shaped(P), P.pc \in Teardowns,
           NEW Q, SameCommand(P, Q), Q.todo = P.todo, Q.failed = P.failed, Q.pc = P.pc,
           Q.orphans = P.orphans, Q.calls = Tail(P.calls), Q.calls # <<>>, Shaped(Q),
           P.pc = "recreate" => m.hash[This(P)] # Desired(P),
           P.pc = "teardown" /\ P.cmd = "down" /\ Len(P.calls) = 2 /\ ~P.failed => This(P) \notin Up(m),
           P.pc # "purge" => LoopHeld(m, P),
           ~P.failed => \A s \in Done(P) : Served(m, P, s),
           ~P.failed /\ P.pc = "purge" =>
             \E u \in Unlisted(P) :
               /\ Remains(P.calls, OrphanCalls(u)) /\ Cleaned(m, Tail(P.calls), u)
               /\ \A v \in Unlisted(P) \ (P.orphans \cup {u}) : OrphanGone(m, v)
    PROVE  Reached(m, P, Q)
<1>1. This(Q) = This(P) /\ Desired(Q) = Desired(P) /\ Done(Q) = Done(P)
  BY DEF This, Desired, Done, SameCommand
<1>2. P.calls \in Seq(Call) /\ P.calls # <<>> /\ P.pc # "idle"
  BY TeardownFacts DEF Teardowns
<1>3. Len(Tail(P.calls)) = 1 => Len(P.calls) = 2
  BY <1>2
<1>4. AtPoint(m, Q)
  <2>1. Q.pc \in {"recreate", "teardown", "purge"} /\ Q.cmd = P.cmd
    BY DEF Teardowns, SameCommand
  <2> QED
    BY <1>1, <1>3, <2>1 DEF AtPoint
<1>5. CASE P.pc # "purge"
  <2>1. Q.pc \notin {"idle", "orphans", "purge"}
    BY <1>5 DEF Teardowns
  <2> QED
    BY <1>4, <1>5, <2>1, PointReached
<1>6. CASE P.pc = "purge"
  <2>1. ~Q.failed => PurgePoint(m, Q)
    <3> SUFFICES ASSUME ~P.failed PROVE PurgePoint(m, Q)
      OBVIOUS
    <3>1. PICK u \in Unlisted(P) :
               /\ Remains(P.calls, OrphanCalls(u)) /\ Cleaned(m, Tail(P.calls), u)
               /\ \A v \in Unlisted(P) \ (P.orphans \cup {u}) : OrphanGone(m, v)
      BY <1>6
    <3>2. u \in OrphanUnit /\ Unlisted(Q) = Unlisted(P)
      BY SameServed DEF Unlisted
    <3>3. Remains(Q.calls, OrphanCalls(u))
      BY <1>2, <3>1, <3>2, OrphanCallsType, RemainsTail
    <3> QED
      BY <3>1, <3>2, <3>3 DEF PurgePoint
  <2>2. ~Q.failed => \A s \in Done(Q) : Served(m, Q, s)
    BY <1>1, SameServed
  <2> QED
    BY <1>4, <1>6, <2>1, <2>2 DEF Reached, Kept
<1> QED
  BY <1>5, <1>6

LEMMA AfterCallReached ==
    ASSUME NEW m, NEW P, WellFormed(P), Shaped(P), P.pc \in Teardowns,
           P.pc = "recreate" => m.hash[This(P)] # Desired(P),
           P.pc = "teardown" /\ ~P.failed =>
             /\ P.cmd = "down" /\ Len(P.calls) = 2 => This(P) \notin Up(m)
             /\ Len(P.calls) = 1 => Served(m, P, This(P)),
           P.pc # "purge" => LoopHeld(m, P),
           ~P.failed => \A s \in Done(P) : Served(m, P, s),
           ~P.failed /\ P.pc = "purge" =>
             \E u \in Unlisted(P) :
               /\ Remains(P.calls, OrphanCalls(u)) /\ Cleaned(m, Tail(P.calls), u)
               /\ Len(P.calls) = 1 => OrphanGone(m, u)
               /\ \A v \in Unlisted(P) \ (P.orphans \cup {u}) : OrphanGone(m, v)
    PROVE  Reached(m, P, AfterCall(P))
<1> DEFINE Q == AfterCall(P)
<1>1. /\ P \in Process /\ P.calls \in Seq(Call) /\ P.calls # <<>> /\ P.pc # "idle"
      /\ P.pc # "purge" => P.todo # <<>> /\ This(P) \in Service
  BY TeardownFacts DEF Teardowns
<1>2. Tail(P.calls) = <<>> => Len(P.calls) = 1
  <2> SUFFICES ASSUME Tail(P.calls) = <<>> PROVE Len(P.calls) = 1
    OBVIOUS
  <2>1. Len(Tail(P.calls)) = Len(P.calls) - 1 /\ Len(P.calls) \in Nat
    BY <1>1
  <2>2. Len(Tail(P.calls)) = 0
    <3> DEFINE rest == Tail(P.calls)
    <3>1. rest = <<>>
      OBVIOUS
    <3> HIDE DEF rest
    <3>2. Len(rest) = 0
      BY <3>1
    <3> QED
      BY <3>2 DEF rest
  <2>3. Len(P.calls) - 1 = 0
    BY <2>1, <2>2
  <2> QED
    BY <2>1, <2>3
<1>3. Shaped(Q)
  BY AfterCallShaped
<1>4. CASE /\ Tail(P.calls) # <<>>
           /\ SameCommand(P, Q) /\ Q.todo = P.todo /\ Q.failed = P.failed
           /\ Q.pc = P.pc /\ Q.orphans = P.orphans /\ Q.calls = Tail(P.calls)
  <2> HIDE DEF Q
  <2>1. Reached(m, P, Q)
    BY <1>3, <1>4, MoreCallsReached
  <2> QED
    BY <2>1 DEF Q
<1>5. CASE Q = Idle(TRUE)
  BY <1>5, IdleReached
<1>6. CASE P.pc = "recreate" /\ Q = CheckDeps(P, P.file.def[This(P)].deps)
  <2>1. P.file.def[This(P)].deps \in Seq(Service)
    BY <1>1, <1>6, ThisListed
  <2>2. /\ SameCommand(P, Q) /\ Q.todo = P.todo /\ Q.failed = P.failed /\ Q.pc \in {"create", "depLoad"}
    BY <1>1, <1>6, <2>1, CheckDepsFields
  <2> HIDE DEF Q
  <2>3. AtPoint(m, Q)
    BY <2>2 DEF AtPoint
  <2>4. Reached(m, P, Q)
    BY <1>3, <1>6, <2>2, <2>3, PointReached DEF Q
  <2> QED
    BY <2>4 DEF Q
<1>7. CASE Tail(P.calls) = <<>> /\ P.pc = "purge" /\ Q = NextOrphan(P)
  <2>1. ~P.failed => \A v \in Unlisted(P) \ P.orphans : OrphanGone(m, v)
    BY <1>2, <1>7
  <2>2. Reached(m, P, NextOrphan(P))
    BY <1>1, <1>7, <2>1, TeardownFacts, NextOrphanReached
  <2> QED
    BY <1>7, <2>2
<1>8. CASE Tail(P.calls) = <<>> /\ P.pc = "teardown" /\ Q = NextService(P)
  <2>1. ~P.failed => Served(m, P, This(P))
    BY <1>2, <1>8
  <2> QED
    BY <1>1, <1>8, <2>1, NextServiceReached
<1> QED
  BY <1>4, <1>5, <1>6, <1>7, <1>8, AfterCallCases

\* What an `up` is through with rests on nothing else.
LEMMA ServedClosed ==
    ASSUME NEW m, ManagerInv(m), NEW P, WellFormed(P), Shaped(P), P.pc # "idle", P.todo # <<>>,
           P.cmd = "up", Ordered(P), \A s \in Done(P) : Served(m, P, s)
    PROVE  /\ Done(P) \subseteq Service /\ This(P) \notin Done(P)
           /\ \A t \in Done(P) : Requires(m)[t] \subseteq Done(P)
<1>1. P \in Process /\ P.todo \in Seq(Service) /\ m \in Manager
  BY DEF WellFormed, Process, ManagerInv
<1>2. This(P) \notin Done(P) /\ Done(P) \subseteq Service
  <2>1. This(P) \in Range(P.todo)
    BY <1>1, RangeTail DEF This
  <2> QED
    BY <1>1, <2>1 DEF Done, Process, Range
<1>3. \A t \in Done(P) : DependsOn(P.file.def[t]) \subseteq Done(P)
  BY <1>1, OrderedDone DEF Ordered, Forward
<1>4. ASSUME NEW t \in Done(P) PROVE Requires(m)[t] \subseteq Done(P)
  <2>1. m.hash[t] = Hash(P.file, t) /\ t \in Up(m)
    BY DEF Served, Runs
  <2>2. t \in Loaded(m)
    BY <2>1, UpFacts
  <2>3. Requires(m)[t] = DependsOn(m.hash[t].own)
    BY <1>1, <2>2, RequiresType
  <2>4. m.hash[t].own = P.file.def[t]
    BY <2>1 DEF Hash
  <2> QED
    BY <1>3, <2>3, <2>4
<1> QED
  BY <1>2, <1>4

\* With the whole file named, nor does the current service.
LEMMA CurrentClosed ==
    ASSUME NEW P, WellFormed(P), Shaped(P), P.pc # "idle", P.todo # <<>>, P.cmd = "up", FullPurge(P)
    PROVE  /\ Ordered(P)
           /\ Done(P) \cup {This(P)} \subseteq Range(P.names)
           /\ DependsOn(P.file.def[This(P)]) \subseteq Done(P) \cup {This(P)}
<1>1. /\ P \in Process /\ P.todo \in Seq(Service) /\ P.file \in Files
      /\ P.names = P.file.order /\ DependencyFirst(P.file, P.names)
  BY DEF WellFormed, Process, FullPurge
<1>2. Ordered(P)
  BY <1>1, FullOrdered DEF Ordered
<1>3. Range(P.todo) = {This(P)} \cup Range(Tail(P.todo))
  BY <1>1, RangeTail DEF This
<1>4. Done(P) \cup {This(P)} \subseteq Range(P.names)
  BY <1>3 DEF Done, Shaped
<1>5. DependsOn(P.file.def[This(P)]) \cap Range(Tail(P.todo)) = {}
  BY <1>1, OrderedNames DEF Forward
<1>6. DependsOn(P.file.def[This(P)]) \subseteq Range(P.names)
  <2>1. This(P) \in Listed(P.file)
    BY <1>1, <1>4 DEF Listed
  <2> QED
    BY <1>1, <2>1, FilesAssumption DEF IsComposeFile, Listed
<1> QED
  BY <1>2, <1>3, <1>4, <1>5, <1>6 DEF Done

\* A call of a teardown, whatever exits with an error meanwhile.
LEMMA TeardownReached ==
    ASSUME NEW m, NEW P, WellFormed(P), Shaped(P), P.pc \in Teardowns, ManagerInv(m), Kept(m, P),
           NEW dirty
    PROVE  Reached(Effect(m, Head(P.calls), dirty), P, AfterCall(P))
<1> DEFINE c == Head(P.calls)
           n == Effect(m, c, dirty)
<1>1. /\ P \in Process /\ P.calls \in Seq(Call) /\ P.calls # <<>> /\ c \in Call /\ P.pc # "idle"
      /\ P.pc # "purge" => P.todo # <<>> /\ This(P) \in Service
  BY TeardownFacts DEF Teardowns
<1>2. c.of \in Service
  BY <1>1 DEF Call
<1>3. ManagerInv(n)
  BY <1>1, EffectInv
<1>4. /\ Sinks(m, n)
      /\ Up(n) = IF c.verb = "stop" /\ c.kind = "main" THEN Up(m) \ BoundTo(m, c.of) ELSE Up(m)
      /\ c.verb = "stop" /\ c.kind = "main" => c.of \notin Up(n)
      /\ c.verb = "reset" /\ c.kind = "main" /\ c.of \notin Up(m) => n.active[c.of] = "inactive"
      /\ c.verb = "stop" /\ c.kind = "timer" => c.of \notin n.timers
      /\ c.verb = "reset" /\ c.kind = "probe" => c.of \notin n.failedProbes
  BY <1>1, EffectSinks
<1>5. P.cmd \in {"up", "stop", "down"}
  BY DEF Shaped, Teardowns
<1> HIDE DEF c, n
<1>6. ASSUME NEW v \in OrphanUnit, OrphanGone(m, v) PROVE OrphanGone(n, v)
  BY <1>1, <1>3, <1>4, <1>5, <1>6, SinksHeld
<1>7. ASSUME ~P.failed, NEW s \in Done(P) PROVE Served(n, P, s)
  <2>1. Served(m, P, s)
    BY <1>1, <1>7 DEF Kept
  <2>2. ASSUME P.cmd = "up", Ordered(P) PROVE s \in Up(m) => s \in Up(n)
    <3>1. CASE P.pc = "purge"
      <4>1. P.todo = P.names
        BY <2>2, <3>1 DEF Shaped
      <4> QED
        BY <1>7, <4>1 DEF Done
    <3>2. CASE P.pc = "recreate"
      <4>1. P.todo # <<>> /\ This(P) \in Service /\ P.todo \in Seq(Service)
        BY <1>1, <3>2 DEF Process
      <4>2. c.of = This(P)
        <5>1. Remains(P.calls, RecreateCalls(This(P)))
          BY <3>2 DEF Shaped
        <5> QED
          BY <1>1, <4>1, <5>1, CommandCalls DEF c
      <4>3. \A t \in Done(P) : Served(m, P, t)
        BY <1>1, <1>7 DEF Kept
      <4>4. /\ Done(P) \subseteq Service /\ This(P) \notin Done(P)
            /\ \A t \in Done(P) : Requires(m)[t] \subseteq Done(P)
        BY <1>1, <2>2, <4>1, <4>3, ServedClosed
      <4>5. BoundTo(m, This(P)) \cap Done(P) = {}
        <5>1. m \in Manager
          BY DEF ManagerInv
        <5> QED
          BY <4>1, <4>4, <5>1, ClosedKept
      <4> QED
        BY <1>4, <1>7, <4>2, <4>5
    <3>3. CASE P.pc = "teardown"
      BY <2>2, <3>3 DEF Shaped
    <3> QED
      BY <3>1, <3>2, <3>3 DEF Teardowns
  <2> QED
    BY <1>1, <1>3, <1>4, <1>5, <1>7, <2>1, <2>2, SinksHeld
<1>8. P.pc # "purge" => LoopHeld(n, P)
  <2>1. ASSUME P.pc # "purge", ~P.failed, FullPurge(P), P.cmd = "up" PROVE AllGone(n, P)
    <3>1. AllGone(m, P)
      BY <1>1, <2>1 DEF Kept, LoopHeld, Teardowns
    <3> QED
      BY <1>6, <3>1 DEF AllGone, Unlisted
  <2> QED
    BY <1>7, <2>1 DEF LoopHeld
<1>9. P.pc = "recreate" => n.hash[This(P)] # Desired(P)
  <2> SUFFICES ASSUME P.pc = "recreate" PROVE n.hash[This(P)] # Desired(P)
    OBVIOUS
  <2>1. m.hash[This(P)] # Desired(P) /\ This(P) \in Service
    BY <1>1 DEF Kept, AtPoint
  <2>2. Desired(P) # NoHash
    BY <1>1, ThisListed, NoHashAssumption
  <2> QED
    BY <1>4, <2>1, <2>2 DEF Sinks
<1>10. ASSUME P.pc = "teardown", ~P.failed
       PROVE  /\ P.cmd = "down" /\ Len(P.calls) = 2 => This(P) \notin Up(n)
              /\ Len(P.calls) = 1 => Served(n, P, This(P))
  <2>1. This(P) \in Service
    BY <1>1, <1>10
  <2>2. ASSUME P.cmd = "stop", Len(P.calls) = 1 PROVE Served(n, P, This(P))
    <3>1. Remains(P.calls, StopCalls(P.file, This(P)))
      BY <1>10, <2>2 DEF Shaped
    <3>2. c = Systemctl("stop", "main", This(P))
      BY <1>1, <2>1, <2>2, <3>1, CommandCalls DEF c
    <3>3. This(P) \notin Up(n)
      BY <1>4, <3>2 DEF Systemctl
    <3> QED
      BY <2>2, <3>3 DEF Served
  <2>3. ASSUME P.cmd = "down"
        PROVE  /\ Len(P.calls) = 2 => This(P) \notin Up(n)
               /\ Len(P.calls) = 1 => Served(n, P, This(P))
    <3>1. Remains(P.calls, DownCalls(P.file, This(P)))
      BY <1>10, <2>3 DEF Shaped
    <3>2. /\ Len(P.calls) = 2 => c = Systemctl("stop", "main", This(P))
          /\ Len(P.calls) = 1 => c = Systemctl("reset", "main", This(P))
      BY <1>1, <2>1, <3>1, CommandCalls DEF c
    <3>3. Len(P.calls) = 1 => This(P) \notin Up(m)
      BY <1>1, <1>10, <2>3 DEF Kept, AtPoint
    <3>4. /\ Len(P.calls) = 2 => This(P) \notin Up(n)
          /\ Len(P.calls) = 1 => n.active[This(P)] = "inactive"
      BY <1>4, <3>2, <3>3 DEF Systemctl
    <3> QED
      BY <2>3, <3>4 DEF Served
  <2>4. P.cmd \in {"stop", "down"}
    BY <1>10 DEF Shaped
  <2> QED
    BY <2>2, <2>3, <2>4
<1>11. ASSUME ~P.failed, P.pc = "purge"
       PROVE  \E u \in Unlisted(P) :
               /\ Remains(P.calls, OrphanCalls(u)) /\ Cleaned(n, Tail(P.calls), u)
               /\ Len(P.calls) = 1 => OrphanGone(n, u)
               /\ \A v \in Unlisted(P) \ (P.orphans \cup {u}) : OrphanGone(n, v)
  <2>1. PICK u \in Unlisted(P) :
               /\ Remains(P.calls, OrphanCalls(u)) /\ Cleaned(m, P.calls, u)
               /\ \A v \in Unlisted(P) \ (P.orphans \cup {u}) : OrphanGone(m, v)
    BY <1>1, <1>11 DEF Kept, PurgePoint
  <2>2. u.of \in Service /\ u.kind \in {"main", "probe"} /\ Unlisted(P) \subseteq OrphanUnit
    BY DEF Unlisted, OrphanUnit
  <2>3. \A v \in Unlisted(P) \ (P.orphans \cup {u}) : OrphanGone(n, v)
    BY <1>6, <2>1, <2>2
  <2>4. Len(Tail(P.calls)) = Len(P.calls) - 1 /\ Len(P.calls) \in Nat
    BY <1>1
  <2>5. CASE u.kind = "main"
    <3>1. Remains(P.calls, MainCleanup(u.of))
      BY <2>1, <2>5 DEF OrphanCalls
    <3>2. /\ Len(P.calls) = 2 => c = Systemctl("stop", "main", u.of)
          /\ Len(P.calls) = 1 => c = Systemctl("reset", "main", u.of)
      BY <1>1, <2>2, <3>1, CleanupCalls DEF c
    <3>3. Len(P.calls) = 1 => u.of \notin Up(m)
      BY <2>1, <2>5 DEF Cleaned
    <3>4. /\ Len(P.calls) = 2 => u.of \notin Up(n)
          /\ Len(P.calls) = 1 => n.active[u.of] = "inactive"
      BY <1>4, <3>2, <3>3 DEF Systemctl
    <3>5. Cleaned(n, Tail(P.calls), u)
      BY <2>4, <2>5, <3>4 DEF Cleaned
    <3>6. Len(P.calls) = 1 => OrphanGone(n, u)
      BY <2>5, <3>4 DEF OrphanGone
    <3> QED
      BY <2>1, <2>3, <3>5, <3>6
  <2>6. CASE u.kind = "probe"
    <3>1. Remains(P.calls, HealthCleanup(u.of))
      BY <2>1, <2>6 DEF OrphanCalls
    <3>2. /\ Len(P.calls) \in 1..4
          /\ Len(P.calls) = 4 => c = Systemctl("stop", "timer", u.of)
          /\ Len(P.calls) = 1 => c = Systemctl("reset", "probe", u.of)
      BY <1>1, <2>2, <3>1, CleanupCalls DEF c
    <3>3. Len(P.calls) < 4 => u.of \notin m.timers
      BY <2>1, <2>6 DEF Cleaned
    <3>4. /\ Len(P.calls) = 4 => u.of \notin n.timers
          /\ Len(P.calls) = 1 => u.of \notin n.failedProbes
      BY <1>4, <3>2 DEF Systemctl
    <3>5. u.of \notin n.timers
      <4>1. \A k \in 1..4 : k = 4 \/ k < 4
        OBVIOUS
      <4> QED
        BY <1>4, <3>2, <3>3, <3>4, <4>1 DEF Sinks
    <3>6. Cleaned(n, Tail(P.calls), u)
      BY <2>6, <3>5 DEF Cleaned
    <3>7. Len(P.calls) = 1 => OrphanGone(n, u)
      BY <2>6, <3>4, <3>5 DEF OrphanGone, ProbesLoaded
    <3> QED
      BY <2>1, <2>3, <3>6, <3>7
  <2> QED
    BY <2>2, <2>5, <2>6
<1>12. Reached(n, P, AfterCall(P))
  BY <1>7, <1>8, <1>9, <1>10, <1>11, AfterCallReached
<1> QED
  BY <1>12 DEF n, c

\* systemd-run of the service.
LEMMA CreateReached ==
    ASSUME NEW m, NEW P, WellFormed(P), Shaped(P), P.pc = "create", P.todo # <<>>,
           ManagerInv(m), Kept(m, P)
    PROVE  Reached(CreateMain(m, This(P), Desired(P)), P,
                   IF ~CanCreate(m, This(P), Desired(P)) THEN Idle(TRUE)
                   ELSE IF Monitored(P) THEN [P EXCEPT !.pc = "createTimer"] ELSE NextService(P))
<1> DEFINE s == This(P)
           h == Desired(P)
           n == CreateMain(m, s, h)
           Q == [P EXCEPT !.pc = "createTimer"]
<1>1. P \in Process /\ P.file \in Files /\ s \in Service /\ h \in Hashes /\ P.cmd = "up"
  BY ThisListed DEF WellFormed, Shaped
<1>2. ManagerInv(n)
  BY <1>1, CreateMainInv
<1>3. CASE ~CanCreate(m, s, h)
  BY <1>3, IdleReached
<1>4. CASE CanCreate(m, s, h)
  <2>1. /\ Lifts(m, n, s) /\ n.hash[s] = h
        /\ \A K \in SUBSET Service :
             /\ s \in K /\ DependsOn(h.own) \subseteq K
             /\ \A t \in K \ {s} : Requires(m)[t] \subseteq K
             => Within(m, n, s, K)
    BY <1>1, <1>4, CreateLifts
  <2>2. LoopHeld(m, P)
    BY DEF Kept
  <2>3. ASSUME ~P.failed, FullPurge(P) PROVE \E K \in SUBSET Range(P.names) : Within(m, n, s, K)
    <3> DEFINE K == Done(P) \cup {s}
    <3>1. /\ Ordered(P) /\ K \subseteq Range(P.names)
          /\ DependsOn(P.file.def[s]) \subseteq K
      BY <1>1, <2>3, CurrentClosed
    <3>2. /\ Done(P) \subseteq Service
          /\ \A t \in Done(P) : Requires(m)[t] \subseteq Done(P)
      BY <1>1, <2>2, <2>3, <3>1, ServedClosed DEF LoopHeld
    <3>3. h.own = P.file.def[s]
      BY DEF Desired, Hash
    <3>4. K \in SUBSET Service /\ s \in K /\ DependsOn(h.own) \subseteq K
          /\ \A t \in K \ {s} : Requires(m)[t] \subseteq K
      BY <1>1, <3>1, <3>2, <3>3
    <3> HIDE DEF K, n, h, s
    <3> QED
      BY <2>1, <3>1, <3>4
  <2>4. LoopHeld(n, P)
    BY <1>1, <1>2, <2>1, <2>2, <2>3, LiftsHeld DEF Forward
  <2>5. Runs(n, s, h)
    BY <2>1 DEF Runs, Lifts
  <2> HIDE DEF n
  <2>6. Reached(n, P, NextService(P))
    <3>1. Served(n, P, s)
      BY <1>1, <2>5 DEF Served, Desired
    <3> QED
      BY <2>4, <3>1, NextServiceReached
  <2>7. Reached(n, P, Q)
    <3>1. /\ SameCommand(P, Q) /\ Q.todo = P.todo /\ Q.failed = P.failed /\ Q.pc = "createTimer"
      BY <1>1, PcFields
    <3> HIDE DEF Q
    <3>2. Shaped(Q)
      BY <1>1, <3>1, PointShaped
    <3>3. This(Q) = s /\ Desired(Q) = h
      BY <3>1 DEF This, Desired, SameCommand
    <3>4. AtPoint(n, Q)
      BY <2>5, <3>1, <3>3 DEF AtPoint
    <3> QED
      BY <2>4, <3>1, <3>2, <3>4, PointReached
  <2> QED
    BY <1>4, <2>6, <2>7 DEF n
<1> QED
  BY <1>3, <1>4

\* A start of a unit with the definition of the file, or by another command.
LEMMA LoadedLifts ==
    ASSUME NEW m, NEW n, NEW P, WellFormed(P), Shaped(P), P.todo # <<>>, P.cmd \in Forward,
           P.pc \notin {"idle", "orphans", "purge"},
           ManagerInv(m), ManagerInv(n), Kept(m, P), Lifts(m, n, This(P)),
           P.cmd = "up" => m.hash[This(P)] = Desired(P),
           \A K \in SUBSET Service :
             This(P) \in K /\ (\A t \in K : Requires(m)[t] \subseteq K) => Within(m, n, This(P), K)
    PROVE  LoopHeld(n, P)
<1>1. LoopHeld(m, P)
  BY DEF Kept
<1>2. ASSUME P.cmd = "up", ~P.failed, FullPurge(P)
      PROVE  \E K \in SUBSET Range(P.names) : Within(m, n, This(P), K)
  <2> DEFINE K == Done(P) \cup {This(P)}
  <2>1. /\ Ordered(P) /\ K \subseteq Range(P.names)
        /\ DependsOn(P.file.def[This(P)]) \subseteq K
    BY <1>2, CurrentClosed
  <2>2. /\ Done(P) \subseteq Service
        /\ \A t \in Done(P) : Requires(m)[t] \subseteq Done(P)
    BY <1>1, <1>2, <2>1, ServedClosed DEF LoopHeld
  <2>3. Requires(m)[This(P)] = DependsOn(P.file.def[This(P)])
    <3>1. This(P) \in Service /\ Desired(P) \in Hashes /\ m \in Manager
      BY ThisListed DEF ManagerInv
    <3>2. This(P) \in Loaded(m)
      BY <1>2, <3>1, NoHashAssumption DEF Loaded
    <3> QED
      BY <1>2, <3>1, <3>2, RequiresType DEF Desired, Hash
  <2>4. K \in SUBSET Service /\ This(P) \in K /\ \A t \in K : Requires(m)[t] \subseteq K
    BY <2>1, <2>2, <2>3, ThisListed
  <2> HIDE DEF K
  <2> QED
    BY <2>1, <2>4
<1> QED
  BY <1>1, <1>2, LiftsHeld

\* systemctl start or restart of the service.
LEMMA StartReached ==
    ASSUME NEW m, NEW P, WellFormed(P), Shaped(P), P.pc \in {"start", "restart"}, P.todo # <<>>,
           ManagerInv(m), Kept(m, P), NEW n,
           n \in IF Startable(m, This(P)) THEN {StartMain(m, This(P)), RestartMain(m, This(P))} ELSE {m}
    PROVE  Reached(n, P, Started(P, Startable(m, This(P))))
<1> DEFINE Q == Started(P, Startable(m, This(P)))
<1>1. P \in Process /\ This(P) \in Service /\ P.cmd \in Forward /\ P.pc # "idle"
  BY ThisListed DEF WellFormed, Shaped, Forward
<1>2. Startable(m, This(P)) \in BOOLEAN
  BY DEF Startable
<1>3. CASE ~Startable(m, This(P)) /\ Q = NextService(Note(P, TRUE))
  BY <1>1, <1>3, GivenUpReached
<1>4. CASE Startable(m, This(P))
  <2>1. /\ Lifts(m, n, This(P)) /\ n.hash = m.hash
        /\ \A K \in SUBSET Service :
             This(P) \in K /\ (\A t \in K : Requires(m)[t] \subseteq K) => Within(m, n, This(P), K)
    BY <1>1, <1>4, StartLifts
  <2>2. ManagerInv(n)
    BY <1>1, <1>4, StartMainInv, RestartMainInv
  <2>3. P.cmd = "up" => m.hash[This(P)] = Desired(P)
    BY <1>1 DEF Kept, AtPoint, Shaped
  <2>4. LoopHeld(n, P)
    BY <1>1, <2>1, <2>2, <2>3, LoadedLifts
  <2>5. This(P) \in Up(n) /\ (P.cmd = "up" => n.hash[This(P)] = Desired(P))
    BY <2>1, <2>3 DEF Lifts
  <2>6. CASE Q = NextService(P)
    <3>1. Served(n, P, This(P))
      BY <1>1, <2>5 DEF Served, Runs, Desired, Forward
    <3> QED
      BY <1>1, <2>4, <2>6, <3>1, NextServiceReached
  <2>7. CASE SameCommand(P, Q) /\ Q.todo = P.todo /\ Q.failed = P.failed /\ Q.pc = "startTimer"
    <3> HIDE DEF Q
    <3>1. This(Q) = This(P) /\ Desired(Q) = Desired(P) /\ Q.cmd = P.cmd
      BY <2>7 DEF This, Desired, SameCommand
    <3>2. AtPoint(n, Q)
      BY <2>5, <2>7, <3>1 DEF AtPoint
    <3>3. Shaped(Q)
      BY <1>1, <2>7, PointShaped
    <3>4. Reached(n, P, Q)
      BY <2>4, <2>7, <3>2, <3>3, PointReached
    <3> QED
      BY <3>4 DEF Q
  <2> QED
    BY <1>1, <1>2, <1>4, <2>6, <2>7, StartedCases
<1> QED
  BY <1>1, <1>2, <1>3, <1>4, StartedCases

\* systemd-run of the healthcheck timer, which may start the service.
LEMMA CreateTimerReached ==
    ASSUME NEW m, NEW P, WellFormed(P), Shaped(P), P.pc = "createTimer", P.todo # <<>>,
           ManagerInv(m), Kept(m, P)
    PROVE  Reached(CreateTimer(m, This(P)), P,
                   IF CanCreateTimer(m, This(P)) THEN NextService(P) ELSE Idle(TRUE))
<1> DEFINE n == CreateTimer(m, This(P))
<1>1. P \in Process /\ This(P) \in Service /\ P.cmd = "up" /\ P.pc # "idle"
  BY ThisListed DEF WellFormed, Shaped
<1>2. CASE ~CanCreateTimer(m, This(P))
  BY <1>2, IdleReached
<1>3. CASE CanCreateTimer(m, This(P))
  <2>1. /\ Lifts(m, n, This(P)) /\ n.hash = m.hash
        /\ \A K \in SUBSET Service :
             This(P) \in K /\ (\A t \in K : Requires(m)[t] \subseteq K) => Within(m, n, This(P), K)
    BY <1>1, <1>3, TimerLifts
  <2>2. ManagerInv(n)
    BY <1>1, CreateTimerInv
  <2> HIDE DEF n
  <2>3. m.hash[This(P)] = Desired(P)
    BY <1>1 DEF Kept, AtPoint, Runs
  <2>4. LoopHeld(n, P)
    BY <1>1, <2>1, <2>2, <2>3, LoadedLifts DEF Forward
  <2>5. Served(n, P, This(P))
    BY <1>1, <2>1, <2>3 DEF Served, Runs, Lifts, Desired
  <2> QED
    BY <1>1, <1>3, <2>4, <2>5, NextServiceReached DEF n
<1> QED
  BY <1>2, <1>3

\* systemctl start of the healthcheck timer, which is there or fails.
LEMMA StartTimerReached ==
    ASSUME NEW m, NEW P, WellFormed(P), Shaped(P), P.pc = "startTimer", P.todo # <<>>,
           ManagerInv(m), Kept(m, P)
    PROVE  Reached(m, P, NextService(Note(P, ~CanStartTimer(m, This(P)))))
<1> DEFINE b == ~CanStartTimer(m, This(P))
           R == Note(P, b)
<1>1. P \in Process /\ P.cmd \in Forward /\ P.failed \in BOOLEAN /\ b \in BOOLEAN
  BY DEF WellFormed, Shaped, Process, CanStartTimer
<1>2. LoopHeld(m, P) /\ Served(m, P, This(P))
  BY <1>1 DEF Kept, AtPoint, Served, Runs, Desired, Forward
<1>3. CASE b
  <2>1. Reached(m, P, NextService(Note(P, TRUE)))
    BY GivenUpReached
  <2> QED
    BY <1>3, <2>1
<1>4. CASE ~b
  <2> HIDE DEF b
  <2>1. /\ SameCommand(P, R) /\ R.todo = P.todo /\ R.failed = P.failed /\ R.pc = P.pc
    BY <1>1, <1>4, NoteFields
  <2>2. WellFormed(R) /\ Shaped(R)
    BY <1>1, NoteType, NoteShaped
  <2> HIDE DEF R
  <2>3. This(R) = This(P) /\ Done(R) = Done(P) /\ R.cmd = P.cmd
    BY <2>1 DEF This, Done, SameCommand
  <2>4. LoopHeld(m, R) /\ Served(m, R, This(R))
    BY <1>2, <2>1, <2>3, SameServed DEF LoopHeld
  <2>5. Reached(m, R, NextService(R))
    BY <2>1, <2>2, <2>4, NextServiceReached
  <2>6. Reached(m, P, NextService(R))
    BY <2>1, <2>5, SameReached
  <2> QED
    BY <2>6 DEF R, b
<1> QED
  BY <1>3, <1>4

\* The first service of the loop, when there are no orphans to clean up.
LEMMA EnterReached ==
    ASSUME NEW m, NEW P \in Process, P.todo # <<>>, Range(P.todo) = Range(P.names),
           Shaped(Enter(P)), ~(FullPurge(P) /\ P.cmd = "up")
    PROVE  Reached(m, P, Enter(P))
<1> DEFINE Q == Enter(P)
<1>1. /\ SameCommand(P, Q) /\ Q.todo = P.todo /\ Q.failed = P.failed
      /\ P.cmd \in Forward => Q.pc = "load"
      /\ P.cmd \notin Forward =>
           /\ Q.pc = "teardown"
           /\ Q.calls = IF P.cmd = "stop" THEN StopCalls(P.file, This(P)) ELSE DownCalls(P.file, This(P))
  BY EnterFields
<1>2. P.todo \in Seq(Service)
  BY DEF Process
<1>3. Head(P.todo) \in Service
  BY <1>2
<1>4. Len(DownCalls(P.file, This(P))) # 1
  <2>1. DownCalls(P.file, This(P)) \in Seq(Call) \ {<<>>} /\ This(P) \in Service
    BY <1>3, TeardownCalls DEF This
  <2>2. Len(DownCalls(P.file, This(P))) >= 2
    BY <2>1, CommandCalls
  <2>3. ~ 1 >= 2
    OBVIOUS
  <2> QED
    BY <2>2, <2>3
<1> HIDE DEF Q
<1>5. Done(Q) = {} /\ Q.pc \in {"load", "teardown"}
  BY <1>1 DEF Done, SameCommand
<1>6. Q.pc = "teardown" /\ Q.cmd = "down" => Len(Q.calls) # 1
  BY <1>1, <1>4, <1>5 DEF SameCommand, Forward
<1>7. AtPoint(m, Q)
  BY <1>5, <1>6 DEF AtPoint
<1>8. LoopHeld(m, Q)
  BY <1>1, <1>5, SameServed DEF LoopHeld, SameCommand
<1> QED
  BY <1>5, <1>7, <1>8 DEF Reached, Kept, LoopHeld, Q

\* What find_orphan_units does not list is gone: only what is loaded runs, is
\* failed or has a probe.
LEMMA OrphansReached ==
    ASSUME NEW m, NEW P, WellFormed(P), Shaped(P), P.pc = "orphans", ManagerInv(m), Kept(m, P)
    PROVE  Reached(m, P, IF P.purge THEN NextOrphan([P EXCEPT !.orphans = OrphanUnits(m, P.file)])
                                    ELSE Enter(P))
<1> DEFINE R == [P EXCEPT !.orphans = OrphanUnits(m, P.file)]
<1>1. /\ P \in Process
      /\ P.todo # <<>> \/ (P.cmd = "down" /\ P.purge)
      /\ \/ P.cmd = "up" /\ P.todo = P.names
         \/ P.cmd = "down" /\ P.todo = <<>>
      /\ Range(P.names) \subseteq Listed(P.file) /\ Range(P.todo) \subseteq Range(P.names)
      /\ P.cmd \in Forward => Remains(P.todo, P.names)
      /\ P.purge => P.cmd \in {"up", "down"}
  BY DEF WellFormed, Shaped
<1>2. CASE P.purge
  <2>1. OrphanUnits(m, P.file) \subseteq OrphanUnit
    BY DEF OrphanUnits
  <2>2. /\ R \in Process /\ SameCommand(P, R) /\ R.todo = P.todo /\ R.failed = P.failed
        /\ R.orphans = OrphanUnits(m, P.file)
    BY <1>1, <2>1 DEF Process, SameCommand
  <2> HIDE DEF R
  <2>3. R.purge /\ R.cmd = P.cmd /\ R.names = P.names /\ R.file = P.file
    BY <1>2, <2>2 DEF SameCommand
  <2>4. R.orphans \subseteq Unlisted(R)
    BY <2>2, <2>3 DEF OrphanUnits, Unlisted
  <2>5. ASSUME NEW v \in Unlisted(R) \ R.orphans PROVE OrphanGone(m, v)
    <3>1. v \in OrphanUnit /\ v.of \in Service /\ v.kind \in {"main", "probe"} /\ v.of \notin Listed(P.file)
      BY <2>3 DEF Unlisted, OrphanUnit
    <3>2. v.of \notin (IF v.kind = "main" THEN Loaded(m) ELSE ProbesLoaded(m))
      BY <2>2, <2>5, <3>1 DEF OrphanUnits
    <3> QED
      BY <3>1, <3>2 DEF OrphanGone, ManagerInv, NotFoundIsInactive
  <2>6. ~R.failed => \A s \in Done(R) : Served(m, R, s)
    <3>1. Done(R) = Done(P)
      BY <2>2, <2>3 DEF Done
    <3> QED
      BY <2>2, <3>1, SameServed DEF Kept
  <2>7. Reached(m, R, NextOrphan(R))
    BY <1>1, <2>2, <2>3, <2>4, <2>5, <2>6, NextOrphanReached
  <2>8. Reached(m, P, NextOrphan(R))
    BY <2>2, <2>7, SameReached
  <2> QED
    BY <1>2, <2>8 DEF R
<1>3. CASE ~P.purge
  <2>1. P.cmd = "up" /\ P.todo = P.names /\ P.todo # <<>>
    BY <1>1, <1>3
  <2>2. Shaped(Enter(P))
    BY <1>1, <2>1, EnterShaped
  <2>3. ~FullPurge(P) /\ Range(P.todo) = Range(P.names)
    BY <1>3, <2>1 DEF FullPurge
  <2> QED
    BY <1>1, <1>3, <2>1, <2>2, <2>3, EnterReached
<1> QED
  BY <1>2, <1>3

\* The three reads of inspect_unit, and what the handlers make of them.
LEMMA InspectReached ==
    ASSUME NEW m, NEW P, WellFormed(P), Shaped(P), P.pc \in {"load", "active", "hash"}, P.todo # <<>>,
           ManagerInv(m), Kept(m, P)
    PROVE  /\ P.pc = "load" =>
                /\ Reached(m, P, [P EXCEPT !.pc = "active"])
                /\ P.cmd = "up" => Reached(m, P, CheckDeps(P, P.file.def[This(P)].deps))
                /\ Reached(m, P, NextService(Note(P, TRUE)))
           /\ P.pc = "active" => Reached(m, P, [P EXCEPT !.pc = "hash", !.active = m.active[This(P)]])
           /\ P.pc = "hash" =>
                /\ P.cmd = "up" => Reached(m, P, UpDecision(P, m.hash[This(P)]))
                /\ P.cmd = "start" => Reached(m, P, StartDecision(P))
                /\ P.cmd = "restart" => Reached(m, P, [P EXCEPT !.pc = "restart"])
<1>1. /\ P \in Process /\ This(P) \in Service /\ P.cmd \in Forward /\ P.pc # "idle"
      /\ P.file.def[This(P)].deps \in Seq(Service) /\ LoopHeld(m, P)
  BY ThisListed DEF WellFormed, Shaped, Kept
<1>2. ASSUME NEW Q, SameCommand(P, Q), Q.todo = P.todo, Q.failed = P.failed,
             \/ Q.pc \in {"active", "create", "depLoad", "restart"}
             \/ Q.pc = "hash" /\ Q.active = m.active[This(P)]
             \/ Q.pc = "start" /\ (P.cmd = "up" => m.hash[This(P)] = Desired(P))
             \/ Q.pc = "recreate" /\ m.hash[This(P)] # Desired(P),
             Shaped(Q)
      PROVE  Reached(m, P, Q)
  <2>1. This(Q) = This(P) /\ Desired(Q) = Desired(P) /\ Q.cmd = P.cmd
    BY <1>2 DEF This, Desired, SameCommand
  <2>2. Q.pc = "hash" /\ Q.active \in RunningStates => This(Q) \in Up(m)
    BY <1>1, <1>2, <2>1 DEF Up
  <2>3. AtPoint(m, Q)
    BY <1>2, <2>1, <2>2 DEF AtPoint
  <2> QED
    BY <1>1, <1>2, <2>3, PointReached
<1>3. ASSUME P.pc = "load" PROVE Reached(m, P, [P EXCEPT !.pc = "active"])
  <2> DEFINE Q == [P EXCEPT !.pc = "active"]
  <2>1. SameCommand(P, Q) /\ Q.todo = P.todo /\ Q.failed = P.failed /\ Q.pc = "active"
    BY <1>1, PcFields
  <2> HIDE DEF Q
  <2>2. Shaped(Q)
    BY <1>1, <2>1, PointShaped
  <2>3. Reached(m, P, Q)
    BY <1>2, <2>1, <2>2
  <2> QED
    BY <2>3 DEF Q
<1>4. ASSUME P.cmd = "up" PROVE Reached(m, P, CheckDeps(P, P.file.def[This(P)].deps))
  <2> DEFINE Q == CheckDeps(P, P.file.def[This(P)].deps)
  <2>1. SameCommand(P, Q) /\ Q.todo = P.todo /\ Q.failed = P.failed /\ Q.pc \in {"create", "depLoad"}
    BY <1>1, CheckDepsFields
  <2> HIDE DEF Q
  <2>2. Shaped(Q)
    BY <1>1, <1>4, <2>1, PointShaped
  <2>3. Reached(m, P, Q)
    BY <1>2, <2>1, <2>2
  <2> QED
    BY <2>3 DEF Q
<1>5. Reached(m, P, NextService(Note(P, TRUE)))
  BY <1>1, GivenUpReached
<1>6. Reached(m, P, [P EXCEPT !.pc = "hash", !.active = m.active[This(P)]])
  <2> DEFINE active == m.active[This(P)]
             Q == [P EXCEPT !.pc = "hash", !.active = active]
  <2> HIDE DEF active
  <2>1. SameCommand(P, Q) /\ Q.todo = P.todo /\ Q.failed = P.failed /\ Q.pc = "hash" /\ Q.active = active
    BY <1>1 DEF Process, SameCommand
  <2> HIDE DEF Q
  <2>2. Shaped(Q)
    BY <1>1, <2>1, PointShaped
  <2>3. Reached(m, P, Q)
    BY <1>2, <2>1, <2>2 DEF active
  <2> QED
    BY <2>3 DEF Q, active
<1>7. ASSUME P.pc = "hash", P.cmd = "up" PROVE Reached(m, P, UpDecision(P, m.hash[This(P)]))
  <2> DEFINE Q == UpDecision(P, m.hash[This(P)])
  <2>1. CASE Q = NextService(P) /\ m.hash[This(P)] = Desired(P) /\ P.active \in RunningStates
    <3>1. This(P) \in Up(m)
      BY <1>7, <2>1 DEF Kept, AtPoint
    <3>2. Served(m, P, This(P))
      BY <1>7, <2>1, <3>1 DEF Served, Runs, Desired
    <3> QED
      BY <1>1, <2>1, <3>2, NextServiceReached
  <2>2. CASE /\ SameCommand(P, Q) /\ Q.todo = P.todo /\ Q.failed = P.failed
             /\ \/ Q.pc = "start" /\ m.hash[This(P)] = Desired(P)
                \/ Q.pc = "recreate" /\ m.hash[This(P)] # Desired(P) /\ Q.calls = RecreateCalls(This(P))
    <3> HIDE DEF Q
    <3>1. Q.pc = "recreate" => Remains(Q.calls, RecreateCalls(This(P)))
      BY <1>1, <2>2, TeardownCalls, RemainsAll
    <3>2. Shaped(Q)
      BY <1>1, <1>7, <2>2, <3>1, PointShaped
    <3>3. Reached(m, P, Q)
      BY <1>2, <2>2, <3>2
    <3> QED
      BY <3>3 DEF Q
  <2> QED
    BY <1>1, <2>1, <2>2, UpDecisionCases
<1>8. ASSUME P.pc = "hash", P.cmd = "start" PROVE Reached(m, P, StartDecision(P))
  <2> DEFINE Q == StartDecision(P)
  <2>1. CASE Q = NextService(P) /\ P.active \in RunningStates
    <3>1. This(P) \in Up(m)
      BY <1>8, <2>1 DEF Kept, AtPoint
    <3>2. Served(m, P, This(P))
      BY <1>8, <3>1 DEF Served
    <3> QED
      BY <1>1, <2>1, <3>2, NextServiceReached
  <2>2. CASE SameCommand(P, Q) /\ Q.todo = P.todo /\ Q.failed = P.failed /\ Q.pc = "start"
    <3> HIDE DEF Q
    <3>1. Shaped(Q)
      BY <1>1, <1>8, <2>2, PointShaped
    <3>2. Reached(m, P, Q)
      BY <1>2, <1>8, <2>2, <3>1
    <3> QED
      BY <3>2 DEF Q
  <2> QED
    BY <1>1, <2>1, <2>2, StartDecisionCases
<1>9. ASSUME P.cmd = "restart" PROVE Reached(m, P, [P EXCEPT !.pc = "restart"])
  <2> DEFINE Q == [P EXCEPT !.pc = "restart"]
  <2>1. SameCommand(P, Q) /\ Q.todo = P.todo /\ Q.failed = P.failed /\ Q.pc = "restart"
    BY <1>1, PcFields
  <2> HIDE DEF Q
  <2>2. Shaped(Q)
    BY <1>1, <1>9, <2>1, PointShaped
  <2>3. Reached(m, P, Q)
    BY <1>2, <2>1, <2>2
  <2> QED
    BY <2>3 DEF Q
<1> QED
  BY <1>3, <1>4, <1>5, <1>6, <1>7, <1>8, <1>9

\* The reads of blocked_dependency.
LEMMA DependencyReached ==
    ASSUME NEW m, NEW P, WellFormed(P), Shaped(P), P.pc \in {"depLoad", "depActive"}, P.todo # <<>>,
           ManagerInv(m), Kept(m, P), Tail(P.deps) \in Seq(Service)
    PROVE  /\ Reached(m, P, [P EXCEPT !.pc = "depActive"])
           /\ Reached(m, P, CheckDeps(P, Tail(P.deps)))
           /\ Reached(m, P, NextService(Note(P, TRUE)))
<1>1. P \in Process /\ P.cmd = "up" /\ P.pc # "idle" /\ LoopHeld(m, P)
  BY DEF WellFormed, Shaped, Kept
<1>2. ASSUME NEW Q, SameCommand(P, Q), Q.todo = P.todo, Q.failed = P.failed,
             Q.pc \in {"depActive", "create", "depLoad"}
      PROVE  Reached(m, P, Q)
  <2>1. Shaped(Q)
    BY <1>1, <1>2, PointShaped
  <2>2. AtPoint(m, Q)
    BY <1>2 DEF AtPoint
  <2> QED
    BY <1>1, <1>2, <2>1, <2>2, PointReached
<1>3. Reached(m, P, [P EXCEPT !.pc = "depActive"])
  BY <1>1, <1>2, PcFields
<1>4. Reached(m, P, CheckDeps(P, Tail(P.deps)))
  BY <1>1, <1>2, CheckDepsFields
<1> QED
  BY <1>1, <1>3, <1>4, GivenUpReached

\* A call of a teardown that systemctl refuses.  A unit that is recreated is not
\* noted at once: the command goes on to its main unit, or ends.
LEMMA RejectedReached ==
    ASSUME NEW m, NEW P, WellFormed(P), Shaped(P), P.pc \in Teardowns, ManagerInv(m), Kept(m, P)
    PROVE  Reached(m, P, FailedCall(P))
<1>1. PICK R : /\ FailedCall(P) = AfterCall(R)
               /\ WellFormed(R) /\ Shaped(R) /\ SameCommand(P, R)
               /\ R.pc = P.pc /\ R.todo = P.todo /\ R.calls = P.calls
               /\ R.failed \/ (P.pc = "recreate" /\ R.failed = P.failed)
  BY FailedCallCases
<1>2. This(R) = This(P) /\ Desired(R) = Desired(P) /\ Done(R) = Done(P)
  BY <1>1 DEF This, Desired, Done, SameCommand
<1>3. P.pc = "recreate" => R.failed \/ R.failed = P.failed
  BY <1>1
<1>4. P.pc \in {"recreate", "teardown", "purge"}
  BY DEF Teardowns
<1>5. R.pc = "recreate" => m.hash[This(R)] # Desired(R)
  BY <1>1, <1>2 DEF Kept, AtPoint
<1>6. R.pc \in {"teardown", "purge"} => R.failed
  BY <1>1
<1>7. ~R.failed => \A s \in Done(R) : Served(m, R, s)
  BY <1>1, <1>2, <1>4, <1>6, SameServed DEF Kept
<1>8. R.pc # "purge" => LoopHeld(m, R)
  <2>1. ASSUME ~R.failed, R.pc # "purge" PROVE LoopHeld(m, P) /\ R.failed = P.failed
    BY <1>1, <1>4, <1>6, <2>1 DEF Kept
  <2> QED
    BY <1>1, <1>2, <2>1, SameServed DEF LoopHeld, SameCommand
<1>9. Reached(m, R, AfterCall(R))
  <2>1. R.pc \in Teardowns
    BY <1>1
  <2>2. R.pc = "teardown" /\ ~R.failed =>
             /\ R.cmd = "down" /\ Len(R.calls) = 2 => This(R) \notin Up(m)
             /\ Len(R.calls) = 1 => Served(m, R, This(R))
    BY <1>6
  <2>3. ~R.failed /\ R.pc = "purge" =>
             \E u \in Unlisted(R) :
               /\ Remains(R.calls, OrphanCalls(u)) /\ Cleaned(m, Tail(R.calls), u)
               /\ Len(R.calls) = 1 => OrphanGone(m, u)
               /\ \A v \in Unlisted(R) \ (R.orphans \cup {u}) : OrphanGone(m, v)
    BY <1>6
  <2> QED
    BY <1>1, <1>5, <1>7, <1>8, <2>1, <2>2, <2>3, AfterCallReached
<1> QED
  BY <1>1, <1>9, SameReached

LEMMA StepReached ==
    ASSUME Inv, NEW p \in Proc, Shaped(proc[p]), Kept(mgr, proc[p]), Step(p) \/ Fault(p)
    PROVE  Reached(mgr', proc[p], proc'[p])
<1> DEFINE P == proc[p]
<1>1. /\ WellFormed(P) /\ P \in Process /\ ManagerInv(mgr)
      /\ P.pc \notin {"idle", "orphans", "purge"} => P.todo # <<>>
      /\ P.pc \in {"depLoad", "depActive"} => Tail(P.deps) \in Seq(Service)
      /\ Shaped(P) /\ Kept(mgr, P)
  BY CurrentProcess
<1>2. ASSUME NEW Q, Moves(p, Q) PROVE proc'[p] = Q
  BY <1>2, MovesFields
<1>3. CASE ListOrphans(p)
  <2>1. /\ P.pc = "orphans" /\ mgr' = mgr
        /\ Moves(p, IF P.purge THEN NextOrphan([P EXCEPT !.orphans = OrphanUnits(mgr, P.file)])
                                ELSE Enter(P))
    BY <1>3 DEF ListOrphans, Reads
  <2> HIDE DEF P
  <2> QED
    BY <1>1, <1>2, <2>1, OrphansReached DEF P
<1>4. CASE ReadLoadState(p)
  <2>1. /\ P.pc = "load" /\ P.todo # <<>> /\ mgr' = mgr
        /\ \/ Moves(p, [P EXCEPT !.pc = "active"])
           \/ P.cmd = "up" /\ Moves(p, CheckDeps(P, P.file.def[This(P)].deps))
           \/ Moves(p, NextService(Note(P, TRUE)))
    BY <1>1, <1>4 DEF ReadLoadState, Reads
  <2> HIDE DEF P
  <2>2. /\ Reached(mgr, P, [P EXCEPT !.pc = "active"])
        /\ P.cmd = "up" => Reached(mgr, P, CheckDeps(P, P.file.def[This(P)].deps))
        /\ Reached(mgr, P, NextService(Note(P, TRUE)))
    BY <1>1, <2>1, InspectReached
  <2> QED
    BY <1>2, <2>1, <2>2 DEF P
<1>5. CASE ReadActiveState(p)
  <2>1. /\ P.pc = "active" /\ P.todo # <<>> /\ mgr' = mgr
        /\ Moves(p, [P EXCEPT !.pc = "hash", !.active = mgr.active[This(P)]])
    BY <1>1, <1>5 DEF ReadActiveState, Reads
  <2> HIDE DEF P
  <2>2. Reached(mgr, P, [P EXCEPT !.pc = "hash", !.active = mgr.active[This(P)]])
    BY <1>1, <2>1, InspectReached
  <2> QED
    BY <1>2, <2>1, <2>2 DEF P
<1>6. CASE ReadDescription(p)
  <2>1. P.pc = "hash" /\ P.todo # <<>> /\ mgr' = mgr /\ P.cmd \in Forward
    BY <1>1, <1>6 DEF ReadDescription, Reads, Shaped
  <2>2. \/ P.cmd = "up" /\ Moves(p, UpDecision(P, mgr.hash[This(P)]))
        \/ P.cmd = "start" /\ Moves(p, StartDecision(P))
        \/ P.cmd = "restart" /\ Moves(p, [P EXCEPT !.pc = "restart"])
    BY <1>6, <2>1 DEF ReadDescription, Reads, Forward
  <2> HIDE DEF P
  <2>3. /\ P.cmd = "up" => Reached(mgr, P, UpDecision(P, mgr.hash[This(P)]))
        /\ P.cmd = "start" => Reached(mgr, P, StartDecision(P))
        /\ P.cmd = "restart" => Reached(mgr, P, [P EXCEPT !.pc = "restart"])
    BY <1>1, <2>1, InspectReached
  <2> QED
    BY <1>2, <2>1, <2>2, <2>3 DEF P
<1>7. CASE ReadDependencyLoadState(p) \/ ReadDependencyActiveState(p)
  <2>1. /\ P.pc \in {"depLoad", "depActive"} /\ P.todo # <<>> /\ mgr' = mgr
        /\ \/ Moves(p, [P EXCEPT !.pc = "depActive"])
           \/ Moves(p, CheckDeps(P, Tail(P.deps)))
           \/ Moves(p, NextService(Note(P, TRUE)))
    BY <1>1, <1>7 DEF ReadDependencyLoadState, ReadDependencyActiveState, Reads
  <2> HIDE DEF P
  <2>2. /\ Reached(mgr, P, [P EXCEPT !.pc = "depActive"])
        /\ Reached(mgr, P, CheckDeps(P, Tail(P.deps)))
        /\ Reached(mgr, P, NextService(Note(P, TRUE)))
    BY <1>1, <2>1, DependencyReached
  <2> QED
    BY <1>2, <2>1, <2>2 DEF P
<1>8. CASE TearDown(p) \/ TearDownDirty(p)
  <2>1. /\ P.pc \in Teardowns /\ Moves(p, AfterCall(P))
        /\ \E dirty : mgr' = Effect(mgr, Head(P.calls), dirty)
    BY <1>8 DEF TearDown, TearDownDirty, Asks
  <2> HIDE DEF P
  <2> QED
    BY <1>1, <1>2, <2>1, TeardownReached DEF P
<1>9. CASE Create(p)
  <2>1. /\ P.pc = "create" /\ P.todo # <<>> /\ mgr' = CreateMain(mgr, This(P), Desired(P))
        /\ Moves(p, IF ~CanCreate(mgr, This(P), Desired(P)) THEN Idle(TRUE)
                    ELSE IF Monitored(P) THEN [P EXCEPT !.pc = "createTimer"] ELSE NextService(P))
    BY <1>1, <1>9 DEF Create, Asks
  <2> HIDE DEF P
  <2> QED
    BY <1>1, <1>2, <2>1, CreateReached DEF P
<1>10. CASE CreateHealthTimer(p)
  <2>1. /\ P.pc = "createTimer" /\ P.todo # <<>> /\ mgr' = CreateTimer(mgr, This(P))
        /\ Moves(p, IF CanCreateTimer(mgr, This(P)) THEN NextService(P) ELSE Idle(TRUE))
    BY <1>1, <1>10 DEF CreateHealthTimer, Asks
  <2> HIDE DEF P
  <2> QED
    BY <1>1, <1>2, <2>1, CreateTimerReached DEF P
<1>11. CASE StartExisting(p) \/ RestartExisting(p)
  <2>1. /\ P.pc \in {"start", "restart"} /\ P.todo # <<>>
        /\ mgr' \in IF Startable(mgr, This(P)) THEN {StartMain(mgr, This(P)), RestartMain(mgr, This(P))}
                    ELSE {mgr}
        /\ Moves(p, Started(P, Startable(mgr, This(P))))
    BY <1>1, <1>11 DEF StartExisting, RestartExisting, Asks
  <2> HIDE DEF P
  <2> QED
    BY <1>1, <1>2, <2>1, StartReached DEF P
<1>12. CASE StartHealthTimer(p)
  <2>1. /\ P.pc = "startTimer" /\ P.todo # <<>> /\ mgr' = mgr
        /\ Moves(p, NextService(Note(P, ~CanStartTimer(mgr, This(P)))))
    BY <1>1, <1>12 DEF StartHealthTimer, Reads
  <2> HIDE DEF P
  <2> QED
    BY <1>1, <1>2, <2>1, StartTimerReached DEF P
<1>13. CASE Rejected(p)
  <2>1. /\ mgr' = mgr
        /\ \/ P.pc \in Teardowns /\ Moves(p, FailedCall(P))
           \/ P.pc \in {"start", "restart", "startTimer"} /\ Moves(p, NextService(Note(P, TRUE)))
    BY <1>13 DEF Rejected
  <2> HIDE DEF P
  <2>2. P.pc \in Teardowns => Reached(mgr, P, FailedCall(P))
    BY <1>1, RejectedReached
  <2>3. P.pc \in {"start", "restart", "startTimer"} => Reached(mgr, P, NextService(Note(P, TRUE)))
    BY <1>1, GivenUpReached
  <2> QED
    BY <1>2, <2>1, <2>2, <2>3 DEF P
<1>14. CASE Raise(p)
  <2>1. mgr' = mgr /\ Moves(p, Idle(TRUE))
    BY <1>14 DEF Raise
  <2> QED
    BY <1>2, <2>1, IdleReached
<1> QED
  BY <1>3, <1>4, <1>5, <1>6, <1>7, <1>8, <1>9, <1>10, <1>11, <1>12, <1>13, <1>14 DEF Step, Fault

-----------------------------------------------------------------------------
(* What the environment does to a command that nothing interferes with. *)

\* A probe, or the restart of a service that waits for it.
LEMMA AutoRestartKept ==
    ASSUME NEW m, NEW n, m \in Manager, NEW P, Kept(m, P), Shaped(P), WellFormed(P),
           n.hash = m.hash, Up(n) = Up(m), n.timers = m.timers,
           \A s \in Service : m.active[s] = "inactive" => n.active[s] = "inactive",
           n.failedProbes \subseteq m.failedProbes \cup m.timers
    PROVE  Kept(n, P)
<1>1. ASSUME NEW s \in Done(P), Served(m, P, s) PROVE Served(n, P, s)
  <2>1. s \in Service
    BY DEF Done, Range, WellFormed, Process
  <2> QED
    BY <1>1, <2>1 DEF Served, Runs
<1>2. ASSUME NEW u \in OrphanUnit, OrphanGone(m, u) PROVE OrphanGone(n, u)
  <2>1. u.of \in Service
    BY DEF OrphanUnit
  <2> QED
    BY <1>2, <2>1 DEF OrphanGone, ProbesLoaded
<1>3. AtPoint(m, P) => AtPoint(n, P)
  BY DEF AtPoint, Runs
<1>4. AllGone(m, P) => AllGone(n, P)
  BY <1>2 DEF AllGone, Unlisted
<1>5. LoopHeld(m, P) => LoopHeld(n, P)
  BY <1>1, <1>4 DEF LoopHeld
<1>6. PurgePoint(m, P) => PurgePoint(n, P)
  <2>1. ASSUME NEW u, Cleaned(m, P.calls, u) PROVE Cleaned(n, P.calls, u)
    BY <2>1 DEF Cleaned
  <2> QED
    BY <1>2, <2>1 DEF PurgePoint, Unlisted
<1> QED
  BY <1>1, <1>3, <1>5, <1>6 DEF Kept

\* The process as `Begin` sets it up.
LEMMA BeginFields ==
    ASSUME Inv, NEW p \in Proc, NEW r \in Requests, Begin(p, r)
    PROVE  LET Q == proc'[p] IN
           /\ Shaped(Q) /\ Kept(mgr, Q) /\ Q.pc # "idle" /\ ~Q.failed
           /\ Q.cmd = r.cmd /\ Q.purge = r.purge /\ Q.file = file
           /\ Q.names = (IF r.names = <<>> THEN file.order ELSE r.names)
           /\ Range(Q.todo) = Range(Q.names)
           /\ r.cmd = "up" => Q.pc = "orphans"
           /\ mgr' = mgr /\ file' = file /\ \A q \in Proc \ {p} : proc'[q] = proc[q]
<1> DEFINE names == IF r.names = <<>> THEN file.order ELSE r.names
           todo == IF r.cmd \in {"stop", "down"} THEN Reverse(names) ELSE names
           P == [Idle(FALSE) EXCEPT !.cmd = r.cmd, !.purge = r.purge, !.file = file,
                                    !.names = names, !.todo = todo]
           O == [P EXCEPT !.pc = "orphans"]
           Q == IF r.cmd = "up" THEN O ELSE Enter(P)
<1>1. /\ Range(names) \subseteq Listed(file)
      /\ proc' = [proc EXCEPT ![p] = Q] /\ file' = file /\ mgr' = mgr
  BY DEF Begin
<1>2. file \in Files /\ Files # {} /\ proc \in [Proc -> Process]
  BY DEF Inv, TypeOK
<1>3. /\ r.cmd \in Commands /\ r.names \in Seq(Service) /\ r.purge \in BOOLEAN
      /\ r.purge => r.cmd \in {"up", "down"}
  BY RequestsAssumption DEF Request
<1>4. names \in Seq(Service) /\ names # <<>>
  BY <1>2, <1>3, ListedServices
<1> HIDE DEF names
<1>5. /\ todo \in Seq(Service) /\ todo # <<>> /\ Range(todo) = Range(names)
      /\ r.cmd \in Forward => todo = names
  <2>1. todo \in Seq(Service) /\ todo # <<>>
    BY <1>1, <1>2, <1>4, ReversedNames
  <2>2. Range(Reverse(names)) = Range(names)
    BY <1>4, RangeReverse
  <2> QED
    BY <2>1, <2>2 DEF Forward
<1> HIDE DEF todo
<1>6. Idle(FALSE) \in Process /\ Idle(FALSE).failed = FALSE
  BY <1>2, IdleType DEF WellFormed, Idle
<1>7. /\ P \in Process /\ P.cmd = r.cmd /\ P.purge = r.purge /\ P.file = file
      /\ P.names = names /\ P.todo = todo /\ P.failed = FALSE
  BY <1>2, <1>3, <1>4, <1>5, <1>6 DEF Process
<1> HIDE DEF P
<1>8. Remains(names, names)
  BY <1>4, RemainsAll
<1>9. /\ SameCommand(P, Q) /\ Q.todo = todo /\ Q.failed = FALSE /\ Q.pc # "idle"
      /\ r.cmd = "up" => Q.pc = "orphans"
      /\ Shaped(Q) /\ Kept(mgr, Q)
  <2>1. CASE r.cmd = "up"
    <3>1. /\ SameCommand(P, O) /\ O.todo = todo /\ O.failed = FALSE /\ O.pc = "orphans"
      BY <1>7, PcFields
    <3> HIDE DEF O
    <3>2. O.cmd = "up" /\ O.names = names /\ O.file = file /\ O.purge = r.purge
      BY <1>7, <2>1, <3>1 DEF SameCommand
    <3>3. Done(O) = {}
      BY <1>5, <3>1, <3>2 DEF Done
    <3>4. Shaped(O)
      BY <1>1, <1>3, <1>5, <1>8, <2>1, <3>1, <3>2 DEF Shaped, Forward
    <3>5. Kept(mgr, O)
      BY <3>1, <3>3 DEF Kept, AtPoint
    <3> QED
      BY <2>1, <3>1, <3>4, <3>5
  <2>2. CASE r.cmd # "up"
    <3>1. Shaped(Enter(P))
      BY <1>1, <1>3, <1>5, <1>7, <1>8, EnterShaped
    <3>2. Reached(mgr, P, Enter(P))
      BY <1>5, <1>7, <2>2, <3>1, EnterReached
    <3>3. /\ SameCommand(P, Enter(P)) /\ Enter(P).todo = P.todo /\ Enter(P).failed = P.failed
          /\ Enter(P).pc \in {"load", "teardown"}
      BY <1>7, EnterFields
    <3> QED
      BY <1>7, <2>2, <3>1, <3>2, <3>3 DEF Reached
  <2> QED
    BY <2>1, <2>2
<1> HIDE DEF Q
<1>10. proc'[p] = Q /\ \A q \in Proc \ {p} : proc'[q] = proc[q]
  BY <1>1, <1>2
<1>11. /\ Q.cmd = r.cmd /\ Q.purge = r.purge /\ Q.file = file /\ Q.names = names
       /\ Range(Q.todo) = Range(Q.names)
  BY <1>5, <1>7, <1>9 DEF SameCommand
<1>12. proc'[p].failed = FALSE
  BY <1>9, <1>10
<1> QED
  BY <1>1, <1>9, <1>10, <1>11, <1>12 DEF names

-----------------------------------------------------------------------------
(* What holds of the commands that nothing interferes with. *)

AllShaped == \A p \in Proc : Shaped(proc[p])

\* Such a command runs alone, and may count on what it read and did.
QuietKept == \A p \in quiet : quiet = {p} /\ Busy \subseteq {p} /\ Kept(mgr, proc[p])

QuietInv == AllShaped /\ QuietKept

LEMMA InitQuiet ==
    ASSUME Init
    PROVE  QuietInv
<1>1. \A p \in Proc : proc[p].pc = "idle"
  BY DEF Init, Idle
<1> QED
  BY <1>1 DEF Init, QuietInv, AllShaped, QuietKept, Shaped

LEMMA EnvironmentQuiet ==
    ASSUME Inv, QuietInv, Environment
    PROVE  QuietInv'
<1>1. proc' = proc /\ quiet' \in {quiet, {}} /\ ManagerInv(mgr) /\ mgr \in Manager
  BY DEF Inv, ManagerInv, Environment, EditFile, Crash, Flap, AutoRestart, ProbeFails, ProbeSucceeds,
         Disturbed
<1>2. AllShaped'
  BY <1>1 DEF QuietInv, AllShaped
<1>3. CASE EditFile
  BY <1>1, <1>2, <1>3 DEF EditFile, QuietInv, QuietKept, Busy
<1>4. CASE Crash \/ Flap
  BY <1>2, <1>4 DEF Crash, Flap, Disturbed, QuietInv, QuietKept
<1>5. CASE AutoRestart \/ ProbeFails \/ ProbeSucceeds
  <2>1. /\ mgr'.hash = mgr.hash /\ Up(mgr') = Up(mgr) /\ mgr'.timers = mgr.timers
        /\ \A s \in Service : mgr.active[s] = "inactive" => mgr'.active[s] = "inactive"
        /\ mgr'.failedProbes \subseteq mgr.failedProbes \cup mgr.timers
    <3>1. ASSUME NEW s \in Service, mgr.active[s] = "activating", mgr' = Restarted(mgr, s)
          PROVE  /\ mgr'.hash = mgr.hash /\ Up(mgr') = Up(mgr) /\ mgr'.timers = mgr.timers
                 /\ \A t \in Service : mgr.active[t] = "inactive" => mgr'.active[t] = "inactive"
                 /\ mgr'.failedProbes = mgr.failedProbes
      <4>1. s \in Up(mgr)
        BY <3>1 DEF Up, RunningStates
      <4>2. mgr' = [mgr EXCEPT !.active = [mgr.active EXCEPT ![s] = "active"]]
        BY <3>1 DEF Restarted
      <4>3. mgr'.active = [mgr.active EXCEPT ![s] = "active"] /\ mgr'.timers = mgr.timers
            /\ mgr'.failedProbes = mgr.failedProbes
        BY <1>1, <4>2 DEF Manager
      <4>4. \A t \in Service : mgr.active[t] = "inactive" => mgr'.active[t] = "inactive"
        BY <1>1, <3>1, <4>3 DEF Manager
      <4> QED
        BY <1>1, <3>1, <4>1, <4>3, <4>4, RestartedInv
    <3>2. ASSUME NEW s \in mgr.timers, NEW healthy \in BOOLEAN, mgr' = RunProbe(mgr, s, healthy)
          PROVE  /\ mgr'.hash = mgr.hash /\ Up(mgr') = Up(mgr) /\ mgr'.timers = mgr.timers
                 /\ mgr'.active = mgr.active
                 /\ mgr'.failedProbes \subseteq mgr.failedProbes \cup mgr.timers
      <4> DEFINE failing == IF healthy THEN mgr.failedProbes \ {s} ELSE mgr.failedProbes \cup {s}
      <4>1. mgr' = [mgr EXCEPT !.failedProbes = failing] /\ failing \subseteq mgr.failedProbes \cup mgr.timers
        BY <3>2 DEF RunProbe
      <4> HIDE DEF failing
      <4>2. /\ mgr'.active = mgr.active /\ mgr'.timers = mgr.timers /\ mgr'.failedProbes = failing
        BY <1>1, <4>1 DEF Manager
      <4>3. mgr'.hash = mgr.hash /\ Up(mgr') = Up(mgr)
        BY <1>1, <3>2, RunProbeInv
      <4> QED
        BY <4>1, <4>2, <4>3
    <3> QED
      BY <1>5, <3>1, <3>2 DEF AutoRestart, ProbeFails, ProbeSucceeds
  <2>2. quiet' = quiet
    BY <1>5 DEF AutoRestart, ProbeFails, ProbeSucceeds
  <2>3. ASSUME NEW p \in quiet PROVE Kept(mgr', proc[p])
    <3>1. p \in Proc /\ Kept(mgr, proc[p]) /\ Shaped(proc[p]) /\ WellFormed(proc[p])
      BY <2>3 DEF QuietInv, QuietKept, AllShaped, Inv, TypeOK
    <3> QED
      BY <1>1, <2>1, <3>1, AutoRestartKept
  <2>4. Busy' = Busy
    BY <1>1 DEF Busy
  <2> QED
    BY <1>1, <1>2, <2>2, <2>3, <2>4 DEF QuietInv, QuietKept
<1> QED
  BY <1>3, <1>4, <1>5 DEF Environment

\* A step is made by a process that is busy.
LEMMA StepBusy ==
    ASSUME NEW p \in Proc, Step(p) \/ Fault(p)
    PROVE  p \in Busy /\ Interfere(p)
<1>1. proc[p].pc # "idle"
  BY DEF Step, Fault, ListOrphans, ReadLoadState, ReadActiveState, ReadDescription,
         ReadDependencyLoadState, ReadDependencyActiveState, TearDown, Create, CreateHealthTimer,
         StartExisting, RestartExisting, StartHealthTimer, TearDownDirty, Rejected, Raise, Teardowns
<1>2. Interfere(p)
  BY DEF Step, Fault, ListOrphans, ReadLoadState, ReadActiveState, ReadDescription,
         ReadDependencyLoadState, ReadDependencyActiveState, TearDown, Create, CreateHealthTimer,
         StartExisting, RestartExisting, StartHealthTimer, TearDownDirty, Rejected, Raise,
         Reads, Asks, Moves
<1> QED
  BY <1>1, <1>2 DEF Busy

LEMMA NextQuiet ==
    ASSUME Inv, QuietInv, [Next]_vars
    PROVE  QuietInv'
<1>1. CASE UNCHANGED vars
  BY <1>1 DEF vars, QuietInv, AllShaped, QuietKept, Busy
<1>2. CASE Environment
  BY <1>2, EnvironmentQuiet
<1>3. ASSUME NEW p \in Proc, NEW r \in Requests, Begin(p, r) PROVE QuietInv'
  <2>1. /\ Shaped(proc'[p]) /\ Kept(mgr', proc'[p]) /\ \A q \in Proc \ {p} : proc'[q] = proc[q]
    BY <1>3, BeginFields
  <2>2. AllShaped'
    BY <2>1 DEF QuietInv, AllShaped
  <2>3. quiet' = IF Busy = {} THEN {p} ELSE {}
    BY <1>3 DEF Begin
  <2>4. Busy = {} => Busy' \subseteq {p}
    BY <2>1 DEF Busy
  <2> QED
    BY <2>1, <2>2, <2>3, <2>4 DEF QuietInv, QuietKept
<1>4. ASSUME NEW p \in Proc, Step(p) \/ Fault(p) PROVE QuietInv'
  <2>1. p \in Busy /\ quiet' = IF Busy \subseteq {p} THEN quiet ELSE {}
    BY <1>4, StepBusy DEF Interfere
  <2>2. Shaped(proc[p])
    BY DEF QuietInv, AllShaped
  <2>3. Shaped(proc'[p]) /\ \A q \in Proc \ {p} : proc'[q] = proc[q]
    BY <1>4, <2>2, StepShaped
  <2>4. AllShaped'
    BY <2>3 DEF QuietInv, AllShaped
  <2>5. Kept(mgr, proc[p]) => Kept(mgr', proc'[p])
    BY <1>4, <2>2, StepReached DEF Reached
  <2>6. Busy' \subseteq Busy
    BY <2>1, <2>3 DEF Busy
  <2> QED
    BY <2>1, <2>4, <2>5, <2>6 DEF QuietInv, QuietKept
<1> QED
  BY <1>1, <1>2, <1>3, <1>4 DEF Next

\* A command that succeeds, and that nothing interfered with, has done its work.
LEMMA Finished ==
    ASSUME Inv, QuietInv, [Next]_vars, NEW p \in Proc, ExitsOk(p), Alone(p)
    PROVE  Fulfilled(mgr', proc[p]) /\ ManagerInv(mgr')
<1>1. proc[p].pc # "idle" /\ proc'[p].pc = "idle" /\ ~proc'[p].failed /\ p \in quiet
  BY DEF ExitsOk, Alone
<1>2. ManagerInv(mgr')
  BY NextInv DEF Inv
<1>3. Shaped(proc[p]) /\ Kept(mgr, proc[p])
  BY <1>1 DEF QuietInv, AllShaped, QuietKept
<1>4. CASE UNCHANGED vars
  BY <1>1, <1>4 DEF vars
<1>5. CASE Environment
  <2>1. proc' = proc
    BY <1>5 DEF Environment, EditFile, Crash, Flap, AutoRestart, ProbeFails, ProbeSucceeds
  <2> QED
    BY <1>1, <2>1
<1>6. ASSUME NEW q \in Proc, NEW r \in Requests, Begin(q, r) PROVE FALSE
  <2>1. q # p
    BY <1>1, <1>6 DEF Begin
  <2> QED
    BY <1>1, <1>6, <2>1, BeginFields
<1>7. ASSUME NEW q \in Proc, Step(q) \/ Fault(q) PROVE Fulfilled(mgr', proc[p])
  <2>1. Shaped(proc[q])
    BY DEF QuietInv, AllShaped
  <2>2. q = p
    BY <1>1, <1>7, <2>1, StepShaped
  <2>3. Reached(mgr', proc[p], proc'[p])
    BY <1>3, <1>7, <2>2, StepReached
  <2> QED
    BY <1>1, <2>3 DEF Reached
<1> QED
  BY <1>2, <1>4, <1>5, <1>6, <1>7 DEF Next

\* Every `up` that reports success, and that nothing interfered with, leaves every
\* service it names running with the definition of the file, when the names come in
\* dependency order and with their dependencies.
THEOREM UpSucceeds == Spec => UpHonest
<1>1. ASSUME Inv, QuietInv, [Next]_vars, NEW p \in Proc, ExitsOk(p), Alone(p), proc[p].cmd = "up",
             DependencyFirst(proc[p].file, proc[p].names),
             WithDependencies(proc[p].file, proc[p].names)
      PROVE  Aligned(mgr', proc[p].file, proc[p].names)
  <2>1. \A s \in Range(proc[p].names) : Served(mgr', proc[p], s)
    BY <1>1, Finished DEF Fulfilled
  <2> QED
    BY <1>1, <2>1 DEF Served, Ordered, Aligned
<1>2. Inv /\ QuietInv /\ [Next]_vars => Inv' /\ QuietInv'
  BY NextInv, NextQuiet
<1>3. Inv /\ QuietInv /\ [Next]_vars =>
      [\A p \in Proc :
        /\ ExitsOk(p) /\ Alone(p) /\ proc[p].cmd = "up"
        /\ DependencyFirst(proc[p].file, proc[p].names)
        /\ WithDependencies(proc[p].file, proc[p].names)
        => Aligned(mgr', proc[p].file, proc[p].names)]_vars
  BY <1>1
<1> QED
  BY <1>2, <1>3, InitInv, InitQuiet, PTL DEF Spec, UpHonest

\* Every `start` or `restart` that reports success, and that nothing interfered
\* with, leaves every service it names running.
THEOREM StartSucceeds == Spec => StartHonest
<1>1. ASSUME Inv, QuietInv, [Next]_vars, NEW p \in Proc, ExitsOk(p), Alone(p),
             proc[p].cmd \in {"start", "restart"}
      PROVE  Range(proc[p].names) \subseteq Up(mgr')
  <2>1. \A s \in Range(proc[p].names) : Served(mgr', proc[p], s)
    BY <1>1, Finished DEF Fulfilled
  <2> QED
    BY <1>1, <2>1 DEF Served
<1>2. Inv /\ QuietInv /\ [Next]_vars => Inv' /\ QuietInv'
  BY NextInv, NextQuiet
<1>3. Inv /\ QuietInv /\ [Next]_vars =>
      [\A p \in Proc : ExitsOk(p) /\ Alone(p) /\ proc[p].cmd \in {"start", "restart"}
                       => Range(proc[p].names) \subseteq Up(mgr')]_vars
  BY <1>1
<1> QED
  BY <1>2, <1>3, InitInv, InitQuiet, PTL DEF Spec, StartHonest

\* Every `stop` or `down` that reports success, and that nothing interfered with,
\* leaves no service it names running or monitored, and `down` none of them failed.
THEOREM StopSucceeds == Spec => StopHonest
<1>1. ASSUME Inv, QuietInv, [Next]_vars, NEW p \in Proc, ExitsOk(p), Alone(p),
             proc[p].cmd \in {"stop", "down"}, NEW s \in Range(proc[p].names)
      PROVE  /\ s \notin Up(mgr') \cup mgr'.timers
             /\ proc[p].cmd = "down" => mgr'.active[s] = "inactive"
  <2>1. Served(mgr', proc[p], s) /\ ManagerInv(mgr')
    BY <1>1, Finished DEF Fulfilled
  <2>2. s \notin Up(mgr') /\ (proc[p].cmd = "down" => mgr'.active[s] = "inactive")
    BY <1>1, <2>1 DEF Served, Up, RunningStates
  <2> QED
    BY <2>1, <2>2 DEF ManagerInv, MonitoredUp
<1>2. Inv /\ QuietInv /\ [Next]_vars => Inv' /\ QuietInv'
  BY NextInv, NextQuiet
<1>3. Inv /\ QuietInv /\ [Next]_vars =>
      [\A p \in Proc :
        ExitsOk(p) /\ Alone(p) /\ proc[p].cmd \in {"stop", "down"}
        => \A s \in Range(proc[p].names) :
            /\ s \notin Up(mgr') \cup mgr'.timers
            /\ proc[p].cmd = "down" => mgr'.active[s] = "inactive"]_vars
  BY <1>1
<1> QED
  BY <1>2, <1>3, InitInv, InitQuiet, PTL DEF Spec, StopHonest

\* Every `up` or `down` of the whole file with --remove-orphans that reports success,
\* and that nothing interfered with, leaves nothing of a service that is not listed.
THEOREM PurgeSucceeds == Spec => PurgeHonest
<1>1. ASSUME Inv, QuietInv, [Next]_vars, NEW p \in Proc, ExitsOk(p), Alone(p),
             proc[p].purge, proc[p].names = proc[p].file.order,
             DependencyFirst(proc[p].file, proc[p].names),
             NEW s \in Service \ Listed(proc[p].file)
      PROVE  mgr'.active[s] = "inactive" /\ s \notin ProbesLoaded(mgr')
  <2>1. AllGone(mgr', proc[p])
    BY <1>1, Finished DEF Fulfilled, FullPurge
  <2> DEFINE main == [of |-> s, kind |-> "main"]
             probe == [of |-> s, kind |-> "probe"]
  <2>2. main \in Unlisted(proc[p]) /\ probe \in Unlisted(proc[p])
    BY DEF Unlisted, OrphanUnit
  <2>3. OrphanGone(mgr', main) /\ OrphanGone(mgr', probe)
    BY <2>1, <2>2 DEF AllGone
  <2> QED
    BY <2>3 DEF OrphanGone
<1>2. Inv /\ QuietInv /\ [Next]_vars => Inv' /\ QuietInv'
  BY NextInv, NextQuiet
<1>3. Inv /\ QuietInv /\ [Next]_vars =>
      [\A p \in Proc :
        /\ ExitsOk(p) /\ Alone(p) /\ proc[p].purge
        /\ proc[p].names = proc[p].file.order /\ DependencyFirst(proc[p].file, proc[p].names)
        => \A s \in Service \ Listed(proc[p].file) :
            mgr'.active[s] = "inactive" /\ s \notin ProbesLoaded(mgr')]_vars
  BY <1>1
<1> QED
  BY <1>2, <1>3, InitInv, InitQuiet, PTL DEF Spec, PurgeHonest

-----------------------------------------------------------------------------
(* What a command takes down. *)

LEMMA DependentsGrow ==
    ASSUME NEW req, NEW T, NEW U, T \subseteq U
    PROVE  DependentsOf(req, T) \subseteq DependentsOf(req, U)
  BY DEF DependentsOf

\* Only the calls of a teardown stop anything.
LEMMA OnlyTeardownsStop ==
    ASSUME Inv, NEW p \in Proc, Step(p) \/ Fault(p)
    PROVE  \/ Up(mgr) \subseteq Up(mgr')
           \/ /\ proc[p].pc \in Teardowns
              /\ \E dirty : mgr' = Effect(mgr, Head(proc[p].calls), dirty)
<1> DEFINE P == proc[p]
<1>1. /\ WellFormed(P) /\ ManagerInv(mgr)
      /\ P.pc \notin {"idle", "orphans", "purge"} => This(P) \in Service /\ Desired(P) \in Hashes
  BY CurrentProcess, ThisListed
<1>2. CASE TearDown(p) \/ TearDownDirty(p)
  BY <1>2 DEF TearDown, TearDownDirty, Asks
<1>3. CASE Create(p)
  <2>1. mgr' = CreateMain(mgr, This(P), Desired(P)) /\ P.pc = "create"
    BY <1>3 DEF Create, Asks
  <2> QED
    BY <1>1, <2>1, CreateMainInv
<1>4. CASE CreateHealthTimer(p)
  <2>1. mgr' = CreateTimer(mgr, This(P)) /\ P.pc = "createTimer"
    BY <1>4 DEF CreateHealthTimer, Asks
  <2> QED
    BY <1>1, <2>1, CreateTimerInv
<1>5. CASE StartExisting(p) \/ RestartExisting(p)
  <2>1. /\ P.pc \in {"start", "restart"}
        /\ \/ mgr' = mgr
           \/ Startable(mgr, This(P)) /\ mgr' = StartMain(mgr, This(P))
           \/ Startable(mgr, This(P)) /\ mgr' = RestartMain(mgr, This(P))
    BY <1>5 DEF StartExisting, RestartExisting, Asks
  <2>2. This(P) \in Service
    BY <1>1, <2>1
  <2> HIDE DEF P
  <2> QED
    BY <1>1, <2>1, <2>2, StartMainInv, RestartMainInv
<1>6. CASE \/ ListOrphans(p) \/ ReadLoadState(p) \/ ReadActiveState(p) \/ ReadDescription(p)
           \/ ReadDependencyLoadState(p) \/ ReadDependencyActiveState(p)
           \/ StartHealthTimer(p) \/ Rejected(p) \/ Raise(p)
  <2>1. mgr' = mgr
    BY <1>6 DEF ListOrphans, ReadLoadState, ReadActiveState, ReadDescription, StartHealthTimer,
                ReadDependencyLoadState, ReadDependencyActiveState, Rejected, Raise, Reads
  <2> QED
    BY <2>1
<1> QED
  BY <1>2, <1>3, <1>4, <1>5, <1>6 DEF Step, Fault

\* The service a teardown of `up` takes down is one it has a reason to.
LEMMA TeardownReason ==
    ASSUME Inv, NEW p \in Proc, Shaped(proc[p]), Kept(mgr, proc[p]), proc[p].pc \in Teardowns,
           proc[p].cmd = "up", NEW dirty
    PROVE  Up(mgr) \ Up(Effect(mgr, Head(proc[p].calls), dirty)) \subseteq MayTakeDown(proc[p])
<1> DEFINE P == proc[p]
           c == Head(P.calls)
           changed == {s \in Range(P.names) : mgr.hash[s] # Hash(P.file, s)}
           orphans == IF P.purge THEN Service \ Listed(P.file) ELSE {}
<1>1. /\ WellFormed(P) /\ Shaped(P) /\ P.pc \in Teardowns /\ ManagerInv(mgr)
  BY CurrentProcess
<1>2. /\ P \in Process /\ P.calls \in Seq(Call) /\ P.calls # <<>> /\ c \in Call /\ c.of \in Service
      /\ P.pc # "purge" => P.todo # <<>> /\ This(P) \in Service
  BY <1>1, TeardownFacts DEF Call
<1>3. c.of \in changed \cup orphans
  <2>1. CASE P.pc = "recreate"
    <3>1. Remains(P.calls, RecreateCalls(This(P))) /\ Range(P.todo) \subseteq Range(P.names)
      BY <2>1 DEF Shaped
    <3>2. c.of = This(P)
      BY <1>2, <2>1, <3>1, CommandCalls
    <3>3. This(P) \in Range(P.names)
      <4>1. P.todo \in Seq(Service)
        BY <1>2 DEF Process
      <4>2. This(P) \in Range(P.todo)
        BY <1>2, <2>1, <4>1, RangeTail DEF This
      <4> QED
        BY <3>1, <4>2
    <3>4. mgr.hash[This(P)] # Hash(P.file, This(P))
      BY <2>1 DEF Kept, AtPoint, Desired
    <3> QED
      BY <3>2, <3>3, <3>4
  <2>2. CASE P.pc = "purge"
    <3>1. P.purge
      BY <1>1, <2>2, TeardownFacts
    <3>2. PICK u \in Unlisted(P) : Remains(P.calls, OrphanCalls(u))
      BY <1>1, <2>2, TeardownFacts
    <3>3. u.of \in Service /\ u.of \notin Listed(P.file)
      BY DEF Unlisted, OrphanUnit
    <3>4. c.of = u.of
      BY <1>2, <3>2, <3>3, CleanupCalls DEF OrphanCalls
    <3> QED
      BY <3>1, <3>3, <3>4
  <2>3. P.pc # "teardown"
    BY DEF Shaped
  <2> QED
    BY <1>1, <2>1, <2>2, <2>3 DEF Teardowns
<1>4. Up(mgr) \ Up(Effect(mgr, c, dirty)) \subseteq BoundTo(mgr, c.of)
  BY <1>1, <1>2, EffectSinks
<1>5. BoundTo(mgr, c.of) \subseteq DependentsOf(Requires(mgr), changed \cup orphans)
  BY <1>3, DependentsGrow DEF BoundTo
<1>6. MayTakeDown(P) = DependentsOf(Requires(mgr), changed \cup orphans)
  BY DEF MayTakeDown
<1> QED
  BY <1>4, <1>5, <1>6

\* No `up` takes down a service it has no reason to: an orphan it was told to
\* remove, a named service whose definition changed, or what depends on one.
THEOREM UpStopsNothingNeedlessly == Spec => NoNeedlessStop
<1>1. ASSUME Inv, QuietInv, [Next]_vars, NEW p \in Proc,
             proc[p].cmd = "up", proc[p].pc # "idle", proc' # proc, quiet = {p}
      PROVE  Up(mgr) \ Up(mgr') \subseteq MayTakeDown(proc[p])
  <2>1. Shaped(proc[p]) /\ Kept(mgr, proc[p]) /\ Busy \subseteq {p}
    BY <1>1 DEF QuietInv, AllShaped, QuietKept
  <2>2. ~(UNCHANGED vars) /\ ~Environment
    BY <1>1 DEF vars, Environment, EditFile, Crash, Flap, AutoRestart, ProbeFails, ProbeSucceeds
  <2>3. ASSUME NEW q \in Proc, NEW r \in Requests, Begin(q, r)
        PROVE  Up(mgr) \ Up(mgr') \subseteq MayTakeDown(proc[p])
    BY <2>3 DEF Begin
  <2>4. ASSUME NEW q \in Proc, Step(q) \/ Fault(q)
        PROVE  Up(mgr) \ Up(mgr') \subseteq MayTakeDown(proc[p])
    <3>1. q = p
      BY <2>1, <2>4, StepBusy
    <3>2. \/ Up(mgr) \subseteq Up(mgr')
          \/ /\ proc[p].pc \in Teardowns
             /\ \E dirty : mgr' = Effect(mgr, Head(proc[p].calls), dirty)
      BY <1>1, <2>4, <3>1, OnlyTeardownsStop
    <3> QED
      BY <1>1, <2>1, <3>2, TeardownReason
  <2> QED
    BY <1>1, <2>2, <2>3, <2>4 DEF Next
<1>2. Inv /\ QuietInv /\ [Next]_vars => Inv' /\ QuietInv'
  BY NextInv, NextQuiet
<1>3. Inv /\ QuietInv /\ [Next]_vars =>
      [\A p \in Proc :
        /\ proc[p].cmd = "up" /\ proc[p].pc # "idle" /\ proc' # proc
        /\ quiet = {p}
        => Up(mgr) \ Up(mgr') \subseteq MayTakeDown(proc[p])]_vars
  BY <1>1
<1> QED
  BY <1>2, <1>3, InitInv, InitQuiet, PTL DEF Spec, NoNeedlessStop

-----------------------------------------------------------------------------
(* Full `up`s of one file that run at the same time. *)

\* A full `up` of the file f that has gone well so far: what it is through with
\* has the definition of f, or was taken down and unloaded by another one.
Steadied(m, f, P) == P.pc # "idle" =>
    /\ P.cmd = "up" /\ P.file = f /\ P.names = f.order /\ ~P.purge /\ ~P.failed
    /\ \A s \in Done(P) : m.hash[s] \in {Hash(f, s), NoHash}
    /\ P.pc \in {"start", "startTimer", "createTimer"} =>
         m.hash[This(P)] \in {Hash(f, This(P)), NoHash}

\* The current service runs already, or was found to.
Passed(m, P) ==
    \/ P.pc \in {"startTimer", "createTimer"}
    \/ P.pc = "hash" /\ P.active \in RunningStates /\ m.hash[This(P)] = Desired(P)

\* The services it still has to bring up.
Left(m, P) ==
    IF P.pc = "idle" THEN {}
    ELSE IF Passed(m, P) THEN Range(Tail(P.todo)) ELSE Range(P.todo)

\* A service changes to no definition but that of f, and then runs.
Definitions(m, n, f) == \A s \in Service :
    n.hash[s] \in {m.hash[s], NoHash} \/ (n.hash[s] = Hash(f, s) /\ s \in Up(n))

\* It goes on, and what ran or was left runs or is left, or it fails.
Proceeds(m, P, n, Q, f) == Q.failed \/
    /\ Steadied(n, f, Q)
    /\ \A s \in Listed(f) :
         Runs(m, s, Hash(f, s)) \/ s \in Left(m, P) => Runs(n, s, Hash(f, s)) \/ s \in Left(n, Q)

LEMMA DefinitionsSteadied ==
    ASSUME NEW m, NEW n, NEW f \in Files, NEW P, WellFormed(P), Shaped(P),
           Steadied(m, f, P), Definitions(m, n, f),
           P.pc \notin {"idle", "orphans", "purge"} => P.todo # <<>>
    PROVE  /\ Steadied(n, f, P)
           /\ \A s \in Left(m, P) : Runs(n, s, Hash(f, s)) \/ s \in Left(n, P)
<1>1. P \in Process /\ P.todo \in Seq(Service) /\ Done(P) \subseteq Service
  BY DEF WellFormed, Process, Done, Range
<1>2. P.pc \notin {"idle", "orphans", "purge"} =>
        /\ This(P) \in Service /\ Desired(P) \in Hashes
        /\ Range(P.todo) = {This(P)} \cup Range(Tail(P.todo))
  BY <1>1, ThisListed, RangeTail DEF This
<1>3. Steadied(n, f, P)
  <2>1. \A s \in Service : m.hash[s] \in {Hash(f, s), NoHash} => n.hash[s] \in {Hash(f, s), NoHash}
    BY DEF Definitions
  <2> QED
    BY <1>1, <1>2, <2>1 DEF Steadied
<1>4. ASSUME NEW s \in Left(m, P) PROVE Runs(n, s, Hash(f, s)) \/ s \in Left(n, P)
  <2>1. CASE Passed(m, P) \/ ~Passed(n, P)
    <3>1. P.pc # "idle"
      BY <1>4 DEF Left
    <3>2. Passed(m, P) => Range(Tail(P.todo)) \subseteq Range(P.todo)
      BY <1>2 DEF Passed
    <3> QED
      BY <1>4, <2>1, <3>1, <3>2 DEF Left
  <2>2. CASE ~Passed(m, P) /\ Passed(n, P)
    <3>1. /\ P.pc = "hash" /\ m.hash[This(P)] # Desired(P) /\ n.hash[This(P)] = Desired(P)
      BY <2>2 DEF Passed
    <3>2. This(P) \in Service /\ Desired(P) = Hash(f, This(P)) /\ Desired(P) # NoHash
      BY <1>2, <3>1, NoHashAssumption DEF Steadied, Desired
    <3>3. Runs(n, This(P), Hash(f, This(P)))
      BY <3>1, <3>2 DEF Definitions, Runs
    <3>4. s = This(P) \/ s \in Range(Tail(P.todo))
      BY <1>2, <1>4, <2>2, <3>1 DEF Left
    <3> QED
      BY <2>2, <3>1, <3>3, <3>4 DEF Left
  <2> QED
    BY <2>1, <2>2
<1> QED
  BY <1>3, <1>4

LEMMA ProceedsOn ==
    ASSUME NEW m, NEW P, NEW n, NEW R, NEW k, NEW Q, NEW f,
           Proceeds(m, P, n, R, f), Proceeds(n, R, k, Q, f), ~R.failed
    PROVE  Proceeds(m, P, k, Q, f)
  BY DEF Proceeds

LEMMA GivenUpFailed ==
    ASSUME NEW P, WellFormed(P), P.todo # <<>>
    PROVE  Idle(TRUE).failed /\ NextService(Note(P, TRUE)).failed
<1> DEFINE R == Note(P, TRUE)
<1>1. WellFormed(R) /\ R.todo = P.todo /\ R.failed = TRUE
  <2>1. P \in Process
    BY DEF WellFormed
  <2> QED
    BY <2>1, NoteType, NoteFields
<1> HIDE DEF R
<1>2. NextService(R).failed = TRUE
  BY <1>1, NextServiceFields DEF Idle
<1>3. Idle(TRUE).failed = TRUE
  BY DEF Idle
<1> QED
  BY <1>2, <1>3 DEF R

\* The loop goes on to the next service.
LEMMA NextServiceProceeds ==
    ASSUME NEW m, NEW f \in Files, NEW P, WellFormed(P), Shaped(P), P.pc # "idle", P.todo # <<>>,
           Steadied(m, f, P), m.hash[This(P)] \in {Hash(f, This(P)), NoHash},
           Passed(m, P) \/ Runs(m, This(P), Hash(f, This(P)))
    PROVE  Proceeds(m, P, m, NextService(P), f)
<1> DEFINE Q == NextService(P)
<1>1. /\ P.todo \in Seq(Service) /\ P.cmd = "up" /\ P.failed = FALSE
      /\ P.names = f.order /\ P.file = f /\ ~P.purge
  BY DEF WellFormed, Process, Steadied
<1>2. Range(P.todo) = {This(P)} \cup Range(Tail(P.todo))
  BY <1>1, RangeTail DEF This
<1>3. \/ Q = Idle(FALSE) /\ Tail(P.todo) = <<>>
      \/ SameCommand(P, Q) /\ Q.todo = Tail(P.todo) /\ Q.failed = FALSE /\ Q.pc = "load"
  BY <1>1, NextServiceFields DEF Forward
<1> HIDE DEF Q
<1>4. Steadied(m, f, Q) /\ Left(m, Q) = Range(Tail(P.todo))
  <2>1. CASE Q = Idle(FALSE) /\ Tail(P.todo) = <<>>
    <3>1. Q.pc = "idle" /\ Range(Tail(P.todo)) = {}
      BY <2>1 DEF Idle, Range
    <3> QED
      BY <3>1 DEF Steadied, Left
  <2>2. CASE SameCommand(P, Q) /\ Q.todo = Tail(P.todo) /\ Q.failed = FALSE /\ Q.pc = "load"
    <3>1. Left(m, Q) = Range(Tail(P.todo))
      BY <2>2 DEF Left, Passed
    <3>2. \A s \in Done(Q) : s \in Done(P) \/ s = This(P)
      BY <1>2, <2>2 DEF Done, SameCommand
    <3> QED
      BY <1>1, <2>2, <3>1, <3>2 DEF Steadied, SameCommand
  <2> QED
    BY <1>3, <2>1, <2>2
<1>5. ASSUME NEW s \in Left(m, P) PROVE Runs(m, s, Hash(f, s)) \/ s \in Left(m, Q)
  BY <1>2, <1>4, <1>5 DEF Left
<1> QED
  BY <1>4, <1>5 DEF Proceeds, Q

\* Another point of the same service.
LEMMA PointProceeds ==
    ASSUME NEW m, NEW f, NEW P, WellFormed(P), P.todo # <<>>, P.pc # "idle", Steadied(m, f, P),
           NEW Q, Q.pc # "idle", SameCommand(P, Q), Q.todo = P.todo, Q.failed = P.failed,
           Q.pc \in {"start", "startTimer", "createTimer"} =>
             m.hash[This(P)] \in {Hash(f, This(P)), NoHash},
           Passed(m, Q) => Runs(m, This(P), Hash(f, This(P)))
    PROVE  Proceeds(m, P, m, Q, f)
<1>1. This(Q) = This(P) /\ Done(Q) = Done(P)
  BY DEF This, Done, SameCommand
<1>2. Range(P.todo) = {This(P)} \cup Range(Tail(P.todo))
  BY RangeTail DEF WellFormed, Process, This
<1>3. Steadied(m, f, Q)
  BY <1>1 DEF Steadied, SameCommand
<1>4. \A s \in Left(m, P) : Runs(m, s, Hash(f, s)) \/ s \in Left(m, Q)
  BY <1>2 DEF Left
<1> QED
  BY <1>3, <1>4 DEF Proceeds

\* A request that starts the current service.
LEMMA LiftsProceeds ==
    ASSUME NEW m, NEW n, NEW f \in Files, NEW P, WellFormed(P), Shaped(P), P.todo # <<>>,
           P.pc \notin {"idle", "orphans", "purge"}, Steadied(m, f, P), Lifts(m, n, This(P)),
           n.hash = m.hash \/ n.hash[This(P)] = Hash(f, This(P))
    PROVE  Proceeds(m, P, n, P, f) /\ Definitions(m, n, f)
<1>1. Definitions(m, n, f)
  <2> SUFFICES ASSUME NEW s \in Service
               PROVE  n.hash[s] \in {m.hash[s], NoHash} \/ (n.hash[s] = Hash(f, s) /\ s \in Up(n))
    BY DEF Definitions
  <2>1. CASE s = This(P)
    BY <2>1 DEF Lifts
  <2>2. CASE s # This(P)
    BY <2>2 DEF Lifts
  <2> QED
    BY <2>1, <2>2
<1>2. /\ Steadied(n, f, P)
      /\ \A s \in Left(m, P) : Runs(n, s, Hash(f, s)) \/ s \in Left(n, P)
  BY <1>1, DefinitionsSteadied
<1>3. ASSUME NEW s \in Listed(f), Runs(m, s, Hash(f, s)) PROVE Runs(n, s, Hash(f, s))
  <2>1. s \in Service /\ s \in Up(n)
    BY <1>3 DEF Runs, Lifts, Up
  <2>2. CASE s = This(P)
    BY <1>3, <2>1, <2>2 DEF Runs
  <2>3. CASE s # This(P)
    BY <1>3, <2>1, <2>3 DEF Runs, Lifts
  <2> QED
    BY <2>2, <2>3
<1> QED
  BY <1>1, <1>2, <1>3 DEF Proceeds

\* A call of a teardown: what it stops depends on the current service, and is
\* looked at after it.
LEMMA SinksProceeds ==
    ASSUME NEW m, ManagerInv(m), NEW f \in Files, DependencyFirst(f, f.order),
           NEW P, WellFormed(P), Shaped(P), P.pc = "recreate", Steadied(m, f, P), NEW dirty
    PROVE  LET n == Effect(m, Head(P.calls), dirty) IN
           Proceeds(m, P, n, P, f) /\ Definitions(m, n, f)
<1> DEFINE c == Head(P.calls)
           n == Effect(m, c, dirty)
<1>1. /\ P \in Process /\ P.calls \in Seq(Call) /\ P.calls # <<>> /\ c \in Call
      /\ P.todo # <<>> /\ This(P) \in Service /\ m \in Manager /\ ManagerInv(n)
  BY TeardownFacts, EffectInv DEF Teardowns, ManagerInv
<1>2. P.cmd = "up" /\ P.file = f /\ P.names = f.order
  BY <1>1 DEF Steadied
<1>3. c.of = This(P)
  <2>1. Remains(P.calls, RecreateCalls(This(P)))
    BY DEF Shaped
  <2> QED
    BY <1>1, <2>1, CommandCalls
<1>4. /\ Sinks(m, n)
      /\ Up(n) = IF c.verb = "stop" /\ c.kind = "main" THEN Up(m) \ BoundTo(m, c.of) ELSE Up(m)
  BY <1>1, EffectSinks
<1> HIDE DEF c, n
<1>5. Definitions(m, n, f)
  BY <1>4 DEF Definitions, Sinks
<1>6. /\ Steadied(n, f, P)
      /\ \A s \in Left(m, P) : Runs(n, s, Hash(f, s)) \/ s \in Left(n, P)
  BY <1>1, <1>5, DefinitionsSteadied
<1>7. BoundTo(m, This(P)) \cap Done(P) = {}
  <2>1. Done(P) \subseteq Service /\ This(P) \notin Done(P)
    <3>1. This(P) \in Range(P.todo)
      BY <1>1, RangeTail DEF This, Process
    <3> QED
      BY <1>1, <3>1 DEF Done, Process, Range
  <2>2. \A t \in Done(P) : DependsOn(f.def[t]) \subseteq Done(P)
    BY <1>1, <1>2, FullOrdered, OrderedDone DEF Forward
  <2>3. ASSUME NEW t \in Done(P) PROVE Requires(m)[t] \subseteq Done(P)
    <3>1. m.hash[t] \in {Hash(f, t), NoHash} /\ t \in Service
      BY <2>1 DEF Steadied
    <3>2. Hash(f, t).own = f.def[t]
      BY DEF Hash
    <3> QED
      BY <1>1, <2>2, <3>1, <3>2, RequiresType DEF Loaded
  <2> QED
    BY <1>1, <2>1, <2>3, ClosedKept
<1>8. ASSUME NEW s \in Listed(f), Runs(m, s, Hash(f, s))
      PROVE  Runs(n, s, Hash(f, s)) \/ s \in Left(n, P)
  <2>1. CASE s \in Range(P.todo)
    BY <2>1 DEF Left, Passed
  <2>2. CASE s \notin Range(P.todo)
    <3>1. s \in Done(P)
      BY <1>2, <2>2 DEF Done, Listed
    <3>2. s \in Up(n) /\ s \in Service
      BY <1>3, <1>4, <1>7, <1>8, <3>1 DEF Runs, Up
    <3>3. s \in Loaded(n)
      BY <1>1, <3>2, UpFacts
    <3>4. n.hash[s] = m.hash[s]
      BY <1>4, <3>2, <3>3 DEF Sinks, Loaded
    <3> QED
      BY <1>8, <3>2, <3>4 DEF Runs
  <2> QED
    BY <2>1, <2>2
<1>9. Proceeds(m, P, n, P, f)
  BY <1>6, <1>8 DEF Proceeds
<1> QED
  BY <1>5, <1>9 DEF n, c

\* What follows a call of a teardown.
LEMMA AfterCallProceeds ==
    ASSUME NEW m, NEW f, NEW P, WellFormed(P), Shaped(P), P.pc = "recreate", Steadied(m, f, P)
    PROVE  Proceeds(m, P, m, AfterCall(P), f)
<1> DEFINE Q == AfterCall(P)
<1>1. P \in Process /\ P.todo # <<>>
  BY TeardownFacts DEF Teardowns
<1>2. \/ /\ SameCommand(P, Q) /\ Q.todo = P.todo /\ Q.failed = P.failed
         /\ Q.pc \in {"recreate", "create", "depLoad"}
      \/ Q = Idle(TRUE)
  <2>1. P.file.def[This(P)].deps \in Seq(Service)
    BY <1>1, ThisListed
  <2> DEFINE R == CheckDeps(P, P.file.def[This(P)].deps)
  <2>2. SameCommand(P, R) /\ R.todo = P.todo /\ R.failed = P.failed /\ R.pc \in {"create", "depLoad"}
    BY <1>1, <2>1, CheckDepsFields
  <2> HIDE DEF R
  <2>3. Q = R \/ Q = Idle(TRUE)
        \/ (SameCommand(P, Q) /\ Q.todo = P.todo /\ Q.failed = P.failed /\ Q.pc = P.pc)
    BY AfterCallCases DEF Teardowns, R
  <2> HIDE DEF Q
  <2> QED
    BY <2>2, <2>3
<1> HIDE DEF Q
<1>3. CASE Q = Idle(TRUE)
  BY <1>1, <1>3, GivenUpFailed DEF Proceeds, Q
<1>4. CASE /\ SameCommand(P, Q) /\ Q.todo = P.todo /\ Q.failed = P.failed
           /\ Q.pc \in {"recreate", "create", "depLoad"}
  <2>1. ~Passed(m, Q)
    BY <1>4 DEF Passed
  <2>2. Proceeds(m, P, m, Q, f)
    BY <1>1, <1>4, <2>1, PointProceeds
  <2> QED
    BY <2>2 DEF Q
<1> QED
  BY <1>2, <1>3, <1>4

\* Every step of a full `up` that does not fail.
LEMMA StepProceeds ==
    ASSUME Inv, NEW p \in Proc, Shaped(proc[p]), Steadied(mgr, file, proc[p]),
           DependencyFirst(file, file.order), Step(p) \/ Fault(p)
    PROVE  \/ proc'[p].failed
           \/ Proceeds(mgr, proc[p], mgr', proc'[p], file) /\ Definitions(mgr, mgr', file)
<1> DEFINE P == proc[p]
           Good(n, Q) == Q.failed \/ (Proceeds(mgr, P, n, Q, file) /\ Definitions(mgr, n, file))
<1>1. /\ WellFormed(P) /\ P \in Process /\ ManagerInv(mgr) /\ file \in Files
      /\ P.pc \notin {"idle", "orphans", "purge"} =>
           /\ P.todo # <<>> /\ This(P) \in Service /\ Desired(P) \in Hashes
           /\ P.file.def[This(P)].deps \in Seq(Service)
      /\ P.pc \in {"depLoad", "depActive"} => Tail(P.deps) \in Seq(Service)
      /\ Shaped(P) /\ Steadied(mgr, file, P) /\ Idle(TRUE).failed = TRUE
  BY CurrentProcess, ThisListed DEF Inv, TypeOK, Idle
<1>2. P.pc # "idle"
  BY StepBusy DEF Busy
<1>3. /\ P.cmd = "up" /\ P.file = file /\ ~P.purge /\ P.failed = FALSE
      /\ Desired(P) = Hash(file, This(P))
  BY <1>1, <1>2 DEF Steadied, Process, Desired
<1>4. Definitions(mgr, mgr, file)
  BY DEF Definitions
<1>5. ASSUME NEW Q, Moves(p, Q) PROVE proc'[p] = Q
  BY <1>5, MovesFields
<1>6. ASSUME P.todo # <<>>, NEW n PROVE Good(n, Idle(TRUE)) /\ Good(n, NextService(Note(P, TRUE)))
  BY <1>1, <1>6, GivenUpFailed
\* A point of the same service that is reached without a request.
<1>7. ASSUME P.todo # <<>>, NEW Q, SameCommand(P, Q), Q.todo = P.todo, Q.failed = P.failed,
             \/ Q.pc \in {"load", "active", "depActive", "create", "depLoad", "recreate"}
             \/ Q.pc = "hash" /\ P.pc = "active" /\ Q.active = mgr.active[This(P)]
             \/ Q.pc = "start" /\ mgr.hash[This(P)] = Desired(P)
      PROVE  Good(mgr, Q)
  <2>1. Passed(mgr, Q) => Runs(mgr, This(P), Hash(file, This(P)))
    <3> SUFFICES ASSUME Q.pc = "hash", P.pc = "active", mgr.active[This(P)] \in RunningStates,
                        mgr.hash[This(Q)] = Desired(Q)
                 PROVE  Runs(mgr, This(P), Hash(file, This(P)))
      BY <1>7 DEF Passed
    <3>1. This(Q) = This(P) /\ Desired(Q) = Desired(P)
      BY <1>7 DEF This, Desired, SameCommand
    <3> QED
      BY <1>1, <1>3, <3>1 DEF Runs, Up
  <2>2. Q.pc # "idle" /\ (Q.pc \in {"start", "startTimer", "createTimer"} =>
             mgr.hash[This(P)] \in {Hash(file, This(P)), NoHash})
    BY <1>3, <1>7
  <2>3. Proceeds(mgr, P, mgr, Q, file)
    BY <1>1, <1>2, <1>7, <2>1, <2>2, PointProceeds
  <2> QED
    BY <1>4, <2>3
<1> HIDE DEF Good
<1>8. CASE ListOrphans(p)
  <2>1. P.pc = "orphans" /\ mgr' = mgr /\ Moves(p, Enter(P))
    BY <1>3, <1>8 DEF ListOrphans, Reads
  <2>2. P.todo # <<>>
    BY <1>1, <1>3, <2>1 DEF WellFormed
  <2>3. /\ SameCommand(P, Enter(P)) /\ Enter(P).todo = P.todo /\ Enter(P).failed = P.failed
        /\ Enter(P).pc = "load"
    BY <1>1, <1>3, EnterFields DEF Forward
  <2> HIDE DEF P
  <2>4. Good(mgr, Enter(P))
    BY <1>7, <2>2, <2>3
  <2> QED
    BY <1>5, <2>1, <2>4 DEF Good, P
<1>9. CASE ReadLoadState(p)
  <2>1. /\ P.pc = "load" /\ P.todo # <<>> /\ mgr' = mgr
        /\ \/ Moves(p, [P EXCEPT !.pc = "active"])
           \/ Moves(p, CheckDeps(P, P.file.def[This(P)].deps))
           \/ Moves(p, NextService(Note(P, TRUE)))
    BY <1>1, <1>9 DEF ReadLoadState, Reads
  <2> HIDE DEF P
  <2>2. /\ Good(mgr, [P EXCEPT !.pc = "active"])
        /\ Good(mgr, CheckDeps(P, P.file.def[This(P)].deps))
        /\ Good(mgr, NextService(Note(P, TRUE)))
    BY <1>1, <1>6, <1>7, <2>1, PcFields, CheckDepsFields
  <2> QED
    BY <1>5, <2>1, <2>2 DEF Good, P
<1>10. CASE ReadActiveState(p)
  <2> DEFINE active == mgr.active[This(P)]
             Q == [P EXCEPT !.pc = "hash", !.active = active]
  <2>1. P.pc = "active" /\ P.todo # <<>> /\ mgr' = mgr /\ Moves(p, Q)
    BY <1>1, <1>10 DEF ReadActiveState, Reads
  <2> HIDE DEF active
  <2>2. SameCommand(P, Q) /\ Q.todo = P.todo /\ Q.failed = P.failed /\ Q.pc = "hash" /\ Q.active = active
    BY <1>1 DEF Process, SameCommand
  <2> HIDE DEF Q, P
  <2>3. Good(mgr, Q)
    BY <1>7, <2>1, <2>2 DEF active
  <2> QED
    BY <1>5, <2>1, <2>3 DEF Good, P
<1>11. CASE ReadDescription(p)
  <2> DEFINE Q == UpDecision(P, mgr.hash[This(P)])
  <2>1. P.pc = "hash" /\ P.todo # <<>> /\ mgr' = mgr /\ Moves(p, Q)
    BY <1>1, <1>3, <1>11 DEF ReadDescription, Reads
  <2>2. CASE Q = NextService(P) /\ mgr.hash[This(P)] = Desired(P) /\ P.active \in RunningStates
    <3>1. Passed(mgr, P)
      BY <2>1, <2>2 DEF Passed
    <3>2. Proceeds(mgr, P, mgr, Q, file)
      BY <1>1, <1>2, <1>3, <2>1, <2>2, <3>1, NextServiceProceeds
    <3> QED
      BY <1>4, <1>5, <2>1, <3>2
  <2>3. CASE /\ SameCommand(P, Q) /\ Q.todo = P.todo /\ Q.failed = P.failed
             /\ \/ Q.pc = "start" /\ mgr.hash[This(P)] = Desired(P)
                \/ Q.pc = "recreate" /\ mgr.hash[This(P)] # Desired(P) /\ Q.calls = RecreateCalls(This(P))
    <3> HIDE DEF Q, P
    <3>1. Good(mgr, Q)
      BY <1>7, <2>1, <2>3
    <3> QED
      BY <1>5, <2>1, <3>1 DEF Good, P
  <2> QED
    BY <1>1, <2>2, <2>3, UpDecisionCases
<1>12. CASE ReadDependencyLoadState(p) \/ ReadDependencyActiveState(p)
  <2>1. /\ P.pc \in {"depLoad", "depActive"} /\ P.todo # <<>> /\ mgr' = mgr
        /\ \/ Moves(p, [P EXCEPT !.pc = "depActive"])
           \/ Moves(p, CheckDeps(P, Tail(P.deps)))
           \/ Moves(p, NextService(Note(P, TRUE)))
    BY <1>1, <1>12 DEF ReadDependencyLoadState, ReadDependencyActiveState, Reads
  <2> HIDE DEF P
  <2>2. /\ Good(mgr, [P EXCEPT !.pc = "depActive"])
        /\ Good(mgr, CheckDeps(P, Tail(P.deps)))
        /\ Good(mgr, NextService(Note(P, TRUE)))
    BY <1>1, <1>6, <1>7, <2>1, PcFields, CheckDepsFields
  <2> QED
    BY <1>5, <2>1, <2>2 DEF Good, P
<1>13. CASE TearDown(p) \/ TearDownDirty(p)
  <2>1. /\ P.pc \in Teardowns /\ Moves(p, AfterCall(P))
        /\ \E dirty : mgr' = Effect(mgr, Head(P.calls), dirty)
    BY <1>13 DEF TearDown, TearDownDirty, Asks
  <2>2. P.pc = "recreate"
    BY <1>1, <1>3, <2>1 DEF Teardowns, Shaped
  <2> HIDE DEF P
  <2>3. Proceeds(mgr, P, mgr', P, file) /\ Definitions(mgr, mgr', file)
    BY <1>1, <2>1, <2>2, SinksProceeds
  <2>4. Steadied(mgr', file, P)
    BY <1>3, <2>3 DEF Proceeds
  <2>5. Proceeds(mgr', P, mgr', AfterCall(P), file)
    BY <1>1, <2>2, <2>4, AfterCallProceeds
  <2>6. Proceeds(mgr, P, mgr', AfterCall(P), file)
    BY <1>3, <2>3, <2>5, ProceedsOn
  <2> QED
    BY <1>5, <2>1, <2>3, <2>6 DEF P
<1>14. ASSUME P.pc \in {"create", "createTimer", "start"}, Lifts(mgr, mgr', This(P)),
              mgr'.hash = mgr.hash \/ mgr'.hash[This(P)] = Desired(P),
              mgr'.hash[This(P)] \in {Desired(P), NoHash}, ManagerInv(mgr'),
              NEW Q, \/ Q = NextService(P)
                     \/ SameCommand(P, Q) /\ Q.todo = P.todo /\ Q.failed = P.failed
                        /\ Q.pc \in {"createTimer", "startTimer"}
       PROVE  Good(mgr', Q)
  <2>1. P.todo # <<>> /\ This(P) \in Service
    BY <1>1, <1>14
  <2> HIDE DEF P
  <2>2. Proceeds(mgr, P, mgr', P, file) /\ Definitions(mgr, mgr', file)
    BY <1>1, <1>3, <1>14, <2>1, LiftsProceeds
  <2>3. Steadied(mgr', file, P)
    BY <1>3, <2>2 DEF Proceeds
  <2>4. Runs(mgr', This(P), Hash(file, This(P)))
    <3>1. This(P) \in Up(mgr')
      BY <1>14 DEF Lifts
    <3>2. This(P) \in Loaded(mgr')
      BY <1>14, <3>1, UpFacts
    <3> QED
      BY <1>3, <1>14, <3>1, <3>2 DEF Runs, Loaded
  <2>5. Proceeds(mgr', P, mgr', Q, file)
    <3>1. CASE Q = NextService(P)
      BY <1>1, <1>2, <2>1, <2>3, <2>4, <3>1, NextServiceProceeds DEF Runs
    <3>2. CASE SameCommand(P, Q) /\ Q.todo = P.todo /\ Q.failed = P.failed
               /\ Q.pc \in {"createTimer", "startTimer"}
      BY <1>1, <1>2, <2>1, <2>3, <2>4, <3>2, PointProceeds DEF Runs
    <3> QED
      BY <1>14, <3>1, <3>2
  <2>6. Proceeds(mgr, P, mgr', Q, file)
    BY <1>3, <2>2, <2>5, ProceedsOn
  <2> QED
    BY <2>2, <2>6 DEF Good, P
<1>15. CASE Create(p)
  <2> DEFINE n == CreateMain(mgr, This(P), Desired(P))
             R == [P EXCEPT !.pc = "createTimer"]
  <2>1. /\ P.pc = "create" /\ P.todo # <<>> /\ mgr' = n
        /\ Moves(p, IF ~CanCreate(mgr, This(P), Desired(P)) THEN Idle(TRUE)
                    ELSE IF Monitored(P) THEN R ELSE NextService(P))
    BY <1>1, <1>15 DEF Create, Asks
  <2>2. CASE ~CanCreate(mgr, This(P), Desired(P))
    BY <1>1, <1>5, <2>1, <2>2
  <2>3. CASE CanCreate(mgr, This(P), Desired(P))
    <3>1. Lifts(mgr, n, This(P)) /\ n.hash[This(P)] = Desired(P) /\ ManagerInv(n)
      BY <1>1, <2>1, <2>3, CreateLifts, CreateMainInv
    <3>2. SameCommand(P, R) /\ R.todo = P.todo /\ R.failed = P.failed /\ R.pc = "createTimer"
      BY <1>1, PcFields
    <3> HIDE DEF n, R, P
    <3>3. Good(mgr', R) /\ Good(mgr', NextService(P))
      BY <1>14, <2>1, <3>1, <3>2
    <3> QED
      BY <1>5, <2>1, <2>3, <3>3 DEF Good, P
  <2> QED
    BY <2>2, <2>3
<1>16. CASE CreateHealthTimer(p)
  <2> DEFINE n == CreateTimer(mgr, This(P))
  <2>1. /\ P.pc = "createTimer" /\ P.todo # <<>> /\ mgr' = n
        /\ Moves(p, IF CanCreateTimer(mgr, This(P)) THEN NextService(P) ELSE Idle(TRUE))
    BY <1>1, <1>16 DEF CreateHealthTimer, Asks
  <2>2. CASE ~CanCreateTimer(mgr, This(P))
    BY <1>1, <1>5, <2>1, <2>2
  <2>3. CASE CanCreateTimer(mgr, This(P))
    <3>1. Lifts(mgr, n, This(P)) /\ n.hash = mgr.hash /\ ManagerInv(n)
      BY <1>1, <2>1, <2>3, TimerLifts, CreateTimerInv
    <3>2. mgr.hash[This(P)] \in {Desired(P), NoHash}
      BY <1>1, <1>3, <2>1 DEF Steadied
    <3> HIDE DEF n, P
    <3>3. Good(mgr', NextService(P))
      BY <1>14, <2>1, <3>1, <3>2
    <3> QED
      BY <1>5, <2>1, <2>3, <3>3 DEF Good, P
  <2> QED
    BY <2>2, <2>3
<1>17. CASE StartExisting(p) \/ RestartExisting(p)
  <2> DEFINE ok == Startable(mgr, This(P))
             Q == Started(P, ok)
  <2>1. /\ P.pc = "start" /\ P.todo # <<>> /\ mgr' = IF ok THEN StartMain(mgr, This(P)) ELSE mgr
        /\ Moves(p, Q)
    BY <1>1, <1>3, <1>17 DEF StartExisting, RestartExisting, Asks, Shaped
  <2>2. ok \in BOOLEAN
    BY DEF Startable
  <2>3. CASE ~ok /\ Q = NextService(Note(P, TRUE))
    BY <1>5, <1>6, <2>1, <2>3 DEF Good
  <2>4. CASE /\ ok
             /\ \/ Q = NextService(P)
                \/ SameCommand(P, Q) /\ Q.todo = P.todo /\ Q.failed = P.failed /\ Q.pc = "startTimer"
    <3>1. /\ Lifts(mgr, mgr', This(P)) /\ mgr'.hash = mgr.hash /\ ManagerInv(mgr')
      BY <1>1, <2>1, <2>4, StartLifts, StartMainInv
    <3>2. mgr.hash[This(P)] \in {Desired(P), NoHash}
      BY <1>1, <1>3, <2>1 DEF Steadied
    <3> HIDE DEF Q, ok, P
    <3>3. Good(mgr', Q)
      BY <1>14, <2>1, <2>4, <3>1, <3>2
    <3> QED
      BY <1>5, <2>1, <3>3 DEF Good, P
  <2> QED
    BY <1>1, <2>2, <2>3, <2>4, StartedCases
<1>18. CASE StartHealthTimer(p)
  <2> DEFINE b == ~CanStartTimer(mgr, This(P))
             R == Note(P, b)
  <2>1. P.pc = "startTimer" /\ P.todo # <<>> /\ mgr' = mgr /\ Moves(p, NextService(R))
    BY <1>1, <1>18 DEF StartHealthTimer, Reads
  <2>2. b \in BOOLEAN
    BY DEF CanStartTimer
  <2>3. CASE b
    <3>1. R = Note(P, TRUE)
      BY <2>3
    <3> QED
      BY <1>5, <1>6, <2>1, <3>1 DEF Good
  <2>4. CASE ~b
    <3> HIDE DEF b
    <3>1. /\ SameCommand(P, R) /\ R.todo = P.todo /\ R.failed = FALSE /\ R.pc = P.pc
          /\ WellFormed(R) /\ Shaped(R)
      BY <1>1, <1>3, <2>2, <2>4, NoteFields, NoteType, NoteShaped
    <3> HIDE DEF R, P
    <3>2. mgr.hash[This(P)] \in {Desired(P), NoHash} /\ This(R) = This(P)
      BY <1>1, <1>3, <2>1, <3>1 DEF Steadied, This
    <3>3. Proceeds(mgr, P, mgr, R, file)
      <4>1. Done(R) = Done(P) /\ Left(mgr, R) = Left(mgr, P)
        BY <2>1, <3>1 DEF Done, Left, Passed, SameCommand
      <4>2. Steadied(mgr, file, R)
        BY <1>1, <1>3, <3>1, <3>2, <4>1 DEF Steadied, SameCommand
      <4> QED
        BY <4>1, <4>2 DEF Proceeds
    <3>4. Proceeds(mgr, R, mgr, NextService(R), file)
      <4>1. Passed(mgr, R) /\ Steadied(mgr, file, R)
        BY <2>1, <3>1, <3>3 DEF Passed, Proceeds
      <4> QED
        BY <1>1, <1>2, <1>3, <2>1, <3>1, <3>2, <4>1, NextServiceProceeds
    <3>5. Proceeds(mgr, P, mgr, NextService(R), file)
      BY <3>1, <3>3, <3>4, ProceedsOn
    <3> QED
      BY <1>4, <1>5, <2>1, <3>5 DEF P
  <2> QED
    BY <2>3, <2>4
<1>19. CASE Rejected(p)
  <2>1. /\ mgr' = mgr
        /\ \/ P.pc \in Teardowns /\ Moves(p, FailedCall(P))
           \/ P.pc \in {"start", "restart", "startTimer"} /\ Moves(p, NextService(Note(P, TRUE)))
    BY <1>19 DEF Rejected
  <2>2. CASE P.pc \in {"start", "restart", "startTimer"} /\ Moves(p, NextService(Note(P, TRUE)))
    BY <1>1, <1>5, <1>6, <2>2 DEF Good
  <2>3. CASE P.pc \in Teardowns /\ Moves(p, FailedCall(P))
    <3>1. P.pc = "recreate"
      BY <1>1, <1>3, <2>3 DEF Teardowns, Shaped
    <3>2. PICK R : /\ FailedCall(P) = AfterCall(R)
                   /\ WellFormed(R) /\ Shaped(R) /\ SameCommand(P, R)
                   /\ R.pc = P.pc /\ R.todo = P.todo /\ R.calls = P.calls
                   /\ R.failed \/ (P.pc = "recreate" /\ R.failed = P.failed)
      BY <1>1, <2>3, FailedCallCases
    <3>3. P.todo # <<>>
      BY <1>1, <3>1
    <3> HIDE DEF P
    <3>4. CASE R.failed
      <4>1. AfterCall(R).failed
        <5>1. R.file.def[This(R)].deps \in Seq(Service) /\ R \in Process
          BY <3>1, <3>2, <3>3, ThisListed DEF WellFormed
        <5>2. CheckDeps(R, R.file.def[This(R)].deps).failed = R.failed
          BY <5>1, CheckDepsFields
        <5>3. Idle(TRUE).failed
          BY DEF Idle
        <5> QED
          BY <3>1, <3>2, <3>4, <5>2, <5>3, AfterCallCases DEF Teardowns
      <4> QED
        BY <1>5, <2>3, <3>2, <4>1
    <3>5. CASE R.failed = P.failed
      <4>1. Proceeds(mgr, P, mgr, R, file)
        BY <1>1, <1>2, <3>1, <3>2, <3>3, <3>5, PointProceeds DEF Passed
      <4>2. Steadied(mgr, file, R) /\ ~R.failed
        BY <1>3, <3>5, <4>1 DEF Proceeds
      <4>3. Proceeds(mgr, R, mgr, AfterCall(R), file)
        BY <3>1, <3>2, <4>2, AfterCallProceeds
      <4>4. Proceeds(mgr, P, mgr, AfterCall(R), file)
        BY <4>1, <4>2, <4>3, ProceedsOn
      <4> QED
        BY <1>4, <1>5, <2>1, <2>3, <3>2, <4>4 DEF P
    <3> QED
      BY <3>2, <3>4, <3>5
  <2> QED
    BY <2>1, <2>2, <2>3
<1>20. CASE Raise(p)
  <2>1. Moves(p, Idle(TRUE))
    BY <1>20 DEF Raise
  <2> QED
    BY <1>1, <1>5, <2>1
<1> QED
  BY <1>8, <1>9, <1>10, <1>11, <1>12, <1>13, <1>15, <1>16, <1>17, <1>18, <1>19, <1>20 DEF Step, Fault

\* While `steady` holds, every command that runs is a full `up` of the present file
\* that has gone well, and each listed service runs with its definition or is still
\* to be brought up by one of them.
SteadyInv == steady /\ DependencyFirst(file, file.order) =>
    /\ \A p \in Proc : Steadied(mgr, file, proc[p])
    /\ \A s \in Listed(file) :
         Runs(mgr, s, Hash(file, s)) \/ \E p \in Proc : s \in Left(mgr, proc[p])

LEMMA InitSteady ==
    ASSUME Init
    PROVE  SteadyInv
  BY DEF Init, SteadyInv

LEMMA BeginSteady ==
    ASSUME Inv, SteadyInv, NEW p \in Proc, NEW r \in Requests, Begin(p, r)
    PROVE  SteadyInv'
<1> DEFINE Q == proc'[p]
<1>1. /\ mgr' = mgr /\ file' = file /\ Q.pc # "idle" /\ ~Q.failed
      /\ Q.cmd = r.cmd /\ Q.purge = r.purge /\ Q.file = file
      /\ Q.names = (IF r.names = <<>> THEN file.order ELSE r.names)
      /\ Range(Q.todo) = Range(Q.names)
      /\ r.cmd = "up" => Q.pc = "orphans"
      /\ \A q \in Proc \ {p} : proc'[q] = proc[q]
  BY BeginFields
<1> HIDE DEF Q
<1> SUFFICES ASSUME steady', DependencyFirst(file, file.order)
             PROVE  /\ \A q \in Proc : Steadied(mgr, file, proc'[q])
                    /\ \A s \in Listed(file) :
                         Runs(mgr, s, Hash(file, s)) \/ \E q \in Proc : s \in Left(mgr, proc'[q])
  BY <1>1 DEF SteadyInv
<1>2. FullUp(r) /\ (steady \/ Busy = {})
  BY DEF Begin
<1>3. Q.pc = "orphans" /\ Q.cmd = "up" /\ Q.names = file.order /\ ~Q.purge
  BY <1>1, <1>2 DEF FullUp
<1>4. Done(Q) = {}
  BY <1>1 DEF Done
<1>5. Steadied(mgr, file, Q) /\ Left(mgr, Q) = Listed(file)
  BY <1>1, <1>3, <1>4 DEF Steadied, Left, Passed, Listed
<1>6. ASSUME NEW q \in Proc \ {p} PROVE Steadied(mgr, file, proc[q])
  BY <1>2 DEF SteadyInv, Steadied, Busy
<1> QED
  BY <1>1, <1>5, <1>6 DEF Q

\* A probe or an automatic restart leaves what runs and its definition alone.
LEMMA EnvironmentSteady ==
    ASSUME Inv, SteadyInv, Environment
    PROVE  SteadyInv'
<1>1. proc' = proc
  BY DEF Environment, EditFile, Crash, Flap, AutoRestart, ProbeFails, ProbeSucceeds
<1>2. CASE EditFile \/ Crash \/ Flap
  BY <1>2 DEF EditFile, Crash, Flap, Disturbed, SteadyInv
<1>3. CASE AutoRestart \/ ProbeFails \/ ProbeSucceeds
  <2>1. steady' = steady /\ file' = file
    BY <1>3 DEF AutoRestart, ProbeFails, ProbeSucceeds
  <2>2. Up(mgr') = Up(mgr) /\ mgr'.hash = mgr.hash
    <3>1. mgr \in Manager
      BY DEF Inv, ManagerInv
    <3>2. ASSUME NEW s \in Service, mgr.active[s] = "activating", mgr' = Restarted(mgr, s)
          PROVE  Up(mgr') = Up(mgr) /\ mgr'.hash = mgr.hash
      <4>1. s \in Up(mgr)
        BY <3>2 DEF Up, RunningStates
      <4> QED
        BY <3>1, <3>2, <4>1, RestartedInv DEF Inv
    <3>3. ASSUME NEW s \in mgr.timers, NEW healthy \in BOOLEAN, mgr' = RunProbe(mgr, s, healthy)
          PROVE  Up(mgr') = Up(mgr) /\ mgr'.hash = mgr.hash
      BY <3>3, RunProbeInv DEF Inv
    <3> QED
      BY <1>3, <3>2, <3>3 DEF AutoRestart, ProbeFails, ProbeSucceeds
  <2>3. /\ \A s : Runs(mgr', s, Hash(file, s)) <=> Runs(mgr, s, Hash(file, s))
        /\ \A q \in Proc : /\ Steadied(mgr', file, proc[q]) <=> Steadied(mgr, file, proc[q])
                           /\ Left(mgr', proc[q]) = Left(mgr, proc[q])
    BY <2>2 DEF Runs, Steadied, Left, Passed
  <2> QED
    BY <1>1, <2>1, <2>3 DEF SteadyInv
<1> QED
  BY <1>2, <1>3 DEF Environment

LEMMA StepSteady ==
    ASSUME Inv, AllShaped, SteadyInv, NEW p \in Proc, Step(p) \/ Fault(p)
    PROVE  SteadyInv'
<1>1. file' = file /\ steady' = (steady /\ ~proc'[p].failed)
  BY DEF Step, Fault, ListOrphans, ReadLoadState, ReadActiveState, ReadDescription,
         ReadDependencyLoadState, ReadDependencyActiveState, TearDown, Create, CreateHealthTimer,
         StartExisting, RestartExisting, StartHealthTimer, TearDownDirty, Rejected, Raise,
         Reads, Asks, Moves, Steadily
<1>2. file \in Files /\ \A q \in Proc : WellFormed(proc[q]) /\ Shaped(proc[q])
  BY DEF Inv, TypeOK, AllShaped
<1>3. \A q \in Proc \ {p} : proc'[q] = proc[q]
  BY <1>2, StepShaped
<1> SUFFICES ASSUME steady, ~proc'[p].failed, DependencyFirst(file, file.order)
             PROVE  /\ \A q \in Proc : Steadied(mgr', file, proc'[q])
                    /\ \A s \in Listed(file) :
                         Runs(mgr', s, Hash(file, s)) \/ \E q \in Proc : s \in Left(mgr', proc'[q])
  BY <1>1 DEF SteadyInv
<1>4. /\ \A q \in Proc : Steadied(mgr, file, proc[q])
      /\ \A s \in Listed(file) :
           Runs(mgr, s, Hash(file, s)) \/ \E q \in Proc : s \in Left(mgr, proc[q])
  BY DEF SteadyInv
<1>5. Proceeds(mgr, proc[p], mgr', proc'[p], file) /\ Definitions(mgr, mgr', file)
  BY <1>2, <1>4, StepProceeds
<1>6. ASSUME NEW q \in Proc \ {p}
      PROVE  /\ Steadied(mgr', file, proc'[q])
             /\ \A s \in Left(mgr, proc[q]) : Runs(mgr', s, Hash(file, s)) \/ s \in Left(mgr', proc'[q])
  <2>1. proc[q].pc \notin {"idle", "orphans", "purge"} => proc[q].todo # <<>>
    BY CurrentProcess
  <2> QED
    BY <1>2, <1>3, <1>4, <1>5, <2>1, DefinitionsSteadied
<1>7. /\ Steadied(mgr', file, proc'[p])
      /\ \A s \in Listed(file) :
           Runs(mgr, s, Hash(file, s)) \/ s \in Left(mgr, proc[p])
           => Runs(mgr', s, Hash(file, s)) \/ s \in Left(mgr', proc'[p])
  BY <1>5 DEF Proceeds
<1> QED
  BY <1>4, <1>6, <1>7

\* Whatever the interleaving of full `up`s of one file, none of which fails, the
\* project is what the file says when they are done, if nothing else happened and
\* the file lists its services in dependency order.
THEOREM SteadyUpsAlign == Spec => []SteadyAligned
<1>1. Init => Inv /\ QuietInv /\ SteadyInv
  BY InitInv, InitQuiet, InitSteady
<1>2. Inv /\ QuietInv /\ SteadyInv /\ [Next]_vars => Inv' /\ QuietInv' /\ SteadyInv'
  <2> SUFFICES ASSUME Inv, QuietInv, SteadyInv, [Next]_vars PROVE SteadyInv'
    BY NextInv, NextQuiet
  <2>1. CASE UNCHANGED vars
    <3>1. mgr' = mgr /\ file' = file /\ proc' = proc /\ steady' = steady
      BY <2>1 DEF vars
    <3> QED
      BY <3>1 DEF SteadyInv
  <2>2. CASE Environment
    BY <2>2, EnvironmentSteady
  <2>3. ASSUME NEW p \in Proc, NEW r \in Requests, Begin(p, r) PROVE SteadyInv'
    BY <2>3, BeginSteady
  <2>4. ASSUME NEW p \in Proc, Step(p) \/ Fault(p) PROVE SteadyInv'
    BY <2>4, StepSteady DEF QuietInv
  <2> QED
    BY <2>1, <2>2, <2>3, <2>4 DEF Next
<1>3. SteadyInv => SteadyAligned
  <2> SUFFICES ASSUME SteadyInv, steady, Busy = {}, DependencyFirst(file, file.order)
               PROVE  Aligned(mgr, file, file.order)
    BY DEF SteadyAligned
  <2>1. \A p \in Proc : Left(mgr, proc[p]) = {}
    BY DEF Busy, Left
  <2> QED
    BY <2>1 DEF SteadyInv, Aligned, Listed
<1> QED
  BY <1>1, <1>2, <1>3, PTL DEF Spec

=============================================================================
