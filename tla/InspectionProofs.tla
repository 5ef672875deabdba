-------------------------- MODULE InspectionProofs --------------------------
(***************************************************************************)
(* What Inspection keeps true for every set of services and files: its     *)
(* type invariant, that a service shown as unhealthy deserves it, and that *)
(* stats never shows more than was used.                                   *)
(***************************************************************************)
EXTENDS Inspection, UserManagerProofs

\* A failed probe is one of the unit that is loaded, and does not run.
ProbesInv ==
    /\ ManagerInv(mgr)
    /\ probing \subseteq Up(mgr)
    /\ mgr.failedProbes \subseteq seen.failed \ probing

\* A unit accounts for no more than it used since the sample x, beyond its grain.
Bounded(x, s) ==
    /\ x.at <= seen.total[s]
    /\ x.ns # NotSet => cpu[s] - x.ns < seen.total[s] - x.at + Tick

\* The sample y does not show more than was used since x.
Follows(y, x) ==
    x.ns # NotSet /\ y.ns # NotSet => y.ns - x.ns < y.at - x.at + Tick

Accounted(V) ==
    \A s \in Service :
        /\ Bounded(V.previous[s], s)
        /\ Bounded(V.current[s], s)
        /\ Follows(V.current[s], V.previous[s])

CpuInv ==
    /\ \A s \in Service : cpu[s] <= seen.total[s]
    /\ Accounted(view)

Inv == TypeOK /\ ProbesInv /\ CpuInv

-----------------------------------------------------------------------------
(* The commands that look. *)

\* The idle command is well formed, and has taken no sample.
LEMMA IdleOk ==
    ASSUME Files # {}, seen.total \in [Service -> Nat]
    PROVE  WellFormed(Idle) /\ Accounted(Idle)
<1>1. Idle \in View
  BY DEF Idle, View, NoSample, Sample, NotSet, Reads
<1>2. WellFormed(Idle)
  BY <1>1 DEF WellFormed, Idle, Range, Reads
<1>3. Accounted(Idle)
  BY DEF Accounted, Bounded, Follows, Idle, NoSample
<1> QED
  BY <1>2, <1>3

\* Entering the loop keeps the samples, or ends the command.
LEMMA EnterOk ==
    ASSUME Files # {}, seen.total \in [Service -> Nat],
           NEW V \in View, Range(V.todo) \subseteq Listed(V.file), Accounted(V)
    PROVE  WellFormed(Enter(V)) /\ Accounted(Enter(V))
<1> DEFINE W(p) == [V EXCEPT !.pc = p]
<1>1. ASSUME NEW p \in {"print"} \cup Reads, p \in Reads => V.todo # <<>>
      PROVE  WellFormed(W(p)) /\ Accounted(W(p))
  <2>1. W(p) \in View /\ W(p).pc = p /\ W(p).todo = V.todo /\ W(p).file = V.file
        /\ W(p).current = V.current /\ W(p).previous = V.previous
    BY DEF View
  <2> QED
    BY <1>1, <2>1 DEF WellFormed, Accounted
<1>2. \/ Enter(V) \in {Idle, W("print")}
      \/ V.todo # <<>> /\ Enter(V) \in {W("sample"), W("main")}
  BY DEF Enter
<1> HIDE DEF W
<1> QED
  BY <1>1, <1>2, IdleOk DEF Reads

\* The rest of a loop is of services that are listed.
LEMMA TailListed ==
    ASSUME NEW V \in View, WellFormed(V), V.todo # <<>>
    PROVE  /\ Head(V.todo) \in Service
           /\ Tail(V.todo) \in Seq(Service)
           /\ Range(Tail(V.todo)) \subseteq Listed(V.file)
<1>1. V.todo \in Seq(Service)
  BY DEF View
<1>2. ASSUME NEW x \in Range(Tail(V.todo)) PROVE x \in Range(V.todo)
  <2>1. PICK i \in DOMAIN Tail(V.todo) : x = Tail(V.todo)[i]
    BY DEF Range
  <2>2. i + 1 \in DOMAIN V.todo /\ x = V.todo[i + 1]
    BY <1>1, <2>1
  <2> QED
    BY <2>2 DEF Range
<1> QED
  BY <1>1, <1>2 DEF WellFormed

\* What a well-formed command that has followed the counters becomes keeps the
\* invariant.
LEMMA LooksInv ==
    ASSUME Inv, NEW V, Looks(V), WellFormed(V), Accounted(V)
    PROVE  Inv'
<1>1. UNCHANGED <<mgr, probing, lenient, cpu, seen>> /\ view' = V
  BY DEF Looks
<1>2. TypeOK'
  BY <1>1 DEF Inv, TypeOK
<1>3. ProbesInv'
  BY <1>1 DEF Inv, ProbesInv, ManagerInv, NotFoundIsInactive, ProbesKeepMain, DependenciesUp,
              MonitoredUp, ProbesLoaded, Loaded, Up
<1>4. CpuInv'
  BY <1>1 DEF Inv, CpuInv, Accounted, Bounded, Follows
<1> QED
  BY <1>2, <1>3, <1>4 DEF Inv

\* A sample shows no more than was used since the one before.
LEMMA SampleFollows ==
    ASSUME NEW s \in Service, NEW ns \in CpuUsage(s), NEW x \in Sample,
           cpu \in [Service -> Nat], seen.total \in [Service -> Nat],
           Bounded(x, s)
    PROVE  LET y == [ns |-> ns, at |-> seen.total[s]]
           IN  y \in Sample /\ Bounded(y, s) /\ Follows(y, x)
<1> DEFINE y == [ns |-> ns, at |-> seen.total[s]]
<1>1. cpu[s] \in Nat /\ seen.total[s] \in Nat /\ x.at \in Nat /\ x.ns \in Nat \cup {NotSet}
  BY DEF Sample
<1>2. cpu[s] % Tick \in 0 .. (Tick - 1) /\ cpu[s] % Tick <= cpu[s]
  BY <1>1, TickAssumption
<1>3. \/ ns = NotSet
      \/ ns \in Nat /\ ns <= cpu[s] /\ cpu[s] - ns < Tick
  <2>1. ns \in {cpu[s], Coarse(cpu[s]), NotSet}
    BY DEF CpuUsage
  <2> QED
    BY <1>1, <1>2, <2>1, TickAssumption DEF Coarse
<1>4. y \in Sample
  BY <1>1, <1>3 DEF Sample
<1>5. Bounded(y, s)
  BY <1>1, <1>3, TickAssumption DEF Bounded
<1>6. Follows(y, x)
  BY <1>1, <1>3, TickAssumption DEF Bounded, Follows
<1> QED
  BY <1>4, <1>5, <1>6

\* Every step of a command that looks keeps the invariant.
LEMMA LookInv ==
    ASSUME Inv, Look
    PROVE  Inv'
<1>1. Files # {} /\ seen.total \in [Service -> Nat] /\ cpu \in [Service -> Nat]
      /\ view \in View /\ WellFormed(view) /\ Accounted(view)
  BY DEF Inv, TypeOK, CpuInv, WellFormed, View
<1>2. CASE \E cmd \in {"ps", "stats"}, stream \in BOOLEAN, f \in Files : Begin(cmd, stream, f)
  <2>1. PICK cmd \in {"ps", "stats"}, stream \in BOOLEAN, f \in Files : Begin(cmd, stream, f)
    BY <1>2
  <2> DEFINE V == [Idle EXCEPT !.cmd = cmd, !.stream = stream, !.file = f, !.todo = f.order]
  <2>2. f.order \in Seq(Service) /\ Range(f.order) \subseteq Listed(f)
    BY ListedServices DEF Listed
  <2>3. Idle \in View /\ Accounted(Idle)
    BY <1>1, IdleOk DEF WellFormed
  <2>4. /\ V \in View /\ V.todo = f.order /\ V.file = f
        /\ V.current = Idle.current /\ V.previous = Idle.previous
    BY <2>2, <2>3 DEF View
  <2>5. Accounted(V)
    BY <2>3, <2>4 DEF Accounted
  <2>6. Looks(Enter(V))
    BY <2>1 DEF Begin
  <2> HIDE DEF V
  <2> QED
    BY <1>1, <2>2, <2>4, <2>5, <2>6, EnterOk, LooksInv
<1>3. ASSUME view.pc \in Reads, Looks(NextRow(view)) PROVE Inv'
  <2> DEFINE V == [view EXCEPT !.todo = Tail(view.todo)]
  <2>1. view.todo # <<>>
    BY <1>1, <1>3 DEF WellFormed
  <2>2. /\ V \in View /\ V.todo = Tail(view.todo) /\ V.file = view.file
        /\ V.current = view.current /\ V.previous = view.previous
    BY <1>1, <2>1, TailListed DEF View
  <2>3. Accounted(V) /\ Range(V.todo) \subseteq Listed(V.file)
    BY <1>1, <2>1, <2>2, TailListed DEF Accounted
  <2>4. Looks(Enter(V))
    BY <1>3 DEF NextRow
  <2> HIDE DEF V
  <2> QED
    BY <1>1, <2>2, <2>3, <2>4, EnterOk, LooksInv
<1>4. CASE ReadMain
  <2>1. CASE Looks([view EXCEPT !.pc = "probe"])
    <3> DEFINE V == [view EXCEPT !.pc = "probe"]
    <3>1. /\ V \in View /\ V.todo = view.todo /\ V.file = view.file
          /\ V.current = view.current /\ V.previous = view.previous
      BY <1>1 DEF View, Reads
    <3>2. view.todo # <<>>
      BY <1>1, <1>4 DEF WellFormed, ReadMain, Reads
    <3>3. WellFormed(V) /\ Accounted(V)
      BY <1>1, <3>1, <3>2 DEF WellFormed, Accounted
    <3> HIDE DEF V
    <3> QED
      BY <2>1, <3>3, LooksInv DEF V
  <2> QED
    BY <1>3, <1>4, <2>1 DEF ReadMain, Reads
<1>5. CASE ReadProbe
  BY <1>3, <1>5 DEF ReadProbe, Reads
<1>6. CASE TakeSample
  <2> DEFINE s == This
  <2>1. view.todo # <<>> /\ s \in Service
    BY <1>1, <1>6, TailListed DEF WellFormed, TakeSample, Reads, This
  <2>2. PICK ns \in CpuUsage(s) :
            Looks(Enter([view EXCEPT !.todo = Tail(view.todo),
                                     !.current[s] = [ns |-> ns, at |-> seen.total[s]]]))
    BY <1>6 DEF TakeSample
  <2> DEFINE y == [ns |-> ns, at |-> seen.total[s]]
             V == [view EXCEPT !.todo = Tail(view.todo), !.current[s] = y]
  <2>3. Looks(Enter(V))
    BY <2>2
  <2>4. y \in Sample /\ Bounded(y, s) /\ Follows(y, view.previous[s])
    BY <1>1, <2>1, SampleFollows DEF Accounted, View
  <2> HIDE DEF y, s
  <2>5. /\ V \in View /\ V.todo = Tail(view.todo) /\ V.file = view.file
        /\ V.current = [view.current EXCEPT ![s] = y] /\ V.previous = view.previous
    BY <1>1, <2>1, <2>4, TailListed DEF View
  <2>6. Range(V.todo) \subseteq Listed(V.file)
    BY <1>1, <2>1, <2>5, TailListed
  <2>7. Accounted(V)
    BY <1>1, <2>1, <2>4, <2>5 DEF Accounted, View
  <2> HIDE DEF V
  <2> QED
    BY <1>1, <2>3, <2>5, <2>6, <2>7, EnterOk, LooksInv
<1>7. CASE PrintTable
  <2> DEFINE V == [view EXCEPT !.first = FALSE, !.previous = view.current, !.todo = view.file.order]
  <2>1. view.file \in Files
    BY <1>1 DEF View
  <2>2. view.file.order \in Seq(Service) /\ Range(view.file.order) \subseteq Listed(view.file)
    BY <2>1, ListedServices DEF Listed
  <2>3. /\ V \in View /\ V.todo = view.file.order /\ V.file = view.file
        /\ V.current = view.current /\ V.previous = view.current
    BY <1>1, <2>2 DEF View
  <2>4. Accounted(V)
    BY <1>1, <2>3, TickAssumption DEF Accounted, Follows, View, Sample
  <2>5. Looks(Enter(V)) \/ Looks(Idle)
    BY <1>7 DEF PrintTable
  <2> HIDE DEF V
  <2> QED
    BY <1>1, <2>2, <2>3, <2>4, <2>5, EnterOk, IdleOk, LooksInv
<1>8. CASE GiveUp
  BY <1>1, <1>8, IdleOk, LooksInv DEF GiveUp
<1> QED
  BY <1>2, <1>4, <1>5, <1>6, <1>7, <1>8 DEF Look

-----------------------------------------------------------------------------
(* What happens meanwhile. *)

\* No call of a command makes a probe fail.
LEMMA CollectKeepsFailed ==
    ASSUME NEW m \in Manager
    PROVE  Collect(m).failedProbes = m.failedProbes
  BY DEF Manager, Collect

\* Neither do units that go down.
LEMMA TakeDownKeepsFailed ==
    ASSUME NEW m \in Manager, NEW S, NEW dirty
    PROVE  TakeDown(m, S, dirty).failedProbes = m.failedProbes
<1> DEFINE n == [m EXCEPT
               !.active = [t \in Service |->
                   IF t \notin S THEN m.active[t]
                   ELSE IF t \in dirty THEN "failed" ELSE "inactive"],
               !.timers = m.timers \ TimersBoundTo(S)]
<1>1. n \in Manager /\ n.failedProbes = m.failedProbes
  BY DEF Manager, ActiveState
<1>2. TakeDown(m, S, dirty) = Collect(n)
  BY DEF TakeDown
<1> HIDE DEF n
<1> QED
  BY <1>1, <1>2, CollectKeepsFailed

\* Neither do units that start.
LEMMA StartMainKeepsFailed ==
    ASSUME NEW m \in Manager, NEW s \in Service
    PROVE  /\ StartMain(m, s) \in Manager
           /\ StartMain(m, s).failedProbes = m.failedProbes
           /\ StartMain(m, s).timers = m.timers
  BY DEF Manager, StartMain, ActiveState

\* Neither do the other requests, and a reset forgets one.
LEMMA RequestsKeepFailed ==
    ASSUME NEW m \in Manager, NEW s \in Service
    PROVE  /\ StopTimer(m, s).failedProbes = m.failedProbes
           /\ ResetMain(m, s).failedProbes = m.failedProbes
           /\ ResetProbe(m, s).failedProbes = m.failedProbes \ {s}
           /\ RestartMain(m, s).failedProbes = m.failedProbes
           /\ CreateTimer(m, s).failedProbes = m.failedProbes
<1>1. StopTimer(m, s).failedProbes = m.failedProbes
  <2> DEFINE n == [m EXCEPT !.timers = m.timers \ {s}]
  <2>1. n \in Manager /\ n.failedProbes = m.failedProbes
    BY DEF Manager
  <2> HIDE DEF n
  <2> QED
    BY <2>1, CollectKeepsFailed DEF StopTimer, n
<1>2. ResetMain(m, s).failedProbes = m.failedProbes
  <2> DEFINE n == [m EXCEPT !.active[s] = IF m.active[s] = "failed" THEN "inactive" ELSE m.active[s]]
  <2>1. n \in Manager /\ n.failedProbes = m.failedProbes
    BY DEF Manager, ActiveState
  <2> HIDE DEF n
  <2> QED
    BY <2>1, CollectKeepsFailed DEF ResetMain, n
<1>3. ResetProbe(m, s).failedProbes = m.failedProbes \ {s}
  <2> DEFINE n == [m EXCEPT !.failedProbes = m.failedProbes \ {s}]
  <2>1. n \in Manager /\ n.failedProbes = m.failedProbes \ {s}
    BY DEF Manager
  <2> HIDE DEF n
  <2> QED
    BY <2>1, CollectKeepsFailed DEF ResetProbe, n
<1>4. RestartMain(m, s).failedProbes = m.failedProbes
  BY StartMainKeepsFailed DEF RestartMain, Manager
<1>5. CreateTimer(m, s).failedProbes = m.failedProbes
  BY StartMainKeepsFailed DEF CreateTimer, Manager
<1> QED
  BY <1>1, <1>2, <1>3, <1>4, <1>5

\* Nor does the submission of a unit.
LEMMA CreateKeepsFailed ==
    ASSUME NEW m \in Manager, NEW s \in Service, NEW h \in Hashes
    PROVE  CreateMain(m, s, h).failedProbes = m.failedProbes
<1>1. Submitted(m, s, h) \in Manager /\ Submitted(m, s, h).failedProbes = m.failedProbes
  BY DEF Submitted, Manager
<1> QED
  BY <1>1, StartMainKeepsFailed, CollectKeepsFailed DEF CreateMain

\* A counter that goes on from 0 accounts for no more than was used.
LEMMA ResetAccounted ==
    ASSUME Inv, UNCHANGED <<view, seen.total>>, NEW R \in SUBSET Service,
           cpu' = [s \in Service |-> IF s \in R THEN 0 ELSE cpu[s]]
    PROVE  CpuInv' /\ cpu' \in [Service -> Nat]
<1>1. cpu \in [Service -> Nat] /\ seen.total \in [Service -> Nat] /\ view \in View
  BY DEF Inv, TypeOK, WellFormed
<1>2. \A s \in Service : cpu'[s] \in Nat /\ cpu'[s] <= cpu[s]
  BY <1>1
<1>3. view.previous \in [Service -> Sample] /\ view.current \in [Service -> Sample]
  BY <1>1 DEF View
<1>4. ASSUME NEW x \in Sample, NEW s \in Service, Bounded(x, s) PROVE Bounded(x, s)'
  BY <1>1, <1>2, <1>4, TickAssumption DEF Bounded, Sample
<1>5. ASSUME NEW s \in Service
      PROVE  /\ cpu'[s] <= seen.total'[s]
             /\ Bounded(view.previous[s], s)' /\ Bounded(view.current[s], s)'
             /\ Follows(view.current[s], view.previous[s])'
  <2>1. /\ cpu[s] <= seen.total[s] /\ cpu[s] \in Nat /\ seen.total[s] \in Nat
        /\ Bounded(view.previous[s], s) /\ Bounded(view.current[s], s)
        /\ Follows(view.current[s], view.previous[s])
    BY <1>1 DEF Inv, CpuInv, Accounted
  <2>2. cpu'[s] <= seen.total'[s]
    BY <1>2, <2>1
  <2>3. Bounded(view.previous[s], s)' /\ Bounded(view.current[s], s)'
    BY <1>3, <1>4, <2>1
  <2> QED
    BY <2>1, <2>2, <2>3 DEF Follows
<1> QED
  BY <1>1, <1>2, <1>5 DEF CpuInv, Accounted

\* Whatever the manager is asked to become, no probe fails by it.
LEMMA BecomesInv ==
    ASSUME Inv, NEW m, ManagerInv(m), m.failedProbes \subseteq mgr.failedProbes,
           NEW again, Becomes(m, again)
    PROVE  Inv'
<1> DEFINE new == again \cup (Up(m) \ Up(mgr))
           R == {s \in Service : s \in new \/ s \notin Loaded(m)}
<1>1. /\ mgr' = m
      /\ probing' = (probing \cap Up(m)) \ new
      /\ lenient' = lenient \cap m.failedProbes
      /\ cpu' = [s \in Service |-> IF s \in R THEN 0 ELSE cpu[s]]
      /\ seen' = [seen EXCEPT !.failed = seen.failed \cap Loaded(m)]
      /\ view' = view
  BY DEF Becomes
<1> HIDE DEF R, new
<1>2. /\ seen' \in [total : [Service -> Nat], failed : SUBSET Service]
      /\ seen'.total = seen.total /\ seen'.failed = seen.failed \cap Loaded(m)
  BY <1>1 DEF Inv, TypeOK
<1>3. CpuInv' /\ cpu' \in [Service -> Nat]
  <2>1. R \in SUBSET Service
    BY DEF R
  <2> QED
    BY <1>1, <1>2, <2>1, ResetAccounted
<1>4. m.failedProbes \subseteq Loaded(m)
  BY DEF ManagerInv, ProbesKeepMain, ProbesLoaded
<1>5. ProbesInv'
  <2>1. ManagerInv(mgr')
    BY <1>1
  <2>2. probing' \subseteq Up(mgr')
    BY <1>1
  <2>3. mgr'.failedProbes \subseteq seen'.failed \ probing'
    BY <1>1, <1>2, <1>4 DEF Inv, ProbesInv
  <2> QED
    BY <2>1, <2>2, <2>3 DEF ProbesInv, ManagerInv, NotFoundIsInactive, ProbesKeepMain,
                            DependenciesUp, MonitoredUp, ProbesLoaded, Loaded, Up
<1>6. TypeOK'
  <2>1. mgr' \in Manager
    BY <1>1 DEF ManagerInv
  <2>2. probing' \in SUBSET Service /\ lenient' \in SUBSET mgr'.failedProbes /\ WellFormed(view')
    BY <1>1 DEF Inv, TypeOK
  <2> QED
    BY <1>2, <1>3, <2>1, <2>2 DEF TypeOK, WellFormed
<1> QED
  BY <1>3, <1>5, <1>6 DEF Inv

\* A call of another command, or a service that exits, keeps the invariant.
LEMMA AskedInv ==
    ASSUME Inv, NEW s \in Service, Asked(s) \/ Exits(s)
    PROVE  Inv'
<1>1. ManagerInv(mgr) /\ mgr \in Manager
  BY DEF Inv, ProbesInv, ManagerInv
<1>2. ASSUME NEW dirty, Becomes(StopMain(mgr, s, dirty), {}) PROVE Inv'
  <2>1. StopMain(mgr, s, dirty).failedProbes = mgr.failedProbes
    BY <1>1, TakeDownKeepsFailed DEF StopMain
  <2> QED
    BY <1>1, <1>2, <2>1, StopMainInv, BecomesInv
<1>3. ASSUME NEW dirty, Becomes(CrashMain(mgr, s, dirty), {}) PROVE Inv'
  <2>1. CrashMain(mgr, s, dirty).failedProbes = mgr.failedProbes
    BY <1>1, TakeDownKeepsFailed DEF CrashMain
  <2> QED
    BY <1>1, <1>3, <2>1, CrashMainInv, BecomesInv
<1>4. CASE Becomes(StopTimer(mgr, s), {})
  BY <1>1, <1>4, RequestsKeepFailed, StopTimerInv, BecomesInv
<1>5. CASE Becomes(ResetMain(mgr, s), {})
  BY <1>1, <1>5, RequestsKeepFailed, ResetMainInv, BecomesInv
<1>6. CASE Becomes(ResetProbe(mgr, s), {})
  BY <1>1, <1>6, RequestsKeepFailed, ResetProbeInv, BecomesInv
<1>7. CASE Startable(mgr, s) /\ Becomes(StartMain(mgr, s), {})
  BY <1>1, <1>7, StartMainKeepsFailed, StartMainInv, BecomesInv
<1>8. CASE Startable(mgr, s) /\ Becomes(RestartMain(mgr, s), BoundTo(mgr, s))
  BY <1>1, <1>8, RequestsKeepFailed, RestartMainInv, BecomesInv
<1>9. ASSUME NEW h \in Hashes, Becomes(CreateMain(mgr, s, h), {}) PROVE Inv'
  BY <1>1, <1>9, CreateKeepsFailed, CreateMainInv, BecomesInv
<1>10. CASE Becomes(CreateTimer(mgr, s), {})
  BY <1>1, <1>10, RequestsKeepFailed, CreateTimerInv, BecomesInv
<1>11. CASE \E f \in Files : s \in Listed(f) /\ Becomes(CreateMain(mgr, s, Hash(f, s)), {})
  BY <1>9, <1>11, ListedServices
<1>12. CASE Exits(s)
  BY <1>3, <1>12 DEF Exits
<1> QED
  BY <1>2, <1>4, <1>5, <1>6, <1>7, <1>8, <1>10, <1>11, <1>12 DEF Asked

\* A probe that starts, ends or is stopped keeps the invariant.
LEMMA ProbeInv ==
    ASSUME Inv, NEW s \in Service, ProbeStarts(s) \/ ProbeEnds(s) \/ ProbeStopped(s)
    PROVE  Inv'
<1>1. /\ ManagerInv(mgr) /\ mgr \in Manager
      /\ mgr.failedProbes \subseteq seen.failed \ probing /\ probing \subseteq Up(mgr)
      /\ lenient \subseteq mgr.failedProbes
      /\ seen \in [total : [Service -> Nat], failed : SUBSET Service]
      /\ mgr.timers \subseteq Up(mgr) /\ Up(mgr) \subseteq Loaded(mgr)
  BY UpFacts DEF Inv, ProbesInv, TypeOK, ManagerInv, MonitoredUp
<1>2. mgr.failedProbes \subseteq Service
  BY <1>1 DEF Manager
<1>3. ASSUME NEW m, ManagerInv(m), Up(m) = Up(mgr), mgr' = m,
             probing' \subseteq Up(m), m.failedProbes \subseteq seen'.failed \ probing',
             lenient' \subseteq m.failedProbes,
             seen' \in [total : [Service -> Nat], failed : SUBSET Service],
             seen'.total = seen.total, UNCHANGED <<cpu, view>>
      PROVE  Inv'
  <2>1. TypeOK'
    BY <1>3 DEF Inv, TypeOK, ManagerInv, Up, WellFormed
  <2>2. ProbesInv'
    BY <1>3 DEF ProbesInv, ManagerInv, NotFoundIsInactive, ProbesKeepMain, DependenciesUp,
                MonitoredUp, ProbesLoaded, Loaded, Up
  <2>3. CpuInv'
    BY <1>3 DEF Inv, CpuInv, Accounted, Bounded, Follows
  <2> QED
    BY <2>1, <2>2, <2>3 DEF Inv
<1>4. ASSUME s \in Loaded(mgr), NEW healthy \in BOOLEAN
      PROVE  /\ ManagerInv(RunProbe(mgr, s, healthy)) /\ Up(RunProbe(mgr, s, healthy)) = Up(mgr)
             /\ RunProbe(mgr, s, healthy).failedProbes =
                    IF healthy THEN mgr.failedProbes \ {s} ELSE mgr.failedProbes \cup {s}
  BY <1>1, <1>4, ProbeEndInv DEF RunProbe, Manager
<1>5. CASE ProbeStarts(s)
  <2>1. s \in Up(mgr) /\ s \in Loaded(mgr)
    BY <1>1, <1>5 DEF ProbeStarts
  <2> QED
    BY <1>1, <1>3, <1>4, <1>5, <2>1 DEF ProbeStarts
<1>6. CASE ProbeEnds(s)
  <2>1. s \in Loaded(mgr) /\ probing' \subseteq Up(mgr) /\ s \notin probing'
    BY <1>1, <1>6 DEF ProbeEnds
  <2>2. CASE /\ mgr' = RunProbe(mgr, s, TRUE)
             /\ seen' = [seen EXCEPT !.failed = @ \ {s}]
             /\ UNCHANGED lenient
    <3>1. lenient \subseteq mgr.failedProbes \ {s}
      BY <1>1, <1>6 DEF ProbeEnds
    <3>2. /\ seen' \in [total : [Service -> Nat], failed : SUBSET Service]
          /\ seen'.total = seen.total /\ seen'.failed = seen.failed \ {s}
      BY <1>1, <2>2
    <3>3. mgr.failedProbes \ {s} \subseteq seen'.failed \ probing'
      BY <1>1, <1>6, <2>1, <3>2 DEF ProbeEnds
    <3> QED
      BY <1>1, <1>3, <1>4, <1>6, <2>1, <2>2, <3>1, <3>2, <3>3 DEF ProbeEnds
  <2>3. CASE /\ mgr' = RunProbe(mgr, s, FALSE)
             /\ lenient' \in {lenient, lenient \cup {s}}
             /\ seen' = [seen EXCEPT !.failed = @ \cup {s}]
    <3>1. /\ seen' \in [total : [Service -> Nat], failed : SUBSET Service]
          /\ seen'.total = seen.total /\ seen'.failed = seen.failed \cup {s}
      BY <1>1, <2>3
    <3>2. mgr.failedProbes \cup {s} \subseteq seen'.failed \ probing'
      BY <1>1, <1>6, <2>1, <3>1 DEF ProbeEnds
    <3> QED
      BY <1>1, <1>3, <1>4, <1>6, <2>1, <2>3, <3>1, <3>2 DEF ProbeEnds
  <2> QED
    BY <1>6, <2>2, <2>3 DEF ProbeEnds
<1>7. CASE ProbeStopped(s)
  BY <1>1, <1>3, <1>7 DEF ProbeStopped
<1> QED
  BY <1>5, <1>6, <1>7

\* What a service uses is accounted for.
LEMMA ComputesInv ==
    ASSUME Inv, NEW s \in Service, Computes(s)
    PROVE  Inv'
<1>1. /\ cpu \in [Service -> Nat] /\ view \in View
      /\ seen \in [total : [Service -> Nat], failed : SUBSET Service]
  BY DEF Inv, TypeOK, WellFormed
<1>2. /\ UNCHANGED <<mgr, probing, lenient, view>>
      /\ cpu' = [cpu EXCEPT ![s] = cpu[s] + 1]
      /\ seen' = [seen EXCEPT !.total = [seen.total EXCEPT ![s] = seen.total[s] + 1]]
  BY DEF Computes
<1>3. /\ cpu' \in [Service -> Nat]
      /\ seen' \in [total : [Service -> Nat], failed : SUBSET Service]
      /\ seen'.failed = seen.failed /\ seen'.total \in [Service -> Nat]
      /\ \A t \in Service : \/ cpu'[t] = cpu[t] /\ seen'.total[t] = seen.total[t]
                            \/ cpu'[t] = cpu[t] + 1 /\ seen'.total[t] = seen.total[t] + 1
  BY <1>1, <1>2
<1>4. TypeOK'
  BY <1>2, <1>3 DEF Inv, TypeOK, WellFormed
<1>5. ProbesInv'
  BY <1>2, <1>3 DEF Inv, ProbesInv, ManagerInv, NotFoundIsInactive, ProbesKeepMain, DependenciesUp,
                    MonitoredUp, ProbesLoaded, Loaded, Up
<1>6. ASSUME NEW x \in Sample, NEW t \in Service, Bounded(x, t) PROVE Bounded(x, t)'
  BY <1>1, <1>3, <1>6, TickAssumption DEF Bounded, Sample
<1>7. view.previous \in [Service -> Sample] /\ view.current \in [Service -> Sample]
  BY <1>1 DEF View
<1>8. \A t \in Service : cpu'[t] <= seen'.total[t]
  BY <1>1, <1>3 DEF Inv, CpuInv
<1>9. Accounted(view)'
  <2>1. ASSUME NEW t \in Service
        PROVE  /\ Bounded(view.previous[t], t)' /\ Bounded(view.current[t], t)'
               /\ Follows(view.current[t], view.previous[t])'
    <3>1. /\ Bounded(view.previous[t], t) /\ Bounded(view.current[t], t)
          /\ Follows(view.current[t], view.previous[t])
      BY DEF Inv, CpuInv, Accounted
    <3> QED
      BY <1>2, <1>6, <1>7, <3>1 DEF Bounded, Follows
  <2> QED
    BY <2>1 DEF Accounted
<1> QED
  BY <1>4, <1>5, <1>8, <1>9 DEF Inv, CpuInv

-----------------------------------------------------------------------------
(* The theorems. *)

\* The invariant is inductive.
LEMMA SpecInv == Spec => []Inv
<1>1. Init => Inv
  <2> SUFFICES ASSUME Init PROVE Inv
    OBVIOUS
  <2>1. /\ seen.total \in [Service -> Nat] /\ cpu \in [Service -> Nat]
        /\ \A s \in Service : cpu[s] <= seen.total[s]
    BY DEF Init
  <2>2. WellFormed(Idle) /\ Accounted(Idle)
    BY <2>1, IdleOk, FilesExist
  <2>3. ManagerInv(EmptyManager)
    BY NoHashAssumption
    DEF EmptyManager, ManagerInv, Manager, ActiveState, NotFoundIsInactive, ProbesKeepMain,
           ProbesLoaded, DependenciesUp, MonitoredUp, Loaded, Up, RunningStates
  <2>4. EmptyManager \in Manager /\ EmptyManager.failedProbes = {}
    BY <2>3 DEF ManagerInv, EmptyManager
  <2>5. mgr = EmptyManager /\ view = Idle
    BY DEF Init
  <2> QED
    BY <2>1, <2>2, <2>3, <2>4, <2>5 DEF Init, Inv, TypeOK, ProbesInv, CpuInv
<1>2. Inv /\ [Next]_vars => Inv'
  <2> SUFFICES ASSUME Inv, [Next]_vars PROVE Inv'
    OBVIOUS
  <2>1. ASSUME NEW s \in Service, Meanwhile(s) PROVE Inv'
    BY <2>1, AskedInv, ProbeInv, ComputesInv DEF Meanwhile
  <2>2. CASE UNCHANGED vars
    <3>1. Looks(view)
      BY <2>2 DEF Looks, vars
    <3>2. WellFormed(view) /\ Accounted(view)
      BY DEF Inv, TypeOK, CpuInv
    <3> QED
      BY <3>1, <3>2, LooksInv
  <2> QED
    BY <2>1, <2>2, LookInv DEF Next
<1> QED
  BY <1>1, <1>2, PTL DEF Spec

\* Every reachable state is well typed, and no command reads past the end of its
\* loop.
THEOREM TypeCorrect == Spec => []TypeOK
<1>1. Inv => TypeOK
  BY DEF Inv
<1> QED
  BY <1>1, SpecInv, PTL

\* A service is shown as unhealthy only if a probe of the unit it has failed, and
\* none runs or has succeeded since: whatever happens between the two reads.
THEOREM UnhealthyIsDeserved == Spec => []UnhealthyDeserved
<1>1. Inv => UnhealthyDeserved
  <2> SUFFICES ASSUME Inv, HealthStatus(ProbeProperties(This)) = "unhealthy"
               PROVE  This \in Loaded(mgr) /\ This \in seen.failed \ probing
    BY DEF UnhealthyDeserved
  <2>1. This \in mgr.failedProbes
    BY DEF HealthStatus, ProbeProperties
  <2> QED
    BY <2>1 DEF Inv, ProbesInv, ManagerInv, ProbesKeepMain, ProbesLoaded
<1> QED
  BY <1>1, SpecInv, PTL

\* What stats shows a service to have used it has used since the round before, up
\* to the grain of the counters.
THEOREM CpuIsHonest == Spec => []CpuHonest
<1>1. Inv => CpuHonest
  <2> SUFFICES ASSUME Inv, NEW s \in Service,
                      UsedBetween(view.current[s].ns, view.previous[s].ns) # Dash
               PROVE  LET used == UsedBetween(view.current[s].ns, view.previous[s].ns)
                      IN  /\ used >= 0
                          /\ used < view.current[s].at - view.previous[s].at + Tick
    BY DEF CpuHonest
  <2>1. view.current[s] \in Sample /\ view.previous[s] \in Sample
    BY DEF Inv, TypeOK, WellFormed, View
  <2>2. Follows(view.current[s], view.previous[s])
    BY DEF Inv, CpuInv, Accounted
  <2> QED
    BY <2>1, <2>2 DEF UsedBetween, Follows, Sample, Dash, NotSet
<1> QED
  BY <1>1, SpecInv, PTL

=============================================================================
