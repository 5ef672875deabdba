-------------------------- MODULE TransientProofs --------------------------
(***************************************************************************)
(* Theorems about TransientProject, for any services, compose files,       *)
(* command lines, processes, faults and bounds.                            *)
(*                                                                         *)
(* The inductive invariant is TypeOK with ManagerInv: a command loops on   *)
(* well-formed cursors, and the manager is never left with a unit that     *)
(* runs without what it requires.                                          *)
(***************************************************************************)
EXTENDS TransientProject, UserManagerProofs, SequenceTheorems

Inv == TypeOK /\ ManagerInv(mgr)

-----------------------------------------------------------------------------
\* The control flow between two calls keeps a process well formed.

\* A command that has ended is well formed.
LEMMA IdleType ==
    ASSUME Files # {}, NEW b \in BOOLEAN
    PROVE  WellFormed(Idle(b))
<1>1. (CHOOSE f \in Files : TRUE) \in Files
  OBVIOUS
<1>2. <<>> \in Seq(Service) /\ <<>> \in Seq(Call) /\ DOMAIN <<>> = {}
  OBVIOUS
<1>3. Idle(b) \in Process
  BY <1>1, <1>2 DEF Idle, Process, Points, Commands, ActiveState
<1> QED
  BY <1>2, <1>3 DEF WellFormed, Idle, Teardowns

\* Each teardown of a unit makes at least one call.
LEMMA TeardownCalls ==
    ASSUME NEW s \in Service, NEW f
    PROVE  /\ HealthCleanup(s) \in Seq(Call) \ {<<>>}
           /\ MainCleanup(s) \in Seq(Call) \ {<<>>}
           /\ RecreateCalls(s) \in Seq(Call) \ {<<>>}
           /\ StopCalls(f, s) \in Seq(Call) \ {<<>>}
           /\ DownCalls(f, s) \in Seq(Call) \ {<<>>}
<1>1. \A verb \in {"stop", "reset"}, kind \in {"timer", "probe", "main"} :
        Systemctl(verb, kind, s) \in Call
  BY DEF Systemctl, Call
<1>2. HealthCleanup(s) \in Seq(Call) /\ HealthCleanup(s) # <<>>
  BY <1>1 DEF HealthCleanup
<1>3. MainCleanup(s) \in Seq(Call) /\ MainCleanup(s) # <<>>
  BY <1>1 DEF MainCleanup
<1>4. RecreateCalls(s) \in Seq(Call) /\ RecreateCalls(s) # <<>>
  BY <1>2, <1>3, ConcatProperties, EmptySeq DEF RecreateCalls
<1>5. StopCalls(f, s) \in Seq(Call) /\ StopCalls(f, s) # <<>>
  <2> DEFINE A == IF HasHealth(f, s) THEN <<Systemctl("stop", "timer", s)>> ELSE <<>>
             B == <<Systemctl("stop", "main", s)>>
  <2>1. A \in Seq(Call) /\ B \in Seq(Call) /\ B # <<>>
    BY <1>1
  <2>2. StopCalls(f, s) = A \o B
    BY DEF StopCalls
  <2> HIDE DEF A, B
  <2> QED
    BY <2>1, <2>2, ConcatProperties, ConcatSimplifications
<1>6. DownCalls(f, s) \in Seq(Call) /\ DownCalls(f, s) # <<>>
  <2> DEFINE A == IF HasHealth(f, s) THEN HealthCleanup(s) ELSE <<>>
  <2>1. A \in Seq(Call)
    BY <1>2
  <2>2. DownCalls(f, s) = A \o MainCleanup(s)
    BY DEF DownCalls
  <2> HIDE DEF A
  <2> QED
    BY <1>3, <2>1, <2>2, ConcatProperties, ConcatSimplifications
<1> QED
  BY <1>2, <1>3, <1>4, <1>5, <1>6

\* The order in which orphans are cleaned up has a first one.
LEMMA FirstOrphanExists ==
    ASSUME NEW U, U \subseteq OrphanUnit, U # {}
    PROVE  FirstOrphan(U) \in U
<1> DEFINE T == {Rank[u] : u \in U}
<1>1. T \subseteq Nat /\ T # {}
  BY RankAssumption
<1>2. PICK r \in T : \A y \in T : r <= y
  BY <1>1, LeastNat
<1>3. PICK u \in U : r = Rank[u]
  BY <1>2
<1>4. \A v \in U : Rank[u] <= Rank[v]
  BY <1>2, <1>3
<1> QED
  BY <1>4 DEF FirstOrphan

\* The loops of handle_up and the others begin the next service well formed.
LEMMA EnterType ==
    ASSUME NEW P \in Process, P.todo # <<>>, \A i \in DOMAIN P.todo : P.todo[i] \in Listed(P.file)
    PROVE  WellFormed(Enter(P))
<1>1. P.todo \in Seq(Service) /\ This(P) \in Service
  BY HeadTailProperties DEF Process, This
<1>2. CASE P.cmd \in {"up", "start", "restart"}
  <2>1. Enter(P) = [P EXCEPT !.pc = "load"]
    BY <1>2 DEF Enter
  <2> QED
    BY <2>1 DEF WellFormed, Process, Points, Teardowns
<1>3. CASE P.cmd \notin {"up", "start", "restart"}
  <2> DEFINE calls == IF P.cmd = "stop" THEN StopCalls(P.file, This(P)) ELSE DownCalls(P.file, This(P))
  <2>1. calls \in Seq(Call) /\ calls # <<>>
    BY <1>1, TeardownCalls
  <2>2. Enter(P) = [P EXCEPT !.pc = "teardown", !.calls = calls]
    BY <1>3 DEF Enter
  <2> HIDE DEF calls
  <2> QED
    BY <2>1, <2>2 DEF WellFormed, Process, Points, Teardowns
<1> QED
  BY <1>2, <1>3

\* What follows the last call for a service: the next service, the orphans or the end.
LEMMA NextServiceType ==
    ASSUME NEW P, WellFormed(P), P.todo # <<>>
    PROVE  WellFormed(NextService(P))
<1> DEFINE rest == Tail(P.todo)
           Q == [P EXCEPT !.todo = rest, !.calls = <<>>, !.deps = <<>>,
                          !.active = "inactive", !.bad = FALSE]
<1>1. P \in Process /\ P.file \in Files /\ P.todo \in Seq(Service)
  BY DEF WellFormed, Process
<1>2. rest \in Seq(Service) /\ \A i \in DOMAIN rest : rest[i] \in Listed(P.file)
  <2>1. rest \in Seq(Service) /\ Len(rest) = Len(P.todo) - 1
        /\ \A i \in 1..Len(rest) : rest[i] = P.todo[i + 1]
    BY <1>1, HeadTailProperties
  <2>2. DOMAIN rest = 1..Len(rest) /\ DOMAIN P.todo = 1..Len(P.todo)
        /\ Len(rest) \in Nat /\ Len(P.todo) \in Nat
    BY <1>1, <2>1, LenProperties
  <2>3. ASSUME NEW i \in DOMAIN rest PROVE rest[i] \in Listed(P.file)
    <3>1. i \in 1..Len(rest) /\ i + 1 \in 1..Len(P.todo)
      BY <2>1, <2>2
    <3>2. rest[i] = P.todo[i + 1] /\ i + 1 \in DOMAIN P.todo
      BY <2>1, <2>2, <3>1
    <3> QED
      BY <3>2 DEF WellFormed
  <2> QED
    BY <2>1, <2>3
<1> HIDE DEF rest
<1>3. <<>> \in Seq(Call) /\ <<>> \in Seq(Service)
  OBVIOUS
<1>4. /\ Q \in Process /\ Q.todo = rest /\ Q.file = P.file /\ Q.cmd = P.cmd
      /\ Q.pc = P.pc /\ Q.purge = P.purge /\ Q.calls = <<>> /\ Q.deps = <<>>
  BY <1>1, <1>2, <1>3 DEF Process, ActiveState
<1>5. NextService(P) = IF rest # <<>> THEN Enter(Q)
                       ELSE IF P.cmd = "down" /\ P.purge THEN [Q EXCEPT !.pc = "orphans"]
                       ELSE Idle(P.failed)
  BY DEF NextService, rest
<1> HIDE DEF Q
<1>6. CASE rest # <<>>
  BY <1>2, <1>4, <1>5, <1>6, EnterType
<1>7. CASE rest = <<>> /\ P.cmd = "down" /\ P.purge
  <2>1. NextService(P) = [Q EXCEPT !.pc = "orphans"]
    BY <1>5, <1>7
  <2> QED
    BY <1>2, <1>4, <1>7, <2>1 DEF WellFormed, Process, Points, Teardowns
<1>8. CASE rest = <<>> /\ ~(P.cmd = "down" /\ P.purge)
  <2>1. P.failed \in BOOLEAN /\ Files # {}
    BY <1>1 DEF Process
  <2>2. NextService(P) = Idle(P.failed)
    BY <1>5, <1>8
  <2> QED
    BY <2>1, <2>2, IdleType
<1> QED
  BY <1>6, <1>7, <1>8

\* What follows an orphan in cleanup_orphan_units: the next one, the loop or the end.
LEMMA NextOrphanType ==
    ASSUME NEW P \in Process, P.todo # <<>> \/ (P.cmd = "down" /\ P.purge),
           \A i \in DOMAIN P.todo : P.todo[i] \in Listed(P.file)
    PROVE  WellFormed(NextOrphan(P))
<1>1. P.file \in Files /\ P.failed \in BOOLEAN /\ P.orphans \subseteq OrphanUnit
  BY DEF Process
<1>2. CASE P.orphans = {} /\ P.cmd = "down"
  BY <1>1, <1>2, IdleType DEF NextOrphan
<1>3. CASE P.orphans = {} /\ P.cmd # "down"
  <2> DEFINE Q == [P EXCEPT !.calls = <<>>]
  <2>1. <<>> \in Seq(Call)
    OBVIOUS
  <2>2. Q \in Process /\ Q.todo = P.todo /\ Q.file = P.file
    BY <2>1 DEF Process
  <2>3. NextOrphan(P) = Enter(Q)
    BY <1>3 DEF NextOrphan
  <2> HIDE DEF Q
  <2> QED
    BY <1>3, <2>2, <2>3, EnterType
<1>4. CASE P.orphans # {}
  <2> DEFINE u == FirstOrphan(P.orphans)
             calls == IF u.kind = "probe" THEN HealthCleanup(u.of) ELSE MainCleanup(u.of)
  <2>1. u \in P.orphans /\ u.of \in Service
    BY <1>1, <1>4, FirstOrphanExists DEF OrphanUnit
  <2> HIDE DEF u
  <2>2. calls \in Seq(Call) /\ calls # <<>>
    BY <2>1, TeardownCalls
  <2>3. NextOrphan(P) = [P EXCEPT !.pc = "purge", !.orphans = P.orphans \ {u}, !.calls = calls]
    BY <1>4 DEF NextOrphan, u
  <2> DEFINE left == P.orphans \ {u}
             Q == [P EXCEPT !.pc = "purge", !.orphans = left, !.calls = calls]
  <2>4. left \in SUBSET OrphanUnit
    BY <1>1
  <2> HIDE DEF calls, left
  <2>5. /\ Q \in Process /\ Q.pc = "purge" /\ Q.calls = calls
        /\ Q.todo = P.todo /\ Q.file = P.file /\ Q.cmd = P.cmd /\ Q.purge = P.purge
    BY <2>2, <2>4 DEF Process, Points
  <2>6. NextOrphan(P) = Q
    BY <2>3 DEF left
  <2> HIDE DEF Q
  <2> QED
    BY <2>2, <2>5, <2>6 DEF WellFormed, Teardowns
<1> QED
  BY <1>2, <1>3, <1>4

\* What blocked_dependency goes on with: its next dependency or the submission.
LEMMA CheckDepsType ==
    ASSUME NEW P, WellFormed(P), P.todo # <<>>, NEW deps \in Seq(Service)
    PROVE  WellFormed(CheckDeps(P, deps))
<1>1. <<>> \in Seq(Call)
  OBVIOUS
<1>2. CheckDeps(P, deps) = [P EXCEPT !.calls = <<>>, !.deps = deps,
                                     !.pc = IF deps = <<>> THEN "create" ELSE "depLoad"]
  BY DEF CheckDeps
<1> QED
  BY <1>1, <1>2 DEF WellFormed, Process, Points, Teardowns

\* Recording an exit code changes nothing else.
LEMMA NoteType ==
    ASSUME NEW P, WellFormed(P), NEW b \in BOOLEAN
    PROVE  /\ WellFormed(Note(P, b)) /\ Note(P, b).todo = P.todo /\ Note(P, b).pc = P.pc
           /\ Note(P, b).cmd = P.cmd /\ Note(P, b).calls = P.calls /\ Note(P, b).file = P.file
           /\ Note(P, b).names = P.names /\ Note(P, b).orphans = P.orphans
<1>1. (P.failed \/ b) \in BOOLEAN
  BY DEF WellFormed, Process
<1>2. Note(P, b) = [P EXCEPT !.failed = P.failed \/ b]
  BY DEF Note
<1> QED
  BY <1>1, <1>2 DEF WellFormed, Process

\* The dependencies of the current service are services.
LEMMA ThisListed ==
    ASSUME NEW P, WellFormed(P), P.todo # <<>>
    PROVE  /\ P.file \in Files /\ This(P) \in Listed(P.file) /\ This(P) \in Service
           /\ P.file.def[This(P)].deps \in Seq(Service)
           /\ Desired(P) \in Hashes
<1>1. P.todo \in Seq(Service) /\ P.file \in Files
  BY DEF WellFormed, Process
<1>2. This(P) = P.todo[1] /\ 1 \in DOMAIN P.todo
  BY <1>1, EmptySeq, LenProperties, HeadTailProperties DEF This
<1>3. This(P) \in Listed(P.file)
  BY <1>2 DEF WellFormed
<1> QED
  BY <1>1, <1>3, ListedServices DEF Definition, Desired

\* What follows a call of a teardown.
LEMMA AfterCallType ==
    ASSUME NEW P, WellFormed(P), P.pc \in Teardowns
    PROVE  WellFormed(AfterCall(P))
<1> DEFINE rest == Tail(P.calls)
           Q == [P EXCEPT !.calls = rest]
<1>1. P \in Process /\ P.calls \in Seq(Call) /\ P.calls # <<>> /\ P.file \in Files
  BY DEF WellFormed, Process
<1>2. rest \in Seq(Call)
  BY <1>1, HeadTailProperties
<1> HIDE DEF rest
<1>3. CASE rest # <<>>
  <2>1. AfterCall(P) = Q
    BY <1>3 DEF AfterCall, rest
  <2> QED
    BY <1>1, <1>2, <1>3, <2>1 DEF WellFormed, Process
<1>4. CASE rest = <<>> /\ P.pc = "recreate"
  <2>1. AfterCall(P) = IF P.bad THEN Idle(TRUE) ELSE CheckDeps(P, P.file.def[This(P)].deps)
    BY <1>4 DEF AfterCall, rest
  <2>2. P.todo # <<>>
    BY <1>4 DEF WellFormed
  <2>3. WellFormed(Idle(TRUE))
    BY <1>1, IdleType
  <2>4. WellFormed(CheckDeps(P, P.file.def[This(P)].deps))
    BY <2>2, ThisListed, CheckDepsType
  <2> QED
    BY <2>1, <2>3, <2>4
<1>5. CASE rest = <<>> /\ P.pc = "purge"
  <2>1. AfterCall(P) = NextOrphan(P)
    BY <1>5 DEF AfterCall, rest
  <2>2. P.todo # <<>> \/ (P.cmd = "down" /\ P.purge)
    BY <1>5 DEF WellFormed
  <2>3. \A i \in DOMAIN P.todo : P.todo[i] \in Listed(P.file)
    BY DEF WellFormed
  <2> QED
    BY <1>1, <2>1, <2>2, <2>3, NextOrphanType
<1>6. CASE rest = <<>> /\ P.pc = "teardown"
  <2>1. AfterCall(P) = NextService(P)
    BY <1>6 DEF AfterCall, rest
  <2>2. P.todo # <<>>
    BY <1>6 DEF WellFormed
  <2> QED
    BY <2>1, <2>2, NextServiceType
<1> QED
  BY <1>3, <1>4, <1>5, <1>6 DEF Teardowns

\* What follows a call of a teardown that failed.
LEMMA FailedCallType ==
    ASSUME NEW P, WellFormed(P), P.pc \in Teardowns
    PROVE  WellFormed(FailedCall(P))
<1>1. CASE P.pc # "recreate"
  <2>1. FailedCall(P) = AfterCall(Note(P, TRUE))
    BY <1>1 DEF FailedCall
  <2>2. WellFormed(Note(P, TRUE)) /\ Note(P, TRUE).pc \in Teardowns
    BY NoteType
  <2> QED
    BY <2>1, <2>2, AfterCallType
<1>2. CASE P.pc = "recreate"
  <2> DEFINE bad == P.bad \/ Head(P.calls).kind = "main"
             Q == [P EXCEPT !.bad = bad]
  <2>1. FailedCall(P) = AfterCall(Q)
    BY <1>2 DEF FailedCall
  <2>2. bad \in BOOLEAN
    OBVIOUS
  <2> HIDE DEF bad
  <2>3. WellFormed(Q) /\ Q.pc \in Teardowns
    BY <2>2 DEF WellFormed, Process
  <2> HIDE DEF Q
  <2> QED
    BY <2>1, <2>3, AfterCallType
<1> QED
  BY <1>1, <1>2

\* A step from one point of the loop's body to another.
LEMMA PointType ==
    ASSUME NEW P, WellFormed(P), P.todo # <<>>,
           NEW pc \in Points \ ({"idle", "orphans", "depLoad", "depActive"} \cup Teardowns)
    PROVE  WellFormed([P EXCEPT !.pc = pc])
  BY DEF WellFormed, Process, Teardowns

\* What follows start_existing_unit and restart_existing_unit.
LEMMA StartedType ==
    ASSUME NEW P, WellFormed(P), P.todo # <<>>, NEW ok \in BOOLEAN
    PROVE  WellFormed(Started(P, ok))
<1>1. WellFormed([P EXCEPT !.pc = "startTimer"])
  BY PointType DEF Points, Teardowns
<1>2. WellFormed(NextService(P)) /\ WellFormed(NextService(Note(P, TRUE)))
  BY NextServiceType, NoteType
<1> QED
  BY <1>1, <1>2 DEF Started

\* What handle_up and handle_start decide on an inspected unit.
LEMMA DecisionType ==
    ASSUME NEW P, WellFormed(P), P.todo # <<>>, NEW hash
    PROVE  WellFormed(UpDecision(P, hash)) /\ WellFormed(StartDecision(P))
<1>1. WellFormed([P EXCEPT !.pc = "start"])
  BY PointType DEF Points, Teardowns
<1>2. WellFormed(NextService(P))
  BY NextServiceType
<1>3. WellFormed([P EXCEPT !.pc = "recreate", !.calls = RecreateCalls(This(P))])
  <2>1. RecreateCalls(This(P)) \in Seq(Call) /\ RecreateCalls(This(P)) # <<>>
    BY ThisListed, TeardownCalls
  <2> QED
    BY <2>1 DEF WellFormed, Process, Points, Teardowns
<1> QED
  BY <1>1, <1>2, <1>3 DEF UpDecision, StartDecision

-----------------------------------------------------------------------------
\* Every action preserves the invariant.

\* What the invariant says of the process that takes a step.
LEMMA CurrentProcess ==
    ASSUME Inv, NEW p \in Proc
    PROVE  /\ WellFormed(proc[p]) /\ proc[p] \in Process
           /\ Files # {} /\ ManagerInv(mgr)
           /\ proc[p].pc \notin {"idle", "orphans", "purge"} => proc[p].todo # <<>>
           /\ proc[p].pc \in {"depLoad", "depActive"} =>
                /\ Head(proc[p].deps) \in Service /\ Tail(proc[p].deps) \in Seq(Service)
           /\ proc[p].pc \in Teardowns => Head(proc[p].calls) \in Call
<1>1. WellFormed(proc[p]) /\ Files # {} /\ ManagerInv(mgr)
  BY DEF Inv, TypeOK
<1>2. proc[p].deps \in Seq(Service) /\ proc[p].calls \in Seq(Call) /\ proc[p] \in Process
  BY <1>1 DEF WellFormed, Process
<1>3. proc[p].deps # <<>> => Head(proc[p].deps) \in Service /\ Tail(proc[p].deps) \in Seq(Service)
  BY <1>2, HeadTailProperties
<1>4. proc[p].calls # <<>> => Head(proc[p].calls) \in Call
  BY <1>2, HeadTailProperties
<1> QED
  BY <1>1, <1>2, <1>3, <1>4 DEF WellFormed

\* A request preserves the invariant if it preserves that of the manager and leaves
\* the process well formed.
LEMMA AsksInv ==
    ASSUME Inv, NEW p \in Proc, NEW P, WellFormed(P), NEW m, ManagerInv(m), Asks(p, m, P)
    PROVE  Inv'
<1>1. P \in Process
  BY DEF WellFormed
<1>2. /\ proc' = [proc EXCEPT ![p] = P] /\ mgr' = m /\ file' = file /\ budget' = budget
      /\ quiet' \in {quiet, {}} /\ steady' \in BOOLEAN
  BY DEF Asks, Moves, Interfere, Steadily
<1>3. proc' \in [Proc -> Process] /\ \A q \in Proc : WellFormed(proc'[q])
  BY <1>1, <1>2 DEF Inv, TypeOK
<1>4. mgr' \in Manager /\ ManagerInv(mgr')
  BY <1>2 DEF ManagerInv
<1> QED
  BY <1>2, <1>3, <1>4 DEF Inv, TypeOK, ManagerInv

\* A read preserves the invariant if it leaves the process well formed.
LEMMA ReadsInv ==
    ASSUME Inv, NEW p \in Proc, NEW P, WellFormed(P), Reads(p, P)
    PROVE  Inv'
<1>1. Asks(p, mgr, P) /\ ManagerInv(mgr)
  BY DEF Reads, Asks, Inv
<1> QED
  BY <1>1, AsksInv

\* A step that moves a process and spends a fault.
LEMMA FaultInv ==
    ASSUME Inv, NEW p \in Proc, NEW P, WellFormed(P), NEW kind, CanFault(kind), SpendFault,
           Moves(p, P), file' = file, ManagerInv(mgr')
    PROVE  Inv'
<1>1. P \in Process
  BY DEF WellFormed
<1>2. /\ proc' = [proc EXCEPT ![p] = P]
      /\ quiet' \in {quiet, {}} /\ steady' \in BOOLEAN
  BY DEF Moves, Interfere, Steadily
<1>3. proc' \in [Proc -> Process] /\ \A q \in Proc : WellFormed(proc'[q])
  BY <1>1, <1>2 DEF Inv, TypeOK
<1>4. budget' \in [faults : 0..MaxFaults, edits : 0..MaxEdits, commands : 0..MaxCommands]
  BY BoundsAssumption DEF Inv, TypeOK, CanFault, SpendFault
<1> QED
  BY <1>2, <1>3, <1>4 DEF Inv, TypeOK, ManagerInv

\* Every call of a teardown preserves the invariant of the manager.
LEMMA EffectInv ==
    ASSUME NEW m, ManagerInv(m), NEW c \in Call, NEW dirty
    PROVE  ManagerInv(Effect(m, c, dirty))
<1>1. c.of \in Service /\ c.verb \in {"stop", "reset"} /\ c.kind \in {"timer", "probe", "main"}
  BY DEF Call
<1>2. ManagerInv(StopMain(m, c.of, dirty))
  BY <1>1, StopMainInv
<1>3. ManagerInv(ResetMain(m, c.of)) /\ ManagerInv(StopTimer(m, c.of)) /\ ManagerInv(ResetProbe(m, c.of))
  BY <1>1, ResetMainInv, StopTimerInv, ResetProbeInv
<1> QED
  BY <1>1, <1>2, <1>3 DEF Effect

\* The names on a command line, or the services of the file, in either order.
LEMMA ReversedNames ==
    ASSUME NEW f \in Files, NEW names \in Seq(Service), names # <<>>, Range(names) \subseteq Listed(f)
    PROVE  /\ Reverse(names) \in Seq(Service) /\ Reverse(names) # <<>>
           /\ \A i \in DOMAIN Reverse(names) : Reverse(names)[i] \in Listed(f)
           /\ \A i \in DOMAIN names : names[i] \in Listed(f)
<1> DEFINE n == Len(names)
<1>1. n \in Nat /\ n # 0 /\ DOMAIN names = 1..n /\ \A i \in 1..n : names[i] \in Service
  BY EmptySeq, LenProperties, ElementOfSeq
<1>2. \A i \in 1..n : names[i] \in Listed(f)
  BY <1>1 DEF Range
<1> HIDE DEF n
<1>3. Reverse(names) = [i \in 1..n |-> names[(n - i) + 1]]
  BY DEF Reverse, n
<1>4. \A i \in 1..n : (n - i) + 1 \in 1..n
  BY <1>1
<1>5. Reverse(names) \in [1..n -> Service]
  BY <1>1, <1>3, <1>4
<1>6. Reverse(names) \in Seq(Service) /\ DOMAIN Reverse(names) = 1..n
  BY <1>1, <1>5 DEF Seq
<1>7. Reverse(names) # <<>>
  BY <1>1, <1>6
<1> QED
  BY <1>1, <1>2, <1>3, <1>4, <1>6, <1>7

\* The start of a command: the parsed file, the selected services, their order.
LEMMA BeginInv ==
    ASSUME Inv, NEW p \in Proc, NEW r \in Requests, Begin(p, r)
    PROVE  Inv'
<1> DEFINE names == IF r.names = <<>> THEN file.order ELSE r.names
           todo == IF r.cmd \in {"stop", "down"} THEN Reverse(names) ELSE names
           P == [Idle(FALSE) EXCEPT !.cmd = r.cmd, !.purge = r.purge, !.file = file,
                                    !.names = names, !.todo = todo]
           Q == IF r.cmd = "up" THEN [P EXCEPT !.pc = "orphans"] ELSE Enter(P)
<1>1. /\ Range(names) \subseteq Listed(file)
      /\ FullUp(r) \/ budget.commands > 0
      /\ budget' = IF FullUp(r) THEN budget ELSE [budget EXCEPT !.commands = @ - 1]
      /\ proc' = [proc EXCEPT ![p] = Q]
      /\ quiet' \in {{p}, {}} /\ steady' \in BOOLEAN
      /\ file' = file /\ mgr' = mgr
  BY DEF Begin
<1>2. file \in Files /\ ManagerInv(mgr)
  BY DEF Inv, TypeOK
<1>3. r.cmd \in Commands /\ r.names \in Seq(Service) /\ r.purge \in BOOLEAN
  BY RequestsAssumption DEF Request
<1>4. names \in Seq(Service) /\ names # <<>>
  BY <1>2, <1>3, ListedServices
<1> HIDE DEF names
<1>5. todo \in Seq(Service) /\ todo # <<>> /\ \A i \in DOMAIN todo : todo[i] \in Listed(file)
  BY <1>1, <1>2, <1>4, ReversedNames
<1> HIDE DEF todo
<1>6. Idle(FALSE) \in Process
  BY <1>2, IdleType DEF WellFormed
<1>7. P \in Process /\ P.cmd = r.cmd /\ P.file = file /\ P.todo = todo
  BY <1>2, <1>3, <1>4, <1>5, <1>6 DEF Process
<1> HIDE DEF P
<1>8. WellFormed(Q)
  <2>1. WellFormed([P EXCEPT !.pc = "orphans"])
    BY <1>5, <1>7 DEF WellFormed, Process, Points, Teardowns
  <2>2. WellFormed(Enter(P))
    BY <1>5, <1>7, EnterType
  <2> QED
    BY <2>1, <2>2
<1> HIDE DEF Q
<1>9. proc' \in [Proc -> Process] /\ \A q \in Proc : WellFormed(proc'[q])
  BY <1>1, <1>8 DEF Inv, TypeOK, WellFormed
<1>10. budget' \in [faults : 0..MaxFaults, edits : 0..MaxEdits, commands : 0..MaxCommands]
  BY <1>1, BoundsAssumption DEF Inv, TypeOK
<1> QED
  BY <1>1, <1>2, <1>9, <1>10 DEF Inv, TypeOK, ManagerInv

\* find_orphan_units.
LEMMA ListOrphansInv ==
    ASSUME Inv, NEW p \in Proc, ListOrphans(p)
    PROVE  Inv'
<1> DEFINE P == proc[p]
           Q == [P EXCEPT !.orphans = OrphanUnits(mgr, P.file)]
<1>1. WellFormed(P) /\ P \in Process /\ P.pc = "orphans"
  BY CurrentProcess DEF ListOrphans
<1>2. /\ P.todo # <<>> \/ (P.cmd = "down" /\ P.purge)
      /\ \A i \in DOMAIN P.todo : P.todo[i] \in Listed(P.file)
  BY <1>1 DEF WellFormed
<1>3. CASE P.purge
  <2>1. OrphanUnits(mgr, P.file) \in SUBSET OrphanUnit
    BY DEF OrphanUnits
  <2>2. Reads(p, NextOrphan(Q))
    BY <1>3 DEF ListOrphans
  <2>3. Q \in Process /\ Q.todo = P.todo /\ Q.file = P.file /\ Q.cmd = P.cmd /\ Q.purge = P.purge
    BY <1>1, <2>1 DEF Process
  <2> HIDE DEF Q, P
  <2> QED
    BY <1>2, <2>2, <2>3, NextOrphanType, ReadsInv
<1>4. CASE ~P.purge
  <2>1. Reads(p, Enter(P))
    BY <1>4 DEF ListOrphans
  <2> QED
    BY <1>1, <1>2, <1>4, <2>1, EnterType, ReadsInv
<1> QED
  BY <1>3, <1>4

\* inspect_unit and what the handlers do with its answer.
LEMMA InspectInv ==
    ASSUME Inv, NEW p \in Proc,
           ReadLoadState(p) \/ ReadActiveState(p) \/ ReadDescription(p)
    PROVE  Inv'
<1> DEFINE P == proc[p]
<1>1. WellFormed(P) /\ P \in Process /\ P.todo # <<>> /\ P.file \in Files /\ This(P) \in Service
  <2>1. P.pc \in {"load", "active", "hash"}
    BY DEF ReadLoadState, ReadActiveState, ReadDescription
  <2>2. WellFormed(P) /\ P \in Process /\ P.todo # <<>>
    BY <2>1, CurrentProcess
  <2> QED
    BY <2>2, ThisListed
<1>2. CASE ReadLoadState(p)
  <2> DEFINE Q == CASE This(P) \in Loaded(mgr) -> [P EXCEPT !.pc = "active"]
                    [] This(P) \notin Loaded(mgr) /\ P.cmd = "up" ->
                        CheckDeps(P, P.file.def[This(P)].deps)
                    [] OTHER -> NextService(Note(P, TRUE))
  <2>1. Reads(p, Q)
    BY <1>2 DEF ReadLoadState
  <2>2. WellFormed([P EXCEPT !.pc = "active"])
    BY <1>1, PointType DEF Points, Teardowns
  <2>3. WellFormed(CheckDeps(P, P.file.def[This(P)].deps))
    BY <1>1, ThisListed, CheckDepsType
  <2>4. WellFormed(NextService(Note(P, TRUE)))
    BY <1>1, NoteType, NextServiceType
  <2>5. WellFormed(Q)
    BY <2>2, <2>3, <2>4
  <2> HIDE DEF Q
  <2> QED
    BY <2>1, <2>5, ReadsInv
<1>3. CASE ReadActiveState(p)
  <2>1. mgr.active[This(P)] \in ActiveState
    BY <1>1 DEF Inv, TypeOK, Manager
  <2>2. WellFormed([P EXCEPT !.pc = "hash", !.active = mgr.active[This(P)]])
    BY <1>1, <2>1 DEF WellFormed, Process, Points, Teardowns
  <2>3. Reads(p, [P EXCEPT !.pc = "hash", !.active = mgr.active[This(P)]])
    BY <1>3 DEF ReadActiveState
  <2> QED
    BY <2>2, <2>3, ReadsInv
<1>4. CASE ReadDescription(p)
  <2> DEFINE Q == CASE P.cmd = "up"    -> UpDecision(P, mgr.hash[This(P)])
                    [] P.cmd = "start" -> StartDecision(P)
                    [] OTHER           -> [P EXCEPT !.pc = "restart"]
  <2>1. Reads(p, Q)
    BY <1>4 DEF ReadDescription
  <2>2. WellFormed([P EXCEPT !.pc = "restart"])
    BY <1>1, PointType DEF Points, Teardowns
  <2>3. WellFormed(UpDecision(P, mgr.hash[This(P)])) /\ WellFormed(StartDecision(P))
    BY <1>1, DecisionType
  <2>4. WellFormed(Q)
    BY <2>2, <2>3
  <2> HIDE DEF Q
  <2> QED
    BY <2>1, <2>4, ReadsInv
<1> QED
  BY <1>2, <1>3, <1>4

\* blocked_dependency.
LEMMA BlockedDependencyInv ==
    ASSUME Inv, NEW p \in Proc, ReadDependencyLoadState(p) \/ ReadDependencyActiveState(p)
    PROVE  Inv'
<1> DEFINE P == proc[p]
<1>1. WellFormed(P) /\ P \in Process /\ P.todo # <<>> /\ Tail(P.deps) \in Seq(Service) /\ P.deps # <<>>
  <2>1. P.pc \in {"depLoad", "depActive"}
    BY DEF ReadDependencyLoadState, ReadDependencyActiveState
  <2>2. WellFormed(P) /\ P \in Process /\ P.todo # <<>> /\ Tail(P.deps) \in Seq(Service)
    BY <2>1, CurrentProcess
  <2> QED
    BY <2>1, <2>2 DEF WellFormed
<1>2. WellFormed(CheckDeps(P, Tail(P.deps)))
  BY <1>1, CheckDepsType
<1>3. WellFormed(NextService(Note(P, TRUE)))
  BY <1>1, NoteType, NextServiceType
<1>4. CASE ReadDependencyLoadState(p)
  <2>1. WellFormed([P EXCEPT !.pc = "depActive"])
    BY <1>1 DEF WellFormed, Process, Points, Teardowns
  <2>2. Reads(p, IF Head(P.deps) \in Loaded(mgr) THEN [P EXCEPT !.pc = "depActive"]
                 ELSE CheckDeps(P, Tail(P.deps)))
    BY <1>4 DEF ReadDependencyLoadState
  <2> QED
    BY <1>2, <2>1, <2>2, ReadsInv
<1>5. CASE ReadDependencyActiveState(p)
  <2>1. Reads(p, IF mgr.active[Head(P.deps)] \in RunningStates THEN CheckDeps(P, Tail(P.deps))
                 ELSE NextService(Note(P, TRUE)))
    BY <1>5 DEF ReadDependencyActiveState
  <2> QED
    BY <1>2, <1>3, <2>1, ReadsInv
<1> QED
  BY <1>4, <1>5

\* The calls of stop, down, of a unit that is recreated and of the orphans.
LEMMA TearDownStepInv ==
    ASSUME Inv, NEW p \in Proc, TearDown(p) \/ TearDownDirty(p)
    PROVE  Inv'
<1> DEFINE P == proc[p]
<1>1. WellFormed(P) /\ P.pc \in Teardowns /\ Head(P.calls) \in Call /\ ManagerInv(mgr)
  <2>1. P.pc \in Teardowns
    BY DEF TearDown, TearDownDirty
  <2> QED
    BY <2>1, CurrentProcess
<1>2. WellFormed(AfterCall(P))
  BY <1>1, AfterCallType
<1>3. CASE TearDown(p)
  <2>1. Asks(p, Effect(mgr, Head(P.calls), {}), AfterCall(P))
    BY <1>3 DEF TearDown
  <2>2. ManagerInv(Effect(mgr, Head(P.calls), {}))
    BY <1>1, EffectInv
  <2> QED
    BY <1>2, <2>1, <2>2, AsksInv
<1>4. CASE TearDownDirty(p)
  <2>1. /\ CanFault("dirty") /\ SpendFault /\ Moves(p, AfterCall(P)) /\ file' = file
        /\ \E s \in BoundTo(mgr, Head(P.calls).of) : mgr' = Effect(mgr, Head(P.calls), {s})
    BY <1>4 DEF TearDownDirty
  <2>2. ManagerInv(mgr')
    BY <1>1, <2>1, EffectInv
  <2> QED
    BY <1>2, <2>1, <2>2, FaultInv
<1> QED
  BY <1>3, <1>4

\* systemd-run of a service and of its healthcheck timer.
LEMMA CreateInv ==
    ASSUME Inv, NEW p \in Proc, Create(p) \/ CreateHealthTimer(p)
    PROVE  Inv'
<1> DEFINE P == proc[p]
<1>1. WellFormed(P) /\ P.todo # <<>> /\ Files # {} /\ ManagerInv(mgr)
  <2>1. P.pc \in {"create", "createTimer"}
    BY DEF Create, CreateHealthTimer
  <2> QED
    BY <2>1, CurrentProcess
<1>2. This(P) \in Service /\ Desired(P) \in Hashes
  BY <1>1, ThisListed
<1>3. WellFormed(Idle(TRUE)) /\ WellFormed(NextService(P))
  BY <1>1, IdleType, NextServiceType
<1>4. CASE Create(p)
  <2> DEFINE m == CreateMain(mgr, This(P), Desired(P))
             Q == IF ~CanCreate(mgr, This(P), Desired(P)) THEN Idle(TRUE)
                  ELSE IF Monitored(P) THEN [P EXCEPT !.pc = "createTimer"] ELSE NextService(P)
  <2>1. Asks(p, m, Q)
    BY <1>4 DEF Create
  <2>2. WellFormed([P EXCEPT !.pc = "createTimer"])
    BY <1>1, PointType DEF Points, Teardowns
  <2>3. WellFormed(Q) /\ ManagerInv(m)
    BY <1>1, <1>2, <1>3, <2>2, CreateMainInv
  <2> HIDE DEF Q, m
  <2> QED
    BY <2>1, <2>3, AsksInv
<1>5. CASE CreateHealthTimer(p)
  <2> DEFINE m == CreateTimer(mgr, This(P))
             Q == IF CanCreateTimer(mgr, This(P)) THEN NextService(P) ELSE Idle(TRUE)
  <2>1. Asks(p, m, Q)
    BY <1>5 DEF CreateHealthTimer
  <2>2. WellFormed(Q) /\ ManagerInv(m)
    BY <1>1, <1>2, <1>3, CreateTimerInv
  <2> HIDE DEF Q, m
  <2> QED
    BY <2>1, <2>2, AsksInv
<1> QED
  BY <1>4, <1>5

\* The calls that start and restart existing units.
LEMMA StartInv ==
    ASSUME Inv, NEW p \in Proc, StartExisting(p) \/ RestartExisting(p) \/ StartHealthTimer(p)
    PROVE  Inv'
<1> DEFINE P == proc[p]
           ok == Startable(mgr, This(P))
<1>1. WellFormed(P) /\ P.todo # <<>> /\ ManagerInv(mgr)
  <2>1. P.pc \in {"start", "restart", "startTimer"}
    BY DEF StartExisting, RestartExisting, StartHealthTimer
  <2> QED
    BY <2>1, CurrentProcess
<1>2. This(P) \in Service
  BY <1>1, ThisListed
<1>3. ok \in BOOLEAN
  BY DEF Startable
<1>4. WellFormed(Started(P, ok))
  BY <1>1, <1>3, StartedType
<1>5. CASE StartExisting(p)
  <2> DEFINE m == IF ok THEN StartMain(mgr, This(P)) ELSE mgr
  <2>1. Asks(p, m, Started(P, ok))
    BY <1>5 DEF StartExisting
  <2>2. ManagerInv(m)
    BY <1>1, <1>2, StartMainInv
  <2> HIDE DEF m, ok
  <2> QED
    BY <1>4, <2>1, <2>2, AsksInv
<1>6. CASE RestartExisting(p)
  <2> DEFINE m == IF ok THEN RestartMain(mgr, This(P)) ELSE mgr
  <2>1. Asks(p, m, Started(P, ok))
    BY <1>6 DEF RestartExisting
  <2>2. ManagerInv(m)
    BY <1>1, <1>2, RestartMainInv
  <2> HIDE DEF m, ok
  <2> QED
    BY <1>4, <2>1, <2>2, AsksInv
<1>7. CASE StartHealthTimer(p)
  <2> DEFINE b == ~CanStartTimer(mgr, This(P))
  <2>1. Reads(p, NextService(Note(P, b)))
    BY <1>7 DEF StartHealthTimer
  <2>2. b \in BOOLEAN
    BY DEF CanStartTimer
  <2> HIDE DEF b
  <2>3. WellFormed(NextService(Note(P, b)))
    BY <1>1, <2>2, NoteType, NextServiceType
  <2> QED
    BY <2>1, <2>3, ReadsInv
<1> QED
  BY <1>5, <1>6, <1>7

\* A call that fails and an exception leave the invariant as it was.
LEMMA InterruptedInv ==
    ASSUME Inv, NEW p \in Proc, Rejected(p) \/ Raise(p)
    PROVE  Inv'
<1> DEFINE P == proc[p]
<1>1. WellFormed(P) /\ Files # {} /\ ManagerInv(mgr)
  BY CurrentProcess
<1>2. CASE Raise(p)
  <2>1. WellFormed(Idle(TRUE))
    BY <1>1, IdleType
  <2>2. CanFault("raise") /\ SpendFault /\ Moves(p, Idle(TRUE)) /\ file' = file /\ mgr' = mgr
    BY <1>2 DEF Raise
  <2> QED
    BY <1>1, <2>1, <2>2, FaultInv
<1>3. CASE Rejected(p)
  <2>1. CanFault("reject") /\ SpendFault /\ file' = file /\ mgr' = mgr
    BY <1>3 DEF Rejected
  <2>2. CASE P.pc \in Teardowns /\ Moves(p, FailedCall(P))
    BY <1>1, <2>1, <2>2, FailedCallType, FaultInv
  <2>3. CASE P.pc \in {"start", "restart", "startTimer"} /\ Moves(p, NextService(Note(P, TRUE)))
    <3>1. P.todo # <<>>
      BY <1>1, <2>3, CurrentProcess
    <3>2. WellFormed(NextService(Note(P, TRUE)))
      BY <1>1, <3>1, NoteType, NextServiceType
    <3> QED
      BY <1>1, <2>1, <2>3, <3>2, FaultInv
  <2> QED
    BY <1>3, <2>2, <2>3 DEF Rejected
<1> QED
  BY <1>2, <1>3

\* Edits of the file, services that exit and restart, probes.
LEMMA EnvironmentInv ==
    ASSUME Inv, Environment
    PROVE  Inv'
<1>1. ManagerInv(mgr)
  BY DEF Inv
<1>2. CASE EditFile
  <2>1. /\ file' \in Files /\ mgr' = mgr /\ proc' = proc /\ quiet' = quiet /\ steady' = FALSE
        /\ budget.edits > 0 /\ budget' = [budget EXCEPT !.edits = @ - 1]
    BY <1>2 DEF EditFile
  <2>2. budget' \in [faults : 0..MaxFaults, edits : 0..MaxEdits, commands : 0..MaxCommands]
    BY <2>1, BoundsAssumption DEF Inv, TypeOK
  <2> QED
    BY <2>1, <2>2 DEF Inv, TypeOK
<1>3. ASSUME ManagerInv(mgr'), file' = file, proc' = proc, quiet' \in {quiet, {}}, steady' \in BOOLEAN,
             budget' = budget \/ (SpendFault /\ budget.faults > 0)
      PROVE  Inv'
  <2>1. budget' \in [faults : 0..MaxFaults, edits : 0..MaxEdits, commands : 0..MaxCommands]
    BY <1>3, BoundsAssumption DEF Inv, TypeOK, SpendFault
  <2> QED
    BY <1>3, <2>1 DEF Inv, TypeOK, ManagerInv
<1>4. CASE Crash
  <2>1. ManagerInv(mgr')
    BY <1>1, <1>4, CrashMainInv DEF Crash, Up
  <2> QED
    BY <1>3, <1>4, <2>1 DEF Crash, CanFault, Disturbed
<1>5. CASE Flap
  <2>1. ManagerInv(mgr')
    BY <1>1, <1>5, FlapMainInv DEF Flap
  <2> QED
    BY <1>3, <1>5, <2>1 DEF Flap, CanFault, Disturbed
<1>6. CASE AutoRestart
  <2>1. PICK s \in Service : mgr.active[s] = "activating" /\ mgr' = Restarted(mgr, s)
    BY <1>6 DEF AutoRestart
  <2>2. s \in Up(mgr)
    BY <2>1 DEF Up, RunningStates
  <2>3. ManagerInv(mgr')
    BY <1>1, <2>1, <2>2, RestartedInv
  <2>4. steady \in BOOLEAN
    BY DEF Inv, TypeOK
  <2> QED
    BY <1>3, <1>6, <2>3, <2>4 DEF AutoRestart
<1>7. CASE ProbeFails \/ ProbeSucceeds
  <2>1. ManagerInv(mgr')
    BY <1>1, <1>7, RunProbeInv DEF ProbeFails, ProbeSucceeds
  <2>2. steady \in BOOLEAN
    BY DEF Inv, TypeOK
  <2> QED
    BY <1>3, <1>7, <2>1, <2>2 DEF ProbeFails, ProbeSucceeds, CanFault
<1> QED
  BY <1>2, <1>4, <1>5, <1>6, <1>7 DEF Environment

-----------------------------------------------------------------------------
\* The invariant holds of an empty manager on which no command runs.
LEMMA InitInv ==
    ASSUME Init
    PROVE  Inv
<1>1. ManagerInv(EmptyManager)
  BY NoHashAssumption
  DEF EmptyManager, ManagerInv, Manager, ActiveState, NotFoundIsInactive, ProbesKeepMain,
      ProbesLoaded, DependenciesUp, MonitoredUp, Up, Loaded, RunningStates
<1>2. file \in Files /\ mgr = EmptyManager
  BY DEF Init
<1>3. WellFormed(Idle(FALSE)) /\ Idle(FALSE) \in Process
  BY <1>2, IdleType DEF WellFormed
<1>4. proc \in [Proc -> Process] /\ \A p \in Proc : WellFormed(proc[p])
  BY <1>3 DEF Init
<1>5. budget \in [faults : 0..MaxFaults, edits : 0..MaxEdits, commands : 0..MaxCommands]
  BY BoundsAssumption DEF Init
<1> QED
  BY <1>1, <1>2, <1>4, <1>5 DEF Init, Inv, TypeOK, ManagerInv

\* Every step preserves the invariant.
LEMMA NextInv ==
    ASSUME Inv, [Next]_vars
    PROVE  Inv'
<1>1. CASE UNCHANGED vars
  BY <1>1 DEF vars, Inv, TypeOK
<1>2. CASE Environment
  BY <1>2, EnvironmentInv
<1>3. ASSUME NEW p \in Proc, (\E r \in Requests : Begin(p, r)) \/ Step(p) \/ Fault(p)
      PROVE  Inv'
  <2>1. CASE \E r \in Requests : Begin(p, r)
    BY <2>1, BeginInv
  <2>2. CASE Step(p)
    BY <2>2, ListOrphansInv, InspectInv, BlockedDependencyInv, TearDownStepInv, CreateInv, StartInv
       DEF Step
  <2>3. CASE Fault(p)
    BY <2>3, TearDownStepInv, InterruptedInv DEF Fault
  <2> QED
    BY <1>3, <2>1, <2>2, <2>3
<1> QED
  BY <1>1, <1>2, <1>3 DEF Next

\* The commands only ever stand at a call they can make (a service of the file they
\* read, a teardown with a call left) and ask the manager for what it knows.
THEOREM TypeCorrect == Spec => []TypeOK
<1>1. Inv => TypeOK
  BY DEF Inv
<1> QED
  BY <1>1, InitInv, NextInv, PTL DEF Spec

\* Whatever the commands, their interleaving, the edits and the faults, no service
\* runs on top of a dependency that is down.
THEOREM DependenciesStayBound == Spec => []DependencyBound
<1>1. Inv => DependencyBound
  BY DEF Inv, ManagerInv, DependencyBound
<1> QED
  BY <1>1, InitInv, NextInv, PTL DEF Spec

\* Whatever they are, no healthcheck timer outlives the run of its service, and no
\* health unit is loaded for a service that is not.
THEOREM MonitorsStayBound == Spec => []MonitorBound
<1>1. Inv => MonitorBound
  BY DEF Inv, ManagerInv, MonitorBound
<1> QED
  BY <1>1, InitInv, NextInv, PTL DEF Spec

=============================================================================
