-------------------------- MODULE OwnershipProofs --------------------------
(***************************************************************************)
(* What Ownership keeps true for every set of projects, names and texts of *)
(* compose files: commands reach the units of their own project and of no  *)
(* unrelated one, purge all of them, and keep the files of a project in    *)
(* one scope with their target, wherever they are interrupted.             *)
(***************************************************************************)
EXTENDS Ownership, CommonProofs, SequenceTheorems

-----------------------------------------------------------------------------
(* Names. *)

LEMMA Symbols == Dash \in Symbol /\ Health \in Symbol
  BY SymbolAssumption

\* A set of positions in a sequence has a greatest element.
LEMMA GreatestPosition ==
    ASSUME NEW n \in Nat, NEW T, T \subseteq 1 .. n, T # {}
    PROVE  \E x \in T : \A y \in T : y <= x
<1> DEFINE U == {n - y : y \in T}
<1>1. U \subseteq Nat /\ U # {}
  <2>1. \A y \in T : n - y \in Nat
    OBVIOUS
  <2>2. PICK y \in T : TRUE
    OBVIOUS
  <2>3. n - y \in U
    OBVIOUS
  <2> QED
    BY <2>1, <2>3
<1>2. PICK u \in U : \A v \in U : u <= v
  BY <1>1, LeastNat
<1>3. PICK x \in T : u = n - x
  BY <1>2
<1>4. ASSUME NEW y \in T PROVE y <= x
  <2>1. u <= n - y
    BY <1>2
  <2> QED
    BY <1>3, <2>1
<1> QED
  BY <1>4

\* What is cleaned is a name, or nothing.
LEMMA CleanIsName ==
    ASSUME NEW n \in Name
    PROVE  Clean(n) \in Name
<1> DEFINE kept  == {i \in 1 .. Len(n) : n[i] \notin {Dash, Other}}
           first == CHOOSE i \in kept : \A j \in kept : i <= j
           last_ == CHOOSE i \in kept : \A j \in kept : j <= i
<1>0. Len(n) \in Nat /\ \A i \in 1 .. Len(n) : n[i] \in Symbol
  BY DEF Name
<1>1. CASE kept = {}
  BY <1>1 DEF Clean, Name
<1>2. CASE kept # {}
  <2>1. first \in kept
    <3>1. kept \subseteq Nat
      BY <1>0
    <3>2. \E x \in kept : \A y \in kept : x <= y
      <4> HIDE DEF kept
      <4> QED
        BY <1>2, <3>1, LeastNat
    <3> QED
      BY <3>2
  <2>2. last_ \in kept
    <3>1. kept \subseteq 1 .. Len(n)
      OBVIOUS
    <3>2. \E x \in kept : \A y \in kept : y <= x
      <4> HIDE DEF kept
      <4> QED
        BY <1>0, <1>2, <3>1, GreatestPosition
    <3> QED
      BY <3>2
  <2>3. \A i \in first .. last_ : Dashed(n)[i] \in Symbol
    BY <1>0, <2>1, <2>2, Symbols DEF Dashed
  <2>4. Clean(n) = SubSeq(Dashed(n), first, last_)
    BY <1>2 DEF Clean
  <2> HIDE DEF kept, first, last_
  <2>5. first \in Int /\ last_ \in Int
    BY <1>0, <2>1, <2>2 DEF kept
  <2> QED
    BY <2>3, <2>4, <2>5, SubSeqProperties DEF Name
<1> QED
  BY <1>1, <1>2

\* str.startswith, position by position.
LEMMA BearsPointwise ==
    ASSUME NEW u \in Name, NEW x \in Name
    PROVE  Bears(u, x) <=> Len(x) <= Len(u) /\ \A i \in 1 .. Len(x) : u[i] = x[i]
<1>1. CASE ~(Len(x) <= Len(u))
  BY <1>1 DEF Bears
<1>2. CASE Len(x) <= Len(u)
  <2> DEFINE y == SubSeq(u, 1, Len(x))
  <2>1. Len(x) \in Nat /\ Len(u) \in Nat /\ \A i \in 1 .. Len(u) : u[i] \in Symbol
    BY DEF Name
  <2>2. \A i \in 1 .. Len(x) : u[i] \in Symbol
    BY <1>2, <2>1
  <2>3. /\ y \in Seq(Symbol) /\ Len(y) = Len(x)
        /\ \A i \in 1 .. Len(x) : y[i] = u[i]
    BY <2>1, <2>2, SubSeqProperties
  <2> HIDE DEF y
  <2>4. y = x <=> \A i \in 1 .. Len(x) : y[i] = x[i]
    BY <2>1, <2>3, SeqEqual DEF Name
  <2>5. Bears(u, x) <=> y = x
    BY <1>2 DEF Bears, y
  <2> QED
    BY <1>2, <2>3, <2>4, <2>5
<1> QED
  BY <1>1, <1>2

\* Of two beginnings of one name, one begins with the other.
LEMMA BeginningsAreComparable ==
    ASSUME NEW u \in Name, NEW x \in Name, NEW y \in Name, Bears(u, x), Bears(u, y)
    PROVE  Bears(x, y) \/ Bears(y, x)
  BY BearsPointwise DEF Name

LEMMA BearsIsTransitive ==
    ASSUME NEW u \in Name, NEW x \in Name, NEW y \in Name, Bears(u, x), Bears(x, y)
    PROVE  Bears(u, y)
  BY BearsPointwise DEF Name

LEMMA ConcatBears ==
    ASSUME NEW x \in Name, NEW y \in Name
    PROVE  x \o y \in Name /\ Bears(x \o y, x)
<1>1. /\ x \o y \in Name /\ Len(x \o y) = Len(x) + Len(y)
      /\ \A i \in 1 .. Len(x) + Len(y) : (x \o y)[i] = IF i <= Len(x) THEN x[i] ELSE y[i - Len(x)]
  BY ConcatProperties DEF Name
<1>2. Len(x) \in Nat /\ Len(y) \in Nat
  BY DEF Name
<1>3. Len(x) <= Len(x \o y) /\ \A i \in 1 .. Len(x) : (x \o y)[i] = x[i]
  BY <1>1, <1>2
<1> QED
  BY <1>1, <1>3, BearsPointwise

LEMMA AppendBears ==
    ASSUME NEW x \in Name, NEW e \in Symbol
    PROVE  Append(x, e) \in Name /\ Bears(Append(x, e), x)
<1>1. /\ Append(x, e) \in Name /\ Len(Append(x, e)) = Len(x) + 1
      /\ \A i \in 1 .. Len(x) : Append(x, e)[i] = x[i]
  BY AppendProperties DEF Name
<1>2. Len(x) \in Nat
  BY DEF Name
<1>3. Len(x) <= Len(Append(x, e))
  BY <1>1, <1>2
<1> QED
  BY <1>1, <1>3, BearsPointwise

\* The names that a project gives are names, and but for the target's they bear its
\* prefix.
LEMMA GivenNames ==
    ASSUME NEW p \in Name
    PROVE  /\ TargetName(p) \in Name /\ UnitPrefix(p) \in Name
           /\ Bears(UnitPrefix(p), TargetName(p))
           /\ Bears(UnitPrefix(p), UnitPrefix(p))
           /\ \A s \in Name : /\ UnitName(p, s) \in Name
                              /\ Bears(UnitName(p, s), UnitPrefix(p))
                              /\ HealthUnitName(p, s) \in Name
                              /\ Bears(HealthUnitName(p, s), UnitPrefix(p))
<1>1. Clean(p) \in Name
  BY CleanIsName
<1>2. UnitPrefix(p) \in Name /\ Bears(UnitPrefix(p), TargetName(p))
  BY <1>1, AppendBears, Symbols DEF UnitPrefix, TargetName
<1>3. Bears(UnitPrefix(p), UnitPrefix(p))
  BY <1>2, BearsPointwise DEF Name
<1>4. ASSUME NEW s \in Name
      PROVE  /\ UnitName(p, s) \in Name /\ Bears(UnitName(p, s), UnitPrefix(p))
             /\ HealthUnitName(p, s) \in Name /\ Bears(HealthUnitName(p, s), UnitPrefix(p))
  <2>1. UnitName(p, s) = UnitPrefix(p) \o Clean(s)
    BY DEF UnitName, UnitPrefix
  <2>2. UnitName(p, s) \in Name /\ Bears(UnitName(p, s), UnitPrefix(p))
    BY <1>2, <2>1, CleanIsName, ConcatBears
  <2>3. <<Dash, Health>> \in Name
    BY Symbols DEF Name
  <2>4. HealthUnitName(p, s) \in Name /\ Bears(HealthUnitName(p, s), UnitName(p, s))
    BY <2>2, <2>3, ConcatBears DEF HealthUnitName
  <2> QED
    BY <1>2, <2>2, <2>4, BearsIsTransitive
<1> QED
  BY <1>1, <1>2, <1>3, <1>4 DEF TargetName

LEMMA CancelFirst ==
    ASSUME NEW u \in Seq(Symbol), NEW v \in Seq(Symbol), NEW w \in Seq(Symbol), u \o v = u \o w
    PROVE  v = w
  BY ConcatSimplifications

LEMMA CancelLast ==
    ASSUME NEW u \in Seq(Symbol), NEW v \in Seq(Symbol), NEW w \in Seq(Symbol), v \o u = w \o u
    PROVE  v = w
  BY ConcatSimplifications

\* Two services share a name of a unit only if they are alike.
LEMMA SharedNames ==
    ASSUME NEW p \in Name, NEW r \in Name, NEW s \in Name
    PROVE  /\ UnitName(p, r) = UnitName(p, s) => Clean(r) = Clean(s)
           /\ UnitName(p, r) = HealthUnitName(p, s) => Clean(r) = Clean(s) \o <<Dash, Health>>
           /\ HealthUnitName(p, r) = HealthUnitName(p, s) => Clean(r) = Clean(s)
<1> DEFINE x == UnitPrefix(p)
           h == <<Dash, Health>>
<1>1. x \in Seq(Symbol) /\ h \in Seq(Symbol)
  BY GivenNames, Symbols DEF Name
<1>2. Clean(r) \in Seq(Symbol) /\ Clean(s) \in Seq(Symbol)
  BY CleanIsName DEF Name
<1>3. /\ UnitName(p, r) = x \o Clean(r) /\ UnitName(p, s) = x \o Clean(s)
      /\ HealthUnitName(p, r) = UnitName(p, r) \o h /\ HealthUnitName(p, s) = UnitName(p, s) \o h
  BY DEF UnitName, UnitPrefix, HealthUnitName
<1> HIDE DEF x, h
<1>5. UnitName(p, r) \in Seq(Symbol) /\ UnitName(p, s) \in Seq(Symbol)
  BY GivenNames DEF Name
<1>6. HealthUnitName(p, s) = x \o (Clean(s) \o h) /\ Clean(s) \o h \in Seq(Symbol)
  BY <1>1, <1>2, <1>3, ConcatAssociative, ConcatProperties
<1>7. ASSUME UnitName(p, r) = UnitName(p, s) PROVE Clean(r) = Clean(s)
  <2>1. x \o Clean(r) = x \o Clean(s)
    BY <1>3, <1>7
  <2> QED
    BY <1>1, <1>2, <2>1, CancelFirst
<1>8. ASSUME UnitName(p, r) = HealthUnitName(p, s) PROVE Clean(r) = Clean(s) \o h
  <2> DEFINE y == Clean(s) \o h
  <2>1. x \o Clean(r) = x \o y /\ y \in Seq(Symbol)
    BY <1>3, <1>6, <1>8
  <2> HIDE DEF y
  <2>2. Clean(r) = y
    BY <1>1, <1>2, <2>1, CancelFirst
  <2> QED
    BY <2>2 DEF y
<1>9. ASSUME HealthUnitName(p, r) = HealthUnitName(p, s) PROVE Clean(r) = Clean(s)
  <2>1. UnitName(p, r) \o h = UnitName(p, s) \o h
    BY <1>3, <1>9
  <2>2. UnitName(p, r) = UnitName(p, s)
    BY <1>1, <1>5, <2>1, CancelLast
  <2> QED
    BY <1>7, <2>2
<1> QED
  BY <1>7, <1>8, <1>9 DEF h

-----------------------------------------------------------------------------
(* Units and sets of units. *)

\* A command of p takes the unit for one of its project's.
Reaches(p, u) == Key(u) = TargetKey(p) \/ Bears(u.name, UnitPrefix(p))

\* A unit that a command of p submits or writes.
MadeBy(p, u) == u \in Unit /\ u.owner = p /\ OwnName(u) /\ Reaches(p, u)

\* What a command of p may do to a set of units.
Confined(p, units, after) ==
    /\ \A u \in units \ after : Reaches(p, u)
    /\ \A u \in after \ units : MadeBy(p, u)

UnitsOk(units) ==
    /\ units \subseteq Unit
    /\ OneUnitPerName(units)
    /\ \A u \in units : OwnName(u)

\* The units that a project gives a service.
LEMMA OwnNameForms ==
    ASSUME NEW u \in Unit, OwnName(u)
    PROVE  \/ u = TargetUnit(u.owner)
           \/ u.kind = "service" /\ u.name = UnitName(u.owner, u.of)
           \/ u.kind \in {"service", "timer"} /\ u.name = HealthUnitName(u.owner, u.of)
  BY DEF OwnName, ServiceUnits, MainUnits, HealthUnits

LEMMA OwnNameReaches ==
    ASSUME NEW u \in Unit, OwnName(u)
    PROVE  Reaches(u.owner, u)
<1>1. u.owner \in Name /\ u.of \in Name
  BY ProjectAssumption DEF Unit
<1>2. CASE u = TargetUnit(u.owner)
  <2>1. Key(u) = TargetKey(u.owner)
    BY <1>2 DEF TargetUnit, TargetKey, Key
  <2> QED
    BY <2>1 DEF Reaches
<1>3. CASE u.name = UnitName(u.owner, u.of) \/ u.name = HealthUnitName(u.owner, u.of)
  BY <1>1, <1>3, GivenNames DEF Reaches
<1> QED
  BY <1>2, <1>3, OwnNameForms

LEMMA ReachesByKey ==
    ASSUME NEW p, NEW u, NEW v, Key(u) = Key(v), Reaches(p, v)
    PROVE  Reaches(p, u)
  BY DEF Reaches, Key

\* Put keeps what it does not replace.
LEMMA PutConfined ==
    ASSUME NEW p, NEW units, NEW rest, NEW new, rest \subseteq units,
           \A u \in units \ rest : Reaches(p, u), \A u \in new : MadeBy(p, u)
    PROVE  /\ Confined(p, units, Put(rest, new))
           /\ new \subseteq Put(rest, new)
           /\ Put(rest, new) \subseteq rest \cup new
<1> DEFINE after == Put(rest, new)
<1>1. after = {u \in rest : Key(u) \notin {Key(v) : v \in new}} \cup new
  BY DEF Put
<1>2. ASSUME NEW u \in units \ after PROVE Reaches(p, u)
  <2>1. CASE u \notin rest
    BY <2>1
  <2>2. CASE u \in rest
    <3>1. PICK v \in new : Key(u) = Key(v)
      BY <1>1, <1>2, <2>2
    <3> QED
      BY <3>1, ReachesByKey DEF MadeBy
  <2> QED
    BY <2>1, <2>2
<1>3. \A u \in after \ units : MadeBy(p, u)
  BY <1>1
<1> HIDE DEF after
<1> QED
  BY <1>1, <1>2, <1>3 DEF Confined, after

LEMMA PutKeepsOneName ==
    ASSUME NEW units, NEW new, OneUnitPerName(units), OneUnitPerName(new)
    PROVE  OneUnitPerName(Put(units, new))
<1> SUFFICES ASSUME NEW u \in Put(units, new), NEW v \in Put(units, new), Key(u) = Key(v)
             PROVE  u = v
  BY DEF OneUnitPerName
<1>1. CASE u \in new /\ v \in new
  BY <1>1 DEF OneUnitPerName
<1>2. CASE u \notin new \/ v \notin new
  <2>1. u \in units /\ v \in units
    BY <1>2 DEF Put
  <2> QED
    BY <2>1 DEF OneUnitPerName
<1> QED
  BY <1>1, <1>2

LEMMA FewerOneName ==
    ASSUME NEW units, NEW after, OneUnitPerName(units), after \subseteq units
    PROVE  OneUnitPerName(after)
  BY DEF OneUnitPerName

LEMMA FewerUnitsOk ==
    ASSUME NEW units, NEW after, UnitsOk(units), after \subseteq units
    PROVE  UnitsOk(after)
  BY DEF UnitsOk, OneUnitPerName

LEMMA PutOk ==
    ASSUME NEW p, NEW units, NEW new, UnitsOk(units), \A u \in new : MadeBy(p, u),
           OneUnitPerName(new)
    PROVE  UnitsOk(Put(units, new))
<1>1. OneUnitPerName(Put(units, new))
  BY PutKeepsOneName DEF UnitsOk
<1>2. Put(units, new) \subseteq units \cup new
  BY DEF Put
<1>3. \A u \in new : u \in Unit /\ OwnName(u)
  BY DEF MadeBy
<1> QED
  BY <1>1, <1>2, <1>3 DEF UnitsOk

-----------------------------------------------------------------------------
(* The units that a command makes. *)

LEMMA LineFacts ==
    ASSUME NEW c \in Line
    PROVE  /\ c.project \in Project /\ c.project \in Name
           /\ c.scope \in Scope /\ c.purge \in BOOLEAN
           /\ c.raw \in RawFiles /\ NamesIn(c.raw) \subseteq Name
<1>1. c.project \in Project /\ c.raw \in RawFiles /\ c.scope \in Scope /\ c.purge \in BOOLEAN
  BY DEF Line
<1>2. c.raw.services \in Seq(RawService)
  BY <1>1, RawFilesAssumption DEF IsRawFile
<1>3. \A i \in DOMAIN c.raw.services : c.raw.services[i] \in RawService
  BY <1>2
<1>4. \A i \in DOMAIN c.raw.services : c.raw.services[i].name \in Name
  BY <1>3 DEF RawService
<1> QED
  BY <1>1, <1>4, ProjectAssumption DEF NamesIn

LEMMA UnitsMade ==
    ASSUME NEW p \in Project, NEW S, S \subseteq Name,
           NEW u \in {TargetUnit(p)} \cup ServiceUnits(p, S)
    PROVE  MadeBy(p, u) /\ (u = TargetUnit(p) \/ (u.of \in S /\ u.kind # "target"))
<1>1. p \in Name /\ TargetName(p) \in Name /\ <<>> \in Name
  BY ProjectAssumption, GivenNames DEF Name
<1>2. CASE u = TargetUnit(p)
  <2>1. u \in Unit /\ u.owner = p
    BY <1>1, <1>2 DEF TargetUnit, Unit
  <2>2. OwnName(u)
    BY <1>2, <2>1 DEF OwnName
  <2> QED
    BY <1>2, <2>1, <2>2, OwnNameReaches DEF MadeBy
<1>3. CASE u \in ServiceUnits(p, S)
  <2>1. PICK s \in S : u \in ServiceUnits(p, {s}) /\ u.of = s
    BY <1>3 DEF ServiceUnits, MainUnits, HealthUnits
  <2>2. /\ s \in Name /\ UnitName(p, s) \in Name /\ HealthUnitName(p, s) \in Name
    BY <1>1, GivenNames
  <2>3. u \in Unit /\ u.owner = p /\ u.kind # "target"
    BY <2>1, <2>2 DEF ServiceUnits, MainUnits, HealthUnits, Unit
  <2>4. OwnName(u)
    BY <2>1, <2>3 DEF OwnName
  <2> QED
    BY <2>1, <2>3, <2>4, OwnNameReaches DEF MadeBy
<1> QED
  BY <1>2, <1>3

LEMMA UnitKinds ==
    /\ \A p, S : \A u \in MainUnits(p, S) : u.kind = "service"
    /\ \A p, kind, S : \A u \in HealthUnits(p, kind, S) : u.kind = kind
  BY DEF MainUnits, HealthUnits

LEMMA MoreServiceUnits ==
    ASSUME NEW p, NEW S, NEW T, T \subseteq S
    PROVE  /\ MainUnits(p, S) \subseteq ServiceUnits(p, S)
           /\ HealthUnits(p, "service", T) \subseteq ServiceUnits(p, S)
           /\ HealthUnits(p, "timer", T) \subseteq ServiceUnits(p, S)
  BY DEF ServiceUnits, HealthUnits

\* The files generated are the project's, one of a name.
LEMMA DesiredFilesMade ==
    ASSUME NEW p \in Project, NEW raw \in RawFiles, NamesIn(raw) \subseteq Name
    PROVE  /\ \A u \in DesiredFiles(p, raw) : MadeBy(p, u) /\ OfListed(u, raw)
           /\ OneUnitPerName(DesiredFiles(p, raw))
<1> DEFINE S == NamesIn(raw)
           files == DesiredFiles(p, raw)
<1>1. Monitored(raw, S) \subseteq S
  BY DEF Monitored
<1>2. files \subseteq {TargetUnit(p)} \cup ServiceUnits(p, S)
  BY <1>1, MoreServiceUnits DEF DesiredFiles
<1>3. \A u \in files : MadeBy(p, u) /\ (u = TargetUnit(p) \/ (u.of \in S /\ u.kind # "target"))
  BY <1>2, UnitsMade
<1>4. \A u \in files : OfListed(u, raw)
  BY <1>3 DEF OfListed, TargetUnit, Alike
<1>5. \A s \in S : Position(raw, s) \in Nat
  <2>1. raw.services \in Seq(RawService)
    BY RawFilesAssumption DEF IsRawFile
  <2>2. DOMAIN raw.services \subseteq Nat
    BY <2>1
  <2>3. \A s \in S : \E i \in DOMAIN raw.services : raw.services[i].name = s
    BY DEF NamesIn
  <2>4. \A s \in S : Position(raw, s) \in DOMAIN raw.services
    BY <2>3 DEF Position
  <2> QED
    BY <2>2, <2>4
<1>6. ASSUME NEW u \in files, NEW v \in files, Key(u) = Key(v), u # v PROVE FALSE
  <2>1. Position(raw, v.of) < Position(raw, u.of) /\ Position(raw, u.of) < Position(raw, v.of)
    BY <1>6 DEF DesiredFiles
  <2>2. u.kind = v.kind
    BY <1>6 DEF Key
  <2>3. u.of \in S /\ v.of \in S
    BY <1>3, <1>6, <2>2 DEF TargetUnit
  <2> QED
    BY <1>5, <2>1, <2>3
<1> QED
  BY <1>3, <1>4, <1>6 DEF OneUnitPerName

\* A unit of the project that goes by a name expected is of a listed service, or of
\* one that is alike one.
LEMMA ExpectedIsListed ==
    ASSUME NEW p \in Project, NEW raw, NamesIn(raw) \subseteq Name,
           NEW u \in Unit, u.owner = p, OwnName(u), Key(u) \in Expected(p, NamesIn(raw))
    PROVE  OfListed(u, raw)
<1> DEFINE S == NamesIn(raw)
<1>1. p \in Name /\ u.of \in Name
  BY ProjectAssumption DEF Unit
<1>2. CASE u = TargetUnit(u.owner)
  BY <1>2 DEF TargetUnit, OfListed
<1>3. CASE u.kind # "target" /\ u.name \in {UnitName(p, u.of), HealthUnitName(p, u.of)}
  <2>1. u.name \in MainNames(p, S) \cup HealthNames(p, S)
    BY <1>3 DEF Expected, Key, TargetKey
  <2>2. PICK s \in S : u.name = UnitName(p, s) \/ u.name = HealthUnitName(p, s)
    BY <2>1 DEF MainNames, HealthNames
  <2>3. s \in Name
    OBVIOUS
  <2>4. Alike(u.of, s)
    BY <1>1, <1>3, <2>2, <2>3, SharedNames DEF Alike
  <2> QED
    BY <2>4 DEF OfListed
<1> QED
  BY <1>2, <1>3, OwnNameForms

-----------------------------------------------------------------------------
(* The commands. *)

LiveOk == UnitsOk(live) /\ \A u \in live : u.kind = "service"

DiskOk == disk \in [Scope -> SUBSET Unit] /\ \A scope \in Scope : UnitsOk(disk[scope])

\* What every command keeps to.
Obeys(c) ==
    /\ left' = left - 1
    /\ last' \in [line : {c}, how : {"ok", "failed", "refused"}]
    /\ LiveOk' /\ DiskOk'
    /\ Confined(c.project, live, live')
    /\ \A scope \in Scope : Confined(c.project, disk[scope], disk'[scope])
    /\ disk'[Opposite(c.scope)] = disk[Opposite(c.scope)]

LEMMA Scopes ==
    ASSUME NEW scope \in Scope
    PROVE  Opposite(scope) \in Scope /\ Opposite(scope) # scope
           /\ \A other \in Scope : other # scope => other = Opposite(scope)
  BY DEF Scope, Opposite

LEMMA SameConfined == ASSUME NEW p, NEW units PROVE Confined(p, units, units)
  BY DEF Confined

LEMMA EndsIsOutcome ==
    ASSUME NEW c, NEW how \in {"ok", "failed", "refused"}, Ends(c, how)
    PROVE  /\ left' = left - 1 /\ last' \in [line : {c}, how : {"ok", "failed", "refused"}]
           /\ last'.line = c /\ last'.how = how
  BY DEF Ends

LEMMA RefusesObeys ==
    ASSUME NEW c \in Line, LiveOk, DiskOk, Refuses(c)
    PROVE  Obeys(c) /\ last'.how # "ok" /\ disk' = disk
<1>1. Ends(c, "refused") /\ live' = live /\ disk' = disk
  BY DEF Refuses
<1>2. LiveOk' /\ DiskOk'
  BY <1>1 DEF LiveOk, DiskOk
<1> QED
  BY <1>1, <1>2, EndsIsOutcome, SameConfined DEF Obeys

\* A change to the files of one scope.
LEMMA OneScope ==
    ASSUME NEW scope \in Scope, DiskOk, NEW after,
           disk' = [disk EXCEPT ![scope] = after], UnitsOk(after)
    PROVE  /\ DiskOk' /\ disk'[scope] = after
           /\ \A other \in Scope : other # scope => disk'[other] = disk[other]
<1>1. after \subseteq Unit
  BY DEF UnitsOk
<1>2. disk' \in [Scope -> SUBSET Unit]
  BY <1>1 DEF DiskOk
<1>3. disk'[scope] = after /\ \A other \in Scope : other # scope => disk'[other] = disk[other]
  BY DEF DiskOk
<1>4. \A other \in Scope : UnitsOk(disk'[other])
  BY <1>3 DEF DiskOk
<1> QED
  BY <1>2, <1>3, <1>4 DEF DiskOk

LEMMA OneScopeObeys ==
    ASSUME NEW c \in Line, LiveOk, DiskOk, NEW after,
           disk' = [disk EXCEPT ![c.scope] = after], UnitsOk(after), live' = live,
           Confined(c.project, disk[c.scope], after),
           NEW how \in {"ok", "failed", "refused"}, Ends(c, how)
    PROVE  Obeys(c)
<1>1. c.scope \in Scope
  BY LineFacts
<1>2. /\ DiskOk' /\ disk'[c.scope] = after
      /\ \A other \in Scope : other # c.scope => disk'[other] = disk[other]
  BY <1>1, OneScope
<1>3. \A scope \in Scope : Confined(c.project, disk[scope], disk'[scope])
  BY <1>2, SameConfined
<1>4. disk'[Opposite(c.scope)] = disk[Opposite(c.scope)]
  BY <1>1, <1>2, Scopes
<1>5. Confined(c.project, live, live') /\ LiveOk'
  BY SameConfined DEF LiveOk
<1> QED
  BY <1>2, <1>3, <1>4, <1>5, EndsIsOutcome DEF Obeys

\* The files of a project are those that a command of it reaches.
LEMMA FilesReached ==
    ASSUME NEW p, NEW scope
    PROVE  \A u \in disk[scope] : u \in ProjectFiles(p, scope) <=> Reaches(p, u)
  BY DEF ProjectFiles, Reaches

\* What is not an orphan is of a listed service.
LEMMA KeptFilesListed ==
    ASSUME NEW p \in Project, NEW raw, NamesIn(raw) \subseteq Name, NEW scope \in Scope, DiskOk,
           NEW u \in disk[scope] \ OrphanFiles(p, NamesIn(raw), scope), u.owner = p
    PROVE  OfListed(u, raw)
<1>1. u \in Unit /\ OwnName(u) /\ Reaches(p, u)
  BY OwnNameReaches DEF DiskOk, UnitsOk
<1>2. Key(u) \in Expected(p, NamesIn(raw))
  BY <1>1, FilesReached DEF OrphanFiles
<1> QED
  BY <1>1, <1>2, ExpectedIsListed

LEMMA OrphanFilesReached ==
    ASSUME NEW p, NEW S, NEW scope
    PROVE  \A u \in OrphanFiles(p, S, scope) : u \in disk[scope] /\ Reaches(p, u)
<1>1. \A u \in OrphanFiles(p, S, scope) : u \in ProjectFiles(p, scope)
  BY DEF OrphanFiles
<1>2. \A u \in ProjectFiles(p, scope) : u \in disk[scope]
  BY DEF ProjectFiles
<1> QED
  BY <1>1, <1>2, FilesReached

\* The files that orphans are, and that is not the target's.
LEMMA TargetIsNoOrphan ==
    ASSUME NEW p, NEW S, NEW scope, NEW u \in OrphanFiles(p, S, scope)
    PROVE  Key(u) # TargetKey(p)
  BY DEF OrphanFiles, Expected

\* install and `up` of an installed project, as far as they come: the target is
\* written, or what there was of it is kept.
LEMMA ReconcileObeys ==
    ASSUME NEW c \in Line, LiveOk, DiskOk, Reconcile(c)
    PROVE  /\ Obeys(c)
           /\ \/ disk' = disk
              \/ \E u \in disk'[c.scope] : Key(u) = TargetKey(c.project) /\ u.owner = c.project
              \/ /\ disk'[c.scope] \subseteq disk[c.scope]
                 /\ \A u \in disk[c.scope] : Key(u) = TargetKey(c.project) => u \in disk'[c.scope]
           /\ last'.how = "ok" /\ c.purge =>
                 \A u \in disk'[c.scope] : u.owner = c.project => OfListed(u, c.raw)
<1> DEFINE p == c.project
           S == NamesIn(c.raw)
           desired == DesiredFiles(p, c.raw)
           orphans == IF c.purge THEN OrphanFiles(p, S, c.scope) ELSE {}
<1>1. p \in Project /\ c.scope \in Scope /\ c.raw \in RawFiles /\ S \subseteq Name
  BY LineFacts
<1>2. CASE \E s \in S : ~Buildable(c.raw, s)
  BY <1>2, RefusesObeys DEF Reconcile
<1>3. CASE ~\E s \in S : ~Buildable(c.raw, s)
  <2>1. PICK written \in SUBSET desired, gone \in SUBSET orphans, how \in {"ok", "failed"} :
                /\ written # {} => TargetUnit(p) \in written
                /\ gone # {} => written = desired
                /\ how = "ok" => written = desired /\ gone = orphans
                /\ disk' = [disk EXCEPT ![c.scope] = Put(@ \ gone, written)]
                /\ Ends(c, how)
                /\ UNCHANGED live
    BY <1>3 DEF Reconcile
  <2> DEFINE old == disk[c.scope]
             rest == old \ gone
             after == Put(rest, written)
  <2>2. disk' = [disk EXCEPT ![c.scope] = after]
    BY <2>1
  <2>3. /\ \A u \in desired : MadeBy(p, u) /\ OfListed(u, c.raw)
        /\ OneUnitPerName(desired)
    BY <1>1, DesiredFilesMade
  <2> HIDE DEF desired
  <2>4. (\A u \in written : MadeBy(p, u)) /\ OneUnitPerName(written)
    BY <2>3, FewerOneName
  <2>5. \A u \in gone : Reaches(p, u) /\ Key(u) # TargetKey(p)
    BY OrphanFilesReached, TargetIsNoOrphan
  <2>6. UnitsOk(old)
    BY <1>1 DEF DiskOk
  <2> HIDE DEF old, orphans
  <2>7. UnitsOk(rest) /\ rest \subseteq old /\ \A u \in old \ rest : Reaches(p, u)
    BY <2>5, <2>6, FewerUnitsOk
  <2> HIDE DEF rest
  <2>8. UnitsOk(after)
    BY <2>4, <2>7, PutOk
  <2>9. Confined(p, old, after) /\ written \subseteq after /\ after \subseteq rest \cup written
    <3>1. \A u \in written : MadeBy(p, u)
      BY <2>4
    <3>2. rest \subseteq old /\ \A u \in old \ rest : Reaches(p, u)
      BY <2>7
    <3> HIDE DEF old
    <3>3. Confined(p, old, after)
      BY <3>1, <3>2, PutConfined
    <3>4. written \subseteq after /\ after \subseteq rest \cup written
      BY DEF Put
    <3> QED
      BY <3>3, <3>4
  <2> HIDE DEF after
  <2>10. Obeys(c)
    BY <1>1, <2>1, <2>2, <2>8, <2>9, OneScopeObeys DEF old
  <2>11. disk'[c.scope] = after
    BY <1>1, <2>2, <2>8, OneScope
  <2>12. CASE written # {}
    <3>1. TargetUnit(p) \in disk'[c.scope]
      BY <2>1, <2>9, <2>11, <2>12
    <3>2. Key(TargetUnit(p)) = TargetKey(p) /\ TargetUnit(p).owner = p
      BY DEF TargetUnit, TargetKey, Key
    <3>3. \E u \in disk'[c.scope] : Key(u) = TargetKey(p) /\ u.owner = p
      BY <3>1, <3>2
    <3>4. ASSUME last'.how = "ok", c.purge, NEW u \in after, u.owner = p
          PROVE  OfListed(u, c.raw)
      <4>1. gone = orphans
        BY <2>1, <3>4, EndsIsOutcome
      <4>2. CASE u \in written
        BY <2>3, <4>2
      <4>3. CASE u \in rest
        BY <1>1, <3>4, <4>1, <4>3, KeptFilesListed DEF rest, old, orphans
      <4> QED
        BY <2>9, <4>2, <4>3
    <3> QED
      BY <2>10, <2>11, <3>3, <3>4
  <2>13. CASE written = {}
    <3>1. after = rest
      BY <2>13 DEF after, Put
    <3>2. /\ disk'[c.scope] \subseteq disk[c.scope]
          /\ \A u \in disk[c.scope] : Key(u) = TargetKey(p) => u \in disk'[c.scope]
      BY <2>5, <2>11, <3>1 DEF rest, old
    <3>3. ASSUME last'.how = "ok", c.purge, NEW u \in after, u.owner = p
          PROVE  OfListed(u, c.raw)
      <4>1. gone = orphans
        BY <2>1, <3>3, EndsIsOutcome
      <4> QED
        BY <1>1, <3>1, <3>3, <4>1, KeptFilesListed DEF rest, old, orphans
    <3> QED
      BY <2>10, <2>11, <3>2, <3>3
  <2> QED
    BY <2>12, <2>13
<1> QED
  BY <1>2, <1>3

\* Some files go.
LEMMA GoneObeys ==
    ASSUME NEW c \in Line, LiveOk, DiskOk, NEW gone, NEW how \in {"ok", "failed"},
           \A u \in gone : Reaches(c.project, u),
           disk' = [disk EXCEPT ![c.scope] = @ \ gone], live' = live, Ends(c, how)
    PROVE  Obeys(c) /\ disk'[c.scope] = disk[c.scope] \ gone
<1> DEFINE after == disk[c.scope] \ gone
<1>0. c.scope \in Scope
  BY LineFacts
<1>1. disk' = [disk EXCEPT ![c.scope] = after]
  OBVIOUS
<1>2. UnitsOk(after)
  BY <1>0, FewerUnitsOk DEF DiskOk
<1>3. Confined(c.project, disk[c.scope], after)
  BY DEF Confined
<1> HIDE DEF after
<1>4. Obeys(c)
  BY <1>1, <1>2, <1>3, OneScopeObeys
<1>5. disk'[c.scope] = after
  BY <1>0, <1>1, <1>2, OneScope
<1> QED
  BY <1>4, <1>5 DEF after

LEMMA UninstallObeys ==
    ASSUME NEW c \in Line, LiveOk, DiskOk, Uninstall(c)
    PROVE  /\ Obeys(c)
           /\ \/ last'.how # "ok" /\ disk' = disk
              \/ \A u \in disk'[c.scope] : u.owner # c.project
              \/ /\ last'.how # "ok" /\ disk'[c.scope] \subseteq disk[c.scope]
                 /\ \A u \in disk[c.scope] : Key(u) = TargetKey(c.project) => u \in disk'[c.scope]
<1> DEFINE p == c.project
           files == ProjectFiles(p, c.scope)
<1>0. c.scope \in Scope
  BY LineFacts
<1>1. CASE Clean(p) # <<>>
  <2>1. PICK gone \in SUBSET files, how \in {"ok", "failed"} :
                   /\ TargetKey(p) \in {Key(u) : u \in gone} => gone = files
                   /\ how = "ok" => gone = files
                   /\ disk' = [disk EXCEPT ![c.scope] = @ \ gone]
                   /\ Ends(c, how)
                   /\ UNCHANGED live
    BY <1>1 DEF Uninstall
  <2>2. \A u \in gone : Reaches(p, u)
    <3>1. \A u \in files : u \in disk[c.scope]
      BY DEF ProjectFiles
    <3> QED
      BY <3>1, FilesReached
  <2> HIDE DEF files
  <2>3. Obeys(c) /\ disk'[c.scope] = disk[c.scope] \ gone
    BY <2>1, <2>2, GoneObeys
  <2>4. CASE gone = files
    <3>1. \A u \in disk[c.scope] : u.owner = p => u \in files
      BY <1>0, FilesReached, OwnNameReaches DEF DiskOk, UnitsOk, files
    <3> QED
      BY <2>3, <2>4, <3>1
  <2>5. CASE gone # files
    <3>1. \A u \in disk[c.scope] : Key(u) = TargetKey(p) => u \in disk'[c.scope]
      BY <2>1, <2>3, <2>5
    <3>2. last'.how # "ok"
      BY <2>1, <2>5, EndsIsOutcome
    <3> QED
      BY <2>3, <3>1, <3>2
  <2> QED
    BY <2>4, <2>5
<1>2. CASE Clean(p) = <<>>
  BY <1>2, RefusesObeys DEF Uninstall
<1> QED
  BY <1>1, <1>2

LEMMA DownInstalledObeys ==
    ASSUME NEW c \in Line, LiveOk, DiskOk, DownInstalled(c)
    PROVE  /\ Obeys(c)
           /\ disk'[c.scope] \subseteq disk[c.scope]
           /\ \A u \in disk[c.scope] : Key(u) = TargetKey(c.project) => u \in disk'[c.scope]
           /\ last'.how = "ok" /\ c.purge =>
                 \A u \in disk'[c.scope] : u.owner = c.project => OfListed(u, c.raw)
<1> DEFINE p == c.project
           S == NamesIn(c.raw)
           orphans == IF c.purge THEN OrphanFiles(p, S, c.scope) ELSE {}
<1>0. p \in Project /\ c.scope \in Scope /\ S \subseteq Name
  BY LineFacts
<1>1. PICK gone \in SUBSET orphans, how \in {"ok", "failed"} :
           /\ how = "ok" => gone = orphans
           /\ disk' = [disk EXCEPT ![c.scope] = @ \ gone]
           /\ Ends(c, how)
           /\ UNCHANGED live
  BY DEF DownInstalled
<1>2. \A u \in gone : Reaches(p, u) /\ Key(u) # TargetKey(p)
  BY OrphanFilesReached, TargetIsNoOrphan
<1> HIDE DEF orphans
<1>3. Obeys(c) /\ disk'[c.scope] = disk[c.scope] \ gone
  BY <1>1, <1>2, GoneObeys
<1>4. ASSUME last'.how = "ok", c.purge, NEW u \in disk'[c.scope], u.owner = p
      PROVE  OfListed(u, c.raw)
  <2>1. gone = orphans
    BY <1>1, <1>4, EndsIsOutcome
  <2> QED
    BY <1>0, <1>3, <1>4, <2>1, KeptFilesListed DEF orphans
<1> QED
  BY <1>2, <1>3, <1>4

\* A change to the transient units only.
LEMMA OnlyLiveObeys ==
    ASSUME NEW c \in Line, DiskOk, LiveOk', disk' = disk, Confined(c.project, live, live'),
           NEW how \in {"ok", "failed", "refused"}, Ends(c, how)
    PROVE  Obeys(c)
<1>1. DiskOk'
  BY DEF DiskOk
<1>2. \A scope \in Scope : Confined(c.project, disk[scope], disk'[scope])
  BY SameConfined
<1> QED
  BY <1>1, <1>2, EndsIsOutcome DEF Obeys

LEMMA OrphanUnitsReached ==
    ASSUME NEW p, NEW S
    PROVE  \A u \in OrphanUnits(p, S) : u \in live /\ Reaches(p, u)
  BY DEF OrphanUnits, Reaches

LEMMA KeptUnitsListed ==
    ASSUME NEW p \in Project, NEW raw, NamesIn(raw) \subseteq Name, LiveOk,
           NEW u \in live \ OrphanUnits(p, NamesIn(raw)), u.owner = p
    PROVE  OfListed(u, raw)
<1>1. u \in Unit /\ OwnName(u) /\ u.kind = "service" /\ Reaches(p, u)
  BY OwnNameReaches DEF LiveOk, UnitsOk
<1>2. Bears(u.name, UnitPrefix(p))
  BY <1>1 DEF Reaches, Key, TargetKey
<1>3. Key(u) \in Expected(p, NamesIn(raw))
  BY <1>1, <1>2 DEF OrphanUnits, Key
<1> QED
  BY <1>1, <1>3, ExpectedIsListed

LEMMA NamedReached ==
    ASSUME NEW p \in Project, NEW S, S \subseteq Name, NEW T, T \subseteq Name,
           NEW u, u.name \in MainNames(p, S) \cup HealthNames(p, T)
    PROVE  Reaches(p, u)
<1>1. p \in Name
  BY ProjectAssumption
<1>2. CASE u.name \in MainNames(p, S)
  BY <1>1, <1>2, GivenNames DEF MainNames, Reaches
<1>3. CASE u.name \in HealthNames(p, T)
  BY <1>1, <1>3, GivenNames DEF HealthNames, Reaches
<1> QED
  BY <1>2, <1>3

LEMMA UpTransientObeys ==
    ASSUME NEW c \in Line, LiveOk, DiskOk, UpTransient(c)
    PROVE  /\ Obeys(c) /\ disk' = disk
           /\ last'.how = "ok" /\ c.purge =>
                 \A u \in live' : u.owner = c.project => OfListed(u, c.raw)
<1> DEFINE p == c.project
           S == NamesIn(c.raw)
           reached == {s \in S : Buildable(c.raw, s)}
           named == {u \in live : u.name \in MainNames(p, reached) \cup HealthNames(p, reached)}
           orphans == IF c.purge THEN OrphanUnits(p, S) ELSE {}
           made == MainUnits(p, reached) \cup HealthUnits(p, "service", Monitored(c.raw, reached))
<1>1. p \in Project /\ p \in Name /\ S \subseteq Name /\ reached \subseteq S
  BY LineFacts
<1>2. PICK gone \in SUBSET (named \cup orphans), new \in SUBSET made, how \in {"ok", "failed"} :
              /\ OneUnitPerName(new)
              /\ live' = Put(live \ gone, new)
              /\ how = "ok" => orphans \subseteq gone
              /\ Ends(c, how)
              /\ UNCHANGED disk
  BY DEF UpTransient
<1>3. \A u \in made : MadeBy(p, u) /\ u.kind = "service" /\ u.of \in S
  <2>1. made \subseteq ServiceUnits(p, reached)
    BY MoreServiceUnits DEF Monitored
  <2>2. \A u \in made : u.kind = "service"
    BY UnitKinds
  <2> HIDE DEF made, reached
  <2>3. \A u \in ServiceUnits(p, reached) : MadeBy(p, u) /\ (u = TargetUnit(p) \/ u.of \in reached)
    BY <1>1, UnitsMade
  <2> QED
    BY <1>1, <2>1, <2>2, <2>3 DEF TargetUnit
<1>4. \A u \in named \cup orphans : u \in live /\ Reaches(p, u)
  BY <1>1, NamedReached, OrphanUnitsReached
<1>5. \A u \in made : OfListed(u, c.raw)
  BY <1>3 DEF OfListed, Alike
<1> HIDE DEF reached, named, made
<1> DEFINE rest == live \ gone
<1>6. rest \subseteq live /\ \A u \in live \ rest : Reaches(p, u)
  BY <1>4
<1>7. orphans \subseteq gone => rest \subseteq live \ orphans
  OBVIOUS
<1>8. live' = Put(rest, new)
  BY <1>2
<1> HIDE DEF rest, orphans
<1>9. Confined(p, live, live') /\ live' \subseteq rest \cup new
  BY <1>3, <1>6, <1>8, PutConfined
<1>10. LiveOk'
  <2>1. UnitsOk(rest)
    BY <1>6, FewerUnitsOk DEF LiveOk
  <2>2. UnitsOk(live')
    BY <1>2, <1>3, <1>8, <2>1, PutOk
  <2> QED
    BY <1>3, <1>6, <1>9, <2>2 DEF LiveOk
<1>11. Obeys(c)
  BY <1>2, <1>9, <1>10, OnlyLiveObeys
<1>12. ASSUME last'.how = "ok", c.purge, NEW u \in live', u.owner = p
       PROVE  OfListed(u, c.raw)
  <2>1. orphans \subseteq gone
    BY <1>2, <1>12, EndsIsOutcome
  <2>2. CASE u \in new
    BY <1>5, <2>2
  <2>3. CASE u \in rest
    BY <1>1, <1>7, <1>12, <2>1, <2>3, KeptUnitsListed DEF orphans
  <2> QED
    BY <1>9, <2>2, <2>3
<1> QED
  BY <1>2, <1>11, <1>12

LEMMA DownTransientObeys ==
    ASSUME NEW c \in Line, LiveOk, DiskOk, DownTransient(c)
    PROVE  /\ Obeys(c) /\ disk' = disk
           /\ last'.how = "ok" /\ c.purge =>
                 \A u \in live' : u.owner = c.project => OfListed(u, c.raw)
<1> DEFINE p == c.project
           S == NamesIn(c.raw)
           named == {u \in live : u.name \in MainNames(p, S) \cup HealthNames(p, Monitored(c.raw, S))}
           orphans == IF c.purge THEN OrphanUnits(p, S) ELSE {}
<1>1. p \in Project /\ S \subseteq Name /\ Monitored(c.raw, S) \subseteq Name
  BY LineFacts DEF Monitored
<1>2. PICK gone \in SUBSET (named \cup orphans), how \in {"ok", "failed"} :
            /\ how = "ok" => orphans \subseteq gone
            /\ live' = live \ gone
            /\ Ends(c, how)
            /\ disk' = disk
  BY DEF DownTransient
<1>3. \A u \in gone : Reaches(p, u)
  BY <1>1, NamedReached, OrphanUnitsReached
<1>4. Confined(p, live, live')
  BY <1>2, <1>3 DEF Confined
<1>5. LiveOk'
  BY <1>2, FewerUnitsOk DEF LiveOk
<1>6. Obeys(c)
  BY <1>2, <1>4, <1>5, OnlyLiveObeys
<1>7. ASSUME last'.how = "ok", c.purge, NEW u \in live', u.owner = p
      PROVE  OfListed(u, c.raw)
  <2>1. u \in live \ orphans
    BY <1>2, <1>7, EndsIsOutcome
  <2> QED
    BY <1>1, <1>7, <2>1, KeptUnitsListed
<1> QED
  BY <1>2, <1>6, <1>7

\* The command of a step.
Command(c) == Install(c) \/ Uninstall(c) \/ Up(c) \/ Down(c)

\* The target is written, where nothing of the project may be in the other scope.
FilesWritten(c) ==
    /\ \E u \in disk'[c.scope] : Key(u) = TargetKey(c.project) /\ u.owner = c.project
    /\ Installed(c.project, c.scope) \/ ~Installed(c.project, Opposite(c.scope))

FilesRemoved(c) == \A u \in disk'[c.scope] : u.owner # c.project

\* Files go, and the target's stays.
FilesPurged(c) ==
    /\ disk'[c.scope] \subseteq disk[c.scope]
    /\ \A u \in disk[c.scope] : Key(u) = TargetKey(c.project) => u \in disk'[c.scope]

\* --remove-orphans leaves only what is of a listed service.
Purges(c, units) == \A u \in units : u.owner = c.project => OfListed(u, c.raw)

LEMMA InstallDoes ==
    ASSUME NEW c \in Line, LiveOk, DiskOk, Install(c)
    PROVE  /\ Obeys(c) /\ c.cmd = "install"
           /\ disk' = disk \/ FilesWritten(c) \/ FilesPurged(c)
           /\ last'.how = "ok" /\ c.purge => Purges(c, disk'[c.scope])
<1>1. CASE Begins(c) /\ ~InstalledElsewhere(c.project, c.scope)
  <2>1. Reconcile(c) /\ c.cmd = "install"
    BY <1>1 DEF Install
  <2>2. ~Installed(c.project, Opposite(c.scope))
    BY <1>1 DEF InstalledElsewhere
  <2> QED
    BY <2>1, <2>2, ReconcileObeys DEF FilesWritten, FilesPurged, Purges
<1>2. CASE ~(Begins(c) /\ ~InstalledElsewhere(c.project, c.scope))
  <2>1. Refuses(c) /\ c.cmd = "install"
    BY <1>2 DEF Install
  <2> QED
    BY <2>1, RefusesObeys
<1> QED
  BY <1>1, <1>2

LEMMA UpDoes ==
    ASSUME NEW c \in Line, LiveOk, DiskOk, Up(c)
    PROVE  /\ Obeys(c) /\ c.cmd = "up"
           /\ disk' = disk \/ FilesWritten(c) \/ FilesPurged(c)
           /\ last'.how = "ok" /\ c.purge =>
                 Purges(c, IF Installed(c.project, c.scope) THEN disk'[c.scope] ELSE live')
<1>0. c.cmd = "up"
  BY DEF Up
<1>1. CASE ~Begins(c) \/ (~Installed(c.project, c.scope) /\ c.scope = "system")
  <2>1. Refuses(c)
    BY <1>1 DEF Up
  <2> QED
    BY <1>0, <2>1, RefusesObeys
<1>2. CASE Begins(c) /\ Installed(c.project, c.scope)
  <2>1. Reconcile(c)
    BY <1>2 DEF Up
  <2> QED
    BY <1>0, <1>2, <2>1, ReconcileObeys DEF FilesWritten, FilesPurged, Purges
<1>3. CASE Begins(c) /\ ~Installed(c.project, c.scope) /\ c.scope # "system"
  <2>1. UpTransient(c)
    BY <1>3 DEF Up
  <2> QED
    BY <1>0, <1>3, <2>1, UpTransientObeys DEF Purges
<1> QED
  BY <1>1, <1>2, <1>3

LEMMA DownDoes ==
    ASSUME NEW c \in Line, LiveOk, DiskOk, Down(c)
    PROVE  /\ Obeys(c) /\ c.cmd = "down"
           /\ disk' = disk \/ FilesPurged(c)
           /\ last'.how = "ok" /\ c.purge =>
                 Purges(c, IF Installed(c.project, c.scope) THEN disk'[c.scope] ELSE live')
<1>0. c.cmd = "down"
  BY DEF Down
<1>1. CASE ~Begins(c) \/ (~Installed(c.project, c.scope) /\ c.scope = "system")
  <2>1. Refuses(c)
    BY <1>1 DEF Down
  <2> QED
    BY <1>0, <2>1, RefusesObeys
<1>2. CASE Begins(c) /\ Installed(c.project, c.scope)
  <2>1. DownInstalled(c)
    BY <1>2 DEF Down
  <2> QED
    BY <1>0, <1>2, <2>1, DownInstalledObeys DEF FilesPurged, Purges
<1>3. CASE Begins(c) /\ ~Installed(c.project, c.scope) /\ c.scope # "system"
  <2>1. DownTransient(c)
    BY <1>3 DEF Down
  <2> QED
    BY <1>0, <1>3, <2>1, DownTransientObeys DEF Purges
<1> QED
  BY <1>1, <1>2, <1>3

LEMMA UninstallDoes ==
    ASSUME NEW c \in Line, LiveOk, DiskOk, Uninstall(c)
    PROVE  /\ Obeys(c) /\ c.cmd = "uninstall" /\ ~c.purge
           /\ \/ last'.how # "ok" /\ disk' = disk
              \/ FilesRemoved(c)
              \/ last'.how # "ok" /\ FilesPurged(c)
  BY UninstallObeys DEF Uninstall, FilesRemoved, FilesPurged

LEMMA CommandObeys ==
    ASSUME NEW c \in Line, LiveOk, DiskOk, Command(c)
    PROVE  /\ Obeys(c)
           /\ disk' = disk \/ FilesWritten(c) \/ FilesRemoved(c) \/ FilesPurged(c)
  BY InstallDoes, UninstallDoes, UpDoes, DownDoes DEF Command

-----------------------------------------------------------------------------
(* Projects that are related, and those that are not. *)

LEMMA UnrelatedIsSymmetric == ASSUME NEW p, NEW q PROVE Related(p, q) <=> Related(q, p)
  BY DEF Related

\* A command of p reaches a unit of q only if the two are related.
LEMMA ReachedIsRelated ==
    ASSUME NEW p \in Project, NEW q \in Project, NEW u \in Unit, Reaches(p, u), Reaches(q, u)
    PROVE  Related(p, q)
<1>1. p \in Name /\ q \in Name
  BY ProjectAssumption
<1>2. /\ UnitPrefix(p) \in Name /\ TargetName(p) \in Name
      /\ UnitPrefix(q) \in Name /\ TargetName(q) \in Name
      /\ Bears(UnitPrefix(p), TargetName(p)) /\ Bears(UnitPrefix(p), UnitPrefix(p))
      /\ Bears(UnitPrefix(q), TargetName(q))
  BY <1>1, GivenNames
<1>3. u.name \in Name
  BY DEF Unit
<1>4. SUFFICES Bears(UnitPrefix(p), UnitPrefix(q)) \/ Bears(UnitPrefix(q), UnitPrefix(p))
  BY DEF Related, UnitPrefix
<1>5. CASE Key(u) = TargetKey(p) /\ Key(u) = TargetKey(q)
  <2>1. Clean(p) = Clean(q)
    BY <1>5 DEF TargetKey, TargetName
  <2> QED
    BY <1>2, <2>1 DEF UnitPrefix
<1>6. CASE Key(u) = TargetKey(p) /\ Bears(u.name, UnitPrefix(q))
  <2>1. u.name = TargetName(p)
    BY <1>6 DEF Key, TargetKey
  <2> QED
    BY <1>2, <1>6, <2>1, BearsIsTransitive
<1>7. CASE Bears(u.name, UnitPrefix(p)) /\ Key(u) = TargetKey(q)
  <2>1. u.name = TargetName(q)
    BY <1>7 DEF Key, TargetKey
  <2> QED
    BY <1>2, <1>7, <2>1, BearsIsTransitive
<1>8. CASE Bears(u.name, UnitPrefix(p)) /\ Bears(u.name, UnitPrefix(q))
  BY <1>2, <1>3, <1>8, BeginningsAreComparable
<1> QED
  BY <1>5, <1>6, <1>7, <1>8 DEF Reaches

LEMMA UnrelatedUntouched ==
    ASSUME NEW p \in Project, NEW q \in Project, ~Related(p, q),
           NEW units, NEW after, UnitsOk(units), Confined(p, units, after)
    PROVE  Of(q, after) = Of(q, units)
<1>1. ASSUME NEW u \in units \ after, u.owner = q PROVE FALSE
  <2>1. u \in Unit /\ Reaches(q, u)
    BY <1>1, OwnNameReaches DEF UnitsOk
  <2>2. Reaches(p, u)
    BY <1>1 DEF Confined
  <2> QED
    BY <2>1, <2>2, ReachedIsRelated
<1>2. ASSUME NEW u \in after \ units, u.owner = q PROVE FALSE
  <2>1. u \in Unit /\ u.owner = p /\ Reaches(p, u)
    BY <1>2 DEF Confined, MadeBy
  <2> QED
    BY <1>2, <2>1, ReachedIsRelated
<1> QED
  BY <1>1, <1>2 DEF Of

\* The target of a project apart from all others is its own.
LEMMA TargetIsOwn ==
    ASSUME NEW p \in Project, Apart(p), NEW scope \in Scope, DiskOk,
           NEW u \in disk[scope], Key(u) = TargetKey(p)
    PROVE  u.owner = p
<1>1. u \in Unit /\ u.owner \in Project /\ Reaches(u.owner, u)
  BY OwnNameReaches DEF DiskOk, UnitsOk, Unit
<1>2. Reaches(p, u)
  BY DEF Reaches
<1>3. Related(p, u.owner)
  BY <1>1, <1>2, ReachedIsRelated
<1> QED
  BY <1>1, <1>3 DEF Apart

-----------------------------------------------------------------------------
(* Invariants. *)

StateOk ==
    /\ LiveOk /\ DiskOk
    /\ last \in {Nothing} \cup [line : Line, how : {"ok", "failed", "refused"}]
    /\ left \in 0 .. MaxCommands

\* A project apart from all others that has files has its target among them, and
\* none in the other scope.
Headed ==
    \A p \in Project, scope \in Scope :
        Of(p, disk[scope]) # {} /\ Apart(p) =>
            /\ \E u \in disk[scope] : Key(u) = TargetKey(p) /\ u.owner = p
            /\ Of(p, disk[Opposite(scope)]) = {}

Inv == StateOk /\ Headed

LEMMA StateOkIsTypeOK == StateOk => TypeOK
<1> SUFFICES ASSUME StateOk PROVE TypeOK
  OBVIOUS
<1>1. live \in SUBSET [name : Name, kind : {"service"}, owner : Project, of : Name]
  <2>1. \A u \in live : u \in Unit /\ u.kind = "service"
    BY DEF StateOk, LiveOk, UnitsOk
  <2> QED
    BY <2>1 DEF Unit
<1>2. UnitsOk(live) /\ UnitsOk(disk["user"]) /\ UnitsOk(disk["system"])
  BY DEF StateOk, LiveOk, DiskOk, Scope
<1>3. \A units \in {live, disk["user"], disk["system"]} :
         OneUnitPerName(units) /\ \A u \in units : OwnName(u)
  BY <1>2 DEF UnitsOk
<1> QED
  BY <1>1, <1>3 DEF StateOk, DiskOk, TypeOK

LEMMA HeadedIsScopeFound ==
    ASSUME Inv
    PROVE  ScopeFound
<1> SUFFICES ASSUME NEW p \in Project, NEW scope \in Scope, Of(p, disk[scope]) # {}, Apart(p)
             PROVE  /\ Installed(p, scope) /\ Of(p, disk[Opposite(scope)]) = {}
                    /\ InspectedScope(p) = scope
  BY DEF ScopeFound
<1>1. /\ \E u \in disk[scope] : Key(u) = TargetKey(p)
      /\ Of(p, disk[Opposite(scope)]) = {}
  BY DEF Inv, Headed
<1>2. Installed(p, scope)
  BY <1>1 DEF Installed
<1>3. ~Installed(p, Opposite(scope))
  <2>1. ASSUME NEW u \in disk[Opposite(scope)], Key(u) = TargetKey(p) PROVE FALSE
    <3>1. u.owner = p
      BY <2>1, Scopes, TargetIsOwn DEF Inv, StateOk
    <3> QED
      BY <1>1, <2>1, <3>1 DEF Of
  <2> QED
    BY <2>1 DEF Installed
<1> QED
  BY <1>1, <1>2, <1>3 DEF InspectedScope, Scope, Opposite

LEMMA InitOk == Init => Inv
<1> SUFFICES ASSUME Init PROVE Inv
  OBVIOUS
<1>1. UnitsOk({})
  BY DEF UnitsOk, OneUnitPerName
<1>2. LiveOk
  BY <1>1 DEF Init, LiveOk
<1>3. DiskOk
  BY <1>1 DEF Init, DiskOk
<1>4. Headed
  BY DEF Init, Headed, Of
<1> QED
  BY <1>2, <1>3, <1>4, MaxCommandsAssumption DEF Init, Inv, StateOk

\* A command of the project p itself: its files are in one scope, with their target.
LEMMA OwnFilesHeaded ==
    ASSUME Inv, NEW c \in Line, Command(c), Apart(c.project),
           NEW scope \in Scope, Of(c.project, disk'[scope]) # {}
    PROVE  /\ \E u \in disk'[scope] : Key(u) = TargetKey(c.project) /\ u.owner = c.project
           /\ Of(c.project, disk'[Opposite(scope)]) = {}
<1> DEFINE p == c.project
           here == c.scope
           there == Opposite(c.scope)
<1>1. LiveOk /\ DiskOk /\ Headed
  BY DEF Inv, StateOk
<1>2. /\ p \in Project /\ here \in Scope /\ there \in Scope /\ there # here
      /\ (scope = here \/ scope = there) /\ Opposite(there) = here
  BY LineFacts DEF Scope, Opposite
<1>3. /\ disk'[there] = disk[there]
      /\ disk' = disk \/ FilesWritten(c) \/ FilesRemoved(c) \/ FilesPurged(c)
  BY <1>1, CommandObeys DEF Obeys
<1>4. ASSUME Of(p, disk[here]) # {}
      PROVE  /\ \E u \in disk[here] : Key(u) = TargetKey(p) /\ u.owner = p
             /\ Of(p, disk[there]) = {}
  BY <1>1, <1>2, <1>4 DEF Headed
<1>5. ASSUME Of(p, disk[there]) # {}
      PROVE  /\ \E u \in disk[there] : Key(u) = TargetKey(p) /\ u.owner = p
             /\ Of(p, disk[here]) = {}
  BY <1>1, <1>2, <1>5, Scopes DEF Headed, Scope, Opposite
<1>6. CASE disk' = disk
  BY <1>2, <1>4, <1>5, <1>6
<1>7. CASE FilesWritten(c)
  <2>1. Of(p, disk[there]) = {}
    <3>1. CASE Installed(p, here)
      <4>1. PICK u \in disk[here] : Key(u) = TargetKey(p)
        BY <3>1 DEF Installed
      <4>2. u.owner = p
        BY <1>1, <1>2, <4>1, TargetIsOwn
      <4> QED
        BY <1>4, <4>2 DEF Of
    <3>2. CASE ~Installed(p, there)
      BY <1>5, <3>2 DEF Installed
    <3> QED
      BY <1>7, <3>1, <3>2 DEF FilesWritten
  <2>2. Of(p, disk'[there]) = {}
    BY <1>3, <2>1
  <2>3. scope = here
    BY <1>2, <2>2
  <2> QED
    BY <1>7, <2>2, <2>3 DEF FilesWritten
<1>8. CASE FilesRemoved(c)
  <2>1. Of(p, disk'[here]) = {}
    BY <1>8 DEF FilesRemoved, Of
  <2>2. scope = there /\ Opposite(there) = here
    BY <1>2, <2>1
  <2> QED
    BY <1>3, <1>5, <2>1, <2>2
<1>9. CASE FilesPurged(c)
  <2>1. Of(p, disk'[here]) \subseteq Of(p, disk[here])
    BY <1>9 DEF FilesPurged, Of
  <2>2. CASE scope = here
    <3>1. PICK u \in disk[here] : Key(u) = TargetKey(p) /\ u.owner = p
      BY <1>4, <2>1, <2>2
    <3>2. u \in disk'[here]
      BY <1>9, <3>1 DEF FilesPurged
    <3> QED
      BY <1>3, <1>4, <2>1, <2>2, <3>1, <3>2
  <2>3. CASE scope = there /\ Opposite(there) = here
    BY <1>3, <1>5, <2>1, <2>3
  <2> QED
    BY <1>2, <2>2, <2>3
<1> QED
  BY <1>3, <1>6, <1>7, <1>8, <1>9

\* A command of another project changes nothing of a project apart.
LEMMA CommandIsolates ==
    ASSUME LiveOk, DiskOk, NEW c \in Line, Command(c), NEW q \in Project, ~Related(c.project, q)
    PROVE  /\ Of(q, live') = Of(q, live)
           /\ \A scope \in Scope : Of(q, disk'[scope]) = Of(q, disk[scope])
<1>1. c.project \in Project
  BY LineFacts
<1>2. /\ Confined(c.project, live, live')
      /\ \A scope \in Scope : Confined(c.project, disk[scope], disk'[scope])
  BY CommandObeys DEF Obeys
<1>3. UnitsOk(live) /\ \A scope \in Scope : UnitsOk(disk[scope])
  BY DEF LiveOk, DiskOk
<1>4. Of(q, live') = Of(q, live)
  BY <1>1, <1>2, <1>3, UnrelatedUntouched
<1>5. ASSUME NEW scope \in Scope PROVE Of(q, disk'[scope]) = Of(q, disk[scope])
  BY <1>1, <1>2, <1>3, UnrelatedUntouched
<1> QED
  BY <1>4, <1>5

LEMMA CommandKeepsInv ==
    ASSUME Inv, left > 0, NEW c \in Line, Command(c)
    PROVE  Inv'
<1>1. LiveOk /\ DiskOk
  BY DEF Inv, StateOk
<1>2. StateOk'
  <2>1. Obeys(c)
    BY <1>1, CommandObeys
  <2>2. left' \in 0 .. MaxCommands
    BY <2>1, MaxCommandsAssumption DEF Obeys, Inv, StateOk
  <2> QED
    BY <2>1, <2>2 DEF Obeys, StateOk
<1>3. ASSUME NEW q \in Project, NEW scope \in Scope, Of(q, disk'[scope]) # {}, Apart(q)
      PROVE  /\ \E u \in disk'[scope] : Key(u) = TargetKey(q) /\ u.owner = q
             /\ Of(q, disk'[Opposite(scope)]) = {}
  <2>1. CASE q = c.project
    BY <1>3, <2>1, OwnFilesHeaded
  <2>2. CASE q # c.project
    <3>1. ~Related(c.project, q)
      BY <1>3, <2>2, LineFacts, UnrelatedIsSymmetric DEF Apart
    <3>2. /\ Of(q, disk'[scope]) = Of(q, disk[scope])
          /\ Of(q, disk'[Opposite(scope)]) = Of(q, disk[Opposite(scope)])
      BY <1>1, <3>1, CommandIsolates, Scopes
    <3>3. PICK u \in disk[scope] : Key(u) = TargetKey(q) /\ u.owner = q
      BY <1>3, <3>2 DEF Inv, Headed
    <3>4. u \in disk'[scope]
      BY <3>2, <3>3 DEF Of
    <3>5. Of(q, disk[Opposite(scope)]) = {}
      BY <1>3, <3>2 DEF Inv, Headed
    <3> QED
      BY <3>2, <3>3, <3>4, <3>5
  <2> QED
    BY <2>1, <2>2
<1>4. Headed'
  BY <1>3 DEF Headed, Apart
<1> QED
  BY <1>2, <1>4 DEF Inv

LEMMA NextKeepsInv == Inv /\ [Next]_vars => Inv'
<1> SUFFICES ASSUME Inv, [Next]_vars PROVE Inv'
  OBVIOUS
<1>1. CASE left > 0 /\ \E c \in Line : Install(c) \/ Uninstall(c) \/ Up(c) \/ Down(c)
  BY <1>1, CommandKeepsInv DEF Command
<1>2. CASE \E u \in live : Exits(u)
  <2>1. PICK u \in live : Exits(u)
    BY <1>2
  <2>2. live' = live \ {u} /\ disk' = disk /\ last' = Nothing /\ left' = left
    BY <2>1 DEF Exits
  <2>3. LiveOk'
    <3>1. UnitsOk(live \ {u})
      BY FewerUnitsOk DEF Inv, StateOk, LiveOk
    <3> QED
      BY <2>2, <3>1 DEF Inv, StateOk, LiveOk
  <2>4. StateOk'
    BY <2>2, <2>3 DEF Inv, StateOk, DiskOk
  <2>5. Headed'
    BY <2>2 DEF Inv, Headed, Apart
  <2> QED
    BY <2>4, <2>5 DEF Inv
<1>3. CASE UNCHANGED vars
  <2>1. live' = live /\ disk' = disk /\ left' = left /\ last' = last
    BY <1>3 DEF vars
  <2>2. StateOk'
    BY <2>1 DEF Inv, StateOk, LiveOk, DiskOk
  <2>3. Headed'
    BY <2>1 DEF Inv, Headed, Apart
  <2> QED
    BY <2>2, <2>3 DEF Inv
<1> QED
  BY <1>1, <1>2, <1>3 DEF Next

\* The step that IsCommand speaks of.
LEMMA CommandStep ==
    ASSUME Next, IsCommand, Inv
    PROVE  \E c \in Line : Command(c) /\ Obeys(c) /\ last'.line = c
<1>1. CASE left > 0 /\ \E c \in Line : Install(c) \/ Uninstall(c) \/ Up(c) \/ Down(c)
  <2>1. PICK c \in Line : Command(c)
    BY <1>1 DEF Command
  <2>2. Obeys(c)
    BY <2>1, CommandObeys DEF Inv, StateOk
  <2>3. last'.line = c
    BY <2>2 DEF Obeys
  <2> QED
    BY <2>1, <2>2, <2>3
<1>2. CASE \E u \in live : Exits(u)
  BY <1>2 DEF Exits, IsCommand
<1> QED
  BY <1>1, <1>2 DEF Next

LEMMA IsolationStep ==
    ASSUME Next, IsCommand, Inv, NEW q \in Project, ~Related(last'.line.project, q)
    PROVE  /\ Of(q, live') = Of(q, live)
           /\ \A scope \in Scope : Of(q, disk'[scope]) = Of(q, disk[scope])
<1>1. PICK c \in Line : Command(c) /\ last'.line = c
  BY CommandStep
<1>2. LiveOk /\ DiskOk
  BY DEF Inv, StateOk
<1> QED
  BY <1>1, <1>2, CommandIsolates

LEMMA PurgeStep ==
    ASSUME Next, IsCommand, Inv, last'.how = "ok"
    PROVE  LET c == last'.line
               p == c.project
           IN  /\ c.cmd = "uninstall" => Of(p, disk'[c.scope]) = {}
               /\ c.purge =>
                     IF c.cmd = "install" \/ Installed(p, c.scope)
                     THEN \A u \in Of(p, disk'[c.scope]) : OfListed(u, c.raw)
                     ELSE \A u \in Of(p, live') : OfListed(u, c.raw)
<1>1. PICK c \in Line : Command(c) /\ last'.line = c
  BY CommandStep
<1>2. LiveOk /\ DiskOk
  BY DEF Inv, StateOk
<1>3. \/ c.cmd = "uninstall" /\ ~c.purge /\ FilesRemoved(c)
      \/ /\ c.cmd # "uninstall"
         /\ c.purge => Purges(c, IF c.cmd = "install" \/ Installed(c.project, c.scope)
                                 THEN disk'[c.scope] ELSE live')
  <2>1. CASE Install(c)
    BY <1>2, <2>1, InstallDoes, <1>1
  <2>2. CASE Uninstall(c)
    BY <1>1, <1>2, <2>2, UninstallDoes
  <2>3. CASE Up(c)
    BY <1>1, <1>2, <2>3, UpDoes
  <2>4. CASE Down(c)
    BY <1>1, <1>2, <2>4, DownDoes
  <2> QED
    BY <1>1, <2>1, <2>2, <2>3, <2>4 DEF Command
<1> QED
  BY <1>1, <1>3 DEF FilesRemoved, Purges, Of

-----------------------------------------------------------------------------
(* The parser. *)

\* What the parser accepts is a compose file as all the other modules assume it.
THEOREM ParserGuarantees ==
    ASSUME NEW raw, IsRawFile(raw), Accepted(raw), NamesIn(raw) \subseteq Service
    PROVE  IsComposeFile(Parsed(raw))
<1> DEFINE f == Parsed(raw)
           N == DOMAIN raw.services
<1>1. /\ raw.services \in Seq(RawService) /\ raw.services # <<>>
      /\ \A i, j \in N : raw.services[i].name = raw.services[j].name => i = j
      /\ \A i \in N : /\ ServiceAccepted(raw.services[i])
                      /\ Range(raw.services[i].depends_on) \subseteq NamesIn(raw)
  BY DEF IsRawFile, Accepted
<1>2. /\ f = [order |-> f.order, def |-> f.def]
      /\ f.order = [i \in N |-> raw.services[i].name]
      /\ f.def = [s \in NamesIn(raw) |-> ParsedService(RawOf(raw, s))]
  BY DEF Parsed
<1>3. f.order \in Seq(Service) /\ f.order # <<>> /\ DOMAIN f.order = N
  <2>1. Len(raw.services) \in Nat /\ N = 1 .. Len(raw.services) /\ Len(raw.services) # 0
    BY <1>1
  <2>2. \A i \in N : raw.services[i].name \in Service
    BY DEF NamesIn
  <2>3. f.order \in [1 .. Len(raw.services) -> Service] /\ DOMAIN f.order = N
    BY <1>2, <2>1, <2>2
  <2> HIDE DEF f
  <2>4. f.order \in Seq(Service)
    BY <2>1, <2>3
  <2>5. Len(f.order) = Len(raw.services)
    BY <2>1, <2>3, <2>4
  <2>6. f.order # <<>>
    BY <2>1, <2>5
  <2> QED
    BY <2>3, <2>4, <2>6
<1>4. \A i, j \in N : f.order[i] = f.order[j] => i = j
  BY <1>1, <1>2
<1>5. Listed(f) = NamesIn(raw)
  BY <1>2, <1>3 DEF Listed, NamesIn, Range
<1>6. ASSUME NEW s \in NamesIn(raw)
      PROVE  /\ f.def[s] \in Definition
             /\ DependsOn(f.def[s]) \subseteq NamesIn(raw)
  <2>1. PICK i \in N : raw.services[i].name = s
    BY DEF NamesIn
  <2>2. PICK j \in N : RawOf(raw, s) = raw.services[j]
    BY <2>1 DEF RawOf
  <2> DEFINE r == raw.services[j]
  <2>3. r \in RawService /\ ServiceAccepted(r) /\ Range(r.depends_on) \subseteq NamesIn(raw)
    BY <1>1
  <2>4. r.depends_on \in Seq(Name) /\ r.others \in Variant
    BY <2>3 DEF RawService, ServiceAccepted
  <2> HIDE DEF r
  <2>5. r.depends_on \in Seq(Service)
    <3>1. Len(r.depends_on) \in Nat /\ DOMAIN r.depends_on = 1 .. Len(r.depends_on)
      BY <2>4
    <3>2. \A i_ \in DOMAIN r.depends_on : r.depends_on[i_] \in Service
      BY <2>3 DEF Range
    <3>3. r.depends_on \in [1 .. Len(r.depends_on) -> Service]
      BY <2>4, <3>1, <3>2
    <3> QED
      BY <3>1, <3>3
  <2>6. f.def[s] = [deps |-> r.depends_on, health |-> ParsedHealth(r.healthcheck), variant |-> r.others]
    BY <1>2, <2>2 DEF ParsedService, r
  <2>7. ParsedHealth(r.healthcheck) \in BOOLEAN
    BY DEF ParsedHealth
  <2> QED
    BY <2>3, <2>4, <2>5, <2>6, <2>7 DEF Definition, DependsOn
<1> HIDE DEF f
<1>7. f.def \in [Listed(f) -> Definition]
  BY <1>2, <1>5, <1>6
<1>8. DOMAIN f = {"order", "def"}
  BY <1>2
<1> QED
  BY <1>3, <1>4, <1>5, <1>6, <1>7, <1>8 DEF IsComposeFile, f

-----------------------------------------------------------------------------
(* Theorems. *)

\* What is live and what is on disk are units, one of a name, with names that their
\* projects give.
THEOREM TypeCorrect == Spec => []TypeOK
<1>1. Inv => TypeOK
  BY StateOkIsTypeOK DEF Inv
<1> QED
  BY <1>1, InitOk, NextKeepsInv, PTL DEF Spec

\* The files of a project apart from all others are in one scope, and inspection
\* finds it.
THEOREM FilesInOneScope == Spec => []ScopeFound
<1>1. Inv => ScopeFound
  BY HeadedIsScopeFound
<1> QED
  BY <1>1, InitOk, NextKeepsInv, PTL DEF Spec

\* A command leaves every project alone that its own is not related to.
THEOREM CommandsAreIsolated == Spec => Isolation
<1>1. Inv /\ [Next]_vars =>
        [IsCommand =>
            \A q \in Project :
                \/ /\ Of(q, live') = Of(q, live)
                   /\ \A scope \in Scope : Of(q, disk'[scope]) = Of(q, disk[scope])
                \/ Related(last'.line.project, q)]_vars
  BY IsolationStep
<1> QED
  BY <1>1, InitOk, NextKeepsInv, PTL DEF Spec, Isolation

\* --remove-orphans and uninstall miss nothing of a project.
THEOREM NothingIsMissed == Spec => PurgeComplete
<1>1. Inv /\ [Next]_vars =>
        [IsCommand /\ last'.how = "ok" =>
            LET c == last'.line
                p == c.project
            IN  /\ c.cmd = "uninstall" => Of(p, disk'[c.scope]) = {}
                /\ c.purge =>
                      IF c.cmd = "install" \/ Installed(p, c.scope)
                      THEN \A u \in Of(p, disk'[c.scope]) : OfListed(u, c.raw)
                      ELSE \A u \in Of(p, live') : OfListed(u, c.raw)]_vars
  BY PurgeStep
<1> QED
  BY <1>1, InitOk, NextKeepsInv, PTL DEF Spec, PurgeComplete

=============================================================================
