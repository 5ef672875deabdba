------------------------------- MODULE Names -------------------------------
(***************************************************************************)
(* The names of a project's units, and how a unit is told to be of a       *)
(* project.  A name is a sequence of symbols: what a unit name may contain *)
(* is as it is written, and Other stands for a run of characters that it   *)
(* may not contain.  File names are told apart by the kind of the unit,    *)
(* which no prefix reaches into: a prefix ends with a dash and a suffix    *)
(* like .service has none.                                                 *)
(***************************************************************************)
EXTENDS Integers, Sequences

CONSTANT Symbol

Dash == "-"
Other == "!"
Health == "health"

ASSUME SymbolAssumption == {Dash, Health} \subseteq Symbol

Name == Seq(Symbol)

-----------------------------------------------------------------------------
\* builders._clean_unit_component, and the check of parser._validate_service_name:
\* every run that is not allowed becomes a dash, and the dashes at the ends go.
\* Nothing may be left of a name, which is then refused.
Dashed(n) == [i \in 1 .. Len(n) |-> IF n[i] = Other THEN Dash ELSE n[i]]

Clean(n) ==
    LET kept  == {i \in 1 .. Len(n) : n[i] \notin {Dash, Other}}
        first == CHOOSE i \in kept : \A j \in kept : i <= j
        last  == CHOOSE i \in kept : \A j \in kept : j <= i
    IN  IF kept = {} THEN <<>> ELSE SubSeq(Dashed(n), first, last)

\* Mutants of UnitPrefix: the dash is forgotten; the name is not cleaned.
UnitPrefixWithoutDash(p) == Clean(p)
UnitPrefixRaw(p) == Append(p, Dash)

UnitPrefix(p) == Append(Clean(p), Dash)
TargetName(p) == Clean(p)
UnitName(p, s) == Append(Clean(p), Dash) \o Clean(s)
HealthUnitName(p, s) == UnitName(p, s) \o <<Dash, Health>>

\* str.startswith
Bears(u, prefix) == Len(prefix) <= Len(u) /\ SubSeq(u, 1, Len(prefix)) = prefix

\* Whatever follows the one name and a dash may follow the other name and a dash.
Related(p, q) ==
    \/ Bears(Append(Clean(p), Dash), Append(Clean(q), Dash))
    \/ Bears(Append(Clean(q), Dash), Append(Clean(p), Dash))

=============================================================================
