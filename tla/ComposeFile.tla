---------------------------- MODULE ComposeFile ----------------------------
(***************************************************************************)
(* The compose file as the commands see it once it is parsed: an ordered   *)
(* mapping of service names to definitions, and the definition hash that   *)
(* `up` stores in every unit it submits and compares on the next run.      *)
(*                                                                         *)
(* A definition keeps what the life cycle of a unit depends on: the        *)
(* services it names in depends_on, in that order, and whether it has an   *)
(* enabled healthcheck.  Everything else (command, environment, volumes,   *)
(* resources, the healthcheck's own fields) is one opaque `variant`: two   *)
(* definitions differ in it exactly when the command lines differ.         *)
(***************************************************************************)
EXTENDS Functions, Sequences

CONSTANTS
    Service,  \* the service names
    Variant,  \* the rest of a definition, as opaque values
    Files,    \* the contents the compose file may have
    NoHash    \* the hash of a unit that is not loaded

\* models.Service.  A disabled healthcheck is an absent one: every use of it
\* in the life-cycle commands tests `healthcheck is None or disabled`.
Definition == [deps : Seq(Service), health : BOOLEAN, variant : Variant]

DependsOn(def) == Range(def.deps)

\* models.ComposeConfig: `order` is the mapping's insertion order.
Listed(f) == Range(f.order)

\* parser.parse_compose_data: at least one service, and every dependency is
\* itself listed.  Neither the order of the services nor cycles are checked.
IsComposeFile(f) ==
    /\ DOMAIN f = {"order", "def"}
    /\ f.order \in Seq(Service)
    /\ f.order # <<>>
    /\ \A i, j \in DOMAIN f.order : f.order[i] = f.order[j] => i = j
    /\ f.def \in [Listed(f) -> Definition]
    /\ \A s \in Listed(f) : DependsOn(f.def[s]) \subseteq Listed(f)

ASSUME FilesAssumption == \A f \in Files : IsComposeFile(f)

\* builders.service_definition_hash, with the digest as an injective function
\* of its input: the service's own definition and, one level deep, those of
\* the services it depends on.
Hash(f, s) ==
    LET own == f.def[s]
    IN  [own |-> own, deps |-> [d \in DependsOn(own) |-> f.def[d]]]

Hashes == UNION {{Hash(f, s) : s \in Listed(f)} : f \in Files}

ASSUME NoHashAssumption == NoHash \notin Hashes

HasHealth(f, s) == f.def[s].health

=============================================================================
