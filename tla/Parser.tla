------------------------------- MODULE Parser -------------------------------
(***************************************************************************)
(* From the text of a compose file to what the commands work with.  The    *)
(* text is refused in two places: by the parser, before a command has done *)
(* anything, and by the builders, which look at what the parser lets pass  *)
(* when a command line or a unit file is made of it.                       *)
(*                                                                         *)
(* A raw file is what yaml leaves: whether the document and its services   *)
(* are mappings, and each service with the shape of its fields.  A field   *)
(* whose shape is refused is Invalid, whatever is wrong with it.           *)
(***************************************************************************)
EXTENDS ComposeFile, Names

CONSTANT Invalid

RawService == [
    name        : Name,
    command     : {"argv", "line", "blank", Invalid},      \* blank: no word, or an open quote
    environment : {"absent", "pairs", "emptyKey", Invalid}, \* emptyKey: of a mapping
    depends_on  : Seq(Name) \cup {Invalid},
    healthcheck : {"absent", "disable", "NONE", "test", Invalid},
    others      : Variant \cup {Invalid}]  \* volumes, tmpfs, working_dir, restart, limits

\* A mapping has each of its keys once.
IsRawFile(raw) ==
    /\ DOMAIN raw = {"mappings", "services"}
    /\ raw.mappings \in BOOLEAN
    /\ raw.services \in Seq(RawService)
    /\ \A i, j \in DOMAIN raw.services : raw.services[i].name = raw.services[j].name => i = j

-----------------------------------------------------------------------------
\* parser._parse_healthcheck: one that is disabled is not looked at any further.
ParsedHealth(healthcheck) == healthcheck = "test"

ParsedService(r) ==
    [deps |-> r.depends_on, health |-> ParsedHealth(r.healthcheck), variant |-> r.others]

ServiceAccepted(r) ==
    /\ Clean(r.name) # <<>>
    /\ Invalid \notin {r.command, r.environment, r.depends_on, r.healthcheck, r.others}

NamesIn(raw) == {raw.services[i].name : i \in DOMAIN raw.services}

\* parser.parse_compose_data
Accepted(raw) ==
    /\ raw.mappings
    /\ raw.services # <<>>
    /\ \A i \in DOMAIN raw.services :
          /\ ServiceAccepted(raw.services[i])
          /\ Range(raw.services[i].depends_on) \subseteq NamesIn(raw)

RawOf(raw, s) == raw.services[CHOOSE i \in DOMAIN raw.services : raw.services[i].name = s]

Parsed(raw) ==
    [order |-> [i \in DOMAIN raw.services |-> raw.services[i].name],
     def   |-> [s \in NamesIn(raw) |-> ParsedService(RawOf(raw, s))]]

-----------------------------------------------------------------------------
\* builders.build_bwrap_args, _command_argv: what is refused only now.
Payload(r) == r.command # "blank" /\ r.environment # "emptyKey"

\* builders.build_systemd_run_command, build_installed_service_unit: the hash in the
\* description is also of the services that this one depends on.
Buildable(raw, s) ==
    \A t \in {s} \cup Range(RawOf(raw, s).depends_on) : Payload(RawOf(raw, t))

=============================================================================
