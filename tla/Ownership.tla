----------------------------- MODULE Ownership -----------------------------
(***************************************************************************)
(* Several projects that share one user manager and the two directories    *)
(* of unit files.  A command has nothing but names to tell its project's   *)
(* units from those of another: prefixes, cleaned names, and the marker    *)
(* that only generated units carry (hand-written ones are left out).       *)
(*                                                                         *)
(* What a command does between its first call and its last is the subject  *)
(* of TransientProject and InstalledProject; here a command is one step,   *)
(* from the text of the compose file on, which may stop after any of its   *)
(* writes, unlinks and calls.  What matters is what it refuses, and which  *)
(* units it reaches.                                                       *)
(***************************************************************************)
EXTENDS Parser

CONSTANTS
    Project,      \* the projects, by their resolved names
    RawFiles,     \* the texts a compose file may have
    MaxCommands   \* bound: commands in a behaviour

ASSUME ProjectAssumption == Project \subseteq Name
ASSUME RawFilesAssumption == \A raw \in RawFiles : IsRawFile(raw)
ASSUME MaxCommandsAssumption == MaxCommands \in Nat

VARIABLES
    live,    \* the transient units that are active or failed
    disk,    \* Scope -> the generated unit files in its directory
    last,    \* history, which no action reads: the command of the last step and how it
             \* ended, Nothing when it was no command
    left     \* the number of commands left

vars == <<live, disk, last, left>>

Scope == {"user", "system"}
Opposite(scope) == IF scope = "user" THEN "system" ELSE "user"

\* A healthcheck has two units of one name.  `owner` and `of` are history: the
\* project whose command submitted or wrote the unit last, and the service it did so
\* for, <<>> for the target.
Unit == [name : Name, kind : {"service", "timer", "target"}, owner : Project, of : Name]

TargetUnit(p) == [name |-> TargetName(p), kind |-> "target", owner |-> p, of |-> <<>>]
MainUnits(p, S) ==
    {[name |-> UnitName(p, s), kind |-> "service", owner |-> p, of |-> s] : s \in S}
HealthUnits(p, kind, S) ==
    {[name |-> HealthUnitName(p, s), kind |-> kind, owner |-> p, of |-> s] : s \in S}
ServiceUnits(p, S) ==
    MainUnits(p, S) \cup HealthUnits(p, "service", S) \cup HealthUnits(p, "timer", S)

Key(u) == <<u.name, u.kind>>

OneUnitPerName(units) == \A u, v \in units : Key(u) = Key(v) => u = v

\* Mutant of Put: a unit that is there is not replaced.
PutBeside(units, new) == units \cup new

\* A name is submitted or written again.
Put(units, new) ==
    LET keys == {Key(v) : v \in new} IN {u \in units : Key(u) \notin keys} \cup new

-----------------------------------------------------------------------------
(* Whose units. *)

MainNames(p, S) == {UnitName(p, s) : s \in S}
HealthNames(p, S) == {HealthUnitName(p, s) : s \in S}

TargetKey(p) == <<TargetName(p), "target">>

\* The names that a command expects of the services in S, whatever healthchecks
\* they have.
Expected(p, S) ==
    {TargetKey(p)}
        \cup (MainNames(p, S) \cup HealthNames(p, S)) \X {"service"}
        \cup HealthNames(p, S) \X {"timer"}

\* systemd_units.find_orphan_units: the units listed have a hash in their
\* Description=, and a timer is cleaned up with its probe.
OrphanUnits(p, S) ==
    LET prefix == UnitPrefix(p)
        expected == Expected(p, S)
    IN  {u \in live : Bears(u.name, prefix) /\ <<u.name, "service">> \notin expected}

\* persistence.installed_project_unit_files, installed_orphan_unit_files
ProjectFiles(p, scope) ==
    LET prefix == UnitPrefix(p)
        target == TargetKey(p)
    IN  {u \in disk[scope] : Key(u) = target \/ Bears(u.name, prefix)}
OrphanFiles(p, S, scope) ==
    LET expected == Expected(p, S) IN {u \in ProjectFiles(p, scope) : Key(u) \notin expected}

Installed(p, scope) == TargetKey(p) \in {Key(u) : u \in disk[scope]}

\* Mutant of InstalledElsewhere: looks in the scope of the command itself.
InstalledElsewhereHere(p, scope) == FALSE

\* persistence.require_no_opposite_scope_project
InstalledElsewhere(p, scope) == Installed(p, Opposite(scope))

\* cli.resolve_inspection_system_scope
InspectedScope(p) == IF ~Installed(p, "user") /\ Installed(p, "system") THEN "system" ELSE "user"

-----------------------------------------------------------------------------
(* The commands. *)

Monitored(raw, S) == {s \in S : ParsedHealth(RawOf(raw, s).healthcheck)}

Position(raw, s) == CHOOSE i \in DOMAIN raw.services : raw.services[i].name = s

\* persistence.desired_unit_files: of two services whose units go by one name, the
\* later one's content stays.
DesiredFiles(p, raw) ==
    LET S == NamesIn(raw)
        H == Monitored(raw, S)
        generated == {TargetUnit(p)} \cup MainUnits(p, S)
                         \cup HealthUnits(p, "service", H) \cup HealthUnits(p, "timer", H)
    IN  {u \in generated :
            \A v \in generated \ {u} :
                Key(v) = Key(u) => Position(raw, v.of) < Position(raw, u.of)}

\* The command of the step: its project, the text its compose file has by now, and
\* its flags.
Line == [project : Project, raw : RawFiles, cmd : {"install", "uninstall", "up", "down"},
         scope : Scope, purge : BOOLEAN]

Nothing == [how |-> "none"]

Ends(c, how) ==
    /\ left' = left - 1
    /\ last' = [line |-> c, how |-> how]

Refuses(c) == Ends(c, "refused") /\ UNCHANGED <<live, disk>>

\* Every command but uninstall begins with the file and the project's name.
Begins(c) == Accepted(c.raw) /\ Clean(c.project) # <<>>

\* sync_unit_files, then the orphans: the common part of install and of `up` of an
\* installed project.  The contents of all files are there before the first is
\* written, which is the target's.
Reconcile(c) ==
    LET p == c.project
        desired == DesiredFiles(p, c.raw)
        orphans == IF c.purge THEN OrphanFiles(p, NamesIn(c.raw), c.scope) ELSE {}
    IN  IF \E s \in NamesIn(c.raw) : ~Buildable(c.raw, s)
        THEN Refuses(c)
        ELSE \E written \in SUBSET desired, gone \in SUBSET orphans, how \in {"ok", "failed"} :
                /\ written # {} => TargetUnit(p) \in written
                /\ gone # {} => written = desired
                /\ how = "ok" => written = desired /\ gone = orphans
                /\ disk' = [disk EXCEPT ![c.scope] = Put(@ \ gone, written)]
                /\ Ends(c, how)
                /\ UNCHANGED live

Install(c) ==
    /\ c.cmd = "install"
    /\ IF Begins(c) /\ ~InstalledElsewhere(c.project, c.scope) THEN Reconcile(c) ELSE Refuses(c)

\* With --project-name the file is not looked at.  The files go in the order of their
\* names, the target's last.
Uninstall(c) ==
    LET files == ProjectFiles(c.project, c.scope)
    IN  /\ c.cmd = "uninstall" /\ ~c.purge
        /\ IF Clean(c.project) = <<>>
           THEN Refuses(c)
           ELSE \E gone \in SUBSET files, how \in {"ok", "failed"} :
                   /\ TargetKey(c.project) \in {Key(u) : u \in gone} => gone = files
                   /\ how = "ok" => gone = files
                   /\ disk' = [disk EXCEPT ![c.scope] = @ \ gone]
                   /\ Ends(c, how)
                   /\ UNCHANGED live

\* `up` of a project that is not installed: some of the services that can be built
\* are submitted, and some monitors of theirs, after some units of their names are
\* cleaned up.  The others run as they should, are not selected, wait for a
\* dependency, or come after a call that failed.
UpTransient(c) ==
    LET p == c.project
        reached == {s \in NamesIn(c.raw) : Buildable(c.raw, s)}
        named == {u \in live : u.name \in MainNames(p, reached) \cup HealthNames(p, reached)}
        orphans == IF c.purge THEN OrphanUnits(p, NamesIn(c.raw)) ELSE {}
    IN  \E gone \in SUBSET (named \cup orphans),
           new \in SUBSET (MainUnits(p, reached)
                               \cup HealthUnits(p, "service", Monitored(c.raw, reached))),
           how \in {"ok", "failed"} :
              /\ OneUnitPerName(new)
              /\ \A u \in new : UnitName(p, u.of) \in {v.name : v \in new}
              /\ live' = Put(live \ gone, new)
              /\ how = "ok" => orphans \subseteq gone
              /\ Ends(c, how)
              /\ UNCHANGED disk

Up(c) ==
    /\ c.cmd = "up"
    /\ IF ~Begins(c) THEN Refuses(c)
       ELSE IF Installed(c.project, c.scope) THEN Reconcile(c)
       ELSE IF c.scope = "system" THEN Refuses(c)
       ELSE UpTransient(c)

\* `down` of a project that is not installed: some of the services are not
\* selected, and some calls fail.
DownTransient(c) ==
    LET p == c.project
        S == NamesIn(c.raw)
        named == {u \in live : u.name \in MainNames(p, S) \cup HealthNames(p, Monitored(c.raw, S))}
        orphans == IF c.purge THEN OrphanUnits(p, S) ELSE {}
    IN  \E gone \in SUBSET (named \cup orphans), how \in {"ok", "failed"} :
            /\ how = "ok" => orphans \subseteq gone
            /\ live' = live \ gone
            /\ Ends(c, how)
            /\ UNCHANGED disk

DownInstalled(c) ==
    LET orphans == IF c.purge THEN OrphanFiles(c.project, NamesIn(c.raw), c.scope) ELSE {}
    IN  \E gone \in SUBSET orphans, how \in {"ok", "failed"} :
           /\ how = "ok" => gone = orphans
           /\ disk' = [disk EXCEPT ![c.scope] = @ \ gone]
           /\ Ends(c, how)
           /\ UNCHANGED live

Down(c) ==
    /\ c.cmd = "down"
    /\ IF ~Begins(c) THEN Refuses(c)
       ELSE IF Installed(c.project, c.scope) THEN DownInstalled(c)
       ELSE IF c.scope = "system" THEN Refuses(c)
       ELSE DownTransient(c)

\* A unit exits, by itself, by a `stop`, or with one that it is bound to.
Exits(u) ==
    /\ live' = live \ {u}
    /\ last' = Nothing
    /\ UNCHANGED <<disk, left>>

Init ==
    /\ live = {}
    /\ disk = [scope \in Scope |-> {}]
    /\ last = Nothing
    /\ left = MaxCommands

Next ==
    \/ /\ left > 0
       /\ \E c \in Line : Install(c) \/ Uninstall(c) \/ Up(c) \/ Down(c)
    \/ \E u \in live : Exits(u)

Spec == Init /\ [][Next]_vars

-----------------------------------------------------------------------------
(* Properties. *)

Of(p, units) == {u \in units : u.owner = p}

\* Every unit has a name that its project gives a unit of its service.
OwnName(u) == u \in {TargetUnit(u.owner)} \cup ServiceUnits(u.owner, {u.of})

TypeOK ==
    /\ live \in SUBSET [name : Name, kind : {"service"}, owner : Project, of : Name]
    /\ disk \in [Scope -> SUBSET Unit]
    /\ last \in {Nothing} \cup [line : Line, how : {"ok", "failed", "refused"}]
    /\ left \in 0 .. MaxCommands
    /\ \A units \in {live, disk["user"], disk["system"]} :
          OneUnitPerName(units) /\ \A u \in units : OwnName(u)

\* A project by whose prefix no other goes, nor it by another's.
Apart(p) == \A q \in Project \ {p} : ~Related(p, q)

\* The commands that look at a project look in the scope it is installed in: a
\* project apart from all others has files in one scope at most, has its target
\* there, and that scope is the one that inspection finds.
ScopeFound ==
    \A p \in Project, scope \in Scope :
        Of(p, disk[scope]) # {} /\ Apart(p) =>
            /\ Installed(p, scope)
            /\ Of(p, disk[Opposite(scope)]) = {}
            /\ InspectedScope(p) = scope

IsCommand == last' # Nothing

\* A command leaves the units and files of every project alone whose prefix is not
\* its own project's, nor the beginning of it, nor the other way round: whatever
\* the projects' and services' names are, and with --remove-orphans too.
Isolation ==
    [][IsCommand =>
        \A q \in Project :
            \/ /\ Of(q, live') = Of(q, live)
               /\ \A scope \in Scope : Of(q, disk'[scope]) = Of(q, disk[scope])
            \/ Related(last'.line.project, q)]_vars

\* Two services whose units share a name: once cleaned their names are the same, or
\* the one is called as the other's probe is.
Alike(s, t) ==
    \/ Clean(s) = Clean(t)
    \/ Clean(s) = Clean(t) \o <<Dash, Health>>
    \/ Clean(t) = Clean(s) \o <<Dash, Health>>

OfListed(u, raw) == u.kind = "target" \/ \E s \in NamesIn(raw) : Alike(u.of, s)

\* Of what a project has left behind, under whatever files its compose file was, no
\* unit or file is missed: after an uninstall there is none, even if the compose file
\* has become one that is refused; after --remove-orphans all that there is of it is
\* of a service that is listed, or of one that is alike a service that is.  The
\* exception is what the code does: the unit of a service `b-health` that is no
\* longer listed goes by the name of the probe of `b`, and is kept while `b` is
\* listed (systemd_units.py:167-179, persistence.py:136-144), with a healthcheck or
\* without one.
PurgeComplete ==
    [][IsCommand /\ last'.how = "ok" =>
        LET c == last'.line
            p == c.project
        IN  /\ c.cmd = "uninstall" => Of(p, disk'[c.scope]) = {}
            /\ c.purge =>
                  IF c.cmd = "install" \/ Installed(p, c.scope)
                  THEN \A u \in Of(p, disk'[c.scope]) : OfListed(u, c.raw)
                  ELSE \A u \in Of(p, live') : OfListed(u, c.raw)]_vars

\* README.md:454-455: `up` and `down` with --remove-orphans stop and reset
\* project-owned orphans.  A unit that goes and is none of the listed services is
\* the project's own.
OrphansOwned ==
    [][IsCommand /\ last'.line.purge =>
        LET c == last'.line
        IN  \A u \in live \ live' :
                u.owner = c.project \/ Key(u) \in Expected(c.project, NamesIn(c.raw))]_vars

=============================================================================
