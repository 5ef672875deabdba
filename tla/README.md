# systemd-compose in TLA+

A verification project for `systemd-compose`: TLA+ models of the commands that
change the state of the system, the TLC runs that check them on small
instances, and theorems about them that TLAPS checks for every instance.

Paths like `cli.py:316` are below `src/src/systemd_compose/`; `README:131` is
`src/README.md`.

## 1. The system

`systemd-compose` has no daemon and no database. A command reads a compose file,
compares it with what the systemd manager and the unit directory hold, and makes
a sequence of subprocess calls. Everything that lasts is elsewhere: in the
compose file (the user's), in the manager's units, in the unit files. What is
hard about it follows from this: a command acts on what it read some calls ago,
each of its calls may fail or be the last one, and the manager stops, starts and
unloads units other than the one it is asked about.

| part | state | operations | modelled by |
|---|---|---|---|
| compose file (`parser.py`, `models.py`, `config.py`) | services in order, their definitions | parse, select services | `Parser`, `ComposeFile` |
| unit generation (`builders.py`) | none; the definition hash is stored in a unit's Description= | command lines, unit files, hash | `ComposeFile`, `UserManager`, `UnitFiles` |
| systemd manager (external) | units, their states, their edges, definitions held, enabled targets | start, stop, restart, reset-failed, systemd-run, show, list-units, daemon-reload, enable, disable | `UserManager`, `UnitFiles`, `UnitGraph` |
| transient life cycle (`cli.py`, `systemd_units.py`) | the handler's locals | up, start, restart, stop, down | `TransientProject` |
| installed life cycle (`cli.py`, `persistence.py`) | unit files, the handler's locals | install, uninstall, up, start, restart, stop, down | `InstalledProject` |
| naming and ownership (`builders.py`, `systemd_units.py`, `persistence.py`) | none; a unit's name and marker | cleaned names, prefixes, orphans, the check of the other scope | `Names`, `Ownership` |
| inspection (`status.py`, `stats.py`) | the reader's locals: a row, two rounds of samples | ps, health, stats | `Inspection` |
| logs, host volume directories, packaging | none | one journalctl call; mkdir; build scripts | left out |

**How the parts interact.** A handler parses the file once (`cli.py:254`) and
works through the services one at a time. On a project that is not installed,
each service is inspected (three `systemctl show`, `systemd_units.py:73-84`),
compared by hash and state (`cli.py:301-313`), and skipped, started or torn down
and submitted again. The dependency edges are in the units (Requires=, After=,
BindsTo=, `builders.py:104-108`): stopping a unit stops its dependants, starting
one starts what it requires, and a unit stays loaded as long as another one that
is loaded refers to it. A healthcheck is a timer and a oneshot probe, bound to
the service (`builders.py:120-153`). A project is installed when its target file
is there and carries the generated marker (`persistence.py:46-47`); then the
handlers write, unlink, reload and act on the target or on named services.
Projects share the manager and the unit directories, and know their units by
nothing but a name prefix (`builders.py:369-370`) and a marker. The commands that
look make one `systemctl show` per unit and never two at the same instant.

**What makes each part correct.**

- *Compose file*: every dependency is listed. Neither the order of the services
  nor cycles are checked, and nothing later relies on them being checked.
- *Manager as used*: a service runs only on running dependencies, a timer only
  with its service, whatever the sequence of requests.
- *up*: on success the named services run with the definition of the file; it
  stops nothing it has no reason to stop; running it again repairs anything.
- *start, restart, stop, down*: on success all named services are up or down,
  although each call takes others along.
- *Orphans*: nothing of a removed service is left running, monitored or failed.
- *Installed*: what is installed survives a reboot and an interrupt; files and
  manager agree; what is removed is stopped before, and removed completely.
- *Names*: no command reaches a project it has nothing to do with; what is purged
  or uninstalled is all that the project has left behind (section 6 has the case
  where the code does not); a project is found in the scope it is installed in.
- *Inspection*: what is shown was so, though a row is put together from several
  reads, and a percentage from two rounds of them.

The hazards, each at its line with the properties that cover it, are listed in
`PROJECT.json`.

## 2. The modules

| module | lines of a component it stands for | content |
|---|---|---|
| `ComposeFile` | `parser.py:97-140`, `builders.py:293-354` | definitions, well-formed files, the hash |
| `Deployment` | — | the abstract specification: what runs, with which definition, and what is watched |
| `UnitGraph` | — | closures over Requires= edges, without recursion |
| `UserManager` | external, `builders.py:86-153` | transient units: every request as an operator with its condition of success |
| `TransientProject` | `cli.py:253-333`, `469-588`, `systemd_units.py` | the five handlers, one action per subprocess call; properties |
| `MCTransient` | — | instances of `TransientProject` |
| `CommonProofs` | — | lemmas for both life cycles: closures, the parser's guarantees, least naturals |
| `UserManagerProofs` | — | every request preserves `ManagerInv` |
| `TransientProofs` | — | the state invariants of `TransientProject`, the shape of a command |
| `TransientServiceProofs` | — | what the transient commands promise: the refinement of `Deployment`, what a success means |
| `UnitFiles` | `persistence.py:63-87`, `builders.py:156-257`, external | generated files, the manager that reads them, a boot |
| `InstalledProject` | `cli.py:336-458`, `persistence.py` | the seven handlers on an installed project, one action per file or call; properties |
| `MCInstalled` | — | instances of `InstalledProject` |
| `InstalledProofs` | — | the theorems about the files and the manager of `InstalledProject` |
| `InstalledServiceProofs` | — | those about what its services do |
| `Inspection` | `status.py:44-95`, `stats.py:26-60`, `96-115`, `cli.py:613-680` | the reads of ps, health and stats, and what happens between them; properties |
| `MCInspection`, `InspectionProofs` | — | its instance, the theorems about it |
| `Names` | `builders.py:52`, `365-382`, `persistence.py:38` | names as sequences of symbols, cleaning, prefixes |
| `Parser` | `parser.py`, `builders.py:55-79`, `308-354` | what is refused, by whom, and what becomes of the rest |
| `Ownership` | `persistence.py`, `systemd_units.py:150-207`, `cli.py:205-458` | several projects, two scopes, one command a step; properties |
| `MCOwnership`, `OwnershipProofs` | — | its instance, the theorems about it |

The compositions: `TransientProject` and `Inspection` run on the manager of
`UserManager`, with the files of `ComposeFile`; `InstalledProject` on that of
`UnitFiles`; `Ownership` on `Parser` and `Names`. `TransientProject` instantiates
`Deployment`.

### ComposeFile

A definition keeps `deps` (depends_on, in order), `health` (an enabled
healthcheck) and `variant`, one opaque value for everything else. The hash is an
injective function of what `service_definition_hash` digests: the service's own
definition and, one level deep, those of its dependencies. That depth matters:
a change at the end of a chain of three leaves the hash of its other end as it
is, and the instances contain such a change.

### UserManager and TransientProject

State of the manager (`mgr`): `active` (ActiveState of each main unit), `hash`
(what the Description= says, `NoHash` when the unit is not loaded), `timers`
(healthcheck timers that run), `failedProbes` (probe units that are failed). The
unloading of unused units (`Collect`) decides what the next `systemctl show`
answers and whether systemd-run is accepted, so it is part of every request.
Jobs are taken to be finished when the call returns, and `deactivating` is not
seen by anyone; `reloading` does not occur, since nothing reloads a unit.

A command is a process (`proc[p]`): the point it stands at, the services left in
its loop, the calls left of a teardown, the orphans left, and what it read. One
action is one subprocess call together with all the control flow up to the next
call:

| action | code |
|---|---|
| `Begin` | parse, select, flags: the start of the handlers |
| `ListOrphans` | `find_orphan_units`, `systemd_units.py:150-184`; the reads of the Descriptions are part of it, a unit gone in between needs no cleanup |
| `ReadLoadState`, `ReadActiveState`, `ReadDescription` | `inspect_unit`, and the decision of the handler after the last of them |
| `ReadDependencyLoadState`, `ReadDependencyActiveState` | `blocked_dependency` |
| `TearDown`, `TearDownDirty` | each stop and reset-failed of `cleanup_unit`, `stop_unit`, their health counterparts and the orphans; dirty: a unit that goes down exits with an error |
| `Create`, `CreateHealthTimer` | `cli.py:329`, `331`; failures are exceptions |
| `StartExisting`, `RestartExisting`, `StartHealthTimer` | the calls of `start_existing_unit`, `restart_existing_unit`, `start_health_unit` |
| `Rejected` | a systemctl call that does nothing and returns an error the handler goes on from |
| `Raise` | an exception or an interrupt at any point |
| `EditFile`, `Crash`, `Flap`, `AutoRestart`, `ProbeFails`, `ProbeSucceeds` | what happens around the commands |

Orphans are cleaned up in the reverse order of their units' full names, in which
the units of two services may interleave (`web-health`, `web-api`, `web`): `Rank`
is the position of a unit, of which only a probe's coming before its own service
is assumed. The instances of three services have such names.

`quiet` and `steady` are history: which running commands nothing interfered
with, and whether only successful full `up`s of the present file ran since no
command did.

### Deployment

What a user sees, with no manager, calls or commands: `deployed` gives each
service the definition it runs, `watched` are the services whose healthcheck runs.
A step starts services or stops services, never both, so that a service that
runs keeps its definition until it is stopped; every step ends with services on
running dependencies, with a definition that some content of the file gives
them. `ImplementsDeployment` in `TransientProject` maps the manager to it: a
service is deployed when it runs, with the hash of its unit's description, and
watched when its timer runs. A restart of a service and of all it takes along is
a stutter. That it holds says that recreating a unit is never seen as a service
changing under its dependants: the teardown is a stop, with all of them, and the
submission a start.

### UnitFiles and InstalledProject

`disk` is the content of each generated file. The manager holds for each unit
the definition it last read (`held`), for each running service the definition it
was started with (`live`), the timers that run and whether the target is
enabled. A unit whose definition is not held is read when it is first needed; a
changed file is noticed at a reload only.

A command (`cmd`) writes or unlinks one file, or makes one systemctl call, in an
action: `SyncFile` is a turn of `sync_unit_files`' loop, in the order of
`desired_unit_files`; `Unlink` one of `remove_unit_files` or
`remove_orphan_unit_files`, in sorted order; the others are the calls. An
interrupt (`Raise`) or a reboot may come between any two. `seen` is history; its
comment in the module says what each flag means.

### Inspection

A command that looks is a process of its own (`view`): `ReadMain` and `ReadProbe`
are the two calls of `collect_health_status`, `TakeSample` one service of a round
of `stats`, `PrintTable` its end. `ps` and `health` read the same, so there is one
of them. A command named with services reads fewer of the rows; each row is read
the same way. Around it `Asked` is any call that any other command may make, `Exits`
and the probes what the manager does. A probe takes time here, because systemctl
shows its Result and ExecMainStatus as success and 0 while it runs and before it
ever ran. `lenient` are the failed probes that timed out and still exited with 0.
`HealthStatus` has the branches of `format_health_status`, also the one for a
Result without a value, which the manager does not give. A `systemctl show` that
fails in the words of a unit that is not loaded (`systemd_units.py:54-56`) is not
among the answers: `show` of such a unit succeeds.
The CPU counter belongs to a run of a unit: a restart sets it to 0; for a running
service it may be missing, or come from the cgroup, which counts in coarser ticks
(`Tick`); a stopped one keeps it as long as it is loaded. The history: what each
service has used in all its runs, and whose probe has failed since its unit was
submitted.

### Names, Parser and Ownership

A name is a sequence of symbols, where `Other` stands for a run of characters a
unit name may not have. The kind of a unit is kept beside its name: a prefix ends
with a dash and no suffix contains one, so no prefix reaches into it.

`Parser` takes a text as yaml leaves it. A field is of a shape the code tells
apart or `Invalid`. A text is refused in two places: by `parse_compose_data`,
before anything happened (`Accepted`), and by the builders (`Buildable`), for a
command line that shlex refuses or that is blank and for the empty key of a
mapping, in the middle of a loop of transient submissions or before the first
file is written. The hash makes a service depend on whether its dependencies can
be built, too. `Parsed` is what the other modules call a file.

`Ownership` is about which units a command reaches, so a command is one step; the
two life cycles have its calls. `live` are the transient units, `disk` the files of
both scopes. The code sees the name of a unit only; its `owner` and `of`, the
project and the service it was submitted or written for, are history, and the
properties go by them and not by the names. A step may stop after any of the
command's writes, unlinks or calls: a file is written once the target is, unlinked
before the target is, an orphan's once all are written. An `up` of a project that
is not installed submits any part of the services that can be built, and any part
of their monitors, after cleaning up any of their units; which part is the subject
of `TransientProject`, and services named on the command line, a failure in the
middle or units that are already there are all such parts. Two services of one
file may go by one name; the later one's content stays (`DesiredFiles`). `last`
keeps the command of a step for the action properties. No action reads it, so the
instance leaves it out of what tells states apart (`VIEW StateView`).

## 3. The runs

| run | question | instance | states |
|---|---|---|---|
| `transient_sequential` | do the commands do what they report? | 3 services, 6 files, every command line (full, one named service, `--remove-orphans`), 1 fault of any kind, 2 edits, 2 commands besides any number of full `up`s | 1.3 M |
| `transient_concurrent` | do two interleaving `up`s both succeed only on an aligned project? | 2 processes, chain of 3 and its change, 1 fault, 1 edit | 0.8 M |
| `transient_retry` | does running `up` again repair everything? | chain of 3 and its change, 1 failure (rejected call, exception, automatic restart), 1 edit, 1 other command | 20 k |
| `installed` | do files, manager and services stay consistent? | chain of 3, its change, and a file with one service left; every command, 1 fault (rejected call, interrupt, crash, reboot), 2 edits | 2.1 M |
| `inspection` | do ps, health and stats show what is the case? | 2 services, one with a dependency and a healthcheck, 2 files, any number of calls, exits and probes, 3 units of CPU time, ticks of 2 | 0.7 M |
| `ownership` | do the commands reach what their project has left and nothing of another, wherever they are interrupted? | 3 projects (`a`, `a-b`, and one cleaned to `ab`), 2 scopes, 5 texts, 3 commands, each cut short anywhere, any exits | 0.3 M |
| `transient_readme`, `transient_monitor`, `transient_stuck`, `installed_uninstall`, `installed_stale`, `ownership_prefix` | statements of the documentation that the code does not keep | the smallest that shows it | section 6 |

**Properties.** Each is stated in words above its definition.

- `TypeOK`: the type invariant of each of the two machines; it also says that no
  loop stands where nothing is left to do and that every file is one generated.
- `DependencyBound`, `MonitorBound`: no service runs on a dependency that is
  down, no timer without its service, no health unit of a unit that is gone.
- `UpHonest`, `StartHonest`, `StopHonest`, `PurgeHonest`: what an exit status 0
  of a command promises when nothing interfered with it, over all the things
  earlier commands may have left behind. `UpHonest` asks for names in dependency
  order and together with what they depend on (section 6 has the case without).
- `NoNeedlessStop`: `up` stops only what changed, what it was told to remove, and
  what depends on these.
- `SteadyAligned`: two successful `up`s, however interleaved, leave the project
  as the file says.
- `EventuallyAligned`: running `up` again and again aligns the project for good.
- `NoHeadlessProject`: a project with files is seen as installed, wherever a
  command was interrupted. The order of the writes and of the unlinks is the
  whole reason.
- `ManagerUpToDate`: no command ends with files the manager has not read, unless
  one was interrupted.
- `SurvivesReboot`: a boot starts exactly the present project.
- `UpHonest` (installed), `NamedHonest`: as above, for the target and for named
  services. That everything runs the *new* definition needs that everything ran
  what its file said before; `installed_stale` is the case without it.
- `OrphansStopFirst`, `UninstallClean`: no file is removed under a running
  service by `up` or `down`; a successful `uninstall` leaves nothing.
- `ImplementsDeployment`: the refinement of `Deployment`.
- `UnhealthyDeserved`: what is about to be shown as unhealthy has failed a probe
  since its unit was submitted, and none is running or has succeeded since,
  although the service may have been recreated between the two reads.
- `CpuHonest`: what `stats` takes for the use between two rounds was used, up to a
  tick, over restarts, missing values and changes from one counter to the other.
- `ScopeFound`: a project has its files in one scope, with its target, and
  `resolve_inspection_system_scope` finds that one, wherever commands were
  interrupted. The check of the other scope at `install`, and the target being the
  first file written and the last unlinked, are the reasons.
- `Isolation`: a command changes nothing of a project by neither of whose prefixes
  the other goes (`Related`), with `--remove-orphans` too.
- `PurgeComplete`: a successful `uninstall` leaves no file that was written for the
  project, whatever compose file it was written from; after a successful
  `--remove-orphans`, each unit or file of the project was submitted or written
  for a service that is listed, or for one that is `Alike` one that is: called the
  same once cleaned, or as the other's probe. The exception is real: the unit of
  a removed `b-health` stays as long as `b` is listed (section 6).
- `OrphansOwned` is the claim of README:454-455, which `ownership_prefix` refutes:
  `Isolation` is what is left of it.

The properties about success assume that the services come in dependency order
(`DependencyFirst`) where the code does too: without it `up` may fail
(`transient_readme`) or leave a dependant of a recreated service down.

**Bounds.** `MaxFaults`, `MaxEdits` and `MaxCommands` count events of a behaviour;
full `up`s are not counted. One fault is enough for each property to meet every
call failing at every point; two edits give a change and its undoing, or a
removal after a change; two commands besides `up` give every pair (stop then
start, down then restart, a named one before a full one). In `Ownership`, three
commands are a project's own two (install, then purge or uninstall with another
text) and one of another project between them; its three projects are a pair
that is related, and one that is not although its letters begin alike and its
name has to be cleaned. The texts are one with a probe, one whose two services
collide, one the builders refuse, one the parser refuses and one without probes.
`Inspection` bounds only the CPU time: three units are two runs and a remainder
of the tick. Calls and probes come without bound. Three services are
needed for a dependant that is not direct, whose hash a change does not reach.
The mutants recorded in `PROJECT.json` (one for each property and run) show that
the bounds let every property fail.

**Deadlock.** In the transient runs commands, faults and edits are bounded and in
`transient_concurrent` and the small runs the only requests are full `up`s; the
user may stop at any time, so deadlock says nothing and is off; so it is in the
ownership runs, whose commands are counted. It is on in the installed runs and in
`inspection`, where a command can always begin when none runs.

**Fairness** (`RetrySpec`, for the liveness property only): a command that runs
makes its next call, a user whose `up` ended runs it again, and a service that
waits for its automatic restart is restarted. Calls and restarts are the
scheduler's and systemd's; that the user keeps retrying is an assumption, and
the property is about him. Nothing is assumed of faults, edits or other
commands, which are finitely many. A process is either idle or busy, so one
condition covers retrying and stepping. With *two* users who retry the property
is not claimed: two `up`s that both recreate changed units may stop each other's
new units for ever.

## 4. What is proved

Each theorem holds for any services, files, command lines, fault kinds and
bounds, and those of the transient commands for any number of processes.

| module | theorem | property |
|---|---|---|
| `TransientProofs` | `TypeCorrect` | `[]TypeOK` |
| | `DependenciesStayBound` | `[]DependencyBound` |
| | `MonitorsStayBound` | `[]MonitorBound` |
| `TransientServiceProofs` | `TransientImplementsDeployment` | `ImplementsDeployment`, the refinement |
| | `UpSucceeds` | `UpHonest`, an action property |
| | `StartSucceeds` | `StartHonest`, an action property |
| | `StopSucceeds` | `StopHonest`, an action property |
| | `PurgeSucceeds` | `PurgeHonest`, an action property |
| | `UpStopsNothingNeedlessly` | `NoNeedlessStop`, an action property |
| | `SteadyUpsAlign` | `[]SteadyAligned` |
| `InstalledProofs` | `TypeCorrect` | `[]TypeOK` |
| | `TargetFirstAndLast` | `[]NoHeadlessProject` |
| | `ReloadsWhatItChanged` | `[]ManagerUpToDate` |
| | `UninstallLeavesNothing` | `UninstallClean`, an action property |
| `InstalledServiceProofs` | `RebootStartsTheProject` | `[]SurvivesReboot` |
| | `OrphansAreStopped` | `OrphansStopFirst`, an action property |
| | `NamedServicesDoAsTold` | `NamedHonest`, an action property |
| | `InstalledUpIsHonest` | `UpHonest`, an action property |
| `InspectionProofs` | `TypeCorrect` | `[]TypeOK` |
| | `UnhealthyIsDeserved` | `[]UnhealthyDeserved` |
| | `CpuIsHonest` | `[]CpuHonest` |
| `OwnershipProofs` | `ParserGuarantees` | an accepted text becomes a file as `FilesAssumption` has it |
| | `TypeCorrect` | `[]TypeOK` |
| | `FilesInOneScope` | `[]ScopeFound` |
| | `CommandsAreIsolated` | `Isolation`, an action property |
| | `NothingIsMissed` | `PurgeComplete`, an action property |

The assumptions are those of the modules, each checked by TLC on its instance:
files are as the parser leaves them (`FilesAssumption`, which `ParserGuarantees`
derives), `NoHash` is no hash and `NoFile` no content, requests are command lines
(of the transient commands only `up` and `down` take `--remove-orphans`,
`cli.py:131`, `160`), bounds are naturals. File names have a strict order in
which the target's comes last and a service's own after those of its probe and
its timer: `a-health.` sorts before `a.` whatever `a` is (`builders.py:373-382`).

**Transient.** `DependencyBound` is not inductive. A stop must be known to take
*all* dependants of a unit (the closure over the edges of the loaded units), a
start *all* requirements, and the edges themselves come from definitions of
loaded units only. `ManagerInv` adds what is needed: a unit that is not loaded is
inactive, a health unit keeps its main unit loaded, a timer's service runs.
`UserManagerProofs` shows that each request preserves `ManagerInv`, over the two
closure lemmas (what requires a dependant is a dependant, what a requirement
requires is a requirement) and the one about unloading (`CollectInv`: what runs
is kept, with all it requires). `TransientProofs` then shows that the control
flow keeps a process well formed (a lemma for each operator between two calls),
and that each action preserves `Inv == TypeOK /\ ManagerInv(mgr)` (a lemma for
each group of actions).

**Installed.** None of the three properties is inductive: what they say when no
command runs, or when one ends, rests on where the running command stands. The
invariant `CmdInv` says it point by point. Past the target's own turn in the loop
of the writes, the target's file is there. Where the target is among the files to
unlink, every file on disk is, and the order by name puts it last
(`FirstUnitOf`, from `NameRankAssumption`). A command that changed a file stands
before its reload, and one that has changed nothing, or has reloaded, has a
manager that holds what the files say, unless a command was interrupted. An
uninstall past its `disable` has disabled the target or has failed, and its list
holds every file there is. A lemma for each operator between two steps shows
where the command goes on with `CmdInv`, one for each action that `Inv` is
preserved. `UninstallClean` then follows for the step that ends the command.

**Installed services.** What services do rests on what the files say, so
`ServiceInv` follows the files through a command (`PointOk`): which of them the
loop of the writes has compared (`ToCompare`), and so agree with the file it
read; that the list of orphans is the one the disk still has; that each orphan
done with, or each one about to be unlinked, has been stopped. A unit is stopped
only while its file is there, and the order of the names has a probe's and a
timer's files go before the service's (`Companions`). For `up`, each running
service runs what its file says or is noted for a restart (`RestartsNoted`),
although a restart takes along others that are noted too: this is where the
assumption that the services ran their files at the beginning is used (`Fresh`).
`SurvivesReboot` needs no such assumption, but that nothing has been edited since
the files were written (`SyncedOk`).

**Success of a transient command.** `UpHonest`, `StartHonest`, `StopHonest` and
`PurgeHonest` compare the end of a command with its beginning, many calls and as
many side effects ago. `Shaped` says where a command may stand and that its loops
hold what is left of what they began with. `Kept` says what holds there: every
service that the loop is through with is as promised (`Served`), every orphan
that is not left is gone (`AllGone`), and what was read of the present service
is still so, because nothing interferes. That a call leaves the services of
earlier turns alone is a lemma about each request: a start lowers nothing and
raises only requirements (`Lifts`), a stop lowers only what depends on its unit
(`Sinks`); with the names in dependency order nothing that the loop is through
with depends on what it recreates. That last step goes from the edges of the
loaded units to those of the file. They agree where the hashes do, and the hashes
of the services named are compared: this is what `WithDependencies` is for.
`Reached` states for each operator between two calls that the command goes on
with `Kept`, or ends with what it promised (`Fulfilled`). `QuietInv` is `Kept` for
the one command that is `quiet`. `NoNeedlessStop` is a consequence for each call:
`up` tears down only an orphan, or a unit whose hash it has just read to differ.

**Interleaved `up`s.** For `SteadyAligned` nothing read is still so at the next
call. `SteadyInv` gives up on the state of a service the loop is through with,
and says two other things: it has the file's definition or none (`Steadied`),
and every listed service runs with its definition or is still to be brought up by
*some* command (`Left`). A step of one `up` may take a service out of `Left` or
down only if it, or another that stands before it, answers for it afterwards, or
if it fails (`Proceeds`). Here `DependencyFirst` says that a command that tears a
unit down has all its dependants still before it.

**Deployment.** `Inv` of `TransientProofs` gives the running dependencies. What it
lacks is that the definitions the manager holds are a file's: `OwnDefinitions`,
which each request keeps. A lemma per request says what it does to the set of
running services and to the timers, only adding or only taking away, and with it
every action is a `Start`, a `Stop` or a stutter of the abstract specification.

**Inspection.** `UnhealthyDeserved` rests on `ProbesInv`: a failed probe belongs to
a loaded unit, was recorded in the history and is not one that runs. `ManagerInv`
is used here under calls in any order, not only those of `TransientProject`, by
the lemmas of `UserManagerProofs`. `CpuHonest` rests on an invariant over the two
rounds: a sample's counter is at most what was used in all runs by then, and the
distance between what was used in all runs and the present counter never
shrinks, so that a difference that is not negative is at most what was used in
between; the tick is what rounding the one sample and not the other adds.

**Ownership.** Two facts about prefixes carry it: two prefixes of one name are
comparable, so a unit that goes by a project's name and bears another's prefix
makes the two `Related`; and names a project gives bear its prefix, whatever was
cleaned away. The invariant adds that every unit goes by a name its owner gives
and no two by the same, and `Headed`: what a project apart from the others has on
disk is in one scope, with its target, because no part of the files is written
without it and no part unlinked after it. `CommandObeys` reduces every command,
interrupted or not, to one of four things that may happen to the disk and to what
it may do to the live units; each property follows from these. `PurgeComplete`
compares what the code expects, names, with what the history says: a unit that
goes by an expected name was made for a listed service or for an `Alike` one
(`ExpectedIsListed`), since names that are equal after the prefix are equal before
it and can differ by the end of a probe's name only.

`Inv` of each module was checked with TLC on the instances of the runs before it
was proved.

Only model-checked: liveness, that is `EventuallyAligned`, and the refuted
statements of section 6. All other properties of the runs are theorems. Liveness
under fairness, ENABLED and induction over data are out of the prover's reach; no
module with a theorem uses a RECURSIVE operator, and the closures are defined as
least closed sets for this reason.

## 5. What is not modelled

- *Two commands at once on an installed project* (`cli.py:258` reads once whether
  it is installed), and transient units that still run when the project is
  installed, and shadow the files (`cli.py:342`).
- *Torn files*: a file is written in one step (`persistence.py:104`).
- *Hand-written units* among those a prefix finds: they carry neither hash nor
  marker, and the code passes over them.
- *Installed units in the manager of `Ownership`*: which of them run is the
  subject of `InstalledProject`.
- *Unloading of installed units* the manager no longer needs: it keeps what it
  read until a reload.
- *Time*: intervals and time-outs of probes, the start of a round of `stats` and
  the division by it (`cli.py:654`), the other columns of the tables.
- *The syntax within a field*, with the numbers that go through float()
  (`parser.py:270`), interpolation, .env files, bwrap arguments, resource limits:
  pure functions whose results are part of the opaque `variant`, and whose refusal
  is the shape `Invalid`.
- *Probes that are told by their file names* in the restart loop of an installed
  project (`cli.py:418`): the services of `InstalledProject` have names that no
  probe has.
- *status and logs* pass the output of one call on; *`--dry-run`* changes nothing;
  the root check and the tool preflight come before anything happens.
- *Host directories of volumes*: created and never looked at again; the failure
  to create one is one of the exceptions.
- *Packaging*.

## 6. Findings

Each is a statement of the documentation, checked as a property that TLC refutes.

- `transient_readme`: the README's example lists `web` before the `db` it depends
  on; `up` submits in that order, systemd-run fails for want of `db.service`, and
  the exception ends the command before `db` (README:131, `cli.py:319-329`).
- `transient_monitor`: when `up` ends between submitting a service and its timer,
  the timer is never submitted: later `up`s see an unchanged running unit and
  skip it with status 0 (README:128, `cli.py:301-303`).
- `transient_stuck`: the failed probe of a dependant keeps the service it depends
  on loaded; a change of that service makes every later `up` fail at systemd-run,
  before the loop reaches the dependant (README:132, `cli.py:314-329`).
- `installed_uninstall`: `uninstall --now` stops a target of which no service is
  a part; the services go on running (README:178-179, `cli.py:368`).
- `installed_stale`: `up` restarts what it rewrote itself. After an `install` that
  rewrote a file, `up` exits 0 and the service runs its old definition
  (README:147, `cli.py:415`).
- `ownership_prefix`: `up --remove-orphans` and `down --remove-orphans` of a project
  `a` take the units of a project `a-b` for orphans of their own, and stop them
  (README:454-455, `systemd_units.py:176`).

Seen while modelling, and covered by an assumption of a property rather than a
run: an `up` after a command that was interrupted between its files and its
reload starts the old definitions with status 0 (`UpHonest` of the installed
project assumes the manager held what the files say); a changed dependency that
is listed *after* its dependant leaves the dependant down with status 0
(`DependencyFirst`); an `up` of some services may report success with one of them
down when a dependency is left out that has an older definition
(`WithDependencies`; with `a` first depending on `b`, and `c` on `a`: `up`, then `a`
loses its dependency and `up c`, then `b` changes and `up c b`, which finds `c`
as it should be, recreates `b` and takes the old `a` and `c` down with it,
`cli.py:289-332`); `start web` of an installed project does not start the timer
that `stop web` took down (`NamedHonest` claims the service only); a service is shown
as `healthy` before its first probe has a result, while a probe runs, and after
one that timed out and exited with 0, where README:439-441 has `starting`, the
latest result and `unhealthy` (`status.py:89-92`; `UnhealthyDeserved` claims
nothing of what is shown as healthy); the unit of a service `b-health` that was
removed from the compose file is no orphan while `b` is listed, with a healthcheck
or without one, since it goes by the name of the probe of `b`: `--remove-orphans`
exits 0 and leaves it running, or its file where it is (`systemd_units.py:167-179`,
`persistence.py:136-144`), where README:137, 208 and 454-455 have `up` and `down`
stop, reset and remove the project's orphans (`Alike` in `PurgeComplete`).

## 7. The plan

1. *Done*: `ComposeFile`, `UnitGraph`, `UserManager`, `TransientProject`,
   `UnitFiles`, `InstalledProject`, each with its proofs; then the abstract
   `Deployment` with its refinement, `Inspection`, and `Names`, `Parser`,
   `Ownership`, with theirs; then what the services of both life cycles do.
2. *More of the system*: commands that interleave on an installed project; one
   manager with transient and persistent units, so that `install` on a running
   project, the shadowing of files and the fall-back of an uninstalled project
   can be checked; a torn target file.
3. *More proofs*: those of the modules that point 2 adds. Of the present ones
   every safety property is proved. What could still be proved about
   liveness is its safety part: a measure that every call of a command lowers, so
   that a command ends after finitely many calls.
