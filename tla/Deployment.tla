----------------------------- MODULE Deployment -----------------------------
(***************************************************************************)
(* What a user of the transient commands sees of a project, and what they  *)
(* promise about it, with no manager, no calls and no commands: which      *)
(* services run, each with a definition of its own, and which are watched  *)
(* by a healthcheck.  A project moves by starting services or by stopping  *)
(* services, never both at once, so that a service that runs keeps its     *)
(* definition until it is stopped; and whatever moves it, it is left with  *)
(* what runs standing on running dependencies and only running services    *)
(* watched.  TransientProject implements this.                             *)
(***************************************************************************)
EXTENDS ComposeFile

VARIABLES
    deployed,  \* Service -> the hash of the definition it runs, NoHash when it does not
    watched    \* the services whose healthcheck runs

vars == <<deployed, watched>>

Running(d) == {s \in Service : d[s] # NoHash}

\* The definitions that some content of the compose file gives the service.
DefinitionsOf(s) == {Hash(f, s) : f \in {g \in Files : s \in Listed(g)}}

Consistent(d, w) ==
    /\ d \in [Service -> Hashes \cup {NoHash}]
    /\ \A s \in Running(d) : d[s] \in DefinitionsOf(s)
    /\ \A s \in Running(d) : DependsOn(d[s].own) \subseteq Running(d)
    /\ w \subseteq Running(d)

Init ==
    /\ deployed = [s \in Service |-> NoHash]
    /\ watched = {}

Start ==
    /\ \A s \in Running(deployed) : deployed'[s] = deployed[s]
    /\ watched \subseteq watched'
    /\ Consistent(deployed', watched')

Stop ==
    /\ \A s \in Service : deployed'[s] \in {deployed[s], NoHash}
    /\ watched' \subseteq watched
    /\ Consistent(deployed', watched')

Next == Start \/ Stop

Spec == Init /\ [][Next]_vars

=============================================================================
