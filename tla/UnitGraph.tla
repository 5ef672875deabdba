----------------------------- MODULE UnitGraph -----------------------------
(***************************************************************************)
(* Reachability over the Requires=/BindsTo= edges of the loaded units.     *)
(* `req` maps a unit to the units it requires.  Both closures are defined  *)
(* as the least closed set that contains the start, so that a module with  *)
(* proofs can use them without recursion.                                  *)
(***************************************************************************)

\* S holds every unit that requires a member of S.
UpwardClosed(req, S) ==
    \A t \in DOMAIN req : req[t] \cap S # {} => t \in S

\* S holds every unit that a member of S requires.
DownwardClosed(req, S) == \A t \in S \cap DOMAIN req : req[t] \subseteq S

\* T and the units that, through others or not, require a member of T: those
\* that stop when the members of T stop.
DependentsOf(req, T) ==
    {u \in DOMAIN req :
        \A S \in SUBSET DOMAIN req : T \subseteq S /\ UpwardClosed(req, S) => u \in S}

\* T and the units that, through others or not, a member of T requires: those
\* that start with the members of T, and that stay loaded with them.
RequirementsOf(req, T) ==
    {u \in DOMAIN req :
        \A S \in SUBSET DOMAIN req : T \subseteq S /\ DownwardClosed(req, S) => u \in S}

=============================================================================
