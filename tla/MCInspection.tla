---------------------------- MODULE MCInspection ----------------------------
(***************************************************************************)
(* A small instance of Inspection: `web`, with a healthcheck and a         *)
(* dependency, and an edit that changes the one and drops the other.       *)
(***************************************************************************)
EXTENDS Inspection, TLC

CONSTANTS db, web, v1, v2

Def(deps, health, variant) == [deps |-> deps, health |-> health, variant |-> variant]

Pair == [order |-> <<web, db>>, def |-> db :> Def(<<>>, FALSE, v1) @@ web :> Def(<<db>>, TRUE, v1)]

\* db is gone from the file, and the healthcheck of web is another.
Alone == [order |-> <<web>>, def |-> web :> Def(<<>>, TRUE, v2)]

Two == {db, web}
PairFiles == {Pair, Alone}
OnlyWebComputes == db :> 0 @@ web :> 3

=============================================================================
