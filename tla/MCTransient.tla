---------------------------- MODULE MCTransient ----------------------------
(***************************************************************************)
(* Small instances of TransientProject: the project of the README, `web`   *)
(* that depends on `db`, and a `cache`, with the edits that matter.        *)
(***************************************************************************)
EXTENDS TransientProject

CONSTANTS db, web, cache, v1, v2

Def(deps, health, variant) == [deps |-> deps, health |-> health, variant |-> variant]
File(order, def) == [order |-> order, def |-> def]

Base == File(<<db, web>>, db :> Def(<<>>, FALSE, v1) @@ web :> Def(<<db>>, TRUE, v1))

\* The definition of db changes; the hash of web changes with it.
DbChanged == File(<<db, web>>, db :> Def(<<>>, FALSE, v2) @@ web :> Def(<<db>>, TRUE, v1))

\* web is alone, its healthcheck is gone and db is an orphan.
WebAlone == File(<<web>>, web :> Def(<<>>, FALSE, v1))

\* db is alone and web, with its health units, is an orphan.
DbAlone == File(<<db>>, db :> Def(<<>>, TRUE, v1))

\* The order of the README's example: the dependant first.
WebFirst == File(<<web, db>>, Base.def)

\* A chain of three, and an edit of its end: the hash of web does not change.
Chain == File(<<db, cache, web>>,
              db :> Def(<<>>, FALSE, v1) @@ cache :> Def(<<db>>, FALSE, v1) @@ web :> Def(<<cache>>, TRUE, v1))
ChainChanged == [Chain EXCEPT !.def[db].variant = v2]

Two == {db, web}
Three == {db, web, cache}

\* The names of the units in reverse order.  The cache is called db-cache, which comes
\* between db and db-health.
MainOf(s) == [of |-> s, kind |-> "main"]
ProbeOf(s) == [of |-> s, kind |-> "probe"]
ByName(names) == [u \in OrphanUnit |-> CHOOSE i \in DOMAIN names : names[i] = u]
RankTwo == ByName(<<ProbeOf(web), MainOf(web), ProbeOf(db), MainOf(db)>>)
RankThree == ByName(<<ProbeOf(web), MainOf(web), ProbeOf(db), ProbeOf(cache), MainOf(cache), MainOf(db)>>)

PairFiles == {Base, DbChanged, WebAlone, DbAlone}
ChangeFiles == {Base, DbChanged}
ChainFiles == {Chain, ChainChanged}
AllFiles == PairFiles \cup ChainFiles
ReadmeFile == {WebFirst}

Line(cmd, names, purge) == [cmd |-> cmd, names |-> names, purge |-> purge]
FullLine == Line("up", <<>>, FALSE)
FullUps == {FullLine}
AllLines ==
    {Line(c, <<>>, FALSE) : c \in Commands}
        \cup {Line(c, <<s>>, FALSE) : c \in Commands, s \in {db, web}}
        \cup {Line(c, <<>>, TRUE) : c \in {"up", "down"}}

AllFaults == FaultKinds
CallFaults == {"reject", "raise", "flap"}
ServiceFaults == {"dirty", "probe"}
NoFaults == {}

=============================================================================
