---------------------------- MODULE MCInstalled ----------------------------
(***************************************************************************)
(* Small instances of InstalledProject: the chain web -> cache -> db and   *)
(* the edits that matter.                                                  *)
(***************************************************************************)
EXTENDS InstalledProject

CONSTANTS db, web, cache, v1, v2

Def(deps, health, variant) == [deps |-> deps, health |-> health, variant |-> variant]
File(order, def) == [order |-> order, def |-> def]

\* The dependant is listed first, as in the example of the README.
Base == File(<<web, db>>, db :> Def(<<>>, FALSE, v1) @@ web :> Def(<<db>>, TRUE, v1))

\* The definition of db changes, and the hash of web with it.
DbChanged == [Base EXCEPT !.def[db].variant = v2]

\* A service between the two, not listed in dependency order, and an edit of the
\* end of the chain, which leaves the hash of web as it is.
Chain == File(<<db, web, cache>>,
              db :> Def(<<>>, FALSE, v1) @@ cache :> Def(<<db>>, FALSE, v1) @@ web :> Def(<<cache>>, TRUE, v1))
ChainChanged == [Chain EXCEPT !.def[db].variant = v2]

\* Only db is left, with a healthcheck: the others are orphans, one of them with a
\* healthcheck, and back in the chain db loses its own.
DbAlone == File(<<db>>, db :> Def(<<>>, TRUE, v1))

Two == {db, web}
Three == {db, web, cache}

\* The units in the order of their names.
ByName(names) == [u \in Unit |-> CHOOSE i \in DOMAIN names : names[i] = u]
NamesOf(s) == <<ProbeUnit(s), TimerUnit(s), MainUnit(s)>>
RankTwo == ByName(NamesOf(db) \o NamesOf(web) \o <<Target>>)
RankThree == ByName(NamesOf(cache) \o NamesOf(db) \o NamesOf(web) \o <<Target>>)

ChangeFiles == {Base, DbChanged}
AllFiles == {Chain, ChainChanged, DbAlone}

Line(command, names, purge, now) == [cmd |-> command, names |-> names, purge |-> purge, now |-> now]
AllLines ==
    {Line(c, <<>>, FALSE, FALSE) : c \in Commands}
        \cup {Line(c, <<>>, FALSE, TRUE) : c \in {"install", "uninstall"}}
        \cup {Line(c, <<>>, TRUE, FALSE) : c \in {"install", "up", "down"}}
        \cup {Line(c, <<web>>, FALSE, FALSE) : c \in {"up", "start", "stop"}}
        \cup {Line(c, <<db>>, FALSE, FALSE) : c \in {"up", "restart", "down"}}

\* install, with and without --now, up, and uninstall --now.
FewLines ==
    {Line("install", <<>>, FALSE, FALSE), Line("install", <<>>, FALSE, TRUE),
     Line("up", <<>>, FALSE, FALSE), Line("uninstall", <<>>, FALSE, TRUE)}

AllFaults == FaultKinds
NoFaults == {}

=============================================================================
