---------------------------- MODULE MCOwnership ----------------------------
(***************************************************************************)
(* A small instance of Ownership: a project, one whose name begins with    *)
(* it and a dash, and one that begins with its letters and has to be       *)
(* cleaned; services that are called like a probe, or like each other once *)
(* cleaned; files refused by the parser and by the builders.               *)
(***************************************************************************)
EXTENDS Ownership, TLC

CONSTANTS v1

a == <<"a">>
a_b == <<"a", "-", "b">>
ab == <<"!", "a", "b">>
Projects == {a, a_b, ab}

b == <<"b">>
b_health == <<"b", "-", "health">>
b_b == <<"b", "-", "b">>
bx == <<"b", "!", "b">>
nothing == <<"!">>

Raw(name, command, deps, health) ==
    [name |-> name, command |-> command, environment |-> "absent", depends_on |-> deps,
     healthcheck |-> health, others |-> v1]
Text(services) == [mappings |-> TRUE, services |-> services]

Monitors == Text(<<Raw(b, "argv", <<>>, "test")>>)
Clash == Text(<<Raw(b_b, "line", <<>>, "NONE"), Raw(bx, "line", <<b_b>>, "test")>>)
Unbuildable == Text(<<Raw(b_health, "argv", <<>>, "test"), Raw(b_b, "blank", <<b_health>>, "disable")>>)
Unmonitored == Text(<<Raw(b_b, "argv", <<>>, "absent"), Raw(b, "line", <<b_b>>, "disable")>>)
Nameless == Text(<<Raw(b, "argv", <<>>, "absent"), Raw(nothing, "argv", <<>>, "absent")>>)

Texts == {Monitors, Clash, Unbuildable, Unmonitored, Nameless}
ParsedFiles == {Parsed(raw) : raw \in {r \in Texts : Accepted(r)}}
AllNames == {b, b_health, b_b, bx, nothing}

\* What the actions read: `last` is history, which only the properties of steps look at.
StateView == <<live, disk, left>>

=============================================================================
