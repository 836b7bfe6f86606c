----------------------------- MODULE MCCommands -----------------------------
(***************************************************************************)
(* Small streams of commands: literals of three types, or commands and       *)
(* distances of two, or nothing; a type with one tree for all contexts of a literal    *)
(* and one with two.                                                       *)
(***************************************************************************)
EXTENDS Commands

Counts(l, c, d) == [x \in Categories |-> CASE x = "literal" -> l
                                           [] x = "command" -> c
                                           [] OTHER -> d]

SomeBlockTypeCounts == {Counts(1, 1, 1), Counts(3, 1, 1), Counts(1, 2, 2)}

SomeLiteralMaps == {[k \in 0 .. 5 |-> <<0, 0, 1, 2, 3, 3>>[k + 1]]}

SomeDistanceMaps == {[k \in 0 .. 11 |-> k]}
=============================================================================
