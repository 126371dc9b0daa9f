------------------------- MODULE MCCommandPalette --------------------------
(* Small instances of CommandPalette for TLC.                              *)
EXTENDS CommandPalette

\* Queries that share a prefix and one that is an alias of another.
SomeQueries == {<<>>, <<1>>, <<1, 2>>, <<2>>}
SomeAliases == [q \in SomeQueries |-> IF q = <<2>> THEN <<1, 2>> ELSE q]
SomeCounts == [q \in SomeQueries |-> CASE q = <<>> -> 2 [] q = <<1, 2>> -> 1
                                       [] OTHER -> 2]
============================================================================
