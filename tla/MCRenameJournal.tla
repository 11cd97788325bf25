-------------------------- MODULE MCRenameJournal --------------------------
(* Instances of RenameJournal for TLC: one or two plans of one file.       *)
EXTENDS RenameJournal, TLC

CONSTANTS a, b, x, y, z

OneSource == [p \in Plans |-> x]
OneDestination == [p \in Plans |-> y]
TwoDestinations == [p \in Plans |-> IF p = a THEN y ELSE z]

Interchangeable == Permutations(Requests) \cup Permutations(Processes)
=============================================================================
