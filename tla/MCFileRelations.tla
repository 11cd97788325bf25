--------------------------- MODULE MCFileRelations ---------------------------
(* Two files by the names v1 and v2, and a third name that also says 1. *)
EXTENDS FileRelations

MCNumber == [v1 |-> 1, v2 |-> 2, w1 |-> 1]
MCPlaced == [v1 |-> "a", v2 |-> "b", w1 |-> NoFile]
=============================================================================
