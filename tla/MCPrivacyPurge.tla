---------------------------- MODULE MCPrivacyPurge ----------------------------
(* Two files, one in a folder of its own. *)
EXTENDS PrivacyPurge, TLC

NodeSymmetry == Permutations(Nodes)
=============================================================================
