------------------------------ MODULE MCScanJob ------------------------------
(* The smallest tree with something below a folder: root, folder, inner. *)
EXTENDS ScanJob, TLC

CONSTANTS root, folder, inner, v1, v2

MCPaths == {root, folder, inner}
MCParent == folder :> root @@ inner :> folder
MCOneVersions == {v1}
MCTwoVersions == {v1, v2}
RunnerSymmetry == Permutations(Runners)
=============================================================================
