--------------------------- MODULE MCTopologyApi ---------------------------
(***************************************************************************)
(* TopologyApi on small sets.  Clients and deployment ids are              *)
(* interchangeable, and so are extensions and sounds.                      *)
(***************************************************************************)
EXTENDS TopologyApi, TLC

Symmetry ==
    Permutations(Clients) \cup Permutations(Extensions)
    \cup Permutations(DeploymentIds) \cup Permutations(Sounds)
=============================================================================
