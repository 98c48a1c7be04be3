------------------------- MODULE MC_ClusterMachines --------------------------
(* Instantiates ClusterMachines for TLC: one control-plane machine, three *)
(* server IDs as model values.                                             *)
EXTENDS ClusterMachines, TLC

CONSTANTS c1, s1, s2, s3

MCMachines     == {c1}
MCControlPlane == {c1}
MCServerIds    == {s1, s2, s3}
=============================================================================
