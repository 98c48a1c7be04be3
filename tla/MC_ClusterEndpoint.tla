------------------------- MODULE MC_ClusterEndpoint --------------------------
(* Instantiates ClusterEndpoint for TLC: two control-plane machines and    *)
(* one worker.                                                             *)
EXTENDS ClusterEndpoint, TLC
CONSTANTS c1, c2, w1
MCMachines     == {c1, c2, w1}
MCControlPlane == {c1, c2}
=============================================================================
