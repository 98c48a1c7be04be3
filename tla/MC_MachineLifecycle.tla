------------------------- MODULE MC_MachineLifecycle -------------------------
(* Instantiates MachineLifecycle for TLC; each .cfg picks the bounds.       *)
EXTENDS MachineLifecycle, TLC

CONSTANTS m1, m2, s1, s2, s3

MCMachines == {m1}
MCServerIds == {s1, s2, s3}

\* Two machines sharing the registry, the server IDs and the process.
MCTwoMachines == {m1, m2}
=============================================================================
