\* Safety of the cluster reconciler: machines come, get addresses and are
\* deleted; two failing calls and one failing Patch.
CONSTANTS
  c1 = c1  c2 = c2  w1 = w1
  None = None
  Machines <- MCMachines
  ControlPlane <- MCControlPlane
  MaxFailures = 2
  MaxPatchFailures = 1
  MachineDeletion = TRUE
INIT Init
NEXT Next
INVARIANT TypeOK
INVARIANT AddonReferencesPresent
