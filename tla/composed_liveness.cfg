\* The cluster reconciler with the real machine reconciler: one
\* control-plane machine that may be deleted, two failing cluster calls and
\* one failing cluster Patch; the machine's calls do not fail.
CONSTANTS
  c1 = c1  s1 = s1  s2 = s2  s3 = s3
  None = None
  Machines <- MCMachines
  ControlPlane <- MCControlPlane
  ServerIds <- MCServerIds
  MaxFailures = 0
  MaxCrashes = 0
  MaxPatchFailures = 0
  MaxTasks = 4
  JobReadWindow = FALSE
  ArchiveMissing = {}
  MaxClusterFailures = 2
  MaxClusterPatchFailures = 1
  MachineDeletion = TRUE
SPECIFICATION ComposedSpec
PROPERTY AddonsInstalledWithMachines
PROPERTY EventuallyReady
PROPERTY DeletionOfReadyCompletes
