\* Two machines sharing the registry, the server IDs and the process; a job
\* may advance between ReconcileServer's two reads of it; one process
\* restart, no failed call or Patch.
CONSTANTS
  m1 = m1  m2 = m2  s1 = s1  s2 = s2  s3 = s3
  None = None
  Machines <- MCTwoMachines
  ServerIds <- MCServerIds
  MaxFailures = 0
  MaxCrashes = 1
  MaxPatchFailures = 0
  MaxTasks = 4
  JobReadWindow = TRUE
  ArchiveMissing = {}
INIT Init
NEXT Next
INVARIANT TypeOK
INVARIANT NoDuplicateServer
