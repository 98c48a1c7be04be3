\* An ISO image survives the deletion of its server.
CONSTANTS
  m1 = m1  m2 = m2  s1 = s1  s2 = s2  s3 = s3
  None = None
  Machines <- MCMachines
  ServerIds <- MCServerIds
  MaxFailures = 0
  MaxCrashes = 0
  MaxPatchFailures = 0
  MaxTasks = 4
  JobReadWindow = FALSE
  ArchiveMissing = {}
INIT Init
NEXT Next
INVARIANT NoLeakedISO
