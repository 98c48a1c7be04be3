\* A stored JobRef can name a job the registry no longer holds: after a
\* restart, or after a failing Patch in the pass that saw the job done.
CONSTANTS
  m1 = m1  m2 = m2  s1 = s1  s2 = s2  s3 = s3
  None = None
  Machines <- MCMachines
  ServerIds <- MCServerIds
  MaxFailures = 0
  MaxCrashes = 1
  MaxPatchFailures = 1
  MaxTasks = 4
  JobReadWindow = FALSE
  ArchiveMissing = {}
SPECIFICATION Spec
PROPERTY EventuallyReady
