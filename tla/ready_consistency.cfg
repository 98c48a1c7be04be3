\* ReadyServerRunning, and MachineLifecycle implementing MachineAbstract,
\* with a failing call, a restart and a failing Patch.
CONSTANTS
  m1 = m1  m2 = m2  s1 = s1  s2 = s2  s3 = s3
  None = None
  Machines <- MCMachines
  ServerIds <- MCServerIds
  MaxFailures = 1
  MaxCrashes = 1
  MaxPatchFailures = 1
  MaxTasks = 4
  JobReadWindow = FALSE
  ArchiveMissing = {}
INIT Init
NEXT Next
INVARIANT ReadyServerRunning
PROPERTY AbstractLifecycle
