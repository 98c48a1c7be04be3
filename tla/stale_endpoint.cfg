\* The endpoint is taken from a control-plane machine whose Provision job
\* then fails; one failing cloud call, no deletion.
CONSTANTS
  c1 = c1  s1 = s1  s2 = s2  s3 = s3
  None = None
  Machines <- MCMachines
  ControlPlane <- MCControlPlane
  ServerIds <- MCServerIds
  MaxFailures = 1
  MaxCrashes = 0
  MaxPatchFailures = 0
  MaxTasks = 4
  JobReadWindow = FALSE
  ArchiveMissing = {}
  MaxClusterFailures = 0
  MaxClusterPatchFailures = 0
  MachineDeletion = FALSE
SPECIFICATION ComposedSpec
PROPERTY EndpointServed
