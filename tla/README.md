# TLA+ models of cluster-api-provider-sakuracloud

These modules model the two controllers of the provider and the background
jobs that the machine controller starts. They are checked with TLC. Every
definition is translated from the Go source under `src/`. `PROJECT.json`
maps each definition to the lines it models.

## The system

- **SakuraCloudMachine reconciler**
  - Source: `controllers/machine_controller.go` and `services/sakuracloud_service.go`.
  - One pass works on an in-memory copy of the SakuraCloudMachine. A deferred
    `machineContext.Patch` writes the copy back, and that Patch may fail.
  - The archive lookup runs before that defer is registered. So an error
    recorded during the lookup is never written.
  - The creation path goes through `reconcileNormal`, then `ReconcileServer`,
    then `reconcileProviderID`.
    - `ReconcileServer` starts a Provision job and records its JobID in
      `Status.JobRef`.
    - On later passes it reads the job from the registry and copies
      `job.Reference` into `Spec.MachineRef`. Then it switches on `job.State`.
  - The deletion path goes through `reconcileDelete` and then `DestroyServer`.
    - `DestroyServer` starts a Cleanup job for `MachineRef`, or goes straight
      to NotFound when there is no reference.
    - It drops a job of another kind from the registry.
    - It follows the cleanup job to the end, then removes the finalizer.
- **Job registry**
  - Source: `session/jobs.go` and `session/client.go`.
  - A `sync.Map` from JobID to `*JobStatus`, held in process memory.
  - JobIDs come from identity: `build/ns/cluster/name` and `cleanup/zone/serverID`.
- **Provision job**
  - Source: `session/server.go:150-216`.
  - A goroutine that runs these steps in order: build the server (left
    stopped), create and upload the metadata ISO, insert it, boot, and wait
    for up.
  - The first error sets `Error` and `State = failed` and ends the job.
- **Cleanup job**
  - Source: `session/server.go:81-148`.
  - A goroutine that reads the server once (if it is gone, the job is done),
    shuts down and waits for down if the read saw it up, deletes it with its
    disks, and deletes the ISO the read saw.
- **SakuraCloudCluster reconciler**
  - Source: `controllers/cluster_controller.go`.
  - It marks the cluster Ready and adds the finalizer.
  - It sets the API endpoint once. The endpoint comes from the first
    control-plane machine that has an external address (`util/machines.go`).
  - It then creates the six objects of the cloud-controller-manager add-on in
    the workload cluster (`services/cloudprovider`). Each create tolerates
    AlreadyExists.

How the parts interact:

- The goroutines write `JobStatus` fields with no lock.
- The controller reads those fields in several statements of one pass.
- The controller also drops registry entries while their goroutines keep
  running.
- The cluster reconciler reads the addresses that the machine reconciler
  records.

## Modules

| Module | Models | State | Actions |
|---|---|---|---|
| `MachineLifecycle` | machine reconciler, service, registry, Provision and Cleanup goroutines | `res` (stored SakuraCloudMachines), `exists`/`deleting`/`prereq`, `registry` (JobID to task index), `tasks` (each goroutine's status and program counter), `server`/`iso` (the cloud), `pending` (a pass between its two job reads) | `Reconcile` (which is `ArchiveLookupFails`, `ReconcileDelete` or `ReconcileNormal`), `ReconcileDecide`, one action per goroutine step (`JobStart`, `ProvisionBuild` … `CleanupDeleteISO`), environment: `MarkDeleted`, `Prerequisites`, `Crash` |
| `MachineAbstract` | the lifecycle the machine reconciler promises | `phase` (stored state, or Gone), `errored`, `deleting` | `Provision`, `Provisioned`, `Fail`, `Delete`, `StartCleaning`, `Remove` |
| `MC_MachineLifecycle` | one or two machines, three server IDs as model values | | |
| `ClusterEndpoint` | cluster reconciler | `cl` (stored SakuraCloudCluster), `addons` (objects in the workload cluster), `boot`/`infra`/`listed` (the machines it reads), `served` (machines whose server answers) | `Reconcile` (`ReconcileDelete` or `ReconcileNormal`), environment: `SetOwnerRef`, `MarkClusterDeleted`, `BootstrapReady`, `InfraCreated`, `AddressAssigned`, `ServerUp`, `InfraDeleted`, `MachineRemoved` |
| `MC_ClusterEndpoint` | two control-plane machines and one worker | | |
| `ClusterMachines` | both reconcilers together | the variables of `MachineLifecycle` and the cluster's own (`cl`, `addons`, `listed`, …) | `MachinePass` (a machine pass, only while the SakuraCloudCluster exists), `MachineStep` (a goroutine step or a restart), `BootstrapData`, `MachineDeleted`, `ClusterStep` (a step of `ClusterEndpoint` through `CE`, with `ClusterDeleted` for CAPI's deletion) |
| `MC_ClusterMachines` | one control-plane machine, three server IDs | | |

How the model corresponds to the code:

- **A whole pass is one action.** `ReconcileNormal` and `ReconcileDelete`
  include the deferred Patch. That Patch either writes the working copy or,
  with `patchFails` below its bound, fails and leaves the stored record as it
  was.
- **A panic is a process exit.** A nil `MachineRef` dereference in
  `reconcileProviderID` is modelled as `ProcessExit`: the deferred Patch has
  run, and the registry and every goroutine are lost. controller-runtime
  re-panics, so the process does exit.
- **The two job reads can be split.** `racy_read` is about the gap
  between reading `job.Reference` (line 73) and reading `job.State`
  (line 93). With `JobReadWindow = TRUE`, `ObserveJob` stores what the pass
  read in `pending[m]`, and `ReconcileDecide` finishes the pass later, after
  goroutine steps in between.
- **Goroutine steps.** Each step is one cloud call plus the status writes
  around it.
- **Failures.** Any cloud call may fail while `failures < MaxFailures`.
- **Crash.** `Crash` restarts the process.
- **The archive lookup.** `ArchiveMissing` are the machines whose
  SourceArchive filters match no archive. For them `ArchiveFound` stays
  false, so `ReconcileNormal` and `ReconcileDelete` are never reached, and
  `ArchiveLookupFails` is the whole pass: it changes nothing. Any other
  machine's lookup may fail while `failures < MaxFailures`, which also
  writes nothing.
- **Early returns.** A pass that returns before the deferred Patch is
  registered, because the owner Machine, the Cluster or the
  SakuraCloudCluster is missing, writes nothing. Such a pass is a stuttering
  step, so `Reconcile` leaves it out.
- **The ISO step.** `BuildISOImage` is `buildISOImage`. A failure before the
  image is created leaves nothing behind. A failure after it leaves the image,
  and the image is not recorded in the job's Reference.
- **Cloud objects.** Servers are records of power state, owner and CDROM.
  ISOs are `none`, `created` or `deleted`.
- **Cluster passes.** The endpoint loop is the recursive operator `ScanCP`,
  applied to every order the machine list can come back in (`SetToSeqs`).
  `CloudProvider` chooses how many of the six creates succeed before the
  first failing call. The pass that first finds the endpoint creates
  nothing: `NewKubeClient` needs the kubeconfig Secret, which CAPI writes
  from the endpoint only after that pass's Patch. The model lets CAPI write
  it at once; a later pass creates the add-on.

## Runs

| Run | Bounds | Checks | Result |
|---|---|---|---|
| `lifecycle_safety` | two machines, 1 crash, no failures, read window | `TypeOK`, `NoDuplicateServer` | pass |
| `ready_consistency` | 1 failure, 1 crash, 1 Patch failure | `ReadyServerRunning`, `AbstractLifecycle` | pass |
| `composed_liveness` | composed; machine: no failures, may be deleted; cluster: 2 failures, 1 Patch failure | `AddonsInstalledWithMachines`, `EventuallyReady`, `DeletionOfReadyCompletes` | pass |
| `orphan_server` | no failures | `NoOrphanServer` | violated |
| `lost_job` | 1 crash, 1 Patch failure | `EventuallyReady` | violated |
| `duplicate_server` | 1 Patch failure | `NoDuplicateServer` | violated |
| `racy_read` | read window, no failures | `AbstractLifecycle` | violated |
| `deletion_race` | no failures | `DeletionCompletes` | violated |
| `iso_leak` | no failures | `NoLeakedISO` | violated |
| `archive_error` | the machine's archive filters match nothing (`ArchiveMissing = {m1}`), no failures | `ArchiveErrorRecorded` | violated |
| `cluster_safety` | 2 failures, 1 Patch failure, machine deletion | `TypeOK`, `AddonReferencesPresent` | pass |
| `stale_endpoint` | composed; 1 machine failure, no deletion | `EndpointServed` | violated |

What the violations show (the details are under `findings` in `PROJECT.json`):

- **orphan_server.**
  1. The machine is deleted while it is provisioning.
  2. `DestroyServer` drops the provisioning job.
  3. The next pass finds no `MachineRef` and goes to NotFound.
  4. The finalizer is removed.
  5. The goroutine then builds a server that no record owns.
- **lost_job.** The stored JobRef names a job the registry does not have, and
  `ReconcileServer` waits on it forever (it returns on `job == nil`). TLC
  shows this after a restart, which empties the in-memory registry. A
  failing Patch in the pass that saw the job done reaches the same wait:
  that pass has already called `DeleteJob` before the Patch.
- **duplicate_server.**
  1. The Patch after `Provision` fails.
  2. The next pass sees no JobRef and starts a second job under the same JobID.
  3. Each of the two jobs builds its own server.

  A failing Patch after `DestroyServer` started Cleanup loses the JobRef in
  the same way, and the next pass starts a second Cleanup of the server
  under the same JobID.
- **racy_read.**
  1. The pass reads `job.Reference` while it is still empty.
  2. The job finishes.
  3. The pass reads `State = done` and stores Ready with no `MachineRef`.
     `reconcileProviderID` panics on it, after the deferred Patch has
     written it.
  4. The machine is deleted. `DestroyServer` sees no JobRef and a nil
     `MachineRef`, and marks it NotFound as "server already deleted"
     (sakuracloud_service.go:115-118).
  5. `reconcileDelete` removes the finalizer. A Ready machine is gone
     without cleaning, which `MachineAbstract` forbids, and its running
     server is left behind.
- **deletion_race.**
  1. The cleanup started after the provisioning job was dropped reads the
     server while it is down.
  2. The provisioning goroutine then boots it.
  3. The delete fails.
  4. The failed cleanup job is never removed, so the deletion never finishes.

- **iso_leak.**
  1. The provisioning job is dropped when the machine is deleted, and a
     cleanup of the server it built starts.
  2. The cleanup reads the server before the goroutine inserts its ISO.
  3. The goroutine creates and inserts the ISO.
  4. The cleanup deletes the server and, having seen no CDROM, leaves the ISO.
- **archive_error.**
  1. The machine's prerequisites are met.
  2. Every pass finds no archive, sets `InvalidConfigurationMachineError` on
     its copy and returns before the deferred Patch is registered.
  3. Each such pass is a stuttering step, and the machine stays Pending with
     no error, retried with backoff forever. Spec section 7 says a source
     image that is not found is surfaced as a terminal error.

- **stale_endpoint.**
  1. The cluster becomes Ready, and the bootstrap data appears.
  2. The Provision job builds the server, which is left stopped.
  3. A machine pass reads the server and records its address.
  4. The cluster pass takes that address as the API endpoint.
  5. The job inserts the ISO, and then the Boot call fails.
  6. The machine is marked in error. The endpoint, which is never revised,
     names a server that never runs, so the workload API server never
     answers there and the add-on is never installed either.

## Composition

`ClusterMachines` extends `MachineLifecycle` and instantiates
`ClusterEndpoint` as `CE`. The cluster's view of the machines is no longer
driven by environment actions. It is computed from the machine model:

- `infra <- Infra`: the SakuraCloudMachine is gone once removed. Otherwise it
  has an address exactly when `res[m].addr` is set. `ReconcileServer` sets
  that flag when it reads the job's server (sakuracloud_service.go:78-90).
- `boot <- prereq`: the machine's bootstrap data. Its prerequisite step
  `BootstrapData` is enabled only once the cluster is Ready. This is because
  the bootstrap provider and `reconcileNormal` wait for
  `InfrastructureReady`, which CAPI copies from the SakuraCloudCluster.
- `served <- Served`: the machines that own a server that is up. The add-on
  creates of `reconcileCloudProvider` go through the kubeconfig's endpoint
  to the workload API server, which runs on that server. While it is not up,
  the first create fails every time and nothing is created, so the add-on
  waits for the endpoint machine's server, not only for its address.

A machine pass (`MachinePass`) reads the SakuraCloudCluster first. While it
is missing, the pass returns before the deferred Patch is registered
(machine_controller.go:104-112), so passes happen only while `cexists`.
CAPI deletes the SakuraCloudCluster only after the Cluster's Machines are
gone (`ClusterDeleted`): the Cluster controller deletes its descendants and
waits for them before it deletes the infrastructure object.

Each step is a step of one controller, with the other controller's variables
unchanged. `ClusterStep` fixes the machine variables first, because the
cluster actions read them through `Infra`.

## Refinement

`MachineAbstract` states what the reconciler promises about one machine's
stored status, with no jobs, goroutines or cloud:

- the state moves only forward: Pending, Provisioning, Ready (a pass that
  read the machine before its DeletionTimestamp was set may still write
  Provisioning or Ready afterwards);
- after deletion it moves to Cleaning and then the resource goes;
- a Ready machine is never removed without cleaning;
- an error marker is only ever added.

`MachineLifecycle` maps onto it with `Abs == INSTANCE MachineAbstract WITH`:

- `phase` is `res[m].state`, or Gone once the resource no longer exists;
- `errored` is `res[m].errored`;
- `deleting` is `deleting`.

The `ready_consistency` run checks `Abs!Spec` as a property, with a failure, a
restart and a failing Patch. Jobs, goroutines and the cloud are invisible to
the abstraction, so their steps are stuttering steps.

The refinement holds only with the two job reads atomic
(`JobReadWindow = FALSE`). With the read window open, the data race at
sakuracloud_service.go:73/93 breaks it: `racy_read` shows a Ready machine
removed without cleaning. So `MachineLifecycle` implements
`MachineAbstract` exactly when `ReconcileServer` sees a consistent job.

The bounds:

- **Machines.** `lifecycle_safety` runs two machines. They share the
  registry, the pool of server IDs and the process that a restart ends.
  Their JobIDs are distinct, so the other runs use one machine, which leaves
  room for failures and Patch failures. Two machines with a failure and a
  Patch failure do not finish in minutes.
- **Three server IDs** leave room for a duplicate build and one more.
- **`MaxTasks = 4`** allows a provision, a cleanup and their duplicates.
- **One failure and one crash** reach every error branch of every goroutine
  step. Adding more only repeats those branches.
- **Cluster model.** Two control-plane machines give both list orders and a
  blocking machine before a usable one. Two failures let a pass fail part way
  and the retry fail again.
- **Composition.** One control-plane machine. Its calls do not fail in the
  liveness run: one failed provisioning step puts the only control-plane
  machine in error, which by design waits for an operator, and then no
  endpoint can ever be found. The list order matters only with two
  control-plane machines, which the composition cannot afford. It is
  explored in `cluster_safety`, which checks safety only. A worker machine as well gives about a million states for
  safety alone, with one cluster failure, and the liveness run does not
  finish in minutes with it; a worker takes no part in the endpoint and
  the add-on, which are what the composition checks.

Every action and every disjunct of both `Next` relations fires in the passing
runs.

## Fairness

- **Controllers.** Each machine's controller, and the cluster controller, is
  weakly fair.
  - Every pass that waits returns `RequeueAfter: DefaultRequeue`.
  - Every pass that fails returns an error, and controller-runtime retries it
    with backoff.
  - So a pass that stays enabled is eventually run.
- **Goroutines.** Each goroutine is weakly fair. A goroutine, once started,
  runs to its end.
- **Environment.** The environment actions are not fair. Deletion, crashes
  and failures may happen or not.
- **Composition.** `ComposedFairness` has the following weakly fair parts:
  - each machine controller;
  - each goroutine;
  - the cluster's two passes;
  - `SetOwnerRef`, which stands for CAPI;
  - `BootstrapData`, which stands for the bootstrap provider.

  The address is not assumed. It comes from the machine reconciler.

## Not modelled

- ISO content generation (`generate_iso.go`), which is external commands over
  temp files.
- Credentials and environment loading of the session client. Its empty
  job registry is the state a restart returns to (`ProcessExit`).
- The logger, session lookup and accessors of the contexts. What the
  contexts hold is modelled: the working copy of a pass (`WorkingCopy`) and
  the stored version that the deferred Patch writes over.
- The manifest contents of the add-on. Only which object references which is
  modelled.
- The generated deep copies.
- HTTP transport, and the waiters' polling intervals. A wait either succeeds
  or fails.
- A SakuraCloudCluster deleted directly, out of CAPI's order, while its
  machines still exist. Machine passes then return early, so their
  finalizers and servers stay. The composition follows CAPI's order; this
  case would need a violation run of its own, and the run budget is spent on
  the disagreements found so far.
- The kubeadm bootstrap inside the server. A control-plane server that is up
  is taken to serve the workload API.

## Plan for the next sittings

1. A machine recreated under the same name. Its build JobID is the old one,
   but the registry entry is always dropped before the old resource goes, so
   this is expected to hold; a run would confirm it with two incarnations.
2. The direct SakuraCloudCluster deletion above, as a violation run, if a
   run slot frees up.
