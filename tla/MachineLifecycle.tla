-------------------------- MODULE MachineLifecycle --------------------------
(***************************************************************************)
(* The SakuraCloudMachine convergence routine and its job engine:          *)
(*   - the reconcile pass of controllers/machine_controller.go with        *)
(*     ReconcileServer / DestroyServer of services/sakuracloud_service.go, *)
(*     which works on a copy of the resource and writes it back with the   *)
(*     deferred Patch;                                                     *)
(*   - the in-memory job registry (session/jobs.go, session/client.go);    *)
(*   - the Provision and Cleanup goroutines (session/server.go), which     *)
(*     publish their progress through a shared *JobStatus;                 *)
(*   - the cloud: servers with power state and inserted ISO, ISO images.   *)
(* The environment marks resources deleted, satisfies the prerequisites    *)
(* (cluster infrastructure ready, bootstrap data), makes cloud calls and   *)
(* Patch fail, and restarts the controller process, which loses the       *)
(* registry and every goroutine.                                           *)
(***************************************************************************)
EXTENDS Naturals, Sequences, FiniteSets

CONSTANTS
  Machines,          \* SakuraCloudMachine resources
  ServerIds,         \* IDs the cloud can assign to new servers
  None,              \* nil pointer, empty JobRef, missing registry entry
  MaxFailures,       \* bound on cloud calls that return an error
  MaxCrashes,        \* bound on controller process restarts
  MaxPatchFailures,  \* bound on failed writes of the resource
  MaxTasks,          \* bound on goroutines started over a behaviour
  JobReadWindow,     \* TRUE: a job may advance between ReconcileServer's
                     \* read of job.Reference and its read of job.State
  ArchiveMissing     \* machines whose SourceArchive filters match no archive

ASSUME None \notin Machines \cup ServerIds
ASSUME {MaxFailures, MaxCrashes, MaxPatchFailures, MaxTasks} \subseteq Nat
ASSUME JobReadWindow \in BOOLEAN /\ ArchiveMissing \subseteq Machines

\* InstanceState (api/v1alpha2/types.go)
Pending      == "pending"
Provisioning == "provisioning"
Ready        == "ready"
Cleaning     == "cleaning"
NotFound     == "notfound"
InstanceStates == {Pending, Provisioning, Ready, Cleaning, NotFound}

\* JobType and JobState (session/jobs.go)
JobTypes  == {"provisioning", "cleaning"}
JobStates == {"pending", "inflight", "done", "failed"}

\* Job IDs are derived from identity: "build/<ns>/<cluster>/<name>" and
\* "cleanup/<zone>/<serverID>" (server.go:82, 151).
BuildJob(m)   == <<"build", m>>
CleanupJob(s) == <<"cleanup", s>>
JobIDs == {BuildJob(m) : m \in Machines} \cup {CleanupJob(s) : s \in ServerIds}

VARIABLES
  res,        \* res[m]: the stored SakuraCloudMachine (spec and status)
  deleting,   \* deleting[m]: DeletionTimestamp is set
  exists,     \* exists[m]: the API server still holds the resource
  prereq,     \* prereq[m]: cluster infrastructure ready and bootstrap data set
  registry,   \* registry[id]: index into tasks of the stored *JobStatus, or None
  tasks,      \* the JobStatus objects with the state of their goroutines
  server,     \* server[s]: the cloud server with ID s
  iso,        \* iso[s]: the cloud-init ISO image built for server s
  pending,    \* pending[m]: a pass between its two reads of one job, or None
  failures, crashes, patchFails

objVars   == <<res, deleting, exists, prereq>>
jobVars   == <<registry, tasks>>
cloudVars == <<server, iso>>
vars == <<objVars, jobVars, cloudVars, pending, failures, crashes, patchFails>>

\* Where a goroutine is in Provision (server.go:159-213) or Cleanup (93-145).
ProgramPoints == {"start", "build", "iso", "insert", "boot", "wait",
                  "read", "shutdown", "waitdown", "delete", "deliso"}

Record == [state : InstanceStates, jobRef : JobIDs \cup {None},
           machineRef : ServerIds \cup {None}, errored : BOOLEAN,
           finalizer : BOOLEAN, archive : BOOLEAN, ready : BOOLEAN,
           addr : BOOLEAN]

Task == [kind : JobTypes, owner : Machines, target : ServerIds \cup {None},
         state : JobStates, err : BOOLEAN, ref : ServerIds \cup {None},
         iso : ServerIds \cup {None}, pc : ProgramPoints, alive : BOOLEAN,
         svUp : BOOLEAN, svCd : BOOLEAN]

TypeOK ==
  /\ res \in [Machines -> Record]
  /\ deleting \in [Machines -> BOOLEAN] /\ exists \in [Machines -> BOOLEAN]
  /\ prereq \in [Machines -> BOOLEAN]
  /\ registry \in [JobIDs -> DOMAIN tasks \cup {None}]
  /\ tasks \in Seq(Task)
  /\ server \in [ServerIds -> [st : {"none", "down", "up", "deleted"},
                               owner : Machines \cup {None}, cdrom : BOOLEAN]]
  /\ iso \in [ServerIds -> {"none", "created", "deleted"}]
  /\ \A m \in Machines : pending[m] = None \/ pending[m] \in [w : Record, t : DOMAIN tasks]
  /\ failures \in 0..MaxFailures /\ crashes \in 0..MaxCrashes
  /\ patchFails \in 0..MaxPatchFailures

Init ==
  /\ res = [m \in Machines |-> [state |-> Pending, jobRef |-> None,
             machineRef |-> None, errored |-> FALSE, finalizer |-> FALSE,
             archive |-> FALSE, ready |-> FALSE, addr |-> FALSE]]
  /\ deleting = [m \in Machines |-> FALSE]
  /\ exists = [m \in Machines |-> TRUE]
  /\ prereq = [m \in Machines |-> FALSE]
  /\ registry = [id \in JobIDs |-> None]
  /\ tasks = << >>
  /\ server = [s \in ServerIds |-> [st |-> "none", owner |-> None, cdrom |-> FALSE]]
  /\ iso = [s \in ServerIds |-> "none"]
  /\ pending = [m \in Machines |-> None]
  /\ failures = 0 /\ crashes = 0 /\ patchFails = 0

-----------------------------------------------------------------------------
(* Helpers shared by the controller and the goroutines.                    *)

\* A cloud API call returns an error (backend, network or wait timeout).
CallFails == failures < MaxFailures /\ failures' = failures + 1

Alive(s) == server[s].st \in {"down", "up"}

\* Client.JobByID (client.go:65-67) over jobRegistry.get (jobs.go:60-66).
JobByID(id) == IF id = None \/ registry[id] = None THEN None ELSE tasks[registry[id]]

\* Client.DeleteJob (client.go:69-71): the entry goes, the goroutine stays.
DeleteJob(id) == [registry EXCEPT ![id] = None]

\* MachineContext.SetMachineError (machine_context.go:110-113): the
\* ErrorReason and ErrorMessage of the working copy are set.
SetMachineError(w) == [w EXCEPT !.errored = TRUE]

\* A new JobStatus in state Pending, stored with jobRegistry.set before the
\* go statement (server.go:83-91, 152-157).
NewTask(kind, m, s) ==
  [kind |-> kind, owner |-> m, target |-> s, state |-> "pending", err |-> FALSE,
   ref |-> None, iso |-> None, pc |-> "start", alive |-> TRUE,
   svUp |-> FALSE, svCd |-> FALSE]

\* Variant: the status is never stored with jobRegistry.set.
StartJobUnregistered(id, task) ==
  /\ Len(tasks) < MaxTasks
  /\ tasks' = Append(tasks, task)
  /\ UNCHANGED registry

StartJob(id, task) ==
  /\ Len(tasks) < MaxTasks
  /\ tasks' = Append(tasks, task)
  /\ registry' = [registry EXCEPT ![id] = Len(tasks) + 1]

\* The process exits: every goroutine is gone, and the next process starts
\* with the empty jobRegistry that NewClient creates (client.go:56-62).
ProcessExit ==
  /\ registry' = [id \in JobIDs |-> None]
  /\ tasks' = [i \in DOMAIN tasks |-> [tasks[i] EXCEPT !.alive = FALSE]]
  /\ pending' = [m \in Machines |-> None]

\* The deferred machineContext.Patch (machine_controller.go:167-172,
\* machine_context.go:115-118) writes the working copy w back, or fails and
\* leaves the stored resource as it was. A deleted resource whose finalizer
\* is gone is removed by the API server.
Patch(m, w) ==
  \/ /\ res' = [res EXCEPT ![m] = w]
     /\ exists' = [exists EXCEPT ![m] = ~(deleting[m] /\ ~w.finalizer)]
     /\ UNCHANGED patchFails
  \/ /\ patchFails < MaxPatchFailures
     /\ patchFails' = patchFails + 1
     /\ UNCHANGED <<res, exists>>

-----------------------------------------------------------------------------
(* The goroutines. Each step is one cloud call with the writes to the      *)
(* shared JobStatus that follow it; a failed call ends the goroutine with  *)
(* status.Error and JobStateFailed, in that order (Error is written first, *)
(* so no reader sees Failed without an Error).                             *)

At(t, kind, at) ==
  /\ t \in DOMAIN tasks
  /\ tasks[t].alive /\ tasks[t].kind = kind /\ tasks[t].pc = at

Goto(t, at) == tasks' = [tasks EXCEPT ![t].pc = at]

\* status.Error = err; status.State = JobStateFailed; return
Abort(t) == tasks' = [tasks EXCEPT ![t].err = TRUE, ![t].state = "failed", ![t].alive = FALSE]

\* status.State = JobStateDone at the end of the goroutine
Finish(t) == tasks' = [tasks EXCEPT ![t].state = "done", ![t].alive = FALSE]

\* Some server ID the cloud has never handed out.
FreshServer == {s \in ServerIds : server[s].st = "none"}

\* server.go:93-94, 159-160: the goroutine marks its job in flight.
JobStart(t) ==
  /\ \E kind \in JobTypes : At(t, kind, "start")
  /\ tasks' = [tasks EXCEPT ![t].state = "inflight",
                            ![t].pc = IF tasks[t].kind = "provisioning" THEN "build" ELSE "read"]
  /\ UNCHANGED <<objVars, registry, cloudVars, pending, failures, crashes, patchFails>>

\* createBuilder with buildTagsFromContext (server.go:218-250): the server
\* is created stopped (BootAfterCreate false, so that the ISO can be
\* inserted first), with no CDROM, and tagged with its cluster and namespace.
BuiltServer(owner) == [st |-> "down", owner |-> owner, cdrom |-> FALSE]

\* server.go:162-173: builder.Build creates a stopped server (BootAfterCreate
\* is false) tagged for its machine, and its ID becomes status.Reference.
ProvisionBuild(t) ==
  /\ At(t, "provisioning", "build")
  /\ \/ /\ FreshServer # {}
        /\ LET s == CHOOSE x \in FreshServer : TRUE IN
           /\ server' = [server EXCEPT ![s] = BuiltServer(tasks[t].owner)]
           /\ tasks' = [tasks EXCEPT ![t].ref = s, ![t].pc = "iso"]
        /\ UNCHANGED failures
     \/ /\ CallFails
        /\ Abort(t)
        /\ UNCHANGED server
  /\ UNCHANGED <<objVars, registry, iso, pending, crashes, patchFails>>

\* buildISOImage with generateUserData and generateMetaData
\* (server.go:252-330): the user and meta data are generated, the image is
\* created (263-271), then the files are written, cloud-init.iso generated,
\* uploaded and the FTP closed (273-306). A failure before Create leaves
\* nothing; a failure after it returns the error and leaves the image.
BuildISOImage(t, s) ==
  \/ /\ iso' = [iso EXCEPT ![s] = "created"]
     /\ tasks' = [tasks EXCEPT ![t].iso = s, ![t].pc = "insert"]
     /\ UNCHANGED failures
  \/ /\ CallFails
     /\ Abort(t)
     /\ UNCHANGED iso
  \/ /\ CallFails
     /\ iso' = [iso EXCEPT ![s] = "created"]
     /\ Abort(t)

\* server.go:175-188: read the server, then buildISOImage; the image ID is
\* recorded in the job's Reference only when it succeeded.
ProvisionISO(t) ==
  LET s == tasks[t].ref IN
  /\ At(t, "provisioning", "iso")
  /\ \/ /\ ~Alive(s)
        /\ Abort(t)
        /\ UNCHANGED <<iso, failures>>
     \/ /\ CallFails
        /\ Abort(t)
        /\ UNCHANGED iso
     \/ /\ Alive(s)
        /\ BuildISOImage(t, s)
  /\ UNCHANGED <<objVars, registry, server, pending, crashes, patchFails>>

\* server.go:190-195 (InsertCDROM) and 197-201 (Boot): a call on a server
\* that no longer exists fails.
ProvisionInsert(t) ==
  LET s == tasks[t].ref IN
  /\ At(t, "provisioning", "insert")
  /\ \/ /\ Alive(s)
        /\ server' = [server EXCEPT ![s].cdrom = TRUE]
        /\ Goto(t, "boot")
        /\ UNCHANGED failures
     \/ /\ ~Alive(s) /\ Abort(t) /\ UNCHANGED <<server, failures>>
     \/ /\ CallFails /\ Abort(t) /\ UNCHANGED server
  /\ UNCHANGED <<objVars, registry, iso, pending, crashes, patchFails>>

ProvisionBoot(t) ==
  LET s == tasks[t].ref IN
  /\ At(t, "provisioning", "boot")
  /\ \/ /\ Alive(s)
        /\ server' = [server EXCEPT ![s].st = "up"]
        /\ Goto(t, "wait")
        /\ UNCHANGED failures
     \/ /\ ~Alive(s) /\ Abort(t) /\ UNCHANGED <<server, failures>>
     \/ /\ CallFails /\ Abort(t) /\ UNCHANGED server
  /\ UNCHANGED <<objVars, registry, iso, pending, crashes, patchFails>>

\* server.go:203-212: WaiterForUp polls the server until it is up; it times
\* out if the server is down or gone, and may time out anyway.
ProvisionWaitUp(t) ==
  LET s == tasks[t].ref IN
  /\ At(t, "provisioning", "wait")
  /\ \/ /\ server[s].st = "up" /\ Finish(t) /\ UNCHANGED failures
     \/ /\ server[s].st # "up" /\ Abort(t) /\ UNCHANGED failures
     \/ /\ CallFails /\ Abort(t)
  /\ UNCHANGED <<objVars, registry, cloudVars, pending, crashes, patchFails>>

\* Variant: the power state is ignored and no shutdown is issued.
CleanupReadNoShutdown(t) ==
  LET s == tasks[t].target IN
  /\ At(t, "cleaning", "read")
  /\ \/ /\ ~Alive(s) /\ Finish(t) /\ UNCHANGED failures
     \/ /\ Alive(s)
        /\ tasks' = [tasks EXCEPT ![t].svCd = server[s].cdrom, ![t].pc = "delete"]
        /\ UNCHANGED failures
     \/ /\ CallFails /\ Abort(t)
  /\ UNCHANGED <<objVars, registry, cloudVars, pending, crashes, patchFails>>

\* server.go:96-105: read the server once; if it is gone the job is done.
\* The power state and CDROM ID read here are used by the later steps.
CleanupRead(t) ==
  LET s == tasks[t].target IN
  /\ At(t, "cleaning", "read")
  /\ \/ /\ ~Alive(s) /\ Finish(t) /\ UNCHANGED failures
     \/ /\ Alive(s)
        /\ tasks' = [tasks EXCEPT ![t].svUp = (server[s].st = "up"),
                                  ![t].svCd = server[s].cdrom,
                                  ![t].pc = IF server[s].st = "up" THEN "shutdown" ELSE "delete"]
        /\ UNCHANGED failures
     \/ /\ CallFails /\ Abort(t)
  /\ UNCHANGED <<objVars, registry, cloudVars, pending, crashes, patchFails>>

\* server.go:107-114: forced shutdown.
CleanupShutdown(t) ==
  LET s == tasks[t].target IN
  /\ At(t, "cleaning", "shutdown")
  /\ \/ /\ Alive(s)
        /\ server' = [server EXCEPT ![s].st = "down"]
        /\ Goto(t, "waitdown")
        /\ UNCHANGED failures
     \/ /\ ~Alive(s) /\ Abort(t) /\ UNCHANGED <<server, failures>>
     \/ /\ CallFails /\ Abort(t) /\ UNCHANGED server
  /\ UNCHANGED <<objVars, registry, iso, pending, crashes, patchFails>>

\* server.go:115-121: WaiterForDown times out if the server is up again
\* and fails if it is gone.
CleanupWaitDown(t) ==
  LET s == tasks[t].target IN
  /\ At(t, "cleaning", "waitdown")
  /\ \/ /\ server[s].st = "down" /\ Goto(t, "delete") /\ UNCHANGED failures
     \/ /\ server[s].st # "down" /\ Abort(t) /\ UNCHANGED failures
     \/ /\ CallFails /\ Abort(t)
  /\ UNCHANGED <<objVars, registry, cloudVars, pending, crashes, patchFails>>

\* server.go:124-133: DeleteWithDisks; the cloud refuses to delete a running
\* server. The CDROM is deleted next only if the first read saw one.
CleanupDelete(t) ==
  LET s == tasks[t].target IN
  /\ At(t, "cleaning", "delete")
  /\ \/ /\ server[s].st = "down"
        /\ server' = [server EXCEPT ![s].st = "deleted", ![s].cdrom = FALSE]
        /\ IF tasks[t].svCd THEN Goto(t, "deliso") ELSE Finish(t)
        /\ UNCHANGED failures
     \/ /\ server[s].st # "down" /\ Abort(t) /\ UNCHANGED <<server, failures>>
     \/ /\ CallFails /\ Abort(t) /\ UNCHANGED server
  /\ UNCHANGED <<objVars, registry, iso, pending, crashes, patchFails>>

\* server.go:135-144: delete the ISO image that was inserted.
CleanupDeleteISO(t) ==
  LET s == tasks[t].target IN
  /\ At(t, "cleaning", "deliso")
  /\ \/ /\ iso[s] = "created"
        /\ iso' = [iso EXCEPT ![s] = "deleted"]
        /\ Finish(t)
        /\ UNCHANGED failures
     \/ /\ iso[s] # "created" /\ Abort(t) /\ UNCHANGED <<iso, failures>>
     \/ /\ CallFails /\ Abort(t) /\ UNCHANGED iso
  /\ UNCHANGED <<objVars, registry, server, pending, crashes, patchFails>>

-----------------------------------------------------------------------------
(* The reconcile pass. The orchestrator never runs two passes for one      *)
(* resource at once. A pass starts from the stored resource, edits a       *)
(* working copy w and ends with Patch(m, w). Every pass that gets past the *)
(* source-archive lookup sets archive (machine_controller.go:138-165).     *)

\* machine_controller.go:263-270 with 257: a Ready machine gets its
\* ProviderID from *MachineRef.ID and Status.Ready. With a nil MachineRef the
\* dereference panics: the deferred Patch still runs, and the process exits.
ReconcileProviderID(m, w, reg) ==
  \/ /\ w.machineRef # None
     /\ Patch(m, [w EXCEPT !.ready = TRUE])
     /\ registry' = reg
     /\ pending' = [pending EXCEPT ![m] = None]
     /\ UNCHANGED tasks
  \/ /\ w.machineRef = None
     /\ Patch(m, w)
     /\ ProcessExit

\* Variant: an in-flight job whose server exists is taken as done.
DecideInFlightAsDone(m, w, t) ==
  LET job == tasks[t] IN
  \/ /\ job.state = "pending"
     /\ Patch(m, w)
     /\ pending' = [pending EXCEPT ![m] = None]
     /\ UNCHANGED <<registry, tasks>>
  \/ /\ job.state = "failed"
     /\ Patch(m, SetMachineError(w))
     /\ pending' = [pending EXCEPT ![m] = None]
     /\ UNCHANGED <<registry, tasks>>
  \/ /\ job.state \in {"inflight", "done"}
     /\ ReconcileProviderID(m, [w EXCEPT !.jobRef = None, !.state = Ready], DeleteJob(w.jobRef))

\* sakuracloud_service.go:93-105, ReconcileServer's switch on job.State of
\* the job t it looked up.
Decide(m, w, t) ==
  LET job == tasks[t] IN
  \/ /\ job.state \in {"pending", "inflight"}
     /\ Patch(m, w)
     /\ pending' = [pending EXCEPT ![m] = None]
     /\ UNCHANGED <<registry, tasks>>
  \/ /\ job.state = "failed"
     /\ Patch(m, SetMachineError(w))
     /\ pending' = [pending EXCEPT ![m] = None]
     /\ UNCHANGED <<registry, tasks>>
  \/ /\ job.state = "done"
     /\ ReconcileProviderID(m, [w EXCEPT !.jobRef = None, !.state = Ready], DeleteJob(w.jobRef))

\* sakuracloud_service.go:42-56: no job yet, so Provision is started.
StartProvision(m, w) ==
  /\ w.state = Pending /\ w.jobRef = None
  /\ StartJob(BuildJob(m), NewTask("provisioning", m, None))
  /\ Patch(m, [w EXCEPT !.jobRef = BuildJob(m), !.state = Provisioning])
  /\ UNCHANGED pending

\* Variant: a job missing from the registry is started again.
WaitForJobRestart(m, w) ==
  /\ JobByID(w.jobRef) = None
  /\ StartJob(BuildJob(m), NewTask("provisioning", m, None))
  /\ Patch(m, [w EXCEPT !.jobRef = BuildJob(m), !.state = Provisioning])
  /\ UNCHANGED pending

\* sakuracloud_service.go:59-62: the recorded job is not in the registry.
WaitForJob(m, w) ==
  /\ JobByID(w.jobRef) = None
  /\ Patch(m, w)
  /\ UNCHANGED <<registry, tasks, pending>>

\* Variant: a job with an error is dropped and the machine sent back to
\* Pending, so that a later pass starts a fresh job.
ObserveJobRetryOnError(m, w) ==
  LET t   == registry[w.jobRef]
      job == tasks[t]
      w1  == [w EXCEPT !.machineRef = job.ref]
      w2  == IF job.ref = None THEN w ELSE [w1 EXCEPT !.addr = TRUE]
  IN
  /\ JobByID(w.jobRef) # None
  /\ \/ /\ job.err
        /\ Patch(m, [w EXCEPT !.state = Pending, !.jobRef = None])
        /\ registry' = DeleteJob(w.jobRef)
        /\ UNCHANGED <<tasks, pending, failures>>
     \/ /\ ~job.err /\ job.ref # None
        /\ CallFails
        /\ Patch(m, w1)
        /\ UNCHANGED <<registry, tasks, pending>>
     \/ /\ ~job.err
        /\ JobReadWindow
        /\ pending' = [pending EXCEPT ![m] = [w |-> w2, t |-> t]]
        /\ UNCHANGED <<res, exists, patchFails, registry, tasks, failures>>
     \/ /\ ~job.err
        /\ ~JobReadWindow
        /\ Decide(m, w2, t)
        /\ UNCHANGED failures

\* sakuracloud_service.go:64-91: the reads of the job before job.State. A
\* job with an Error marks the machine; a Reference is copied into
\* MachineRef and the server read for its address. (Lines 69-71 return for a
\* job that is not provisioning; only the deletion path records such a job.)
\* A successful Read of the server puts its address into Status.Addresses
\* (lines 78-90), whatever state the job is in.
ObserveJob(m, w) ==
  LET t   == registry[w.jobRef]
      job == tasks[t]
      w1  == [w EXCEPT !.machineRef = job.ref]
      w2  == IF job.ref = None THEN w ELSE [w1 EXCEPT !.addr = TRUE]
  IN
  /\ JobByID(w.jobRef) # None
  /\ \/ /\ job.err
        /\ Patch(m, SetMachineError(w))
        /\ UNCHANGED <<registry, tasks, pending, failures>>
     \/ /\ ~job.err /\ job.ref # None
        /\ CallFails
        /\ Patch(m, w1)
        /\ UNCHANGED <<registry, tasks, pending>>
     \/ /\ ~job.err
        /\ JobReadWindow
        /\ pending' = [pending EXCEPT ![m] = [w |-> w2, t |-> t]]
        /\ UNCHANGED <<res, exists, patchFails, registry, tasks, failures>>
     \/ /\ ~job.err
        /\ ~JobReadWindow
        /\ Decide(m, w2, t)
        /\ UNCHANGED failures

\* The working copy of a pass: the SakuraCloudMachine that Reconcile read,
\* which NewMachineContextFromClusterContext (machine_context.go:51-78)
\* wraps with a patch helper holding the stored version, with the source
\* archive resolved into it (machine_controller.go:139-165). A failure to
\* create the session or the helper returns before the deferred Patch is
\* registered and writes nothing.
WorkingCopy(m) == [res[m] EXCEPT !.archive = TRUE]

\* FindArchive (session/server.go:59-76) returns the first archive the
\* filters match and nil when the search finds none; ReadArchive (55-57)
\* reads it by ID. A pass gets past the lookup once Spec.SourceArchive.ID
\* and Status.SourceArchive are stored, or when the filters match.
ArchiveFound(m) == res[m].archive \/ m \notin ArchiveMissing

\* SakuraCloudService.ReconcileServer (sakuracloud_service.go:35-106).
ReconcileServer(m, w) ==
  \/ /\ w.state = Ready
     /\ ReconcileProviderID(m, w, registry)
     /\ UNCHANGED failures
  \/ StartProvision(m, w) /\ UNCHANGED failures
  \/ /\ w.state # Ready /\ ~(w.state = Pending /\ w.jobRef = None)
     /\ \/ WaitForJob(m, w) /\ UNCHANGED failures
        \/ ObserveJob(m, w)

\* reconcileNormal (machine_controller.go:219-261): an errored machine is
\* left alone; the finalizer is added; the pass waits for the cluster
\* infrastructure and the bootstrap data; then ReconcileServer.
ReconcileNormal(m) ==
  LET w0 == WorkingCopy(m)
      w  == [w0 EXCEPT !.finalizer = TRUE]
  IN
  /\ exists[m] /\ ~deleting[m] /\ pending[m] = None /\ ArchiveFound(m)
  /\ \/ /\ w0.errored
        /\ Patch(m, w0)
        /\ UNCHANGED <<jobVars, pending, failures>>
     \/ /\ ~w0.errored /\ ~prereq[m]
        /\ Patch(m, w)
        /\ UNCHANGED <<jobVars, pending, failures>>
     \/ /\ ~w0.errored /\ prereq[m]
        /\ ReconcileServer(m, w)
  /\ UNCHANGED <<deleting, prereq, cloudVars, crashes>>

\* The second half of a pass that read job.Reference and now reads job.State.
ReconcileDecide(m) ==
  /\ pending[m] # None
  /\ Decide(m, pending[m].w, pending[m].t)
  /\ UNCHANGED <<deleting, prereq, cloudVars, failures, crashes>>

\* What reconcileDelete writes once the server is gone: NotFound, and the
\* finalizer removed (machine_controller.go:208-216).
Gone(w) == [w EXCEPT !.state = NotFound, !.finalizer = FALSE]

\* Variant: Cleanup is started without checking MachineRef for nil.
StartCleanupNoNilCheck(m, w) ==
  /\ StartJob(CleanupJob(w.machineRef), NewTask("cleaning", m, w.machineRef))
  /\ Patch(m, [w EXCEPT !.jobRef = CleanupJob(w.machineRef), !.state = Cleaning])

\* sakuracloud_service.go:115-126: without a MachineRef there is nothing to
\* clean; otherwise Cleanup is started for the referenced server.
StartCleanup(m, w) ==
  \/ /\ w.machineRef = None
     /\ Patch(m, Gone(w))
     /\ UNCHANGED jobVars
  \/ /\ w.machineRef # None
     /\ StartJob(CleanupJob(w.machineRef), NewTask("cleaning", m, w.machineRef))
     /\ Patch(m, [w EXCEPT !.jobRef = CleanupJob(w.machineRef), !.state = Cleaning])

\* sakuracloud_service.go:129-158: the recorded job. A job of another kind is
\* dropped from the registry (its goroutine keeps running). (Line 147, Failed
\* without Error, cannot happen: Error is written first.)
FollowCleanup(m, w) ==
  LET job == JobByID(w.jobRef) IN
  \/ /\ job = None
     /\ Patch(m, w)
     /\ UNCHANGED jobVars
  \/ /\ job # None /\ job.kind # "cleaning"
     /\ registry' = DeleteJob(w.jobRef)
     /\ Patch(m, [w EXCEPT !.jobRef = None])
     /\ UNCHANGED tasks
  \/ /\ job # None /\ job.kind = "cleaning" /\ job.err
     /\ Patch(m, SetMachineError(w))
     /\ UNCHANGED jobVars
  \/ /\ job # None /\ job.kind = "cleaning" /\ job.state \in {"pending", "inflight"}
     /\ Patch(m, w)
     /\ UNCHANGED jobVars
  \/ /\ job # None /\ job.kind = "cleaning" /\ job.state = "done"
     /\ registry' = DeleteJob(w.jobRef)
     /\ Patch(m, Gone([w EXCEPT !.machineRef = None, !.jobRef = None]))
     /\ UNCHANGED tasks

\* reconcileDelete with SakuraCloudService.DestroyServer
\* (machine_controller.go:198-217, sakuracloud_service.go:109-159).
ReconcileDelete(m) ==
  LET w == WorkingCopy(m) IN
  /\ exists[m] /\ deleting[m] /\ pending[m] = None /\ ArchiveFound(m)
  /\ \/ /\ w.state = NotFound
        /\ Patch(m, Gone(w))
        /\ UNCHANGED jobVars
     \/ /\ w.state \notin {NotFound, Cleaning} /\ w.jobRef = None
        /\ StartCleanup(m, w)
     \/ /\ w.state # NotFound /\ (w.state = Cleaning \/ w.jobRef # None)
        /\ FollowCleanup(m, w)
  /\ UNCHANGED <<deleting, prereq, cloudVars, pending, failures, crashes>>

\* machine_controller.go:138-165: FindArchive or ReadArchive fails, or the
\* filters match no archive (146-149). The deferred Patch is not registered
\* yet, so nothing is written, not even the InvalidConfigurationMachineError
\* SetMachineError put on the copy: a failing call only counts against the
\* bound, and a missing archive makes the pass a stuttering step.
ArchiveLookupFails(m) ==
  /\ exists[m] /\ pending[m] = None /\ ~res[m].archive
  /\ \/ CallFails
     \/ m \in ArchiveMissing /\ UNCHANGED failures
  /\ UNCHANGED <<objVars, jobVars, cloudVars, pending, crashes, patchFails>>

\* SakuraCloudMachineReconciler.Reconcile (machine_controller.go:64-181): a
\* pass on a resource that still exists. The returns before the deferred
\* Patch is registered, while the owner Machine, the Cluster or the
\* SakuraCloudCluster is missing (lines 84-136), write nothing and are
\* stuttering steps. The source archive is looked up, which may fail; then
\* the pass goes to reconcileDelete or reconcileNormal on the
\* DeletionTimestamp (174-180).
Reconcile(m) ==
  \/ ArchiveLookupFails(m)
  \/ ReconcileDelete(m)
  \/ ReconcileNormal(m)

-----------------------------------------------------------------------------
(* The environment.                                                        *)

\* A user deletes the resource. Without our finalizer it goes at once.
MarkDeleted(m) ==
  /\ exists[m] /\ ~deleting[m]
  /\ deleting' = [deleting EXCEPT ![m] = TRUE]
  /\ exists' = [exists EXCEPT ![m] = res[m].finalizer]
  /\ UNCHANGED <<res, prereq, jobVars, cloudVars, pending, failures, crashes, patchFails>>

\* Cluster infrastructure becomes ready and the bootstrap data is set.
Prerequisites(m) ==
  /\ ~prereq[m]
  /\ prereq' = [prereq EXCEPT ![m] = TRUE]
  /\ UNCHANGED <<res, deleting, exists, jobVars, cloudVars, pending, failures, crashes, patchFails>>

\* The controller process restarts; the stored resources and the cloud stay.
Crash ==
  /\ crashes < MaxCrashes
  /\ crashes' = crashes + 1
  /\ ProcessExit
  /\ UNCHANGED <<objVars, cloudVars, failures, patchFails>>

\* Every resource is gone and every goroutine has ended: nothing runs.
Terminated ==
  /\ \A m \in Machines : ~exists[m]
  /\ \A t \in DOMAIN tasks : ~tasks[t].alive
  /\ UNCHANGED vars

\* A pass of the controller; for a machine whose archive is missing, the
\* lookup is what every pass does.
Controller(m) ==
  \/ ReconcileNormal(m) \/ ReconcileDecide(m) \/ ReconcileDelete(m)
  \/ m \in ArchiveMissing /\ ArchiveLookupFails(m)

Goroutine(t) ==
  \/ JobStart(t) \/ ProvisionBuild(t) \/ ProvisionISO(t) \/ ProvisionInsert(t)
  \/ ProvisionBoot(t) \/ ProvisionWaitUp(t)
  \/ CleanupRead(t) \/ CleanupShutdown(t) \/ CleanupWaitDown(t)
  \/ CleanupDelete(t) \/ CleanupDeleteISO(t)

Next ==
  \/ \E m \in Machines : Reconcile(m)
  \/ \E m \in Machines : ReconcileDecide(m)
  \/ \E m \in Machines : MarkDeleted(m)
  \/ \E m \in Machines : Prerequisites(m)
  \/ \E t \in DOMAIN tasks : JobStart(t)
  \/ \E t \in DOMAIN tasks : ProvisionBuild(t)
  \/ \E t \in DOMAIN tasks : ProvisionISO(t)
  \/ \E t \in DOMAIN tasks : ProvisionInsert(t)
  \/ \E t \in DOMAIN tasks : ProvisionBoot(t)
  \/ \E t \in DOMAIN tasks : ProvisionWaitUp(t)
  \/ \E t \in DOMAIN tasks : CleanupRead(t)
  \/ \E t \in DOMAIN tasks : CleanupShutdown(t)
  \/ \E t \in DOMAIN tasks : CleanupWaitDown(t)
  \/ \E t \in DOMAIN tasks : CleanupDelete(t)
  \/ \E t \in DOMAIN tasks : CleanupDeleteISO(t)
  \/ Crash
  \/ Terminated

\* The orchestrator requeues every resource that has not converged, and
\* the Go runtime runs every goroutine; users, failures and restarts are
\* not bound to happen.
Fairness ==
  /\ \A m \in Machines : WF_vars(Controller(m))
  /\ \A t \in 1..MaxTasks : WF_vars(t \in DOMAIN tasks /\ Goroutine(t))

Spec == Init /\ [][Next]_vars /\ Fairness

-----------------------------------------------------------------------------
(* Properties.                                                             *)

\* A Ready machine that is not being deleted runs on a server of its own
\* that is up: ReconcileServer sets Ready only after copying the job's
\* Reference into MachineRef, and the Provision goroutine reports Done only
\* after Boot and WaiterForUp succeeded.
ReadyServerRunning ==
  \A m \in Machines :
    exists[m] /\ ~deleting[m] /\ res[m].state = Ready =>
      /\ res[m].machineRef # None
      /\ server[res[m].machineRef].st = "up"
      /\ server[res[m].machineRef].owner = m

\* The cloud builds at most one server per machine: Provision is started
\* only from Pending without a JobRef, and the same pass records the JobRef
\* and Provisioning, while ReconcileServer never starts a job again.
NoDuplicateServer ==
  \A m \in Machines : Cardinality({s \in ServerIds : server[s].owner = m}) <= 1

\* A server built for a machine is deleted before the machine's resource is
\* removed: the spec says a job's server reference, even of a failed job,
\* is what cleanup works from, and a MachineRef is cleared only by a
\* Cleanup that is done.
NoOrphanServer ==
  \A s \in ServerIds :
    server[s].owner # None /\ ~exists[server[s].owner] => server[s].st = "deleted"

\* A machine whose prerequisites are met becomes Ready unless it is deleted:
\* each pass advances the job or the state and the goroutines run to the
\* end.
EventuallyReady ==
  \A m \in Machines : (prereq[m] /\ ~deleting[m]) ~> (res[m].state = Ready \/ deleting[m])

\* A Ready machine that is deleted is eventually removed: DestroyServer
\* starts Cleanup, which shuts the server down and deletes it, and the pass
\* that sees it done drops the finalizer.
DeletionOfReadyCompletes ==
  \A m \in Machines : (deleting[m] /\ exists[m] /\ res[m].state = Ready) ~> ~exists[m]

\* Every deleted machine is eventually removed, whatever state it was in.
DeletionCompletes ==
  \A m \in Machines : deleting[m] ~> ~exists[m]

\* A machine whose source-archive filters match no archive ends in the
\* terminal error state unless it is deleted: Reconcile sets
\* InvalidConfigurationMachineError "archive not found" for it
\* (machine_controller.go:146-149), and spec section 7 says a requested
\* source image that is not found is surfaced like a job failure.
ArchiveErrorRecorded ==
  \A m \in ArchiveMissing :
    (exists[m] /\ ~deleting[m]) ~> (res[m].errored \/ deleting[m])

\* No ISO image outlives the server it was built for. Provision creates the
\* image inside buildISOImage before uploading to it, and Cleanup deletes
\* only the image its single read of the server found inserted.
NoLeakedISO ==
  \A s \in ServerIds : server[s].st = "deleted" => iso[s] # "created"

-----------------------------------------------------------------------------
(* Refinement: MachineLifecycle implements MachineAbstract. The abstract   *)
(* phase is the stored Status.State while the resource exists, the error  *)
(* marker is ErrorReason/ErrorMessage, deletion the DeletionTimestamp.     *)

AbsPhase == [m \in Machines |-> IF exists[m] THEN res[m].state ELSE "Gone"]

Abs == INSTANCE MachineAbstract
         WITH phase <- AbsPhase,
              errored <- [m \in Machines |-> res[m].errored],
              deleting <- deleting

\* Every step of the controller, the goroutines and the environment is a
\* step of the abstract lifecycle or leaves it unchanged: the stored state
\* never moves backwards, a Ready machine is never removed without
\* cleaning, and an error marker is never cleared.
AbstractLifecycle == Abs!Spec

=============================================================================
