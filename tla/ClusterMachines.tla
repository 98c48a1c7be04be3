--------------------------- MODULE ClusterMachines ---------------------------
(***************************************************************************)
(* The two controllers together. The SakuraCloudCluster reconciler        *)
(* (ClusterEndpoint) reads what the SakuraCloudMachine reconciler          *)
(* (MachineLifecycle) records, and the machine reconciler waits for what   *)
(* the cluster reconciler records:                                         *)
(*   - reconcileAPIEndpoints reads each control-plane SakuraCloudMachine   *)
(*     and its Status.Addresses, which ReconcileServer fills in from the   *)
(*     server of the Provision job as soon as the job has one;             *)
(*   - reconcileNormal of a machine waits for Cluster.Status.             *)
(*     InfrastructureReady, which CAPI copies from SakuraCloudCluster     *)
(*     Status.Ready, and for the bootstrap data, which the bootstrap       *)
(*     provider writes only once the infrastructure is ready.              *)
(* In ClusterEndpoint those reads are environment variables; here they are *)
(* state functions of MachineLifecycle: infra is derived from the stored   *)
(* SakuraCloudMachine and boot is the machine's prereq.                    *)
(***************************************************************************)
EXTENDS MachineLifecycle

CONSTANTS
  ControlPlane,             \* the machines with the control-plane label
  MaxClusterFailures,       \* failing calls of the cluster reconciler
  MaxClusterPatchFailures,  \* failing Patch calls of the cluster reconciler
  MachineDeletion           \* whether SakuraCloudMachines may be deleted

VARIABLES cl, cexists, cdeleting, owned, listed, addons, cfailures, cpatchFails

clusterVars == <<cl, cexists, cdeleting, owned, listed, addons, cfailures, cpatchFails>>
allVars == <<vars, clusterVars>>

\* What GetSakuraCloudMachine and GetMachinePreferredIPAddress
\* (util/machines.go:83-114) see of a machine: gone once the resource is
\* removed, otherwise whether Status.Addresses holds the ExternalIP.
Infra == [m \in Machines |-> IF ~exists[m] THEN "gone"
                             ELSE IF res[m].addr THEN "addr" ELSE "noaddr"]

\* The machines whose server is up: the workload cluster's API server,
\* which kubeadm starts on a control-plane server when it boots, answers
\* at that machine's address. The kubeconfig NewKubeClient reads
\* (cluster_controller.go:252) names the endpoint the cluster recorded.
Served == {m \in Machines : \E s \in ServerIds : server[s].owner = m /\ server[s].st = "up"}

CE == INSTANCE ClusterEndpoint
        WITH MaxFailures <- MaxClusterFailures,
             MaxPatchFailures <- MaxClusterPatchFailures,
             boot <- prereq, infra <- Infra, served <- Served,
             failures <- cfailures, patchFails <- cpatchFails

ComposedInit ==
  /\ Init
  /\ cl = [ready |-> FALSE, finalizer |-> FALSE, endpoint |-> None]
  /\ cexists = TRUE /\ cdeleting = FALSE /\ owned = FALSE
  /\ listed = [m \in Machines |-> TRUE]
  /\ addons = {}
  /\ cfailures = 0 /\ cpatchFails = 0

\* The bootstrap data is written once the infrastructure is ready, which
\* the machine reconciler reads from the Cluster (machine_controller.go:
\* 229-240).
BootstrapData(m) == cl.ready /\ Prerequisites(m) /\ UNCHANGED clusterVars

\* A pass of the machine reconciler reads the SakuraCloudCluster first and,
\* while it cannot, returns before the deferred Patch is registered
\* (machine_controller.go:104-112), a stuttering step; a deletion pass too.
MachinePass(m) ==
  /\ cexists
  /\ Reconcile(m) \/ ReconcileDecide(m)
  /\ UNCHANGED clusterVars

\* A step of a goroutine, or a restart.
MachineStep ==
  /\ \/ \E t \in DOMAIN tasks : Goroutine(t)
     \/ Crash
  /\ UNCHANGED clusterVars

\* The user deletes a Machine; its SakuraCloudMachine is deleted first, and
\* the Machine goes once that is removed.
MachineDeleted(m) == MachineDeletion /\ MarkDeleted(m) /\ UNCHANGED clusterVars

\* A step of the cluster reconciler or of CAPI. (The machines' variables
\* are fixed first, since the cluster's actions read them through Infra.)
\* CAPI deletes the SakuraCloudCluster only once the Cluster's Machines are
\* gone: the Cluster controller deletes its descendants and waits for them
\* before it deletes the infrastructure object.
ClusterDeleted ==
  /\ \A m \in Machines : ~listed[m]
  /\ CE!MarkClusterDeleted

ClusterStep ==
  /\ UNCHANGED vars
  /\ \/ CE!Reconcile \/ CE!SetOwnerRef \/ ClusterDeleted
     \/ \E m \in Machines : CE!MachineRemoved(m)

ComposedNext ==
  \/ \E m \in Machines : MachinePass(m)
  \/ MachineStep
  \/ \E m \in Machines : BootstrapData(m) \/ MachineDeleted(m)
  \/ ClusterStep
  \/ Terminated /\ UNCHANGED clusterVars

\* Both controllers are requeued after every pass that waits or fails, each
\* goroutine runs to its end, and the CAPI controllers and the bootstrap
\* provider make progress; deletions, restarts and failures need not happen.
ComposedFairness ==
  /\ \A m \in Machines : WF_allVars(cexists /\ Controller(m) /\ UNCHANGED clusterVars)
  /\ \A t \in 1..MaxTasks :
       WF_allVars(t \in DOMAIN tasks /\ Goroutine(t) /\ UNCHANGED clusterVars)
  /\ \A m \in Machines : WF_allVars(BootstrapData(m))
  /\ WF_allVars(UNCHANGED vars /\ CE!ReconcileNormal)
  /\ WF_allVars(UNCHANGED vars /\ CE!ReconcileDelete)
  /\ WF_allVars(UNCHANGED vars /\ CE!SetOwnerRef)

ComposedSpec == ComposedInit /\ [][ComposedNext]_allVars /\ ComposedFairness

-----------------------------------------------------------------------------
(* Properties.                                                             *)

\* The add-on is installed in the workload cluster once the cluster is
\* owned, with the endpoint taken from the address the real machine
\* reconciler records: the cluster pass keeps failing with
\* ErrNoMachineIPAddr until ReconcileServer has read the server of the
\* Provision job, and nothing else unblocks it. A control-plane machine or
\* the cluster being deleted releases the promise.
AddonsInstalledWithMachines ==
  owned ~> \/ addons = {CE!Addons[i] : i \in 1..Len(CE!Addons)}
           \/ cdeleting
           \/ \E m \in ControlPlane : deleting[m]

\* The API endpoint the cluster records, once it names a control-plane
\* machine, is eventually served by a running server of that machine,
\* unless the cluster is deleted. reconcileAPIEndpoints sets it once and
\* never revises it, from an address ReconcileServer records before the
\* Provision job has inserted the ISO, booted or seen the server up.
EndpointServed ==
  \A m \in ControlPlane :
    cl.endpoint = m ~> \/ \E s \in ServerIds : server[s].owner = m /\ server[s].st = "up"
                       \/ cdeleting
=============================================================================
