--------------------------- MODULE ClusterEndpoint ---------------------------
(***************************************************************************)
(* SakuraCloudClusterReconciler (controllers/cluster_controller.go).       *)
(* A pass marks the SakuraCloudCluster Ready, adds the finalizer, sets the *)
(* API endpoint from the first control-plane machine that has an external *)
(* address (once; it is never revised), and then creates the six objects  *)
(* of the cloud-controller-manager add-on in the workload cluster, each   *)
(* create tolerating AlreadyExists. The deferred ClusterContext.Patch     *)
(* writes the working copy back.                                           *)
(*                                                                         *)
(* An endpoint is abstracted to the machine whose address it is, and an   *)
(* add-on object to its kind. The Machines and SakuraCloudMachines the    *)
(* pass reads are changed by the environment actions at the end, which    *)
(* stand for the CAPI controllers, the bootstrap provider and the machine *)
(* reconciler of MachineLifecycle, and the servers those machines run: the *)
(* add-on objects are created through the API server at the endpoint.     *)
(***************************************************************************)
EXTENDS Naturals, Sequences, FiniteSets, SequencesExt

CONSTANTS
  Machines,          \* CAPI Machines of the cluster
  ControlPlane,      \* those with the control-plane label
  None,
  MaxFailures,       \* failing API calls (List, NewKubeClient, Create)
  MaxPatchFailures,  \* failing deferred Patch calls
  MachineDeletion    \* whether machines may be deleted in this model

ASSUME ControlPlane \subseteq Machines /\ None \notin Machines
ASSUME MaxFailures \in Nat /\ MaxPatchFailures \in Nat /\ MachineDeletion \in BOOLEAN

\* Variant: the Deployment is created before the credential Secret.
AddonsSecretLast == <<"ServiceAccount", "ClusterRole", "RoleBinding",
                      "ClusterRoleBinding", "Deployment", "Secret">>

\* The add-on objects in the order reconcileCloudProvider creates them
\* (cluster_controller.go:258-286).
Addons == <<"ServiceAccount", "ClusterRole", "RoleBinding",
            "ClusterRoleBinding", "Secret", "Deployment">>

\* What the lookup of a control-plane endpoint returns when no machine
\* gives one: an error from GetSakuraCloudMachine, or ErrNoMachineIPAddr.
GetError == "getError"
NoAddr   == "noMachineIPAddr"

VARIABLES
  cl,         \* the stored SakuraCloudCluster: ready, finalizer, endpoint
  cexists,    \* the SakuraCloudCluster has not been removed
  cdeleting,  \* its DeletionTimestamp is set
  owned,      \* the owner Cluster reference is set
  boot,       \* boot[m]: Machine.Spec.Bootstrap.Data is set
  infra,      \* infra[m]: its SakuraCloudMachine: none, noaddr, addr, gone
  listed,     \* listed[m]: the Machine is returned by GetMachinesInCluster
  addons,     \* add-on objects present in the workload cluster
  served,     \* machines whose server answers at their recorded address
  failures, patchFails

vars == <<cl, cexists, cdeleting, owned, boot, infra, listed, served, addons, failures, patchFails>>
envVars == <<boot, infra, listed, served>>

\* SakuraCloudClusterStatus.Ready, the finalizer and Status.APIEndpoints
\* (api/v1alpha2/sakuracloudcluster_types.go).
ClusterRecord == [ready : BOOLEAN, finalizer : BOOLEAN, endpoint : Machines \cup {None}]

TypeOK ==
  /\ cl \in ClusterRecord
  /\ cexists \in BOOLEAN /\ cdeleting \in BOOLEAN /\ owned \in BOOLEAN
  /\ boot \in [Machines -> BOOLEAN]
  /\ infra \in [Machines -> {"none", "noaddr", "addr", "gone"}]
  /\ listed \in [Machines -> BOOLEAN]
  /\ served \subseteq Machines
  /\ addons \subseteq Range(Addons)
  /\ failures \in 0..MaxFailures /\ patchFails \in 0..MaxPatchFailures

Init ==
  /\ cl = [ready |-> FALSE, finalizer |-> FALSE, endpoint |-> None]
  /\ cexists = TRUE /\ cdeleting = FALSE /\ owned = FALSE
  /\ boot = [m \in Machines |-> FALSE]
  /\ infra = [m \in Machines |-> "none"]
  /\ listed = [m \in Machines |-> TRUE]
  /\ served = {}
  /\ addons = {}
  /\ failures = 0 /\ patchFails = 0

CallFails == failures < MaxFailures /\ failures' = failures + 1

\* GetMachinePreferredIPAddress (util/machines.go:104-114): the machine's
\* first ExternalIP; ObserveJob records exactly one.
HasExternalIP(m) == infra[m] = "addr"

\* The loop of reconcileAPIEndpoints (cluster_controller.go:176-215) over
\* the control-plane machines in list order: a machine without bootstrap
\* data or without an address is skipped, a machine whose
\* SakuraCloudMachine cannot be read ends the pass with an error, and the
\* first one with an address gives the endpoint.
RECURSIVE ScanCP(_)
ScanCP(ord) ==
  IF ord = << >> THEN NoAddr
  ELSE LET m == Head(ord) IN
       IF ~boot[m] THEN ScanCP(Tail(ord))
       ELSE IF infra[m] \in {"none", "gone"} THEN GetError
       ELSE IF ~HasExternalIP(m) THEN ScanCP(Tail(ord))
       ELSE m

\* NewClusterContext (cluster_context.go:59-89): the pass works on the
\* SakuraCloudCluster it read, and the patch helper keeps the stored
\* version for the deferred Patch. A failure to create the session or the
\* helper returns before that Patch is registered and writes nothing.
WorkingCopy == cl

\* The deferred ClusterContext.Patch (cluster_controller.go:102-106,
\* cluster_context.go:144-146); a deleted cluster without its finalizer is
\* removed by the API server.
Patch(w) ==
  \/ /\ cl' = w
     /\ cexists' = ~(cdeleting /\ ~w.finalizer)
     /\ UNCHANGED patchFails
  \/ /\ patchFails < MaxPatchFailures
     /\ patchFails' = patchFails + 1
     /\ UNCHANGED <<cl, cexists>>

\* Variant: a create that finds the object present fails the pass, as if
\* the IsAlreadyExists check were missing.
CloudProviderFailOnExisting(ep) ==
  \/ ep \notin served /\ UNCHANGED <<addons, failures>>
  \/ ep \in served /\ \E k \in 0..Len(Addons) :
    /\ \A i \in 1..k : Addons[i] \notin addons
    /\ addons' = addons \cup {Addons[i] : i \in 1..k}
    /\ \/ k = Len(Addons) /\ UNCHANGED failures
       \/ k < Len(Addons) /\ Addons[k + 1] \in addons /\ UNCHANGED failures
       \/ k < Len(Addons) /\ CallFails

\* reconcileCloudProvider (cluster_controller.go:231-289): NewKubeClient and
\* the creates in order; the first failing call ends the pass, so the
\* objects before it are present afterwards. k is the number of creates
\* that succeed (or find the object present). The client talks to the
\* workload cluster's API server at the endpoint ep the kubeconfig names;
\* while the server there does not answer, the first create fails, every
\* time, and nothing is created.
CloudProvider(ep) ==
  \/ /\ ep \notin served
     /\ UNCHANGED <<addons, failures>>
  \/ /\ ep \in served
     /\ \E k \in 0..Len(Addons) :
          /\ addons' = addons \cup {Addons[i] : i \in 1..k}
          /\ IF k < Len(Addons) THEN CallFails ELSE UNCHANGED failures

\* GetMachinesInCluster (util/machines.go:32-58): the Machines with the
\* cluster's label; the loop keeps the control-plane ones.
MachinesInCluster == {m \in Machines : listed[m]}

\* Variant: the endpoint is stored whatever the lookup returned.
ReconcileNormalStoreMiss ==
  LET w == [WorkingCopy EXCEPT !.ready = TRUE, !.finalizer = TRUE]
      cp == MachinesInCluster \cap ControlPlane
  IN
  /\ cexists /\ owned /\ ~cdeleting
  /\ \/ /\ w.endpoint # None
        /\ Patch(w) /\ CloudProvider(w.endpoint)
     \/ /\ w.endpoint = None
        /\ CallFails
        /\ Patch(w) /\ UNCHANGED addons
     \/ /\ w.endpoint = None
        /\ \E ord \in SetToSeqs(cp) : Patch([w EXCEPT !.endpoint = ScanCP(ord)])
        /\ UNCHANGED <<addons, failures>>
  /\ UNCHANGED <<cdeleting, owned, envVars>>

\* reconcileNormal (cluster_controller.go:128-158) with
\* reconcileAPIEndpoints (160-222). With no endpoint yet the machines are
\* listed and scanned in the order the list returns them, which the code
\* does not fix. The pass that finds the endpoint goes on to
\* reconcileCloudProvider, but NewKubeClient (line 252) reads the
\* kubeconfig Secret, which CAPI writes from Cluster.Status.APIEndpoints,
\* copied from this SakuraCloudCluster only after the pass's Patch: that
\* pass fails there, creating nothing, and a later pass creates the add-on.
ReconcileNormal ==
  LET w == [WorkingCopy EXCEPT !.ready = TRUE, !.finalizer = TRUE]
      cp == MachinesInCluster \cap ControlPlane
  IN
  /\ cexists /\ owned /\ ~cdeleting
  /\ \/ /\ w.endpoint # None
        /\ Patch(w) /\ CloudProvider(w.endpoint)
     \/ /\ w.endpoint = None
        /\ CallFails
        /\ Patch(w) /\ UNCHANGED addons
     \/ /\ w.endpoint = None
        /\ \E ord \in SetToSeqs(cp) :
             LET r == ScanCP(ord) IN
             Patch(IF r \in Machines THEN [w EXCEPT !.endpoint = r] ELSE w)
        /\ UNCHANGED <<addons, failures>>
  /\ UNCHANGED <<cdeleting, owned, envVars>>

\* reconcileDelete (cluster_controller.go:119-126): the finalizer is removed.
ReconcileDelete ==
  /\ cexists /\ owned /\ cdeleting
  /\ Patch([WorkingCopy EXCEPT !.finalizer = FALSE])
  /\ UNCHANGED <<cdeleting, owned, envVars, addons, failures>>

\* SakuraCloudClusterReconciler.Reconcile (cluster_controller.go:60-117): a
\* pass on a cluster that exists. Until the Cluster controller has set the
\* OwnerRef it returns before the deferred Patch is registered and writes
\* nothing (a stuttering step); then it goes to reconcileDelete or
\* reconcileNormal on the DeletionTimestamp.
Reconcile == ReconcileDelete \/ ReconcileNormal

-----------------------------------------------------------------------------
(* The environment.                                                        *)

SetOwnerRef ==
  /\ ~owned /\ owned' = TRUE
  /\ UNCHANGED <<cl, cexists, cdeleting, envVars, addons, failures, patchFails>>

MarkClusterDeleted ==
  /\ cexists /\ ~cdeleting /\ cdeleting' = TRUE
  /\ cexists' = cl.finalizer
  /\ UNCHANGED <<cl, owned, envVars, addons, failures, patchFails>>

\* The bootstrap provider fills in Bootstrap.Data.
BootstrapReady(m) ==
  /\ listed[m] /\ ~boot[m] /\ boot' = [boot EXCEPT ![m] = TRUE]
  /\ UNCHANGED <<cl, cexists, cdeleting, owned, infra, listed, served, addons, failures, patchFails>>

\* The SakuraCloudMachine is created next to its Machine.
InfraCreated(m) ==
  /\ listed[m] /\ infra[m] = "none" /\ infra' = [infra EXCEPT ![m] = "noaddr"]
  /\ UNCHANGED <<cl, cexists, cdeleting, owned, boot, listed, served, addons, failures, patchFails>>

\* The machine reconciler records the address; it waits for bootstrap data.
AddressAssigned(m) ==
  /\ boot[m] /\ infra[m] = "noaddr" /\ infra' = [infra EXCEPT ![m] = "addr"]
  /\ UNCHANGED <<cl, cexists, cdeleting, owned, boot, listed, served, addons, failures, patchFails>>

\* The server of a machine with an address finishes booting and answers.
ServerUp(m) ==
  /\ infra[m] = "addr" /\ m \notin served /\ served' = served \cup {m}
  /\ UNCHANGED <<cl, cexists, cdeleting, owned, boot, infra, listed, addons, failures, patchFails>>

\* Machine deletion: the SakuraCloudMachine goes first, then the Machine.
InfraDeleted(m) ==
  /\ MachineDeletion /\ listed[m] /\ infra[m] # "gone"
  /\ infra' = [infra EXCEPT ![m] = "gone"] /\ served' = served \ {m}
  /\ UNCHANGED <<cl, cexists, cdeleting, owned, boot, listed, addons, failures, patchFails>>

MachineRemoved(m) ==
  /\ listed[m] /\ infra[m] = "gone" /\ listed' = [listed EXCEPT ![m] = FALSE]
  /\ UNCHANGED <<cl, cexists, cdeleting, owned, boot, infra, served, addons, failures, patchFails>>

\* Nothing is left to do: the cluster is gone or every machine has settled.
Settled ==
  /\ \/ ~cexists
     \/ \A m \in Machines : ~listed[m] \/ (boot[m] /\ infra[m] = "addr" /\ m \in served)
  /\ UNCHANGED vars

Next ==
  \/ Reconcile
  \/ SetOwnerRef \/ MarkClusterDeleted
  \/ \E m \in Machines : BootstrapReady(m)
  \/ \E m \in Machines : InfraCreated(m)
  \/ \E m \in Machines : AddressAssigned(m)
  \/ \E m \in Machines : ServerUp(m)
  \/ \E m \in Machines : InfraDeleted(m)
  \/ \E m \in Machines : MachineRemoved(m)
  \/ Settled

\* The liveness of this reconciler is checked in ClusterMachines, with the
\* machine reconciler in place of the environment actions.
Spec == Init /\ [][Next]_vars

-----------------------------------------------------------------------------
(* Properties.                                                             *)

\* What the add-on objects need of each other, from their manifests
\* (cloudprovider/cloud-controller-manager.go). The Deployment runs under
\* the service account, takes both credentials from the Secret, and needs
\* the permissions the ClusterRoleBinding grants.
DeploymentReferences ==
  {<<"Deployment", "ServiceAccount">>, <<"Deployment", "Secret">>,
   <<"Deployment", "ClusterRoleBinding">>}

\* The ClusterRoleBinding binds the service account to the ClusterRole; the
\* RoleBinding binds it to extension-apiserver-authentication-reader, a
\* Role the cluster already has.
BindingReferences ==
  {<<"RoleBinding", "ServiceAccount">>, <<"ClusterRoleBinding", "ServiceAccount">>,
   <<"ClusterRoleBinding", "ClusterRole">>}

\* Every reference between add-on objects. The ServiceAccount and the Secret
\* (cloud-controller-manager.go:31-53) name nothing themselves; they are
\* declared under the names the others refer to.
References == DeploymentReferences \cup BindingReferences

\* After any sequence of passes that fail part way, no add-on object exists
\* in the workload cluster without the objects its manifest names: above
\* all, the cloud-controller-manager Deployment never starts without its
\* credential Secret, service account and permissions. This rests on the
\* order of the creates in reconcileCloudProvider and on each pass stopping
\* at its first failure.
AddonReferencesPresent ==
  \A r \in References : r[1] \in addons => r[2] \in addons
=============================================================================
