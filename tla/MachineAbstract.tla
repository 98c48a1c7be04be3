--------------------------- MODULE MachineAbstract ---------------------------
(***************************************************************************)
(* What the machine controller promises about one SakuraCloudMachine's     *)
(* lifecycle, without jobs, goroutines or the cloud: the stored state only *)
(* moves forward along the creation path (Pending, Provisioning, Ready)    *)
(* and, once the machine is deleted, to Cleaning and then away; an error   *)
(* marker is only ever added; and the resource disappears only from a      *)
(* state where nothing of it can be left in the cloud. MachineLifecycle   *)
(* implements it (see Abs there).                                          *)
(***************************************************************************)
CONSTANTS Machines

VARIABLES
  phase,     \* phase[m]: the stored Status.State, or "Gone" once removed
  errored,   \* errored[m]: Status.ErrorReason/ErrorMessage are set
  deleting   \* deleting[m]: the DeletionTimestamp is set

absVars == <<phase, errored, deleting>>

Phases == {"pending", "provisioning", "ready", "cleaning", "notfound", "Gone"}

Init ==
  /\ phase = [m \in Machines |-> "pending"]
  /\ errored = [m \in Machines |-> FALSE]
  /\ deleting = [m \in Machines |-> FALSE]

\* Moves phase[m] from one of the phases in from to the phase to.
Move(m, from, to) == phase[m] \in from /\ phase' = [phase EXCEPT ![m] = to]

\* ReconcileServer starts a job for a healthy machine and records it. A
\* pass that read the machine before its DeletionTimestamp was set may
\* still write its result afterwards, so deletion does not disable this.
Provision(m) ==
  /\ ~errored[m]
  /\ Move(m, {"pending"}, "provisioning")
  /\ UNCHANGED <<errored, deleting>>

\* ReconcileServer sees the provisioning job done (also in a pass that
\* began before the deletion).
Provisioned(m) ==
  /\ ~errored[m]
  /\ Move(m, {"provisioning"}, "ready")
  /\ UNCHANGED <<errored, deleting>>

\* A job reports an error, which is copied onto the machine.
Fail(m) ==
  /\ phase[m] \in {"provisioning", "cleaning"}
  /\ errored' = [errored EXCEPT ![m] = TRUE]
  /\ UNCHANGED <<phase, deleting>>

\* The user deletes the resource; one that no pass has taken hold of (no
\* finalizer yet) goes at once.
Delete(m) ==
  /\ phase[m] # "Gone" /\ ~deleting[m]
  /\ deleting' = [deleting EXCEPT ![m] = TRUE]
  /\ \/ UNCHANGED phase
     \/ Move(m, {"pending"}, "Gone")
  /\ UNCHANGED errored

\* DestroyServer starts cleaning a machine that has a server.
StartCleaning(m) ==
  /\ deleting[m]
  /\ Move(m, {"provisioning", "ready"}, "cleaning")
  /\ UNCHANGED <<errored, deleting>>

\* reconcileDelete removes the finalizer once no server is known or the
\* cleaning has finished; a Ready machine always goes through cleaning.
Remove(m) ==
  /\ deleting[m]
  /\ Move(m, {"pending", "provisioning", "cleaning", "notfound"}, "Gone")
  /\ UNCHANGED <<errored, deleting>>

Next ==
  \E m \in Machines :
    Provision(m) \/ Provisioned(m) \/ Fail(m) \/ Delete(m) \/ StartCleaning(m) \/ Remove(m)

Spec == Init /\ [][Next]_absVars

=============================================================================
