------------------------- MODULE ProviderOperations -------------------------
(***************************************************************************)
(* The durable side of a Neon branch operation of the workspace control    *)
(* plane: plan, decision, claim, remote-start fence, reconciliation and     *)
(* bootstrap (workspace-cloud/lib/provider-operation-*.ts), and the rows   *)
(* those statements read.  One operation of each kind: create a side        *)
(* branch, delete it, switch a connection from the main branch to it.      *)
(*                                                                         *)
(* Every D1 batch is one step.  Time is abstract: a plan expires, the two   *)
(* minutes after the remote start pass, whenever the model chooses; the     *)
(* three seconds of reconcile_after only delay a retry.  The claim id is    *)
(* drawn once, by the statement that leaves `approved`, and every later     *)
(* statement compares the request's copy of it with the row's: a request    *)
(* gets that far only with the row's own id.                                *)
(***************************************************************************)
EXTENDS Naturals, FiniteSets

CONSTANTS Members,      \* workspace managers: session, member and role
          Requests,     \* requests of the operations route in flight at once
          Scenarios     \* which operations are planned, by which managers, what they
                        \* meet and how many requests die or fail in one behaviour

Kinds == {"create", "delete", "switch"}
Connections == {"moving", "imported"}
Features == {"import", "edit", "lease", "reconnect", "production", "checkpoint", "legacy"}

ASSUME MembersAssumption == IsFiniteSet(Members) /\ Members # {}

ASSUME ScenariosAssumption ==
    \A s \in Scenarios : /\ s.kinds \subseteq Kinds /\ s.with \subseteq Features
                         /\ s.team \subseteq Members /\ s.team # {} /\ s.faults \in Nat

VARIABLES scenario,  \* the member of Scenarios this behaviour plays
          op,        \* workspace_provider_operation and its approval, per kind
          live,      \* who is still a manager: session, role, no revocation pending
          current,   \* the integration still has the planned generation, unclaimed
          conn,      \* workspace_connection
          lease,     \* the branch each connection's unrevoked credential lease is for
          receipt,   \* a discovery receipt for the side branch waits to be imported
          side,      \* external: the side branch as Neon holds it
          inherited, \* external: a temporary role copied with the branch can log in
          wire,      \* external: the provider call of each operation
          landed,    \* external: how often the call of each operation took effect
          req,       \* each request's position and what it read
          faults     \* how many requests died or failed so far

vars == <<scenario, op, live, current, conn, lease, receipt, side, inherited, wire, landed, req, faults>>
external == <<side, inherited, wire, landed>>
rows == <<scenario, live, current, lease, receipt>>

NoOne == "none"
Started == {"remote_started", "reconciling"}
Terminal == {"succeeded", "failed", "needs_repair", "cancelled"}

NoOperation == [state |-> "none", requester |-> NoOne, approver |-> NoOne, expired |-> FALSE,
                overdue |-> FALSE, revision |-> 0, leased |-> FALSE, recorded |-> FALSE,
                operation |-> FALSE, access |-> "unavailable", fence |-> FALSE]

NoObservation == [status |-> "none", branch |-> FALSE, operation |-> FALSE, access |-> "unavailable",
                  databases |-> FALSE, fence |-> FALSE]

NoRequest == [pc |-> "idle", kind |-> "create", member |-> NoOne, tries |-> 0, late |-> FALSE,
              obs |-> NoObservation]

-----------------------------------------------------------------------------
(* Authority, and what the plans are checked against. *)

\* providerMutationAuthoritySql with requireManager
Manager(m) == current /\ live[m]

Separate(k) == k # "delete" /\ "production" \in scenario.with

\* currentExecutionAuthoritySql: whoever executes, requester and approver must still be managers
ExecutionAuthority(m, k) ==
    /\ Manager(m)
    /\ live[op[k].requester] /\ live[op[k].approver]
    /\ Separate(k) => op[k].approver # op[k].requester

On(c, b) == conn[c].exists /\ conn[c].branch = b

\* listNeonBranchManagedAccessBoundaries: the create operation that recorded
\* the side branch as its own, until a deletion of it succeeded
Boundary ==
    /\ op["create"].recorded /\ op["create"].state # "cancelled"
    /\ op["delete"].state # "succeeded"

\* requireNeonBranchManagedAccessReady: a branch nobody here created is not held back
AccessReady == Boundary => op["create"].state = "succeeded" /\ op["create"].access = "ready"

Leased(c) == lease[c] # NoOne

\* Neither a connection nor a credential lease of the workspace is on the side branch.
Unreferenced ==
    /\ \A c \in Connections : ~On(c, "side")
    /\ \A c \in Connections : conn[c].branch = "side" => ~Leased(c)

\* liveCreatePlanContext, liveDeletePlanContext, liveSwitchPlanContext: the
\* snapshot a plan is built from, approved on and executed on
CreatePlanHolds == side = "absent"

DeletePlanHolds ==
    /\ side = "ready"
    /\ Boundary /\ op["create"].state = "succeeded"
    /\ Unreferenced

SwitchPlanHolds ==
    /\ On("moving", "main") /\ ~conn["moving"].pending
    /\ ~On("imported", "side")
    /\ side = "ready" /\ AccessReady

PlanHolds(k) == CASE k = "create" -> CreatePlanHolds
                  [] k = "delete" -> DeletePlanHolds
                  [] k = "switch" -> SwitchPlanHolds

\* recordProviderOperationPlan; an exact replay of the idempotency key reads the same row
Plan(m, k) ==
    /\ k \in scenario.kinds
    /\ op[k].state = "none"
    /\ Manager(m) /\ PlanHolds(k)
    /\ op' = [op EXCEPT ![k] = [NoOperation EXCEPT !.state = "awaiting_approval", !.requester = m,
                                                   !.revision = conn["moving"].revision,
                                                   !.leased = Leased("moving")]]
    /\ UNCHANGED <<rows, external, conn, req, faults>>

\* What revalidateNeonBranch*Plan compares with the recorded snapshot
PlanUnchanged(k) ==
    /\ PlanHolds(k)
    /\ k = "switch" => /\ conn["moving"].revision = op[k].revision
                       /\ Leased("moving") = op[k].leased

\* The ten minutes of the plan pass.
PlanExpires(k) ==
    /\ op[k].state \in {"awaiting_approval", "approved", "claimed"} /\ ~op[k].expired
    /\ op' = [op EXCEPT ![k].expired = TRUE]
    /\ UNCHANGED <<rows, external, conn, req, faults>>

\* decideProviderOperation; a replay of the same decision changes nothing
Approve(m, k) ==
    /\ op[k].state = "awaiting_approval" /\ ~op[k].expired
    /\ Manager(m) /\ live[op[k].requester]
    /\ Separate(k) => m # op[k].requester
    /\ PlanUnchanged(k)
    /\ op' = [op EXCEPT ![k].state = "approved", ![k].approver = m]
    /\ UNCHANGED <<rows, external, conn, req, faults>>

Reject(m, k) ==
    /\ op[k].state = "awaiting_approval"
    /\ Manager(m) /\ live[op[k].requester]
    /\ op' = [op EXCEPT ![k].state = "cancelled"]
    /\ UNCHANGED <<rows, external, conn, req, faults>>

-----------------------------------------------------------------------------
(* What the statements of an execution do to the operation's row. *)

\* cancelExpiredProviderOperationExecution
Cancellable(k) == op[k].state \in {"approved", "claimed"} /\ op[k].expired

\* claimProviderOperationExecution
Claimable(m, k) ==
    /\ op[k].state \in {"approved", "claimed"} \cup Started
    /\ op[k].state = "approved" => ~op[k].expired
    /\ ExecutionAuthority(m, k)

\* markProviderOperationRemoteStarted: what must hold of the workspace's
\* connections and leases for the operation of each kind to start
SwitchUntouched ==
    /\ On("moving", "main") /\ ~On("imported", "side")
    /\ conn["moving"].revision = op["switch"].revision
    /\ ~conn["moving"].pending /\ conn["moving"].claim = NoOne

Startable(m, k) ==
    /\ op[k].state \in {"claimed"} \cup Started
    /\ ExecutionAuthority(m, k)
    /\ k = "delete" => Unreferenced
    /\ k = "switch" => SwitchUntouched

\* validProviderReconciliation.  An observation is its status, the managed
\* access it reports and whether it names a branch, the provider's operation
\* and the branch's databases.
ValidObservation(o) ==
    CASE o.status = "missing"  -> ~o.branch /\ o.access = "waiting_for_provider"
      [] o.status = "pending"  -> o.branch /\ o.access = "waiting_for_provider" /\ ~o.databases
      [] o.status = "ready"    -> /\ o.branch /\ o.databases
                                  /\ o.access = (IF o.fence THEN "bootstrap_required" ELSE "not_requested")
      [] o.status = "conflict" -> o.access = "needs_repair"
      [] o.status = "failed"   -> o.access = (IF o.branch THEN "needs_repair" ELSE "unavailable")
      [] OTHER -> FALSE

\* Mutant: a branch that never appears is waited for.
TargetState_NoCutoff(k, o) ==
    CASE o.status = "ready" -> "succeeded"
      [] o.status = "conflict" -> "needs_repair"
      [] o.status = "failed" -> IF o.branch THEN "needs_repair" ELSE "failed"
      [] OTHER -> "reconciling"

\* applyProviderOperationReconciliation's targetState
TargetState(k, o) ==
    CASE o.status = "ready" -> "succeeded"
      [] o.status = "conflict" -> "needs_repair"
      [] o.status = "failed" -> IF o.branch THEN "needs_repair" ELSE "failed"
      [] o.status = "missing" /\ op[k].overdue -> "needs_repair"
      [] OTHER -> "reconciling"

\* A create recorded as succeeded before inherited roles were retired
NeedsFence(k) ==
    /\ k = "create" /\ op[k].state = "succeeded" /\ ~op[k].fence
    /\ "checkpoint" \notin scenario.with

\* Mutant: a late observation is applied to a finished operation.
Applicable_AnyState(m, k, o) == Manager(m) /\ op[k].state \in Started \cup Terminal

\* applyProviderOperationReconciliation's candidate
Applicable(m, k, o) ==
    /\ Manager(m)
    /\ \/ op[k].state \in Started
       \/ NeedsFence(k) /\ o.status = "ready" /\ o.fence

Reconciled(k, o) ==
    [op EXCEPT ![k].state = TargetState(k, o), ![k].access = o.access, ![k].fence = o.fence,
               ![k].recorded = @ \/ o.branch, ![k].operation = @ \/ o.operation]

\* Two minutes pass since the remote start.
StartIsOverdue(k) ==
    /\ op[k].state \in Started /\ ~op[k].overdue
    /\ op' = [op EXCEPT ![k].overdue = TRUE]
    /\ UNCHANGED <<rows, external, conn, req, faults>>

\* completeProviderOperationBootstrap, once the bootstrap's roles are verified
Bootstrap(m) ==
    /\ Manager(m)
    /\ op["create"].state = "succeeded" /\ op["create"].fence
    /\ op["create"].access = "bootstrap_required"
    /\ op' = [op EXCEPT !["create"].access = "ready"]
    /\ UNCHANGED <<rows, external, conn, req, faults>>

-----------------------------------------------------------------------------
(* The workspace around the operations. *)

\* A manager is demoted, removed or signed out.  A workspace keeps an owner.
LosesAuthority(m) ==
    /\ live[m] /\ \E other \in Members \ {m} : live[other]
    /\ live' = [live EXCEPT ![m] = FALSE]
    /\ UNCHANGED <<scenario, current, lease, receipt, op, external, conn, req, faults>>

\* The integration is reconnected or disconnected: operations of its former
\* generation can no longer be loaded.
IntegrationChanges ==
    /\ "reconnect" \in scenario.with /\ current
    /\ current' = FALSE
    /\ UNCHANGED <<scenario, live, lease, receipt, op, external, conn, req, faults>>

\* The resources route: the branch is discovered while it is ready for managed access.
Discover ==
    /\ "import" \in scenario.with /\ ~receipt /\ current
    /\ side = "ready" /\ AccessReady
    /\ receipt' = TRUE
    /\ UNCHANGED <<scenario, live, current, lease, op, external, conn, req, faults>>

\* Mutant: an import does not look for operations on its branch.
ImportBlocked_Never == FALSE

\* importScope's `blocked`
ImportBlocked ==
    \/ op["delete"].state \in {"approved", "claimed", "succeeded"} \cup Started
    \/ op["switch"].state \in {"approved", "claimed"} \cup Started

\* importProviderReceipt
Import(m) ==
    /\ receipt /\ Manager(m)
    /\ ~ImportBlocked
    /\ \A c \in Connections : ~On(c, "side")
    /\ receipt' = FALSE
    /\ conn' = [conn EXCEPT !["imported"].exists = TRUE, !["imported"].branch = "side"]
    /\ UNCHANGED <<scenario, live, current, lease, op, external, req, faults>>

\* Another change of the connection, gate and all, commits (see AccessChanges).
EditConnection(c) ==
    /\ "edit" \in scenario.with
    /\ conn[c].exists /\ ~conn[c].pending /\ conn[c].revision = 1
    /\ conn' = [conn EXCEPT ![c].revision = @ + 1]
    /\ UNCHANGED <<rows, op, external, req, faults>>

\* A member is handed a credential for the connection (see LeaseIssuance), or
\* the last one is revoked or expires.
IssueLease(c) ==
    /\ "lease" \in scenario.with /\ ~Leased(c)
    /\ conn[c].exists /\ ~conn[c].pending /\ conn[c].claim = NoOne /\ current
    /\ conn[c].branch = "side" => AccessReady /\ side = "ready"
    /\ lease' = [lease EXCEPT ![c] = conn[c].branch]
    /\ UNCHANGED <<scenario, live, current, receipt, conn, op, external, req, faults>>

LeaseEnds(c) ==
    /\ Leased(c)
    /\ lease' = [lease EXCEPT ![c] = NoOne]
    /\ UNCHANGED <<scenario, live, current, receipt, conn, op, external, req, faults>>

=============================================================================
