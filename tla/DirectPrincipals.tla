-------------------------- MODULE DirectPrincipals --------------------------
(***************************************************************************)
(* The control plane's side of a direct shared database: one provisioned   *)
(* connection, one member, the member's grant, the receipt of the database *)
(* account made for the member (the principal), the pending revocation     *)
(* items that cap it, and the rows' guarded updates                        *)
(* (workspace-cloud/lib/workspace-direct-access-store.ts and its routes).  *)
(*                                                                         *)
(* Abstractions.  The endpoint allows writes and keeps its scope, as in    *)
(* the code, where nothing changes either after creation; the member is an *)
(* editor, so a grant's capability alone decides the level.  Versions of   *)
(* the verifier are reduced to whether the applied one is the latest.      *)
(* Item kinds are the lowering and the removal of a grant and the          *)
(* departure of the member; a settled item is forgotten.                   *)
(***************************************************************************)
EXTENDS Naturals, Sequences, FiniteSets, SequencesExt

CONSTANTS
    Devices,       \* devices of administrators, each with the credential
    MaxPrincipals, \* bound: accounts requested one after another
    MaxChanges,    \* bound: decisions of administrators and of the member
    Scenarios      \* records [items, withdraw, devices, regrant, faults]

ASSUME BoundsAssumption == MaxPrincipals \in Nat \ {0} /\ MaxChanges \in Nat

ASSUME ScenariosAssumption ==
    \A s \in Scenarios :
        /\ DOMAIN s = {"items", "withdraw", "devices", "regrant", "faults"}
        /\ s.devices \subseteq Devices
        /\ s.withdraw \in BOOLEAN /\ s.regrant \in BOOLEAN
        /\ s.faults \subseteq {"crash", "refuse", "overrun"}

VARIABLES
    scenario,   \* what may happen in this behaviour
    changes,    \* decisions taken so far
    grant,      \* the member's capability on the connection
    gate,       \* the member row is revocation-pending
    left,       \* the member row is gone
    principal,  \* the latest principal row
    pending,    \* pending revocation items, oldest first
    submission  \* the member's upload of a verifier: "none" or "checked"

controlVars ==
    <<scenario, changes, grant, gate, left, principal, pending, submission>>

Level == [absent |-> "none", read |-> "read", use |-> "write"]
Rank == [none |-> 0, read |-> 1, write |-> 2]

LowerGrant == [kind |-> "grant_lowered", target |-> "read"]
RemoveGrant == [kind |-> "grant_lowered", target |-> "none"]
SelfLeft == [kind |-> "self_leave", target |-> "none"]

\* A row of workspace_direct_principal; number 0 stands for no row yet.
\* holder and live are applied_by_device_id and an unexpired lease, identified
\* that server_role_oid is recorded.
NoPrincipal ==
    [number |-> 0, state |-> "dropped", applied |-> "none", current |-> FALSE,
     identified |-> FALSE, holder |-> "nobody", live |-> FALSE]

Requested(n) ==
    [NoPrincipal EXCEPT !.number = n, !.state = "requested"]

Live == principal.state # "dropped"

-----------------------------------------------------------------------------
(***************************************************************************)
(* The level the member should have, and the work that follows from it.    *)
(***************************************************************************)
Capped(level) ==
    LET caps == {item.target : item \in ToSet(pending)}
    IN  IF "none" \in caps THEN "none"
        ELSE IF "read" \in caps /\ level = "write" THEN "read" ELSE level

Desired == Capped(IF left \/ gate THEN "none" ELSE Level[grant])

Claimed == principal.state \in {"applying", "drop_pending"} /\ principal.live

Converged ==
    principal.state = "ready" /\ principal.applied = Desired /\ principal.current

\* Mutant: a failed account waits for a new request even when it must be dropped.
WorkAction_FailedWaits ==
    CASE ~Live -> "unlisted"
      [] Live /\ (Claimed \/ principal.state = "failed" \/ Converged) -> "idle"
      [] OTHER -> IF Desired = "none" THEN "drop" ELSE "apply"

\* listDirectWorkItems: what the work list says of the principal
WorkAction ==
    CASE ~Live -> "unlisted"
      [] Live /\ Desired = "none" -> IF Claimed THEN "idle" ELSE "drop"
      [] OTHER -> IF Claimed \/ principal.state = "failed" \/ Converged
                  THEN "idle" ELSE "apply"

\* The state a claim by d would move the listed principal to, or "none".
ClaimTarget(d) ==
    CASE WorkAction = "apply" -> "applying"
      [] WorkAction = "drop" -> "drop_pending"
      [] WorkAction = "idle" /\ principal.holder = d
         /\ principal.state \in {"applying", "drop_pending"} -> principal.state
      [] OTHER -> "none"

\* The guard of the claim's update.
Claimable(d, to) ==
    /\ Live
    /\ to = "applying" => principal.state # "drop_pending"
    /\ Claimed => principal.holder = d

\* Mutant: only the recorded level counts, not the one being applied.
LoweringBlocked_Recorded(level) ==
    Live /\ Rank[principal.applied] > Rank[level]

\* Whether the recorded level, or a claim that may be raising it, forbids the
\* member's access to be lowered to level.
LoweringBlocked(level) ==
    /\ Live
    /\ \/ Rank[principal.applied] > Rank[level]
       \/ principal.state = "applying" /\ principal.live

\* Every change of the grant settles the administrators' items: applied when
\* the new level satisfies them, cancelled otherwise.
SettleAfterMutation ==
    IF SelfLeft \in ToSet(pending) THEN <<SelfLeft>> ELSE <<>>

-----------------------------------------------------------------------------
(***************************************************************************)
(* The member.                                                             *)
(***************************************************************************)
Decide == changes < MaxChanges /\ changes' = changes + 1

\* PUT principal, up to the check that no revocation is pending.
CheckSubmission ==
    /\ submission = "none" /\ Decide
    /\ ~left /\ ~gate /\ grant # "absent"
    /\ pending = <<>>
    /\ submission' = "checked"
    /\ UNCHANGED <<scenario, grant, gate, left, principal, pending>>

\* Mutant: a drop in flight does not keep the member from a fresh row.
SubmitVerifier_WhileDropping ==
    /\ submission = "checked"
    /\ principal.number < MaxPrincipals
    /\ submission' = "none"
    /\ principal' =
         CASE principal.state \in {"drop_pending", "dropped"} ->
                Requested(principal.number + 1)
           [] principal.state \in {"requested", "ready", "failed"} ->
                [principal EXCEPT !.state = "requested", !.current = FALSE]
           [] OTHER -> principal
    /\ UNCHANGED <<scenario, changes, grant, gate, left, pending>>

\* PUT principal, the write: a new row, or a new verifier in a row that no
\* device is changing; otherwise the member is told to retry.
SubmitVerifier ==
    /\ submission = "checked"
    /\ ~Live => principal.number < MaxPrincipals
    /\ submission' = "none"
    /\ principal' =
         CASE ~Live -> Requested(principal.number + 1)
           [] principal.state \in {"requested", "ready", "failed"} ->
                [principal EXCEPT !.state = "requested", !.current = FALSE]
           [] OTHER -> principal
    /\ UNCHANGED <<scenario, changes, grant, gate, left, pending>>

\* The membership row is deleted by the member; a trigger of the control
\* plane's database records the item.
SelfLeave ==
    /\ ~left /\ Decide
    /\ left' = TRUE
    /\ grant' = "absent"
    /\ gate' = FALSE
    /\ pending' = IF Live /\ pending = <<>> THEN <<SelfLeft>> ELSE pending
    /\ UNCHANGED <<scenario, principal, submission>>

-----------------------------------------------------------------------------
(***************************************************************************)
(* Administrators' requests that need no device.                           *)
(***************************************************************************)
\* POST grants.
IncreaseConnectionGrant(capability) ==
    /\ ~left /\ ~gate /\ scenario.withdraw /\ Decide
    /\ Rank[Level[grant]] <= Rank[Level[capability]]
    /\ grant' = capability
    /\ pending' = SettleAfterMutation
    /\ UNCHANGED <<scenario, gate, left, principal, submission>>

\* PATCH grants: no gate on a provisioned connection, only the lowering guard.
\* It settles a pending removal too, and so withdraws it.
CanLowerGrant ==
    ~left /\ ~gate /\ grant = "use" /\ ~LoweringBlocked("read")

LowerConnectionGrant ==
    /\ CanLowerGrant /\ Decide
    /\ RemoveGrant \in ToSet(pending) => scenario.withdraw
    /\ grant' = "read"
    /\ pending' = SettleAfterMutation
    /\ UNCHANGED <<scenario, gate, left, principal, submission>>

\* Mutant: every request records an item.
Recorded_Again(item) ==
    IF Live THEN Append(pending, item) ELSE pending

\* POST revocations: the intent, unless the same item is already pending.
Recorded(item) ==
    IF Live /\ item \notin ToSet(pending) THEN Append(pending, item) ELSE pending

\* The lowerings the administration screen offers for the current grant.
Offered(item) ==
    /\ item \in scenario.items /\ ~left
    /\ grant \in (IF item = LowerGrant THEN {"use"} ELSE {"read", "use"})

\* An administrator without the credential at hand records the item and stops.
DeferRevocation(item) ==
    /\ Offered(item) /\ Live /\ Decide
    /\ pending' = Recorded(item)
    /\ UNCHANGED <<scenario, grant, gate, left, principal, submission>>

\* POST revocations/[id] with "cancelled".
CancelRevocation(item) ==
    /\ item \in ToSet(pending) /\ scenario.withdraw /\ Decide
    /\ pending' = RemoveFirst(pending, item)
    /\ UNCHANGED <<scenario, grant, gate, left, principal, submission>>
=============================================================================
