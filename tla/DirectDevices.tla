--------------------------- MODULE DirectDevices ---------------------------
(***************************************************************************)
(* The administrators' devices of a direct shared database and the roles   *)
(* they keep on the database server                                        *)
(* (src-tauri/src/features/direct_access/sync.rs and revocation.rs).       *)
(*                                                                         *)
(* A device runs one thing at a time (device_lock): a synchronization pass *)
(* of the background worker, or the revocation an administrator asked for. *)
(* Each call to the control plane and each plan run on the database is a   *)
(* step of its own, so passes of two devices interleave between them.      *)
(*                                                                         *)
(* The database is PostgreSQL, which runs a plan in one transaction; a     *)
(* role is the set of privileges it holds.  A lease runs out by the clock, *)
(* also under a holder who is still working: nothing renews it during the  *)
(* work, and neither a plan nor a receipt asks whether it is still live.   *)
(***************************************************************************)
EXTENDS DirectPrincipals

VARIABLES
    roles,   \* per principal: its role's privileges, or Absent
    strayed, \* history: a role gained privileges no record accounts for
    devices  \* per device: what it is doing

serverVars == <<roles, strayed>>
vars == <<controlVars, serverVars, devices>>

Absent == {"absent"}
Privileges ==
    [none |-> {}, read |-> {"select"}, write |-> {"select", "modify"}]

\* A device's memory: its step, the task it is on, the number of the principal
\* its work list names (0 for none), the entries it handles, how many of them
\* it has handled and which of those it revoked, the claimed item, and the
\* effect its plan had.
NoItem == [state |-> "none", applied |-> "none", desired |-> "none",
           identified |-> FALSE]
Resting ==
    [step |-> "idle", task |-> "none", listed |-> 0, entries |-> <<>>,
     handled |-> 0, revoked |-> {}, to |-> "none", item |-> NoItem,
     effect |-> "none", regrant |-> "none"]

\* A statement that lowers or raises a role from one level to another.
Changed(role, from, to) ==
    (role \union (Privileges[to] \ Privileges[from]))
        \ (Privileges[from] \ Privileges[to])

Granted(role, level) == role \union Privileges[level]

Provable(item, role) ==
    role # Absent /\ (item.identified \/ item.state = "applying")

-----------------------------------------------------------------------------
(***************************************************************************)
(* What a plan does to the role, and what the device reports of it.        *)
(***************************************************************************)
Outcome(role, effect) == [role |-> role, effect |-> effect]

\* try_apply: provision an account that was never recorded, else reconcile it.
Applied(item, role) ==
    IF item.desired = "none" THEN Outcome(role, "failed")
    ELSE IF item.applied = "none"
    THEN IF item.state # "applying" THEN Outcome(role, "failed")
         ELSE Outcome(Granted(role \ Absent, item.desired), "applied")
    ELSE IF ~Provable(item, role) THEN Outcome(role, "failed")
    ELSE Outcome(IF item.applied = item.desired THEN Granted(role, item.desired)
                 ELSE Changed(role, item.applied, item.desired), "applied")

\* Dropping takes the recorded privileges away first; PostgreSQL then refuses
\* to drop a role that still holds others.
Dropped(item, role) ==
    IF role = Absent THEN Outcome(Absent, "dropped")
    ELSE IF ~Provable(item, role) THEN Outcome(role, "failed")
    ELSE LET rest == role \ Privileges[item.applied]
         IN  IF rest = {} THEN Outcome(Absent, "dropped")
             ELSE Outcome(rest, "failed")

Lowered(item, role, target) ==
    IF Rank[item.applied] <= Rank[target] THEN Outcome(role, "unchanged")
    ELSE IF ~Provable(item, role) THEN Outcome(role, "failed")
    ELSE Outcome(Changed(role, item.applied, target), "lowered")

\* The entry a device is revoking, and the level its plan aims at.
Entry(device) == device.entries[device.handled + 1]
Target(device) ==
    IF device.task = "revoke" THEN Entry(device).target ELSE "none"

Plan(device, role) ==
    IF device.task = "apply" THEN Applied(device.item, role)
    ELSE IF Target(device) = "none" THEN Dropped(device.item, role)
    ELSE Lowered(device.item, role, Target(device))

\* The plan may fail: nothing is done, or everything is and the answer to the
\* commit, or the look at the result, does not arrive; a drop may also stop
\* after it has taken the privileges away.
Refused(device, role) ==
    {Outcome(role, "failed"), Outcome(Plan(device, role).role, "failed")} \union
    (IF device.task # "apply" /\ Target(device) = "none"
        /\ Provable(device.item, role)
     THEN {Outcome(role \ Privileges[device.item.applied], "failed")} ELSE {})

-----------------------------------------------------------------------------
(***************************************************************************)
(* The history: privileges are gained in good order when the device holds  *)
(* the live claim to apply them and its receipt arrives while it does.     *)
(***************************************************************************)
Gains(before, after) == (after \ before) \ Absent # {}

HoldsToApply(d) ==
    /\ principal.number = devices[d].listed /\ principal.holder = d
    /\ principal.state = "applying" /\ principal.live

\* Device d has applied a level and its receipt is still to come.
Unreported(d) == devices[d].step = "acted" /\ devices[d].effect = "applied"

-----------------------------------------------------------------------------
(***************************************************************************)
(* One pass: list, derive and claim, run the plan, answer; then the        *)
(* pending entries the list named.                                         *)
(***************************************************************************)
Moves(d, device) == devices' = [devices EXCEPT ![d] = device]

Listed == IF Live THEN principal.number ELSE 0

\* After the work item come the pending entries, then the re-grant.
AfterItem(device) ==
    IF device.entries # <<>>
    THEN [device EXCEPT !.task = "revoke", !.step = "listed", !.item = NoItem,
                        !.to = "none", !.effect = "none"]
    ELSE IF device.regrant # "none" THEN [device EXCEPT !.step = "regranting"]
    ELSE Resting

\* sync_once: read the work list.  A re-grant is due on every tenth poll, for
\* an item listed as ready, with no pending entry, that the pass does not claim.
SyncOnce(d) ==
    /\ d \in scenario.devices /\ devices[d].step = "idle"
    /\ \E regrant \in {"none"} \union
                      (IF scenario.regrant /\ principal.state = "ready"
                          /\ pending = <<>>
                       THEN {principal.applied} ELSE {}) :
         LET begun == [Resting EXCEPT !.listed = Listed, !.entries = pending,
                                      !.regrant = regrant]
         IN  /\ WorkAction \in {"apply", "drop"} \/ pending # <<>>
                \/ regrant # "none"
             /\ Moves(d, IF WorkAction \in {"apply", "drop"}
                         THEN [begun EXCEPT !.step = "listed",
                                            !.task = WorkAction]
                         ELSE AfterItem(begun))
    /\ UNCHANGED <<controlVars, serverVars>>

\* revoke_apply, step 1: record the item; a member without a live principal
\* has nothing to revoke, now or later in the request.
RevokeApply(d, item) ==
    /\ d \in scenario.devices /\ devices[d].step = "idle"
    /\ Offered(item) /\ Decide
    /\ pending' = Recorded(item)
    /\ Moves(d, [Resting EXCEPT !.step = "recorded", !.entries = <<item>>,
                                !.listed = Listed])
    /\ UNCHANGED <<scenario, grant, gate, left, principal, submission, serverVars>>

\* revoke_apply, step 2: open the database and read the work list.
Prepare(d) ==
    /\ devices[d].step = "recorded"
    /\ Moves(d, [devices[d] EXCEPT !.step = "listed", !.task = "revoke",
                                   !.listed = IF @ = 0 THEN 0 ELSE Listed])
    /\ UNCHANGED <<controlVars, serverVars>>

\* All entries are handled: those revoked have their queued change performed.
Finish(device) ==
    IF device.listed = 0
    THEN [device EXCEPT !.step = "changing",
                        !.revoked = 1..Len(device.entries)]
    ELSE [device EXCEPT !.step = "changing"]

NotClaimed(device) ==
    IF device.task = "revoke" THEN Resting ELSE AfterItem(device)

Derive(d) ==
    LET device == devices[d]
    IN  /\ device.step = "listed"
        /\ Moves(d, IF device.listed = 0 THEN Finish(device)
                    ELSE IF device.listed # principal.number
                            \/ ClaimTarget(d) = "none" THEN NotClaimed(device)
                    ELSE [device EXCEPT !.step = "derived",
                                        !.to = ClaimTarget(d)])
        /\ UNCHANGED <<controlVars, serverVars>>

\* The guarded update, and the item as it is read back.
Claim(d) ==
    LET device == devices[d]
    IN  /\ device.step = "derived"
        /\ IF device.listed = principal.number /\ Claimable(d, device.to)
           THEN /\ principal' = [principal EXCEPT !.state = device.to,
                                                  !.holder = d, !.live = TRUE]
                /\ Moves(d, [device EXCEPT !.step = "holding", !.regrant = "none",
                      !.item = [state |-> device.to, desired |-> Desired,
                                applied |-> principal.applied,
                                identified |-> principal.identified]])
           ELSE Moves(d, NotClaimed(device)) /\ UNCHANGED principal
        /\ UNCHANGED <<scenario, changes, grant, gate, left, pending,
                       submission, serverVars>>

\* The next entry of the claimed principal, or the end of them.
NextEntry(device, wasRevoked) ==
    LET done == [device EXCEPT !.handled = @ + 1, !.effect = "none",
                   !.revoked = IF wasRevoked THEN @ \union {device.handled + 1}
                               ELSE @]
    IN  IF done.handled < Len(device.entries)
        THEN [done EXCEPT !.step = "holding"] ELSE Finish(done)

Ran(d, outcome) ==
    /\ roles' = [roles EXCEPT ![devices[d].listed] = outcome.role]
    /\ strayed' = (strayed \/ /\ Gains(roles[devices[d].listed], outcome.role)
                              /\ ~(outcome.effect = "applied" /\ HoldsToApply(d)))
    /\ Moves(d, IF outcome.effect = "unchanged"
                THEN NextEntry(devices[d], TRUE)
                ELSE [devices[d] EXCEPT !.step = "acted",
                                        !.effect = outcome.effect])

Execute(d) ==
    /\ devices[d].step = "holding"
    /\ Ran(d, Plan(devices[d], roles[devices[d].listed]))
    /\ UNCHANGED controlVars

ExecuteRefused(d) ==
    /\ "refuse" \in scenario.faults /\ devices[d].step = "holding" /\ Decide
    /\ \E outcome \in Refused(devices[d], roles[devices[d].listed]) :
         Ran(d, outcome)
    /\ UNCHANGED <<scenario, grant, gate, left, principal, pending, submission>>

\* The receipt of the effect: the state it expects, and the row it leaves.
ReceiptFrom(device) ==
    CASE device.effect = "dropped" -> "drop_pending"
      [] device.effect = "failed" /\ device.task # "apply"
         /\ Target(device) = "none" -> "drop_pending"
      [] OTHER -> "applying"

\* Mutant: a failed receipt forgets the level that was recorded.
Settled_FailedForgets(device) ==
    LET released == [principal EXCEPT !.live = FALSE]
    IN  CASE device.effect = "applied" ->
               [released EXCEPT !.state = "ready", !.identified = TRUE,
                                !.applied = device.item.desired,
                                !.current = TRUE]
          [] device.effect = "lowered" ->
               [released EXCEPT !.state = "ready", !.identified = TRUE,
                                !.applied = Target(device)]
          [] device.effect = "dropped" ->
               [released EXCEPT !.state = "dropped", !.applied = "none"]
          [] OTHER -> [released EXCEPT !.state = "failed", !.applied = "none"]

Settled(device) ==
    LET released == [principal EXCEPT !.live = FALSE]
    IN  CASE device.effect = "applied" ->
               [released EXCEPT !.state = "ready", !.identified = TRUE,
                                !.applied = device.item.desired,
                                !.current = TRUE]
          [] device.effect = "lowered" ->
               [released EXCEPT !.state = "ready", !.identified = TRUE,
                                !.applied = Target(device)]
          [] device.effect = "dropped" ->
               [released EXCEPT !.state = "dropped", !.applied = "none"]
          [] OTHER -> [released EXCEPT !.state = "failed",
                                       !.applied = device.item.applied]

ReceiptMatches(d) ==
    /\ principal.number = devices[d].listed
    /\ principal.state = ReceiptFrom(devices[d])
    /\ principal.holder = d

\* A refused receipt ends the pass.
SettleReceipt(d) ==
    LET device == devices[d]
    IN  /\ device.step = "acted"
        /\ IF ReceiptMatches(d)
           THEN /\ principal' = Settled(device)
                /\ Moves(d, IF device.task = "revoke"
                            THEN NextEntry(device, device.effect # "failed")
                            ELSE AfterItem(device))
           ELSE Moves(d, Resting) /\ UNCHANGED principal
        /\ UNCHANGED <<scenario, changes, grant, gate, left, pending,
                       submission, serverVars>>

\* Re-grants what the work list said was applied, under no claim.
RegrantItem(d) ==
    LET device == devices[d]
        role == roles[device.listed]
        after == IF role = Absent THEN role ELSE Granted(role, device.regrant)
    IN  /\ device.step = "regranting"
        /\ roles' = [roles EXCEPT ![device.listed] = after]
        /\ strayed' = (strayed \/ /\ Gains(role, after)
                                  /\ ~(/\ principal.number = device.listed
                                       /\ principal.state = "ready"
                                       /\ principal.applied = device.regrant))
        /\ Moves(d, Resting)
        /\ UNCHANGED controlVars

-----------------------------------------------------------------------------
(***************************************************************************)
(* The changes queued with revoked entries.                                *)
(***************************************************************************)
\* The first revoked entry still to be committed, dealt with.
NextRevoked(device) == CHOOSE i \in device.revoked : \A j \in device.revoked : i <= j
Done(device) ==
    LET rest == device.revoked \ {NextRevoked(device)}
    IN  IF rest = {} THEN Resting
        ELSE [device EXCEPT !.revoked = rest, !.step = "changing"]

NothingToChange(d) ==
    /\ devices[d].step = "changing" /\ devices[d].revoked = {}
    /\ Moves(d, Resting)
    /\ UNCHANGED <<controlVars, serverVars>>

Changing(d, item) ==
    /\ devices[d].step = "changing" /\ devices[d].revoked # {}
    /\ devices[d].entries[NextRevoked(devices[d])] = item

\* The departed member's account is gone: the item is settled if the guard
\* agrees.
SettleLeave(d) ==
    /\ Changing(d, SelfLeft)
    /\ pending' = IF LoweringBlocked("none") THEN pending
                  ELSE RemoveFirst(pending, SelfLeft)
    /\ Moves(d, Done(devices[d]))
    /\ UNCHANGED <<scenario, changes, grant, gate, left, principal,
                   submission, serverVars>>

CommitLower(d) ==
    /\ Changing(d, LowerGrant)
    /\ grant' = IF CanLowerGrant THEN "read" ELSE grant
    /\ pending' = IF CanLowerGrant THEN SettleAfterMutation ELSE pending
    /\ Moves(d, Done(devices[d]))
    /\ UNCHANGED <<scenario, changes, gate, left, principal, submission, serverVars>>

\* DELETE grants closes the member gate first...
OpenGate(d) ==
    /\ Changing(d, RemoveGrant)
    /\ IF ~left /\ ~gate /\ ~LoweringBlocked("none")
       THEN gate' = TRUE /\ Moves(d, [devices[d] EXCEPT !.step = "removing"])
       ELSE Moves(d, Done(devices[d])) /\ UNCHANGED gate
    /\ UNCHANGED <<scenario, changes, grant, left, principal, pending,
                   submission, serverVars>>

\* ... removes the grant unless something changed...
CommitRemoval(d) ==
    /\ devices[d].step = "removing"
    /\ LET removed == ~left /\ gate /\ grant # "absent"
                      /\ ~LoweringBlocked("none")
       IN  /\ grant' = IF removed THEN "absent" ELSE grant
           /\ pending' = IF removed THEN SettleAfterMutation ELSE pending
    /\ Moves(d, [devices[d] EXCEPT !.step = "clearing"])
    /\ UNCHANGED <<scenario, changes, gate, left, principal, submission,
                   serverVars>>

\* ... and clears the gate.
ClearGate(d) ==
    /\ devices[d].step = "clearing"
    /\ gate' = FALSE
    /\ Moves(d, Done(devices[d]))
    /\ UNCHANGED <<scenario, changes, grant, left, principal, pending,
                   submission, serverVars>>

-----------------------------------------------------------------------------
\* The lease runs out, 120 seconds after the claim.  That its holder is still
\* working under it is a fault, and faults are few.
LeaseExpires ==
    /\ Claimed
    /\ IF devices[principal.holder].step \in {"holding", "acted"}
       THEN "overrun" \in scenario.faults /\ Decide
       ELSE UNCHANGED changes
    /\ principal' = [principal EXCEPT !.live = FALSE]
    /\ strayed' = (strayed \/ Unreported(principal.holder))
    /\ UNCHANGED <<scenario, grant, gate, left, pending, submission, roles,
                   devices>>

\* A device stops, or loses its connection to the control plane, and forgets
\* what it was doing; a member gate its request has closed stays closed.
Crash(d) ==
    /\ "crash" \in scenario.faults
    /\ devices[d].step # "idle"
    /\ Decide
    /\ Moves(d, Resting)
    /\ strayed' = (strayed \/ Unreported(d))
    /\ UNCHANGED <<scenario, grant, gate, left, principal, pending,
                   submission, roles>>
=============================================================================
