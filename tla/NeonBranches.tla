---------------------------- MODULE NeonBranches ----------------------------
(***************************************************************************)
(* Executing Neon branch operations                                        *)
(* (workspace-cloud/lib/providers/neon-branch-operations): requests that   *)
(* claim an approved plan, cross the remote-start fence, call the provider *)
(* and reconcile with what it shows, while other requests retry, die or    *)
(* answer late, the plan expires and authority is lost.                     *)
(***************************************************************************)
EXTENDS ProviderOperations

Kind(r) == req[r].kind

Answer(r) == req' = [req EXCEPT ![r] = NoRequest]

Goes(r, pc) == req' = [req EXCEPT ![r].pc = pc]

Observes(r, o, pc) == req' = [req EXCEPT ![r].obs = o, ![r].pc = pc]

Sees(status, branch, access) ==
    [status |-> status, branch |-> branch, operation |-> FALSE, access |-> access,
     databases |-> FALSE, fence |-> FALSE]

\* The answer to the call, which alone tells what operation the provider started
SeesOperation(access) == [Sees("pending", TRUE, access) EXCEPT !.operation = TRUE]

-----------------------------------------------------------------------------
(* From the approved plan to the remote-start fence. *)

\* What one execute command does first: nothing to do for a finished
\* operation, an expired plan is closed, a live plan is revalidated against
\* the provider and claimed, a started operation is only reconciled.
Begin(r, m, k) ==
    /\ req[r].pc = "idle" /\ Manager(m)
    /\ k = "switch" => conn["moving"].exists /\ ~conn["moving"].pending
    /\ \E pc \in {"cancel", "claim", "observe", "gate"} :
        /\ CASE pc = "cancel"  -> op[k].state \in {"approved", "claimed"} /\ op[k].expired
             [] pc = "claim"   -> op[k].state \in {"approved", "claimed"} /\ ~op[k].expired
                                  /\ PlanUnchanged(k)
             [] pc = "observe" -> k # "switch" /\ (op[k].state \in Started \/ NeedsFence(k))
             [] pc = "gate"    -> k = "switch" /\ op[k].state \in Started
        /\ req' = [req EXCEPT ![r] = [NoRequest EXCEPT !.pc = pc, !.kind = k, !.member = m,
                                                       !.late = op[k].overdue]]
    /\ UNCHANGED <<rows, op, conn, external, faults>>

CancelExpired(r) ==
    /\ req[r].pc = "cancel"
    /\ op' = IF Cancellable(Kind(r)) /\ Manager(req[r].member)
             THEN [op EXCEPT ![Kind(r)].state = "cancelled"] ELSE op
    /\ Answer(r)
    /\ UNCHANGED <<rows, conn, external, faults>>

Claim(r) ==
    /\ req[r].pc = "claim"
    /\ IF Claimable(req[r].member, Kind(r))
       THEN /\ op' = IF op[Kind(r)].state = "approved"
                     THEN [op EXCEPT ![Kind(r)].state = "claimed"] ELSE op
            /\ Goes(r, "mark")
       ELSE op' = op /\ Answer(r)
    /\ UNCHANGED <<rows, conn, external, faults>>

\* Mutant: every request that passes the fence believes it started the operation.
AfterFence_All(k) == IF k = "switch" THEN "gate" ELSE "send"

\* startedNow: only the statement that left `claimed` may call the provider
AfterFence(k) ==
    IF k = "switch" THEN "gate"
    ELSE IF op[k].state = "claimed" THEN "send" ELSE "observe"

MarkRemoteStarted(r) ==
    LET k == Kind(r) IN
    /\ req[r].pc = "mark"
    /\ \/ /\ Startable(req[r].member, k)
          /\ op[k].state = "claimed" /\ op[k].expired
          /\ op' = [op EXCEPT ![k].state = "cancelled"]
          /\ Answer(r)
       \/ /\ Startable(req[r].member, k)
          /\ op[k].state = "claimed" => ~op[k].expired
          /\ op' = IF op[k].state = "claimed" THEN [op EXCEPT ![k].state = "remote_started"] ELSE op
          /\ Goes(r, AfterFence(k))
       \/ /\ ~Startable(req[r].member, k)
          /\ op' = op /\ Answer(r)
    /\ UNCHANGED <<rows, conn, external, faults>>

-----------------------------------------------------------------------------
(* The provider call.  It takes effect once, at once or late, or is refused;
   the response may be lost, or be an error, whatever it did. *)

\* createNeonBranch, deleteNeonBranch: the POST or DELETE leaves
Send(r) ==
    /\ req[r].pc = "send"
    /\ wire' = [wire EXCEPT ![Kind(r)] = "sent"]
    /\ req' = [req EXCEPT ![r].pc = "await", ![r].tries = @ + 1]
    /\ UNCHANGED <<rows, op, conn, side, inherited, landed, faults>>

\* external: the call takes effect, and is answered so or with a server error or
\* an unexpected status.  A branch copied with its data inherits the source's
\* roles, temporary ones included.
Lands(k) ==
    /\ wire[k] = "sent"
    /\ \E how \in {"accepted", "errored"} : wire' = [wire EXCEPT ![k] = how]
    /\ landed' = [landed EXCEPT ![k] = @ + 1]
    /\ IF k = "create"
       THEN side' = "creating" /\ inherited' \in BOOLEAN
       ELSE side' = "deleting" /\ inherited' = inherited
    /\ UNCHANGED <<rows, op, conn, req, faults>>

\* external: 423 or 503, which promise that nothing happened, or another refusal
Refuses(k) ==
    /\ wire[k] = "sent"
    /\ \E how \in {"locked", "refused"} : wire' = [wire EXCEPT ![k] = how]
    /\ UNCHANGED <<rows, op, conn, side, inherited, landed, req, faults>>

\* external: the branch finishes being created, or deleted, or its operation fails
Settles ==
    /\ \/ side = "creating" /\ side' \in {"ready", "broken"}
       \/ side = "deleting" /\ side' \in {"gone", "kept"}
    /\ UNCHANGED <<rows, op, conn, inherited, wire, landed, req, faults>>

\* What the request makes of the response, of an error and of silence.  An error
\* that is not known to be safe to retry may hide a branch that was created; a
\* deletion answered with any error has failed, whatever it did.
CreateReceipt(answer) ==
    CASE answer = "accepted" -> SeesOperation("waiting_for_provider")
      [] answer = "locked"   -> Sees("failed", FALSE, "unavailable")
      [] OTHER -> Sees("missing", FALSE, "waiting_for_provider")

DeleteReceipt(answer) ==
    IF answer = "accepted" THEN SeesOperation("unavailable")
                           ELSE Sees("failed", FALSE, "unavailable")

Receipt(k) == IF k = "create" THEN CreateReceipt(wire[k]) ELSE DeleteReceipt(wire[k])

\* Mutant: silence is taken for a refusal.
Silence_IsRefusal(k) == Sees("failed", FALSE, "unavailable")

Silence(k) == IF k = "create" THEN Sees("missing", FALSE, "waiting_for_provider")
              ELSE Sees("pending", TRUE, "unavailable")

\* Mutant: a locked project is asked until it answers.
Receive_UntilAnswered(r) ==
    LET k == Kind(r) IN
    /\ req[r].pc = "await"
    /\ \/ wire[k] = "locked" /\ Goes(r, "send")
       \/ wire[k] \notin {"sent", "locked"} /\ Observes(r, Receipt(k), "record")
       \/ Observes(r, Silence(k), "record")
    /\ UNCHANGED <<rows, op, conn, external, faults>>

\* A locked project is asked a second time, once.
Receive(r) ==
    LET k == Kind(r) IN
    /\ req[r].pc = "await"
    /\ \/ /\ wire[k] = "locked" /\ req[r].tries = 1
          /\ Goes(r, "send")
       \/ /\ wire[k] # "sent" /\ (wire[k] = "locked" => req[r].tries = 2)
          /\ Observes(r, Receipt(k), "record")
       \/ Observes(r, Silence(k), "record")
    /\ UNCHANGED <<rows, op, conn, external, faults>>

-----------------------------------------------------------------------------
(* Reconciliation. *)

FencedBranch ==
    [Sees("ready", TRUE, "bootstrap_required") EXCEPT !.databases = TRUE, !.fence = TRUE]

\* Mutant: inherited roles are not looked for.
CreateObservation_NoFence ==
    CASE side = "absent"   -> Sees("missing", FALSE, "waiting_for_provider")
      [] side = "creating" -> Sees("pending", TRUE, "waiting_for_provider")
      [] side = "ready"    -> FencedBranch
      [] OTHER -> Sees("failed", TRUE, "needs_repair")

\* reconcileNeonBranchCreate and retireInheritedNeonLeaseRoles: a branch that
\* still has an inherited role is a conflict; one that came out broken is seen to
\* have failed only by the provider's operation, when its receipt was recorded
CreateObservation ==
    CASE side = "absent"   -> Sees("missing", FALSE, "waiting_for_provider")
      [] side = "creating" \/ (side = "broken" /\ ~op["create"].operation) ->
            Sees("pending", TRUE, "waiting_for_provider")
      [] side = "ready" /\ "checkpoint" \in scenario.with ->
            [Sees("ready", TRUE, "not_requested") EXCEPT !.databases = TRUE]
      [] side = "ready" /\ "checkpoint" \notin scenario.with /\ ~inherited -> FencedBranch
      [] side = "broken" /\ op["create"].operation -> Sees("failed", TRUE, "needs_repair")
      [] OTHER -> Sees("conflict", TRUE, "needs_repair")

\* reconcileNeonBranchDelete, which can ask for the provider's operation only
\* when its receipt was recorded, and the request's own two-minute cutoff
DeleteObservation(late) ==
    CASE side = "gone" -> Sees("ready", TRUE, "unavailable")
      [] side = "kept" /\ op["delete"].operation -> Sees("failed", TRUE, "unavailable")
      [] OTHER -> Sees(IF late THEN "conflict" ELSE "pending", TRUE, "unavailable")

Observe(r) ==
    /\ req[r].pc = "observe"
    /\ Observes(r, IF Kind(r) = "create" THEN CreateObservation
                   ELSE DeleteObservation(req[r].late), "apply")
    /\ UNCHANGED <<rows, op, conn, external, faults>>

\* applyProviderOperationReconciliation.  An observation it does not accept
\* throws; a receipt that leaves the operation reconciling is followed by the
\* first reconciliation, unless the create was not answered.
Apply(r) ==
    LET k == Kind(r)
        o == req[r].obs
        ok == ValidObservation(o) /\ Applicable(req[r].member, k, o)
    IN
    /\ req[r].pc \in {"record", "apply"}
    /\ op' = IF ok THEN Reconciled(k, o) ELSE op
    /\ IF req[r].pc = "record" /\ ok /\ TargetState(k, o) = "reconciling" /\ o.status # "missing"
       THEN Goes(r, "observe")
       ELSE Answer(r)
    /\ UNCHANGED <<rows, conn, external, faults>>

\* A request dies, or a statement or provider call of it fails.
Fails(r) ==
    /\ req[r].pc # "idle" /\ faults < scenario.faults
    /\ faults' = faults + 1
    /\ Answer(r)
    /\ UNCHANGED <<rows, op, conn, external>>

=============================================================================
