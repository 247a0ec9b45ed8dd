---------------------------- MODULE BranchSwitch ----------------------------
(***************************************************************************)
(* The second half of a branch switch                                      *)
(* (workspace-cloud/lib/providers/neon-branch-operations/switch.ts): the   *)
(* connection's revocation gate is claimed, its leases are drained, the    *)
(* target is read again and completeNeonBranchSwitch moves the connection, *)
(* or the gate is given back and the operation is sent to repair.          *)
(***************************************************************************)
EXTENDS NeonBranches

moving == conn["moving"]

\* claimRevocationGate bumps the revision only when it raises the gate.  A
\* revision other than the plan's successor means the connection changed.
ClaimGate(r) ==
    LET first == ~moving.pending
        revision == IF first THEN moving.revision + 1 ELSE moving.revision
        free == moving.exists /\ (moving.claim = NoOne \/ moving.stale)
    IN
    /\ req[r].pc = "gate"
    /\ conn' = IF free
               THEN [conn EXCEPT !["moving"] = [@ EXCEPT !.revision = revision, !.pending = TRUE,
                                                         !.claim = r, !.stale = FALSE]]
               ELSE conn
    /\ IF ~free THEN Answer(r)
       ELSE Goes(r, IF revision = op["switch"].revision + 1 THEN "drain"
                    ELSE IF first THEN "clear" ELSE "unclaim")
    /\ UNCHANGED <<rows, op, external, faults>>

\* The claim's five minutes pass.
GateGoesStale ==
    /\ moving.claim # NoOne /\ ~moving.stale
    /\ conn' = [conn EXCEPT !["moving"].stale = TRUE]
    /\ UNCHANGED <<rows, op, external, req, faults>>

\* revokeActiveLeases: the provider revokes the leases, or one is deferred or throws
Drain(r) ==
    /\ req[r].pc = "drain"
    /\ \/ /\ lease' = [lease EXCEPT !["moving"] = NoOne]
          /\ Goes(r, "target")
       \/ /\ Leased("moving")
          /\ lease' = lease
          /\ Goes(r, "release")
    /\ UNCHANGED <<scenario, live, current, receipt, op, conn, external, faults>>

\* liveSwitchTargetContext and revalidateNeonBranchSwitchTarget
Target(r) ==
    /\ req[r].pc = "target"
    /\ Goes(r, IF side = "ready" /\ AccessReady THEN "commit" ELSE "clear")
    /\ UNCHANGED <<rows, op, conn, external, faults>>

\* Mutant: the statement trusts the connection's revision.
EmptyEpoch_Revision(r) == TRUE

\* The old lease epoch is empty and owned by this very claim.
EmptyEpoch(r) == moving.pending /\ moving.claim = r /\ ~Leased("moving")

Committable(r) ==
    /\ op["switch"].state \in Started
    /\ Manager(req[r].member)
    /\ On("moving", "main") /\ ~On("imported", "side")
    /\ moving.revision = op["switch"].revision + 1
    /\ EmptyEpoch(r)

\* completeNeonBranchSwitch: gate, connection and operation in one batch.  Its
\* answer may be lost, but releasing the claim then finds nothing to release.
Commit(r) ==
    /\ req[r].pc = "commit"
    /\ \/ /\ Committable(r)
          /\ op' = [op EXCEPT !["switch"] = [@ EXCEPT !.state = "succeeded", !.access = "ready",
                                                      !.recorded = TRUE]]
          /\ conn' = [conn EXCEPT !["moving"] = [@ EXCEPT !.branch = "side", !.pending = FALSE,
                                                          !.claim = NoOne, !.stale = FALSE]]
          /\ Answer(r)
          /\ faults' = faults
       \/ /\ ~Committable(r)
          /\ Goes(r, "clear")
          /\ UNCHANGED <<op, conn, faults>>
       \/ /\ faults < scenario.faults
          /\ faults' = faults + 1
          /\ Goes(r, "release")
          /\ UNCHANGED <<op, conn>>
    /\ UNCHANGED <<rows, external>>

\* What updateClaim leaves of the gate when r still owns its claim
GateWithout(r, pending) ==
    IF moving.pending /\ moving.claim = r
    THEN [conn EXCEPT !["moving"] = [@ EXCEPT !.pending = pending, !.claim = NoOne, !.stale = FALSE]]
    ELSE conn

\* releaseRevocationGateClaim before an answer
Release(r) ==
    /\ req[r].pc = "release"
    /\ conn' = GateWithout(r, TRUE)
    /\ Answer(r)
    /\ UNCHANGED <<rows, op, external, faults>>

\* clearRevocationGate or releaseRevocationGateClaim before the operation is
\* sent to repair.  Their own failure is swallowed.
GiveUp(r) ==
    /\ req[r].pc \in {"clear", "unclaim"}
    /\ Observes(r, Sees("conflict", TRUE, "needs_repair"), "apply")
    /\ \/ conn' = GateWithout(r, req[r].pc = "unclaim") /\ faults' = faults
       \/ conn' = conn /\ faults < scenario.faults /\ faults' = faults + 1
    /\ UNCHANGED <<rows, op, external>>

=============================================================================
