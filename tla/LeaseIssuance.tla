--------------------------- MODULE LeaseIssuance ---------------------------
(***************************************************************************)
(* One managed lease request: authorize, reserve a pending row, refresh    *)
(* the provider token when it must, create the credential at the provider, *)
(* finalize the row, check once more and hand the secret over              *)
(* (connections/[connectionId]/lease/route.ts, lease-issuance.ts,          *)
(* integration.ts).  The cleanup sweep each request runs before it         *)
(* reserves is a member of Sweepers.                                       *)
(***************************************************************************)
EXTENDS LeaseCleanup

NoRow == [kind |-> "none", mode |-> "read", expired |-> FALSE, revoked |-> FALSE,
          attempts |-> 0, claimed |-> FALSE, stale |-> FALSE]

NoIssue == [pc |-> "idle", mode |-> "read", role |-> "none", revision |-> 0, generation |-> 0,
            secret |-> FALSE]

Goto(l, pc) == iss' = [iss EXCEPT ![l].pc = pc]

\* The request has answered; nothing it read matters any more.
Answered(l) == iss' = [iss EXCEPT ![l] = [NoIssue EXCEPT !.pc = "done"]]

\* The route's reads: authorizeWorkspaceConnection, the connection row, the
\* active integration, and the checks on the requested mode.
AuthorizeLease(l) ==
    \E mode \in scenario.modes :
        /\ iss[l].pc = "idle"
        /\ Cardinality({x \in Leases : iss[x].pc # "idle"}) < scenario.leases
        /\ role # "none" /\ ~gate["member"].pending
        /\ ~conn.deleted /\ ~gate["connection"].pending /\ conn.managed
        /\ ConnectionGrantPredicate(mode) /\ CapabilityPredicate(mode)
        /\ integ.status = "active" /\ integ.refresh = "idle" /\ Open("integration")
        /\ iss' = [iss EXCEPT ![l] = [pc |-> "authorized", mode |-> mode, role |-> role,
                                      revision |-> conn.revision, generation |-> integ.generation,
                                      secret |-> FALSE]]
        /\ UNCHANGED <<scenario, provider, gate, role, grant, conn, integ, row, cred, req, work, sent>>

SchemaBusy(l) ==
    iss[l].mode = "schema" /\ \E x \in Leases : Unrevoked(x) /\ row[x].mode = "schema"

\* Mutant: the row is inserted on the strength of the earlier reads.
Reserve_NoRecheck(l) ==
    /\ iss[l].pc = "authorized"
    /\ row' = [row EXCEPT ![l] = [NoRow EXCEPT !.kind = "pending", !.mode = iss[l].mode]]
    /\ Goto(l, IF provider = "planetScale" /\ ~integ.fresh THEN "refresh" ELSE "reserved")
    /\ UNCHANGED <<scenario, provider, gate, role, grant, conn, integ, cred, req, work, sent>>

\* reserveManagedLeaseIfUnblocked (the five slots are never short in an
\* instance of fewer than six leases)
Reserve(l) ==
    /\ iss[l].pc = "authorized"
    /\ IF AuthorityPredicate(l) /\ ~SchemaBusy(l)
       THEN /\ row' = [row EXCEPT ![l] = [NoRow EXCEPT !.kind = "pending", !.mode = iss[l].mode]]
            /\ Goto(l, IF provider = "planetScale" /\ ~integ.fresh THEN "refresh" ELSE "reserved")
       ELSE row' = row /\ Answered(l)
    /\ UNCHANGED <<scenario, provider, gate, role, grant, conn, integ, cred, req, work, sent>>

-----------------------------------------------------------------------------
(* providerAccessToken: PlanetScale's rotating refresh token. *)

\* claimPlanetScaleCredentialRefresh; a stale `claimed` claim may be taken over
ClaimRefresh(l) ==
    /\ iss[l].pc = "refresh"
    /\ IF /\ role = iss[l].role /\ role = "admin" /\ Open("member")
          /\ integ.generation = iss[l].generation /\ integ.status = "active" /\ Open("integration")
          /\ integ.refresh = "idle" \/ (integ.refresh = "claimed" /\ integ.rstale)
       THEN /\ integ' = [integ EXCEPT !.refresh = "claimed", !.rclaim = <<l>>, !.rstale = FALSE,
                                      !.rgen = iss[l].generation]
            /\ Goto(l, "claimed")
       ELSE integ' = integ /\ Goto(l, "failed")
    /\ UNCHANGED <<scenario, provider, gate, role, grant, conn, row, cred, req, work, sent>>

OwnsRefresh(l) ==
    integ.generation = iss[l].generation /\ integ.rgen = iss[l].generation /\ integ.rclaim = <<l>>

\* Mutant: the token is sent without the durable mark.
StartRemoteRefresh_NoMark(l) ==
    /\ iss[l].pc = "claimed"
    /\ Goto(l, IF OwnsRefresh(l) THEN "remote" ELSE "failed")
    /\ UNCHANGED <<scenario, provider, gate, role, grant, conn, integ, row, cred, req, work, sent>>

\* markPlanetScaleCredentialRefreshRemoteStarted
StartRemoteRefresh(l) ==
    /\ iss[l].pc = "claimed"
    /\ IF OwnsRefresh(l) /\ integ.refresh = "claimed" /\ integ.status = "active" /\ Open("integration")
       THEN /\ integ' = [integ EXCEPT !.status = "reconnect_required", !.refresh = "remote_started"]
            /\ Goto(l, "remote")
       ELSE integ' = integ /\ Goto(l, "failed")
    /\ UNCHANGED <<scenario, provider, gate, role, grant, conn, row, cred, req, work, sent>>

\* refreshPlanetScaleToken: the provider consumes this generation's token
RemoteRefresh(l) ==
    /\ iss[l].pc = "remote"
    /\ sent' = [sent EXCEPT ![iss[l].generation] = @ + 1]
    /\ \E ok \in BOOLEAN : Goto(l, IF ok THEN "refreshed" ELSE "unrefreshed")
    /\ UNCHANGED <<scenario, provider, gate, role, grant, conn, integ, row, cred, req, work>>

\* finalizePlanetScaleCredentialRefresh
FinalizeRefresh(l) ==
    /\ iss[l].pc = "refreshed"
    /\ IF /\ OwnsRefresh(l) /\ integ.refresh = "remote_started" /\ integ.status = "reconnect_required"
          /\ Open("integration") /\ role = iss[l].role /\ role = "admin" /\ Open("member")
       THEN /\ integ' = [integ EXCEPT !.status = "active", !.refresh = "idle", !.rclaim = NoClaim,
                                      !.rstale = FALSE, !.rgen = 0, !.fresh = TRUE,
                                      !.generation = @ + 1]
            /\ iss' = [iss EXCEPT ![l].pc = "reserved", ![l].generation = @ + 1]
       ELSE integ' = integ /\ Goto(l, "unrefreshed")
    /\ UNCHANGED <<scenario, provider, gate, role, grant, conn, row, cred, req, work, sent>>

\* requirePlanetScaleCredentialReconnect: the outcome is ambiguous
RequireReconnect(l) ==
    /\ iss[l].pc = "unrefreshed"
    /\ integ' = IF OwnsRefresh(l) /\ integ.refresh \in {"remote_started", "reconnect_required"}
                   /\ integ.status # "revoked"
                THEN [integ EXCEPT !.status = "reconnect_required", !.refresh = "reconnect_required"]
                ELSE integ
    /\ Goto(l, "failed")
    /\ UNCHANGED <<scenario, provider, gate, role, grant, conn, row, cred, req, work, sent>>

RefreshGoesStale ==
    /\ integ.refresh = "claimed" /\ ~integ.rstale
    /\ integ' = [integ EXCEPT !.rstale = TRUE]
    /\ UNCHANGED <<scenario, provider, gate, role, grant, conn, row, cred, iss, req, work, sent>>

-----------------------------------------------------------------------------
(* The provider call and what follows it. *)

\* The provider creates the credential; or reports one it could not withdraw
\* (a *CleanupRequiredError); or fails, with or without having created it.
CreateCredential(l) ==
    /\ iss[l].pc = "reserved"
    /\ \/ cred' = [cred EXCEPT ![l] = "live"] /\ Goto(l, "created")
       \/ /\ provider # "gcpCloudSql"
          /\ cred' = [cred EXCEPT ![l] = "live"] /\ Goto(l, "queue")
       \/ \E c \in {"none", "live"} : cred' = [cred EXCEPT ![l] = c] /\ Goto(l, "failed")
    /\ UNCHANGED <<scenario, provider, gate, role, grant, conn, integ, row, req, work, sent>>

\* The row names the credential and is due at once.
QueueCleanup(l) ==
    /\ iss[l].pc = "queue"
    /\ row' = [row EXCEPT ![l].kind = "real", ![l].expired = TRUE]
    /\ Answered(l)
    /\ UNCHANGED <<scenario, provider, gate, role, grant, conn, integ, cred, req, work, sent>>

\* The catch clause of issueManagedLease
IssueFailed(l) ==
    /\ iss[l].pc = "failed"
    /\ row' = IF provider = "neon" THEN [row EXCEPT ![l].expired = TRUE]
                                   ELSE [row EXCEPT ![l].revoked = TRUE]
    /\ Answered(l)
    /\ UNCHANGED <<scenario, provider, gate, role, grant, conn, integ, cred, req, work, sent>>

\* finalizeManagedLeaseIfUnblocked; the session may always have ended
Finalize(l) ==
    /\ iss[l].pc = "created"
    /\ \/ /\ AuthorityPredicate(l)
          /\ row[l].kind = "pending" /\ ~row[l].revoked /\ ~row[l].expired
          /\ row' = [row EXCEPT ![l].kind = "real"]
          /\ Goto(l, "finalized")
       \/ row' = row /\ Goto(l, "undo")
    /\ UNCHANGED <<scenario, provider, gate, role, grant, conn, integ, cred, req, work, sent>>

\* bestEffortRevokeLease (nothing to call for Cloud SQL), then the row
Undo(l) ==
    /\ iss[l].pc = "undo"
    /\ \E revoked \in IF provider = "gcpCloudSql" THEN {TRUE} ELSE BOOLEAN :
          /\ cred' = IF revoked /\ provider # "gcpCloudSql" /\ cred[l] = "live"
                     THEN [cred EXCEPT ![l] = "dead"] ELSE cred
          /\ row' = CASE provider = "vault" /\ ~revoked ->
                              [row EXCEPT ![l].kind = "real", ![l].expired = TRUE]
                      [] provider = "neon" /\ ~revoked -> [row EXCEPT ![l].expired = TRUE]
                      [] OTHER -> [row EXCEPT ![l].revoked = TRUE]
    /\ Answered(l)
    /\ UNCHANGED <<scenario, provider, gate, role, grant, conn, integ, req, work, sent>>

\* managedLeaseStillDeliverable: the last check before the secret leaves
StillDeliverable(l) ==
    /\ AuthorityPredicate(l)
    /\ row[l].kind = "real" /\ ~row[l].expired /\ ~row[l].revoked

\* The audit event is written and the check decides; a failed audit insert, a
\* failed check and an ended session all revoke the lease instead.
Deliver(l) ==
    /\ iss[l].pc = "finalized"
    /\ \/ /\ StillDeliverable(l)
          /\ iss' = [iss EXCEPT ![l].pc = "delivered", ![l].secret = TRUE]
          /\ work' = work
       \/ /\ Answered(l)
          /\ work' = [work EXCEPT ![l] = SelectedLease(l)]
    /\ UNCHANGED <<scenario, provider, gate, role, grant, conn, integ, row, cred, req, sent>>

\* DELETE lease: the desktop retires its pool early
ReleaseLease(l) ==
    /\ iss[l].pc = "delivered"
    /\ role # "none" /\ grant # "none" /\ ~gate["member"].pending
    /\ ~conn.deleted /\ ~gate["connection"].pending
    /\ Answered(l)
    /\ work' = [work EXCEPT ![l] = SelectedLease(l)]
    /\ UNCHANGED <<scenario, provider, gate, role, grant, conn, integ, row, cred, req, sent>>

IssuanceNext ==
    \/ RefreshGoesStale
    \/ \E l \in Leases :
          \/ AuthorizeLease(l) \/ Reserve(l)
          \/ ClaimRefresh(l) \/ StartRemoteRefresh(l) \/ RemoteRefresh(l)
          \/ FinalizeRefresh(l) \/ RequireReconnect(l)
          \/ CreateCredential(l) \/ QueueCleanup(l) \/ IssueFailed(l)
          \/ Finalize(l) \/ Undo(l) \/ Deliver(l) \/ ReleaseLease(l)

=============================================================================
