------------------------- MODULE ProviderDisconnect -------------------------
(***************************************************************************)
(* Disconnecting a provider integration, a saga whose phases are durable   *)
(* and which any later request resumes under the original claim            *)
(* (provider-integrations/[integrationId]/route.ts,                        *)
(* provider-integration-mutation-store.ts), and reconnecting it            *)
(* (provider-integrations/route.ts, planet-scale/callback/route.ts).       *)
(***************************************************************************)
EXTENDS AccessChanges

NotRevoked == integ.status \in {"active", "reconnect_required"}

\* Where a request of this phase continues
Continue(phase) ==
    CASE phase \in {"claimed", "lease_cleanup_pending"} -> "d_leases"
      [] phase = "leases_revoked"          -> "d_start"
      [] phase = "provider_revoke_started" -> "d_resume"
      [] phase = "provider_revoked"        -> "d_final"
      [] OTHER                             -> "done"

\* claimProviderIntegrationDisconnect
ClaimDisconnect(r) ==
    /\ Arrives(r, "disconnect")
    /\ NotRevoked /\ Open("integration")
    /\ integ.refresh \in {"idle", "reconnect_required"} /\ integ.phase = "idle"
    /\ gate' = [gate EXCEPT !["integration"] = Claimed(<<r, 1>>)]
    /\ integ' = [integ EXCEPT !.phase = "claimed", !.dgen = integ.generation]
    /\ req' = [req EXCEPT ![r] = [NoRequest EXCEPT !.pc = "d_leases", !.change = "disconnect",
                                      !.claim = <<r, 1>>, !.generation = integ.generation]]
    /\ UNCHANGED <<scenario, provider, role, grant, conn, row, cred, iss, work, sent>>

\* resumeProviderIntegrationDisconnect: the same claim, never a new one
ResumeDisconnect(r) ==
    /\ Arrives(r, "disconnect")
    /\ NotRevoked /\ gate["integration"].pending /\ gate["integration"].claim # NoClaim
    /\ integ.generation = integ.dgen /\ integ.phase \notin {"idle", "finalized"}
    /\ req' = [req EXCEPT ![r] = [NoRequest EXCEPT !.pc = Continue(integ.phase), !.change = "disconnect",
                                      !.claim = gate["integration"].claim, !.generation = integ.dgen]]
    /\ UNCHANGED <<scenario, provider, gate, role, grant, conn, integ, row, cred, iss, work, sent>>

\* transitionProviderIntegrationDisconnect's WHERE clause
CanMove(r, from) ==
    /\ integ.generation = req[r].generation /\ integ.dgen = req[r].generation
    /\ Holds("integration", req[r].claim) /\ NotRevoked
    /\ integ.phase = from

DisconnectLeases(r) ==
    /\ req[r].pc = "d_leases"
    /\ work' = [work EXCEPT ![r] = Selected(AccessModes)]
    /\ req' = [req EXCEPT ![r].pc = "d_revoking"]
    /\ UNCHANGED <<scenario, provider, gate, role, grant, conn, integ, row, cred, iss, sent>>

\* markProviderIntegrationLeaseCleanupPending
DisconnectDeferred(r) ==
    /\ req[r].pc = "d_revoking" /\ WorkDone(r) /\ work[r].deferred
    /\ integ' = IF CanMove(r, "claimed") THEN [integ EXCEPT !.phase = "lease_cleanup_pending"] ELSE integ
    /\ Answer(r, "retry")
    /\ work' = [work EXCEPT ![r] = NoWork]
    /\ UNCHANGED <<scenario, provider, gate, role, grant, conn, row, cred, iss, sent>>

\* Mutant: deferred leases do not hold the disconnect back.
DisconnectDrained_Anyway(r) ==
    /\ req[r].pc = "d_revoking" /\ WorkDone(r)
    /\ IF CanMove(r, "claimed") \/ CanMove(r, "lease_cleanup_pending")
       THEN /\ integ' = [integ EXCEPT !.phase = "leases_revoked"]
            /\ req' = [req EXCEPT ![r].pc = "d_start"]
       ELSE integ' = integ /\ Answer(r, "done")
    /\ work' = [work EXCEPT ![r] = NoWork]
    /\ UNCHANGED <<scenario, provider, gate, role, grant, conn, row, cred, iss, sent>>

\* markProviderIntegrationDisconnectLeasesRevoked
DisconnectDrained(r) ==
    /\ req[r].pc = "d_revoking" /\ WorkDone(r) /\ ~work[r].deferred
    /\ IF CanMove(r, "claimed") \/ CanMove(r, "lease_cleanup_pending")
       THEN /\ integ' = [integ EXCEPT !.phase = "leases_revoked"]
            /\ req' = [req EXCEPT ![r].pc = "d_start"]
       ELSE integ' = integ /\ Answer(r, "done")
    /\ work' = [work EXCEPT ![r] = NoWork]
    /\ UNCHANGED <<scenario, provider, gate, role, grant, conn, row, cred, iss, sent>>

\* markProviderIntegrationProviderRevokeStarted
StartProviderRevoke(r) ==
    /\ req[r].pc = "d_start"
    /\ IF CanMove(r, "leases_revoked")
       THEN /\ integ' = [integ EXCEPT !.phase = "provider_revoke_started"]
            /\ req' = [req EXCEPT ![r].pc = "d_remote"]
       ELSE integ' = integ /\ Answer(r, "done")
    /\ UNCHANGED <<scenario, provider, gate, role, grant, conn, row, cred, iss, work, sent>>

\* revokeProviderAuthorization: only PlanetScale has something to call
RevokeAuthorization(r) ==
    /\ req[r].pc = "d_remote"
    /\ \E ok \in IF provider = "planetScale" THEN BOOLEAN ELSE {TRUE} :
          req' = [req EXCEPT ![r].pc = IF ok THEN "d_done" ELSE "d_ambiguous"]
    /\ UNCHANGED <<scenario, provider, gate, role, grant, conn, integ, row, cred, iss, work, sent>>

\* A resumed request finds the provider call begun by another.
ResumeStarted(r) ==
    /\ req[r].pc = "d_resume"
    /\ req' = [req EXCEPT ![r].pc = IF provider = "planetScale" THEN "d_ambiguous" ELSE "d_done"]
    /\ UNCHANGED <<scenario, provider, gate, role, grant, conn, integ, row, cred, iss, work, sent>>

\* markProviderIntegrationProviderRevokeAmbiguous
MarkAmbiguous(r) ==
    /\ req[r].pc = "d_ambiguous"
    /\ integ' = IF CanMove(r, "provider_revoke_started")
                THEN [integ EXCEPT !.status = "reconnect_required", !.phase = "provider_revoke_ambiguous"]
                ELSE integ
    /\ Answer(r, "done")
    /\ UNCHANGED <<scenario, provider, gate, role, grant, conn, row, cred, iss, work, sent>>

\* markProviderIntegrationProviderRevoked
MarkProviderRevoked(r) ==
    /\ req[r].pc = "d_done"
    /\ IF CanMove(r, "provider_revoke_started")
       THEN integ' = [integ EXCEPT !.phase = "provider_revoked"] /\ req' = [req EXCEPT ![r].pc = "d_final"]
       ELSE integ' = integ /\ Answer(r, "done")
    /\ UNCHANGED <<scenario, provider, gate, role, grant, conn, row, cred, iss, work, sent>>

\* finalizeProviderIntegrationDisconnect
FinalizeDisconnect(r) ==
    /\ req[r].pc = "d_final"
    /\ IF CanMove(r, "provider_revoked") /\ NoUnrevokedLease
       THEN /\ integ' = [integ EXCEPT !.status = "revoked", !.phase = "finalized", !.fresh = FALSE,
                                      !.generation = @ + 1]
            /\ conn' = IF conn.deleted \/ ~conn.linked THEN conn
                       ELSE [conn EXCEPT !.managed = FALSE, !.linked = FALSE, !.revision = @ + 1]
            /\ gate' = [gate EXCEPT !["integration"] = Cleared]
       ELSE UNCHANGED <<integ, conn, gate>>
    /\ Answer(r, "done")
    /\ UNCHANGED <<scenario, provider, role, grant, row, cred, iss, work, sent>>

-----------------------------------------------------------------------------
\* The route reads the integration; an active one is claimed like any gate, an
\* ambiguous PlanetScale disconnect is superseded under its own claim, and one
\* that is pending for any other reason is refused.
LookReconnect(r) ==
    /\ Arrives(r, "reconnect")
    /\ LET supersedes == provider = "planetScale" /\ integ.status = "reconnect_required"
                         /\ gate["integration"].pending /\ gate["integration"].claim # NoClaim
       IN /\ integ.status = "active" \/ supersedes \/ ~gate["integration"].pending
          /\ req' = [req EXCEPT ![r] = [NoRequest EXCEPT
                        !.pc = IF integ.status = "active" THEN "c_claim" ELSE "c_persist",
                        !.change = "reconnect", !.to = integ.status,
                        !.claim = IF supersedes THEN gate["integration"].claim ELSE NoClaim,
                        !.generation = integ.generation]]
    /\ UNCHANGED <<scenario, provider, gate, role, grant, conn, integ, row, cred, iss, work, sent>>

ClaimReconnect(r) ==
    /\ req[r].pc = "c_claim"
    /\ CanClaim("integration")
    /\ gate' = [gate EXCEPT !["integration"] = Claimed(<<r, 1>>)]
    /\ work' = [work EXCEPT ![r] = Selected(AccessModes)]
    /\ req' = [req EXCEPT ![r].pc = "c_revoking", ![r].claim = <<r, 1>>]
    /\ UNCHANGED <<scenario, provider, role, grant, conn, integ, row, cred, iss, sent>>

ReconnectRevoked(r) ==
    /\ req[r].pc = "c_revoking" /\ WorkDone(r)
    /\ gate' = IF work[r].deferred THEN UpdateClaim("integration", req[r].claim, Released) ELSE gate
    /\ req' = [req EXCEPT ![r].pc = IF work[r].deferred THEN "retry" ELSE "c_persist"]
    /\ work' = [work EXCEPT ![r] = NoWork]
    /\ UNCHANGED <<scenario, provider, role, grant, conn, integ, row, cred, iss, sent>>

\* expectedGeneration and the authority predicate of persistProviderIntegration
CanPersist(r) ==
    /\ integ.generation = req[r].generation
    /\ gate["integration"].claim = req[r].claim
    /\ IF req[r].claim # NoClaim THEN NotRevoked /\ gate["integration"].pending
                                 ELSE integ.status = req[r].to /\ ~gate["integration"].pending

\* persistProviderIntegration: a new credential under a new generation
PersistIntegration(r) ==
    /\ req[r].pc = "c_persist"
    /\ CanPersist(r)
    /\ integ' = [integ EXCEPT !.status = "active", !.refresh = "idle", !.rclaim = NoClaim,
                              !.rstale = FALSE, !.rgen = 0, !.phase = "idle", !.dgen = 0,
                              !.fresh = TRUE, !.generation = @ + 1]
    /\ conn' = IF conn.linked /\ ~conn.deleted THEN [conn EXCEPT !.revision = @ + 1] ELSE conn
    /\ gate' = [gate EXCEPT !["integration"] = Cleared]
    /\ Answer(r, "done")
    /\ UNCHANGED <<scenario, provider, role, grant, row, cred, iss, work, sent>>

\* Only a claim this request took is released, never the superseded one.
PersistRefused(r) ==
    /\ req[r].pc = "c_persist"
    /\ gate' = IF req[r].claim = <<r, 1>>
               THEN UpdateClaim("integration", req[r].claim, Released) ELSE gate
    /\ Answer(r, "done")
    /\ UNCHANGED <<scenario, provider, role, grant, conn, integ, row, cred, iss, work, sent>>

DisconnectNext ==
    \E r \in Requests :
        \/ ClaimDisconnect(r) \/ ResumeDisconnect(r) \/ DisconnectLeases(r) \/ DisconnectDeferred(r)
        \/ DisconnectDrained(r) \/ StartProviderRevoke(r) \/ RevokeAuthorization(r)
        \/ ResumeStarted(r) \/ MarkAmbiguous(r) \/ MarkProviderRevoked(r) \/ FinalizeDisconnect(r)
        \/ LookReconnect(r) \/ ClaimReconnect(r) \/ ReconnectRevoked(r)
        \/ PersistIntegration(r) \/ PersistRefused(r)

=============================================================================
