---------------------------- MODULE LeaseCleanup ----------------------------
(***************************************************************************)
(* How lease rows are retired: revokeActiveLeases, called by every change   *)
(* of authority, and cleanupExpiredManagedLeases, called by the background *)
(* coordinator and by every lease request                                   *)
(* (workspace-cloud/lib/provider-integrations/lease-cleanup.ts).            *)
(***************************************************************************)
EXTENDS RevocationGates

NoWork == [todo |-> {}, hand |-> {}, deferred |-> FALSE]

Snapshot(l, attempt) ==
    [lease |-> l, kind |-> row[l].kind, expired |-> row[l].expired, attempt |-> attempt,
     linked |-> conn.linked /\ integ.status \in {"active", "reconnect_required"},
     usable |-> provider = "planetScale" => integ.fresh]

\* revokeActiveLeases selects the unrevoked rows of the given access modes
Selected(modes) ==
    [NoWork EXCEPT !.todo = {Snapshot(l, 0) : l \in {x \in Leases : Unrevoked(x) /\ row[x].mode \in modes}}]

SelectedLease(l) == [NoWork EXCEPT !.todo = IF Unrevoked(l) THEN {Snapshot(l, 0)} ELSE {}]

WorkDone(p) == work[p].todo = {} /\ work[p].hand = {}

\* Mutant: a row is retired without waiting for the provider's expiry.
MustWait_Never(s) == FALSE

\* Nothing can be revoked yet: an IAM token has no revocation API, and a
\* pending row names no credential.
MustWait(s) == ~s.expired /\ (provider = "gcpCloudSql" \/ s.kind = "pending")

\* The provider is asked to delete a credential, by the stored id or, for a
\* pending Neon row, by the role name derived from the lease.
CallsProvider(s) ==
    /\ provider # "gcpCloudSql"
    /\ s.kind = "pending" => provider = "neon"

FenceHolds(s) ==
    /\ ~row[s.lease].revoked
    /\ s.attempt # 0 => row[s.lease].attempts = s.attempt /\ row[s.lease].claimed

\* recordLeaseRevocationDeferred: only an audit event is written
DeferLease(p, s) ==
    /\ s \in work[p].todo /\ work[p].hand = {}
    /\ s.linked /\ MustWait(s)
    /\ work' = [work EXCEPT ![p].todo = @ \ {s}, ![p].deferred = TRUE]
    /\ UNCHANGED <<scenario, provider, gate, role, grant, conn, integ, row, cred, iss, req, sent>>

\* The provider confirms the credential is gone (or answers 404), or no call is needed.
RevokeAtProvider(p, s) ==
    /\ s \in work[p].todo /\ work[p].hand = {}
    /\ s.linked /\ ~MustWait(s)
    /\ CallsProvider(s) => s.usable
    /\ cred' = IF CallsProvider(s) /\ cred[s.lease] = "live"
               THEN [cred EXCEPT ![s.lease] = "dead"] ELSE cred
    /\ work' = [work EXCEPT ![p].todo = @ \ {s}, ![p].hand = {s}]
    /\ UNCHANGED <<scenario, provider, gate, role, grant, conn, integ, row, iss, req, sent>>

\* The call fails, and may have taken effect all the same; or the row's
\* connection and integration no longer agree.  A sweeper schedules a retry
\* under its fence, anyone else records the deferral.
RevocationFails(p, s) ==
    /\ s \in work[p].todo /\ work[p].hand = {}
    /\ ~s.linked \/ (~MustWait(s) /\ CallsProvider(s))
    /\ cred' \in {cred} \cup
          (IF s.linked /\ s.usable /\ cred[s.lease] = "live" THEN {[cred EXCEPT ![s.lease] = "dead"]} ELSE {})
    /\ row' = IF s.attempt # 0 /\ FenceHolds(s)
              THEN [row EXCEPT ![s.lease].claimed = FALSE, ![s.lease].stale = FALSE] ELSE row
    /\ work' = [work EXCEPT ![p].todo = @ \ {s},
                            ![p].deferred = @ \/ s.attempt = 0 \/ FenceHolds(s)]
    /\ UNCHANGED <<scenario, provider, gate, role, grant, conn, integ, iss, req, sent>>

\* markLeaseRevoked
MarkLeaseRevoked(p, s) ==
    /\ s \in work[p].hand
    /\ row' = IF FenceHolds(s)
              THEN [row EXCEPT ![s.lease].revoked = TRUE, ![s.lease].claimed = FALSE,
                               ![s.lease].stale = FALSE]
              ELSE row
    /\ work' = [work EXCEPT ![p].hand = {}]
    /\ UNCHANGED <<scenario, provider, gate, role, grant, conn, integ, cred, iss, req, sent>>

-----------------------------------------------------------------------------
Claimable(l) ==
    /\ Unrevoked(l) /\ row[l].expired
    /\ ~row[l].claimed \/ row[l].stale
    /\ row[l].attempts < scenario.attempts

\* claimExpiredManagedLeases: one batch claims every due row and counts the attempt
ClaimExpired(p) ==
    /\ WorkDone(p)
    /\ \E l \in Leases : Claimable(l)
    /\ row' = [l \in Leases |-> IF Claimable(l)
                                THEN [row[l] EXCEPT !.claimed = TRUE, !.stale = FALSE,
                                                    !.attempts = @ + 1]
                                ELSE row[l]]
    /\ work' = [work EXCEPT ![p] =
          [NoWork EXCEPT !.todo = {Snapshot(l, row[l].attempts + 1) : l \in {x \in Leases : Claimable(x)}}]]
    /\ UNCHANGED <<scenario, provider, gate, role, grant, conn, integ, cred, iss, req, sent>>

\* The sweeper's worker dies between two rows; another takes its place.
SweeperDies(p) ==
    /\ ~WorkDone(p)
    /\ work' = [work EXCEPT ![p] = NoWork]
    /\ UNCHANGED <<scenario, provider, gate, role, grant, conn, integ, row, cred, iss, req, sent>>

\* Two minutes pass without the cleanup claim being settled.
CleanupClaimGoesStale(l) ==
    /\ row[l].claimed /\ ~row[l].stale
    /\ row[l].attempts < scenario.attempts
    /\ row' = [row EXCEPT ![l].stale = TRUE]
    /\ UNCHANGED <<scenario, provider, gate, role, grant, conn, integ, cred, iss, req, work, sent>>

\* expires_at passes.  Of a finalized row it is the provider's own expiry, so
\* the credential dies with it; of a pending row it is the two-minute limit of
\* the reservation.  A credential that no finalized row describes has an
\* expiry of its own, which is left out: it lives until it is revoked.
LeaseExpires(l) ==
    /\ Unrevoked(l) /\ ~row[l].expired
    /\ row' = [row EXCEPT ![l].expired = TRUE]
    /\ cred' = IF row[l].kind = "real" /\ cred[l] = "live"
               THEN [cred EXCEPT ![l] = "dead"] ELSE cred
    /\ UNCHANGED <<scenario, provider, gate, role, grant, conn, integ, iss, req, work, sent>>

CleanupNext ==
    \/ \E p \in Workers : \E s \in work[p].todo \cup work[p].hand :
          \/ DeferLease(p, s)
          \/ RevokeAtProvider(p, s)
          \/ RevocationFails(p, s)
          \/ MarkLeaseRevoked(p, s)
    \/ \E p \in Sweepers : ClaimExpired(p) \/ SweeperDies(p)
    \/ \E l \in Leases : CleanupClaimGoesStale(l) \/ LeaseExpires(l)

=============================================================================
