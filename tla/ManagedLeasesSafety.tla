------------------------ MODULE ManagedLeasesSafety ------------------------
(***************************************************************************)
(* Safety of ManagedLeases for any number of lease requests, changes,      *)
(* sweepers and scenarios: usable secrets are tracked and stay authorized, *)
(* no lease is stranded and a provider is revoked after its leases.        *)
(***************************************************************************)
EXTENDS ManagedLeasesProofs

Uncreated == Unrenewed \cup {"unrefreshed", "reserved"}

\* What an issuing request's position says of its row and its credential.
IssueOK(l) ==
    /\ iss[l].pc \in {"idle", "authorized"} => row[l].kind = "none"
    /\ iss[l].pc \notin {"idle", "authorized", "done"} => row[l].kind # "none" /\ row[l].mode = iss[l].mode
    /\ iss[l].pc \in Uncreated => cred[l] = "none"
    /\ iss[l].pc \in {"created", "queue", "undo"} \/ row[l].kind = "real" => cred[l] # "none"
    /\ iss[l].pc \in {"finalized", "delivered"} => row[l].kind = "real"
    /\ iss[l].secret => iss[l].pc = "delivered"

\* A secret whose row has expired or is revoked is dead.
DeadOK(l) == iss[l].secret /\ (row[l].expired \/ row[l].revoked) => cred[l] = "dead"

\* What a cleanup still to do read of a row is still so; in the hand is a
\* credential that can no longer be used.
WorkOK(p) ==
    /\ \A s \in work[p].todo \cup work[p].hand :
          /\ s.kind = "real" => row[s.lease].kind = "real"
          /\ s.expired => row[s.lease].expired
          /\ row[s.lease].kind # "none"
    /\ \A s \in work[p].hand : row[s.lease].expired \/ cred[s.lease] = "dead"

TrackInv ==
    /\ \A l \in Leases : IssueOK(l) /\ DeadOK(l)
    /\ \A p \in Workers : WorkOK(p)

\* A row that exists is never taken back: it keeps its mode and what was
\* recorded of it.
RowGrows(l) ==
    row[l].kind # "none" =>
        /\ row'[l].kind # "none" /\ row'[l].mode = row[l].mode
        /\ row[l].kind = "real" => row'[l].kind = "real"
        /\ row[l].expired => row'[l].expired
        /\ row[l].revoked => row'[l].revoked

\* A credential is created once, and dies once.
CredGrows(l) ==
    /\ cred[l] # "none" => cred'[l] # "none"
    /\ cred[l] = "dead" => cred'[l] = "dead"

-----------------------------------------------------------------------------
(* Cleanup. *)

\* What cleanup and the clock do to a row and its credential.
CleanupStep(l) ==
    /\ row'[l].kind = row[l].kind /\ row'[l].mode = row[l].mode
    /\ row[l].expired => row'[l].expired
    /\ row[l].revoked => row'[l].revoked
    /\ cred'[l] = cred[l] \/ (cred[l] = "live" /\ cred'[l] = "dead")
    /\ row'[l].expired /\ ~row[l].expired /\ row[l].kind = "real" => cred'[l] # "live"
    /\ row'[l].revoked /\ ~row[l].revoked => row[l].expired \/ cred[l] = "dead"

LEMMA CleanupKeeps ==
    ASSUME TypeInv, NEW l \in Leases, IssueOK(l), DeadOK(l), CleanupStep(l), UNCHANGED iss,
           cred' \in [Leases -> {"none", "live", "dead"}]
    PROVE  IssueOK(l)' /\ DeadOK(l)' /\ RowGrows(l) /\ CredGrows(l)
<1>1. IssueOK(l)'
  BY DEF IssueOK, CleanupStep, Uncreated, Unrenewed
<1>2. DeadOK(l)'
  BY DEF IssueOK, DeadOK, CleanupStep
<1> QED
  BY <1>1, <1>2 DEF RowGrows, CredGrows, CleanupStep

\* A worker whose list only got shorter still knows what it read.
LEMMA WorkKept ==
    ASSUME TypeInv, NEW p \in Workers, WorkOK(p), \A l \in Leases : RowGrows(l) /\ CredGrows(l),
           work'[p].todo \subseteq work[p].todo, work'[p].hand \subseteq work[p].hand
    PROVE  WorkOK(p)'
<1>1. \A s \in work[p].todo \cup work[p].hand : s.lease \in Leases
  BY SnapshotsInWork DEF TypeInv
<1> QED
  BY <1>1 DEF WorkOK, RowGrows, CredGrows

LEMMA HandledRowStep ==
    ASSUME TypeInv, TrackInv, NEW p \in Workers, NEW s \in work[p].todo \cup work[p].hand,
           \/ DeferLease(p, s) \/ RevokeAtProvider(p, s)
           \/ RevocationFails(p, s) \/ MarkLeaseRevoked(p, s)
    PROVE  \A l \in Leases : CleanupStep(l)
<1>0. s.lease \in Leases /\ row \in [Leases -> RowType] /\ cred \in [Leases -> {"none", "live", "dead"}]
  BY SnapshotsInWork DEF TypeInv, Types
<1>1. CASE DeferLease(p, s)
  BY <1>1 DEF DeferLease, CleanupStep
<1>2. CASE RevokeAtProvider(p, s)
  BY <1>0, <1>2 DEF RevokeAtProvider, CleanupStep
<1>3. CASE RevocationFails(p, s)
  <2>1. \A l \in Leases : cred'[l] = cred[l] \/ (cred[l] = "live" /\ cred'[l] = "dead")
    BY <1>0, <1>3 DEF RevocationFails
  <2>2. \A l \in Leases : /\ row'[l].kind = row[l].kind /\ row'[l].mode = row[l].mode
                          /\ row'[l].expired = row[l].expired /\ row'[l].revoked = row[l].revoked
    BY <1>0, <1>3, RowUnclaimed DEF RevocationFails
  <2> QED
    BY <2>1, <2>2 DEF CleanupStep
<1>4. CASE MarkLeaseRevoked(p, s)
  <2>1. row[s.lease].expired \/ cred[s.lease] = "dead"
    BY <1>4 DEF MarkLeaseRevoked, TrackInv, WorkOK
  <2>2. UNCHANGED cred
    BY <1>4 DEF MarkLeaseRevoked
  <2>3. CASE row' = row
    BY <2>2, <2>3 DEF CleanupStep
  <2>4. CASE row' = [row EXCEPT ![s.lease].revoked = TRUE, ![s.lease].claimed = FALSE,
                               ![s.lease].stale = FALSE]
    <3>1. /\ row'[s.lease].kind = row[s.lease].kind /\ row'[s.lease].mode = row[s.lease].mode
          /\ row'[s.lease].expired = row[s.lease].expired /\ row'[s.lease].revoked
          /\ \A l \in Leases : l # s.lease => row'[l] = row[l]
      BY <1>0, <2>4, RowSettled
    <3> QED
      BY <2>1, <2>2, <3>1 DEF CleanupStep
  <2> QED
    BY <1>4, <2>3, <2>4 DEF MarkLeaseRevoked
<1> QED
  BY <1>1, <1>2, <1>3, <1>4

\* Every worker's knowledge survives a step that gives no worker a new row.
LEMMA TrackKept ==
    ASSUME TypeInv, TrackInv, UNCHANGED iss, cred' \in [Leases -> {"none", "live", "dead"}],
           \A l \in Leases : CleanupStep(l)
    PROVE  /\ \A l \in Leases : IssueOK(l)' /\ DeadOK(l)'
           /\ \A l \in Leases : RowGrows(l) /\ CredGrows(l)
           /\ \A p \in Workers :
                 work'[p].todo \subseteq work[p].todo /\ work'[p].hand \subseteq work[p].hand => WorkOK(p)'
<1>1. \A l \in Leases : IssueOK(l)' /\ DeadOK(l)' /\ RowGrows(l) /\ CredGrows(l)
  BY CleanupKeeps DEF TrackInv
<1>2. \A p \in Workers :
         work'[p].todo \subseteq work[p].todo /\ work'[p].hand \subseteq work[p].hand => WorkOK(p)'
  BY <1>1, WorkKept DEF TrackInv
<1> QED
  BY <1>1, <1>2

\* A row goes to the hand only when its credential can no longer be used.
LEMMA RevokedIsUnusable ==
    ASSUME TypeInv, TrackInv, NEW p \in Workers, NEW s \in work[p].todo \cup work[p].hand,
           RevokeAtProvider(p, s)
    PROVE  row'[s.lease].expired \/ cred'[s.lease] = "dead"
<1>1. /\ s.lease \in Leases /\ s.kind \in {"pending", "real"} /\ row' = row
      /\ cred \in [Leases -> {"none", "live", "dead"}]
  BY SnapshotsInWork DEF TypeInv, Types, SnapshotType, RevokeAtProvider
<1>2. (s.expired => row[s.lease].expired) /\ (s.kind = "real" => row[s.lease].kind = "real")
  BY DEF TrackInv, WorkOK
<1>3. CASE s.expired
  BY <1>1, <1>2, <1>3
<1>4. CASE ~s.expired
  <2>1. provider # "gcpCloudSql" /\ s.kind = "real"
    BY <1>1, <1>4 DEF RevokeAtProvider, MustWait
  <2>2. cred[s.lease] # "none"
    BY <1>1, <1>2, <2>1 DEF TrackInv, IssueOK
  <2>3. CallsProvider(s)
    BY <2>1 DEF CallsProvider
  <2> QED
    BY <1>1, <2>2, <2>3 DEF RevokeAtProvider
<1> QED
  BY <1>3, <1>4

LEMMA HandledTrack ==
    ASSUME TypeInv, TrackInv, NEW p \in Workers, NEW s \in work[p].todo \cup work[p].hand,
           \/ DeferLease(p, s) \/ RevokeAtProvider(p, s)
           \/ RevocationFails(p, s) \/ MarkLeaseRevoked(p, s)
    PROVE  /\ TrackInv'
           /\ \A l \in Leases : RowGrows(l) /\ CredGrows(l)
<1>1. UNCHANGED iss /\ cred' \in [Leases -> {"none", "live", "dead"}]
  BY HandledTypes DEF TypeInv, Types, DeferLease, RevokeAtProvider, RevocationFails, MarkLeaseRevoked
<1>2. \A l \in Leases : CleanupStep(l)
  BY HandledRowStep
<1>3. \A q \in Workers : q # p => work'[q] = work[q]
  BY DeferEffect, RevokeEffect, FailsEffect, MarkEffect DEF TypeInv
<1>4. WorkOK(p)'
  <2>1. CASE RevokeAtProvider(p, s)
    <3>1. work'[p].todo = work[p].todo \ {s} /\ work'[p].hand = {s}
      BY <2>1, RevokeEffect DEF TypeInv
    <3>2. row'[s.lease].expired \/ cred'[s.lease] = "dead"
      BY <2>1, RevokedIsUnusable
    <3>3. row' = row
      BY <2>1 DEF RevokeAtProvider
    <3> QED
      BY <3>1, <3>2, <3>3 DEF WorkOK, TrackInv
  <2>2. CASE DeferLease(p, s) \/ RevocationFails(p, s) \/ MarkLeaseRevoked(p, s)
    <3>1. work'[p].todo \subseteq work[p].todo /\ work'[p].hand \subseteq work[p].hand
      BY <2>2, DeferEffect, FailsEffect, MarkEffect DEF TypeInv
    <3> QED
      BY <1>1, <1>2, <3>1, TrackKept
  <2> QED
    BY <2>1, <2>2
<1>5. \A q \in Workers : WorkOK(q)'
  BY <1>1, <1>2, <1>3, <1>4, TrackKept
<1> QED
  BY <1>1, <1>2, <1>5, TrackKept DEF TrackInv

\* A sweeper's batch, its death, a stale claim and the passing of an expiry.
LEMMA SweepTrack ==
    ASSUME TypeInv, TrackInv,
           \/ \E p \in Sweepers : ClaimExpired(p) \/ SweeperDies(p)
           \/ \E l \in Leases : CleanupClaimGoesStale(l) \/ LeaseExpires(l)
    PROVE  /\ TrackInv'
           /\ \A l \in Leases : RowGrows(l) /\ CredGrows(l)
<1>0. row \in [Leases -> RowType] /\ cred \in [Leases -> {"none", "live", "dead"}]
      /\ work \in [Workers -> WorkType]
  BY DEF TypeInv, Types
<1>1. ASSUME NEW p \in Sweepers, ClaimExpired(p)
      PROVE  TrackInv' /\ \A l \in Leases : RowGrows(l) /\ CredGrows(l)
  <2>1. p \in Workers /\ UNCHANGED <<iss, cred>>
    BY <1>1, LeaseIsWorker DEF ClaimExpired
  <2>2. /\ \A l \in Leases : /\ row'[l].kind = row[l].kind /\ row'[l].mode = row[l].mode
                             /\ row'[l].expired = row[l].expired
                             /\ row'[l].revoked = row[l].revoked
        /\ \A q \in Workers : q # p => work'[q] = work[q]
        /\ work'[p].hand = {}
        /\ \A s \in work'[p].todo : \E l \in Leases : \E n \in Nat :
              Unrevoked(l) /\ s = Snapshot(l, n)
    BY <1>1, <2>1, ClaimExpiredEffect DEF TypeInv
  <2>3. \A l \in Leases : CleanupStep(l)
    BY <2>1, <2>2 DEF CleanupStep
  <2>4. WorkOK(p)'
    <3>1. ASSUME NEW s \in work'[p].todo
          PROVE  /\ s.kind = "real" => row'[s.lease].kind = "real"
                 /\ s.expired => row'[s.lease].expired
                 /\ row'[s.lease].kind # "none"
      <4>1. PICK l \in Leases : \E n \in Nat : Unrevoked(l) /\ s = Snapshot(l, n)
        BY <2>2
      <4>2. s.lease = l /\ s.kind = row[l].kind /\ s.expired = row[l].expired /\ Unrevoked(l)
        BY <4>1, SnapshotEffect DEF TypeInv
      <4> QED
        BY <2>2, <4>2 DEF Unrevoked
    <3> QED
      BY <2>2, <3>1 DEF WorkOK
  <2>5. \A q \in Workers : WorkOK(q)'
    BY <1>0, <2>1, <2>2, <2>3, <2>4, TrackKept
  <2> QED
    BY <1>0, <2>1, <2>3, <2>5, TrackKept DEF TrackInv
<1>2. ASSUME NEW p \in Sweepers, SweeperDies(p)
      PROVE  TrackInv' /\ \A l \in Leases : RowGrows(l) /\ CredGrows(l)
  <2>1. UNCHANGED <<iss, cred, row>>
    BY <1>2 DEF SweeperDies
  <2>2. \A q \in Workers : work'[q].todo \subseteq work[q].todo /\ work'[q].hand \subseteq work[q].hand
    BY <1>0, <1>2, NoWorkType DEF SweeperDies
  <2>3. \A l \in Leases : CleanupStep(l)
    BY <2>1 DEF CleanupStep
  <2> QED
    BY <1>0, <2>1, <2>2, <2>3, TrackKept DEF TrackInv
<1>3. ASSUME NEW m \in Leases, CleanupClaimGoesStale(m) \/ LeaseExpires(m)
      PROVE  TrackInv' /\ \A l \in Leases : RowGrows(l) /\ CredGrows(l)
  <2>1. UNCHANGED <<iss, work>> /\ cred' \in [Leases -> {"none", "live", "dead"}]
    BY <1>0, <1>3 DEF CleanupClaimGoesStale, LeaseExpires
  <2>2. \A l \in Leases : CleanupStep(l)
    <3>1. CASE CleanupClaimGoesStale(m)
      BY <1>0, <3>1, RowStale DEF CleanupClaimGoesStale, CleanupStep
    <3>2. CASE LeaseExpires(m)
      <4>1. /\ row'[m].kind = row[m].kind /\ row'[m].mode = row[m].mode
            /\ row'[m].expired /\ row'[m].revoked = row[m].revoked
            /\ \A l \in Leases : l # m => row'[l] = row[l]
        BY <1>0, <3>2, RowExpires DEF LeaseExpires
      <4>2. /\ \A l \in Leases : l # m => cred'[l] = cred[l]
            /\ cred'[m] = cred[m] \/ (cred[m] = "live" /\ cred'[m] = "dead")
            /\ row[m].kind = "real" => cred'[m] # "live"
        BY <1>0, <3>2 DEF LeaseExpires
      <4> QED
        BY <4>1, <4>2 DEF CleanupStep
    <3> QED
      BY <1>3, <3>1, <3>2
  <2> QED
    BY <2>1, <2>2, TrackKept DEF TrackInv
<1> QED
  BY <1>1, <1>2, <1>3

-----------------------------------------------------------------------------
(* Issuing. *)

\* A lease request moves its own row, credential and position only.
LEMMA IssueStep ==
    ASSUME TypeInv, TrackInv, NEW l \in Leases,
           \A m \in Leases : m # l => iss'[m] = iss[m] /\ row'[m] = row[m] /\ cred'[m] = cred[m],
           IssueOK(l)', DeadOK(l)', RowGrows(l), CredGrows(l)
    PROVE  /\ \A m \in Leases : IssueOK(m)' /\ DeadOK(m)'
           /\ \A m \in Leases : RowGrows(m) /\ CredGrows(m)
           /\ UNCHANGED work => TrackInv'
<1>1. \A m \in Leases : IssueOK(m)' /\ DeadOK(m)'
  <2>1. ASSUME NEW m \in Leases, m # l PROVE IssueOK(m)' /\ DeadOK(m)'
    BY <2>1 DEF TrackInv, IssueOK, DeadOK
  <2> QED
    BY <2>1
<1>2. \A m \in Leases : RowGrows(m) /\ CredGrows(m)
  BY DEF RowGrows, CredGrows
<1>3. ASSUME UNCHANGED work PROVE \A p \in Workers : WorkOK(p)'
  BY <1>2, <1>3, WorkKept DEF TrackInv
<1> QED
  BY <1>1, <1>2, <1>3 DEF TrackInv

LEMMA AuthorizeReserveTrack ==
    ASSUME TypeInv, TrackInv, NEW l \in Leases, AuthorizeLease(l) \/ Reserve(l)
    PROVE  TrackInv' /\ \A m \in Leases : RowGrows(m) /\ CredGrows(m)
<1>0. row \in [Leases -> RowType] /\ cred \in [Leases -> {"none", "live", "dead"}]
      /\ iss \in [Leases -> IssueType] /\ UNCHANGED <<cred, work>>
  BY DEF TypeInv, Types, AuthorizeLease, Reserve
<1>1. IssueOK(l) /\ row[l].kind = "none" /\ cred[l] = "none"
  BY DEF TrackInv, IssueOK, AuthorizeLease, Reserve, Uncreated, Unrenewed
<1>2. RowGrows(l) /\ CredGrows(l)
  BY <1>0, <1>1 DEF RowGrows, CredGrows
<1>3. CASE AuthorizeLease(l)
  <2>1. PICK mode :
           iss' = [iss EXCEPT ![l] = [pc |-> "authorized", mode |-> mode, role |-> role,
                                      revision |-> conn.revision, generation |-> integ.generation,
                                      secret |-> FALSE]]
    BY <1>3 DEF AuthorizeLease
  <2>2. /\ iss'[l].pc = "authorized" /\ ~iss'[l].secret
        /\ \A m \in Leases : m # l => iss'[m] = iss[m]
    BY <1>0, <2>1
  <2>3. UNCHANGED row
    BY <1>3 DEF AuthorizeLease
  <2>4. IssueOK(l)' /\ DeadOK(l)'
    BY <1>0, <1>1, <2>2, <2>3 DEF IssueOK, DeadOK, Uncreated, Unrenewed
  <2> QED
    BY <1>0, <1>2, <2>2, <2>3, <2>4, IssueStep
<1>4. CASE Reserve(l)
  <2>1. CASE row' = row /\ Answered(l)
    <3>1. iss'[l].pc = "done" /\ ~iss'[l].secret /\ \A m \in Leases : m # l => iss'[m] = iss[m]
      BY <1>0, <2>1, AnsweredEffect
    <3>2. IssueOK(l)' /\ DeadOK(l)'
      BY <1>0, <1>1, <2>1, <3>1 DEF IssueOK, DeadOK, Uncreated, Unrenewed
    <3> QED
      BY <1>0, <1>2, <2>1, <3>1, <3>2, IssueStep
  <2>2. CASE /\ row' = [row EXCEPT ![l] = [NoRow EXCEPT !.kind = "pending", !.mode = iss[l].mode]]
             /\ \E pc \in {"refresh", "reserved"} : Goto(l, pc)
    <3>1. PICK pc \in {"refresh", "reserved"} : Goto(l, pc)
      BY <2>2
    <3>2. /\ iss'[l].pc = pc /\ iss'[l].mode = iss[l].mode /\ iss'[l].secret = iss[l].secret
          /\ \A m \in Leases : m # l => iss'[m] = iss[m]
      BY <1>0, <3>1, GotoEffect DEF IssuePositions
    <3>3. row'[l].kind = "pending" /\ row'[l].mode = iss[l].mode
          /\ \A m \in Leases : m # l => row'[m] = row[m]
      BY <1>0, <2>2 DEF NoRow
    <3>4. ~iss[l].secret
      BY <1>1, <1>4 DEF IssueOK, Reserve
    <3>5. IssueOK(l)' /\ DeadOK(l)'
      BY <1>0, <1>1, <3>2, <3>3, <3>4 DEF IssueOK, DeadOK, Uncreated, Unrenewed
    <3> QED
      BY <1>0, <1>2, <3>2, <3>3, <3>5, IssueStep
  <2> QED
    BY <1>4, <2>1, <2>2 DEF Reserve
<1> QED
  BY <1>3, <1>4

LEMMA RefreshTrack ==
    ASSUME TypeInv, TrackInv, NEW l \in Leases,
           \/ ClaimRefresh(l) \/ StartRemoteRefresh(l) \/ RemoteRefresh(l)
           \/ FinalizeRefresh(l) \/ RequireReconnect(l)
    PROVE  TrackInv' /\ \A m \in Leases : RowGrows(m) /\ CredGrows(m)
<1> DEFINE To == {"claimed", "remote", "refreshed", "unrefreshed", "reserved", "failed"}
<1>0. iss \in [Leases -> IssueType] /\ UNCHANGED <<row, cred, work>>
  BY DEF TypeInv, Types, ClaimRefresh, StartRemoteRefresh, RemoteRefresh, FinalizeRefresh, RequireReconnect
<1>1. iss[l].pc \in {"refresh", "claimed", "remote", "refreshed", "unrefreshed"}
  BY DEF ClaimRefresh, StartRemoteRefresh, RemoteRefresh, FinalizeRefresh, RequireReconnect
<1>2. /\ iss'[l].pc \in To /\ iss'[l].mode = iss[l].mode /\ iss'[l].secret = iss[l].secret
      /\ \A m \in Leases : m # l => iss'[m] = iss[m]
  <2>1. CASE \E pc \in To : Goto(l, pc)
    BY <1>0, <2>1, GotoEffect DEF IssuePositions
  <2>2. CASE iss' = [iss EXCEPT ![l].pc = "reserved", ![l].generation = @ + 1]
    BY <1>0, <2>2 DEF IssueType
  <2> QED
    BY <2>1, <2>2 DEF ClaimRefresh, StartRemoteRefresh, RemoteRefresh, FinalizeRefresh, RequireReconnect
<1>3. IssueOK(l) /\ DeadOK(l)
  BY DEF TrackInv
<1>4. IssueOK(l)' /\ DeadOK(l)'
  BY <1>0, <1>1, <1>2, <1>3 DEF IssueOK, DeadOK, Uncreated, Unrenewed
<1>5. RowGrows(l) /\ CredGrows(l)
  BY <1>0 DEF RowGrows, CredGrows
<1> QED
  BY <1>0, <1>2, <1>4, <1>5, IssueStep

LEMMA CreateCredentialTrack ==
    ASSUME TypeInv, TrackInv, NEW l \in Leases, CreateCredential(l)
    PROVE  TrackInv' /\ \A m \in Leases : RowGrows(m) /\ CredGrows(m)
<1>0. iss \in [Leases -> IssueType] /\ cred \in [Leases -> {"none", "live", "dead"}]
      /\ UNCHANGED <<row, work>> /\ iss[l].pc = "reserved"
  BY DEF TypeInv, Types, CreateCredential
<1>1. PICK pc \in {"created", "queue", "failed"}, c \in {"none", "live"} :
         /\ Goto(l, pc) /\ cred' = [cred EXCEPT ![l] = c]
         /\ pc # "failed" => c = "live"
  BY DEF CreateCredential
<1>2. /\ iss'[l].pc = pc /\ iss'[l].mode = iss[l].mode /\ iss'[l].secret = iss[l].secret
      /\ \A m \in Leases : m # l => iss'[m] = iss[m]
  BY <1>0, <1>1, GotoEffect DEF IssuePositions
<1>3. cred'[l] = c /\ \A m \in Leases : m # l => cred'[m] = cred[m]
  BY <1>0, <1>1
<1>4. IssueOK(l) /\ cred[l] = "none" /\ row[l].kind # "real" /\ ~iss[l].secret
  BY <1>0 DEF TrackInv, IssueOK, Uncreated
<1>5. IssueOK(l)' /\ DeadOK(l)'
  BY <1>0, <1>1, <1>2, <1>3, <1>4 DEF IssueOK, DeadOK, Uncreated, Unrenewed
<1>6. RowGrows(l) /\ CredGrows(l)
  BY <1>0, <1>3, <1>4 DEF RowGrows, CredGrows
<1> QED
  BY <1>0, <1>2, <1>3, <1>5, <1>6, IssueStep

\* A request that gives up leaves a row without a secret.
LEMMA GiveUpTrack ==
    ASSUME TypeInv, TrackInv, NEW l \in Leases, QueueCleanup(l) \/ IssueFailed(l) \/ Undo(l)
    PROVE  TrackInv' /\ \A m \in Leases : RowGrows(m) /\ CredGrows(m)
<1>0. iss \in [Leases -> IssueType] /\ cred \in [Leases -> {"none", "live", "dead"}]
      /\ row \in [Leases -> RowType]
      /\ UNCHANGED work /\ Answered(l) /\ iss[l].pc \in {"queue", "failed", "undo"}
  BY DEF TypeInv, Types, QueueCleanup, IssueFailed, Undo
<1>1. iss'[l].pc = "done" /\ ~iss'[l].secret /\ \A m \in Leases : m # l => iss'[m] = iss[m]
  BY <1>0, AnsweredEffect
<1>2. \/ row' = [row EXCEPT ![l].expired = TRUE]
      \/ row' = [row EXCEPT ![l].revoked = TRUE]
      \/ row' = [row EXCEPT ![l].kind = "real", ![l].expired = TRUE] /\ iss[l].pc \in {"queue", "undo"}
  BY DEF QueueCleanup, IssueFailed, Undo
<1>3. /\ \A m \in Leases : m # l => row'[m] = row[m]
      /\ row'[l].mode = row[l].mode /\ (row[l].expired => row'[l].expired)
      /\ row[l].revoked => row'[l].revoked
      /\ \/ row'[l].kind = row[l].kind
         \/ row'[l].kind = "real" /\ iss[l].pc \in {"queue", "undo"}
  <2>1. CASE row' = [row EXCEPT ![l].expired = TRUE]
    BY <1>0, <2>1, RowExpires
  <2>2. CASE row' = [row EXCEPT ![l].revoked = TRUE]
    BY <1>0, <2>2, RowRevoked
  <2>3. CASE row' = [row EXCEPT ![l].kind = "real", ![l].expired = TRUE] /\ iss[l].pc \in {"queue", "undo"}
    BY <1>0, <2>3, RowDue
  <2> QED
    BY <1>2, <2>1, <2>2, <2>3
<1>4. /\ \A m \in Leases : m # l => cred'[m] = cred[m]
      /\ cred'[l] = cred[l] \/ (cred[l] = "live" /\ cred'[l] = "dead")
  BY <1>0 DEF QueueCleanup, IssueFailed, Undo
<1>5. IssueOK(l)
  BY DEF TrackInv
<1>6. IssueOK(l)' /\ DeadOK(l)'
  BY <1>0, <1>1, <1>3, <1>4, <1>5 DEF IssueOK, DeadOK, Uncreated, Unrenewed
<1>7. RowGrows(l) /\ CredGrows(l)
  BY <1>3, <1>4 DEF RowGrows, CredGrows
<1> QED
  BY <1>0, <1>1, <1>3, <1>4, <1>6, <1>7, IssueStep

LEMMA FinalizeTrack ==
    ASSUME TypeInv, TrackInv, NEW l \in Leases, Finalize(l)
    PROVE  TrackInv' /\ \A m \in Leases : RowGrows(m) /\ CredGrows(m)
<1>0. iss \in [Leases -> IssueType] /\ row \in [Leases -> RowType]
      /\ UNCHANGED <<cred, work>> /\ iss[l].pc = "created"
  BY DEF TypeInv, Types, Finalize
<1>1. IssueOK(l) /\ ~iss[l].secret
  BY <1>0 DEF TrackInv, IssueOK
<1>2. CASE Goto(l, "finalized") /\ row' = [row EXCEPT ![l].kind = "real"]
  <2>1. /\ iss'[l].pc = "finalized" /\ iss'[l].mode = iss[l].mode /\ iss'[l].secret = iss[l].secret
        /\ \A m \in Leases : m # l => iss'[m] = iss[m]
    BY <1>0, <1>2, GotoEffect DEF IssuePositions
  <2>2. /\ row'[l].kind = "real" /\ row'[l].mode = row[l].mode /\ row'[l].expired = row[l].expired
        /\ row'[l].revoked = row[l].revoked
        /\ \A m \in Leases : m # l => row'[m] = row[m]
    BY <1>0, <1>2, RowReal
  <2>3. IssueOK(l)' /\ DeadOK(l)'
    BY <1>0, <1>1, <2>1, <2>2 DEF IssueOK, DeadOK, Uncreated, Unrenewed
  <2>4. RowGrows(l) /\ CredGrows(l)
    BY <1>0, <2>2 DEF RowGrows, CredGrows
  <2> QED
    BY <1>0, <2>1, <2>2, <2>3, <2>4, IssueStep
<1>3. CASE Goto(l, "undo") /\ row' = row
  <2>1. /\ iss'[l].pc = "undo" /\ iss'[l].mode = iss[l].mode /\ iss'[l].secret = iss[l].secret
        /\ \A m \in Leases : m # l => iss'[m] = iss[m]
    BY <1>0, <1>3, GotoEffect DEF IssuePositions
  <2>2. IssueOK(l)' /\ DeadOK(l)'
    BY <1>0, <1>1, <1>3, <2>1 DEF IssueOK, DeadOK, Uncreated, Unrenewed
  <2>3. RowGrows(l) /\ CredGrows(l)
    BY <1>0, <1>3 DEF RowGrows, CredGrows
  <2> QED
    BY <1>0, <1>3, <2>1, <2>2, <2>3, IssueStep
<1> QED
  BY <1>2, <1>3 DEF Finalize

\* The secret leaves under the last check, or the lease is cleaned up by the
\* request itself.
LEMMA DeliverTrack ==
    ASSUME TypeInv, TrackInv, NEW l \in Leases, Deliver(l) \/ ReleaseLease(l)
    PROVE  TrackInv' /\ \A m \in Leases : RowGrows(m) /\ CredGrows(m)
<1>0. iss \in [Leases -> IssueType] /\ work \in [Workers -> WorkType]
      /\ UNCHANGED <<row, cred>> /\ iss[l].pc \in {"finalized", "delivered"}
  BY DEF TypeInv, Types, Deliver, ReleaseLease
<1>1. IssueOK(l) /\ DeadOK(l)
  BY DEF TrackInv
<1>2. \A m \in Leases : RowGrows(m) /\ CredGrows(m)
  BY <1>0 DEF RowGrows, CredGrows
<1>3. CASE /\ StillDeliverable(l) /\ work' = work /\ iss[l].pc = "finalized"
           /\ iss' = [iss EXCEPT ![l].pc = "delivered", ![l].secret = TRUE]
  <2>1. /\ iss'[l].pc = "delivered" /\ iss'[l].mode = iss[l].mode
        /\ \A m \in Leases : m # l => iss'[m] = iss[m]
    BY <1>0, <1>3 DEF IssueType
  <2>2. ~row[l].expired /\ ~row[l].revoked
    BY <1>3 DEF StillDeliverable
  <2>3. IssueOK(l)' /\ DeadOK(l)'
    BY <1>0, <1>1, <1>3, <2>1, <2>2 DEF IssueOK, DeadOK, Uncreated, Unrenewed
  <2> QED
    BY <1>0, <1>2, <1>3, <2>1, <2>3, IssueStep
<1>4. CASE Answered(l) /\ work' = [work EXCEPT ![l] = SelectedLease(l)]
  <2>1. iss'[l].pc = "done" /\ ~iss'[l].secret /\ \A m \in Leases : m # l => iss'[m] = iss[m]
    BY <1>0, <1>4, AnsweredEffect
  <2>2. IssueOK(l)' /\ DeadOK(l)'
    BY <1>0, <1>1, <2>1 DEF IssueOK, DeadOK, Uncreated, Unrenewed
  <2>3. l \in Workers /\ work'[l] = SelectedLease(l) /\ \A p \in Workers : p # l => work'[p] = work[p]
    BY <1>0, <1>4, LeaseIsWorker
  <2>4. WorkOK(l)'
    <3>1. ASSUME NEW s \in work'[l].todo
          PROVE  /\ s.kind = "real" => row'[s.lease].kind = "real"
                 /\ s.expired => row'[s.lease].expired
                 /\ row'[s.lease].kind # "none"
      <4>1. s = Snapshot(l, 0) /\ Unrevoked(l)
        BY <2>3, <3>1, SelectedLeaseEffect DEF TypeInv
      <4>2. s.lease = l /\ s.kind = row[l].kind /\ s.expired = row[l].expired
        BY <4>1, SnapshotEffect DEF TypeInv
      <4> QED
        BY <1>0, <4>1, <4>2 DEF Unrevoked
    <3>2. work'[l].hand = {}
      BY <2>3, SelectedLeaseEffect DEF TypeInv
    <3> QED
      BY <3>1, <3>2 DEF WorkOK
  <2>5. \A p \in Workers : WorkOK(p)'
    BY <1>2, <2>3, <2>4, WorkKept DEF TrackInv
  <2>6. \A m \in Leases : IssueOK(m)' /\ DeadOK(m)'
    BY <1>0, <1>2, <2>1, <2>2, IssueStep
  <2> QED
    BY <1>2, <2>5, <2>6 DEF TrackInv
<1> QED
  BY <1>3, <1>4 DEF Deliver, ReleaseLease

-----------------------------------------------------------------------------
(* The administrators' requests leave rows to their own cleanup. *)

LEMMA RequestWork ==
    ASSUME ChangesNext \/ DisconnectNext
    PROVE  /\ UNCHANGED <<row, cred, iss>>
           /\ \E r \in Requests : \/ work' = work \/ work' = [work EXCEPT ![r] = NoWork]
                                  \/ \E modes : work' = [work EXCEPT ![r] = Selected(modes)]
<1>1. CASE ChangesNext
  <2>1. PICK r \in Requests :
           \/ Look(r) \/ RaiseGrant(r) \/ ClaimGate(r) \/ Refuse(r) \/ RevokeLeases(r)
           \/ Deferred(r) \/ Drained(r) \/ CommitRefused(r)
           \/ ChangeRole(r) \/ RemoveMember(r) \/ CommitGrant(r) \/ ClearAfterGrant(r)
           \/ CommitConnection(r) \/ TeamReadOff(r) \/ ManagedOff(r)
    BY <1>1 DEF ChangesNext
  <2>2. \/ work' = work \/ work' = [work EXCEPT ![r] = NoWork]
        \/ work' = [work EXCEPT ![r] = Selected(RevocationScope(r))]
    BY <2>1 DEF Look, RaiseGrant, ClaimGate, Refuse, RevokeLeases, Deferred, Drained, CommitRefused,
       ChangeRole, RemoveMember, CommitGrant, ClearAfterGrant, CommitConnection, TeamReadOff, ManagedOff
  <2> QED
    BY <1>1, <2>2, ChangesFrame
<1>2. CASE DisconnectNext
  <2>1. PICK r \in Requests :
           \/ ClaimDisconnect(r) \/ ResumeDisconnect(r) \/ DisconnectLeases(r) \/ DisconnectDeferred(r)
           \/ DisconnectDrained(r) \/ StartProviderRevoke(r) \/ RevokeAuthorization(r)
           \/ ResumeStarted(r) \/ MarkAmbiguous(r) \/ MarkProviderRevoked(r) \/ FinalizeDisconnect(r)
           \/ LookReconnect(r) \/ ClaimReconnect(r) \/ ReconnectRevoked(r)
           \/ PersistIntegration(r) \/ PersistRefused(r)
    BY <1>2 DEF DisconnectNext
  <2>2. \/ work' = work \/ work' = [work EXCEPT ![r] = NoWork]
        \/ work' = [work EXCEPT ![r] = Selected(AccessModes)]
    BY <2>1 DEF ClaimDisconnect, ResumeDisconnect, DisconnectLeases, DisconnectDeferred,
       DisconnectDrained, StartProviderRevoke, RevokeAuthorization, ResumeStarted, MarkAmbiguous,
       MarkProviderRevoked, FinalizeDisconnect, LookReconnect, ClaimReconnect, ReconnectRevoked,
       PersistIntegration, PersistRefused
  <2>3. UNCHANGED <<row, cred, iss>>
    BY <2>1 DEF ClaimDisconnect, ResumeDisconnect, DisconnectLeases, DisconnectDeferred,
       DisconnectDrained, StartProviderRevoke, RevokeAuthorization, ResumeStarted, MarkAmbiguous,
       MarkProviderRevoked, FinalizeDisconnect, LookReconnect, ClaimReconnect, ReconnectRevoked,
       PersistIntegration, PersistRefused
  <2> QED
    BY <2>2, <2>3
<1> QED
  BY <1>1, <1>2

LEMMA RequestTrack ==
    ASSUME TypeInv, TrackInv, ChangesNext \/ DisconnectNext
    PROVE  TrackInv' /\ \A m \in Leases : RowGrows(m) /\ CredGrows(m)
<1>0. UNCHANGED <<row, cred, iss>> /\ cred \in [Leases -> {"none", "live", "dead"}]
      /\ work \in [Workers -> WorkType]
  BY RequestWork DEF TypeInv, Types
<1>1. \A l \in Leases : CleanupStep(l)
  BY <1>0 DEF CleanupStep
<1>2. PICK r \in Requests : \/ work' = work \/ work' = [work EXCEPT ![r] = NoWork]
                            \/ \E modes : work' = [work EXCEPT ![r] = Selected(modes)]
  BY RequestWork
<1>3. \A p \in Workers : WorkOK(p)'
  <2>1. CASE work' = work
    BY <1>0, <1>1, <2>1, TrackKept
  <2>2. CASE work' = [work EXCEPT ![r] = NoWork]
    <3>1. \A p \in Workers : work'[p].todo \subseteq work[p].todo /\ work'[p].hand \subseteq work[p].hand
      BY <1>0, <2>2, NoWorkType
    <3> QED
      BY <1>0, <1>1, <3>1, TrackKept
  <2>3. ASSUME NEW modes, work' = [work EXCEPT ![r] = Selected(modes)]
        PROVE  \A p \in Workers : WorkOK(p)'
    <3>1. r \in Workers /\ work'[r] = Selected(modes) /\ \A p \in Workers : p # r => work'[p] = work[p]
      BY <1>0, <2>3, LeaseIsWorker
    <3>2. ASSUME NEW s \in work'[r].todo
          PROVE  /\ s.kind = "real" => row'[s.lease].kind = "real"
                 /\ s.expired => row'[s.lease].expired
                 /\ row'[s.lease].kind # "none"
      <4>1. PICK l \in Leases : Unrevoked(l) /\ s = Snapshot(l, 0)
        BY <3>1, <3>2, SelectedEffect DEF TypeInv
      <4>2. s.lease = l /\ s.kind = row[l].kind /\ s.expired = row[l].expired
        BY <4>1, SnapshotEffect DEF TypeInv
      <4> QED
        BY <1>0, <4>1, <4>2 DEF Unrevoked
    <3>3. work'[r].hand = {}
      BY <3>1, SelectedEffect DEF TypeInv
    <3>4. WorkOK(r)'
      BY <3>2, <3>3 DEF WorkOK
    <3> QED
      BY <1>0, <1>1, <3>1, <3>4, TrackKept
  <2> QED
    BY <1>2, <2>1, <2>2, <2>3
<1> QED
  BY <1>0, <1>1, <1>3, TrackKept DEF TrackInv

LEMMA NextTrack ==
    ASSUME TypeInv, TrackInv, [Next]_vars
    PROVE  TrackInv' /\ \A m \in Leases : RowGrows(m) /\ CredGrows(m)
<1>1. ASSUME UNCHANGED <<row, cred, iss, work>>
      PROVE  TrackInv' /\ \A m \in Leases : RowGrows(m) /\ CredGrows(m)
  <2>1. \A l \in Leases : CleanupStep(l)
    BY <1>1 DEF CleanupStep
  <2> QED
    BY <1>1, <2>1, TrackKept DEF TrackInv, TypeInv, Types
<1>2. CASE IssuanceNext
  <2>1. CASE RefreshGoesStale
    BY <1>1, <2>1 DEF RefreshGoesStale
  <2> QED
    BY <1>2, <2>1, AuthorizeReserveTrack, RefreshTrack, CreateCredentialTrack, GiveUpTrack, FinalizeTrack,
       DeliverTrack DEF IssuanceNext
<1>3. CASE CleanupNext
  BY <1>3, HandledTrack, SweepTrack DEF CleanupNext
<1>4. CASE ChangesNext \/ DisconnectNext
  BY <1>4, RequestTrack
<1>5. CASE (\E k \in GateKinds : GateGoesStale(k)) \/ UNCHANGED vars
  BY <1>1, <1>5 DEF GateGoesStale, vars
<1> QED
  BY <1>2, <1>3, <1>4, <1>5 DEF Next

LEMMA InitTrack ==
    ASSUME Init
    PROVE  TrackInv
<1>1. \A l \in Leases : iss[l].pc = "idle" /\ ~iss[l].secret /\ row[l].kind = "none" /\ cred[l] = "none"
  BY DEF Init, NoIssue, NoRow
<1>2. \A p \in Workers : work[p].todo = {} /\ work[p].hand = {}
  BY NoWorkType DEF Init
<1> QED
  BY <1>1, <1>2 DEF TrackInv, IssueOK, DeadOK, WorkOK, Uncreated, Unrenewed

\* A secret the provider still honours has an unrevoked row.
LEMMA TrackGives ==
    ASSUME TypeInv, TrackInv
    PROVE  UsableSecretsAreTracked
<1>1. ASSUME NEW l \in Leases, iss[l].secret, cred[l] = "live" PROVE row[l].kind # "none" /\ ~row[l].revoked
  BY <1>1 DEF TrackInv, IssueOK, DeadOK
<1> QED
  BY <1>1 DEF UsableSecretsAreTracked, Usable, Unrevoked

\* The row of a usable secret is never marked revoked, whatever sweepers and
\* requests work on it with what they read earlier: until the provider stops
\* honouring the credential, cleanup can still find it.
THEOREM SecretsTracked == Spec => []UsableSecretsAreTracked
<1>1. Init => TypeInv /\ TrackInv
  BY InitTypes, InitTrack
<1>2. TypeInv /\ TrackInv /\ [Next]_vars => (TypeInv /\ TrackInv)'
  BY NextTypes, NextTrack
<1>3. TypeInv /\ TrackInv => UsableSecretsAreTracked
  BY TrackGives
<1> QED
  BY <1>1, <1>2, <1>3, PTL DEF Spec

-----------------------------------------------------------------------------
(* Claims. *)

ClaimsOf(r) == {<<r, 1>>, <<r, 2>>}

\* Where a request has drawn no claim yet, holds one of its own, or works under
\* the claim of a disconnect.
Unclaimed == {"idle", "looked", "c_claim"}
Claimants == {"claimed", "superseded", "revoking", "commit", "clearing"}
Disconnecting == {"d_leases", "d_revoking", "d_start", "d_remote", "d_resume", "d_ambiguous",
                  "d_done", "d_final"}
AccessChange == MemberChanges \cup ConnectionChanges

\* What a request's position says of its change and its claim.
RequestOK(r) ==
    /\ req[r].pc \in {"looked"} \cup Claimants => req[r].change \in AccessChange
    /\ req[r].pc \in Claimants => req[r].claim \in ClaimsOf(r)
    /\ req[r].pc \in Disconnecting => req[r].change = "disconnect" /\ req[r].claim # NoClaim

\* Nobody holds a claim its request has not drawn.
UndrawnOK(r) ==
    req[r].pc \in Unclaimed =>
        /\ \A k \in GateKinds : gate[k].claim \notin ClaimsOf(r)
        /\ \A q \in Requests : req[q].claim \notin ClaimsOf(r)

\* A claim closes its gate.
ClaimInv ==
    /\ \A k \in GateKinds : gate[k].claim # NoClaim => gate[k].pending
    /\ \A r \in Requests : RequestOK(r) /\ UndrawnOK(r)

\* What a step of request r may do to claims: it draws its own, takes over the
\* one it finds on a gate, or drops one.
ClaimStep(r) ==
    /\ \A q \in Requests : q # r => req'[q] = req[q]
    /\ \A k \in GateKinds :
          /\ gate'[k].claim \in {gate[k].claim, NoClaim} \cup ClaimsOf(r)
          /\ gate'[k].claim # NoClaim => gate'[k].pending
    /\ gate'["integration"].claim \in {gate["integration"].claim, NoClaim} \/ req[r].pc \in Unclaimed
    /\ req'[r].claim \in {req[r].claim, NoClaim, gate["integration"].claim} \cup ClaimsOf(r)
    /\ req'[r].pc \in Unclaimed => req[r].pc \in Unclaimed /\ req'[r].claim = NoClaim /\ UNCHANGED gate
    /\ RequestOK(r)'

LEMMA ClaimsApart ==
    /\ \A r \in Requests : NoClaim \notin ClaimsOf(r)
    /\ \A r, q \in Requests : r # q => ClaimsOf(r) \cap ClaimsOf(q) = {}
BY ClaimIds DEF ClaimsOf

LEMMA ClaimStepKeeps ==
    ASSUME TypeInv, ClaimInv, NEW r \in Requests, ClaimStep(r)
    PROVE  ClaimInv'
<1>1. \A k \in GateKinds : gate'[k].claim # NoClaim => gate'[k].pending
  BY DEF ClaimStep
<1>2. ASSUME NEW q \in Requests PROVE RequestOK(q)'
  <2>1. CASE q = r
    BY <2>1 DEF ClaimStep
  <2>2. CASE q # r
    BY <2>2 DEF ClaimStep, ClaimInv, RequestOK
  <2> QED
    BY <2>1, <2>2
<1>3. "integration" \in GateKinds
  BY DEF GateKinds
<1>4. ASSUME NEW q \in Requests, req'[q].pc \in Unclaimed
      PROVE  /\ \A k \in GateKinds : gate'[k].claim \notin ClaimsOf(q)
             /\ \A s \in Requests : req'[s].claim \notin ClaimsOf(q)
  <2>1. CASE q = r
    <3>1. req[q].pc \in Unclaimed /\ req'[q].claim = NoClaim /\ UNCHANGED gate
      BY <1>4, <2>1 DEF ClaimStep
    <3>2. \A k \in GateKinds : gate'[k].claim \notin ClaimsOf(q)
      BY <3>1 DEF ClaimInv, UndrawnOK
    <3>3. \A s \in Requests : s # q => req'[s] = req[s]
      BY <2>1 DEF ClaimStep
    <3> QED
      BY <3>1, <3>2, <3>3, ClaimsApart DEF ClaimInv, UndrawnOK
  <2>2. CASE q # r
    <3>1. req[q].pc \in Unclaimed
      BY <1>4, <2>2 DEF ClaimStep
    <3>2. /\ \A k \in GateKinds : gate[k].claim \notin ClaimsOf(q)
          /\ \A s \in Requests : req[s].claim \notin ClaimsOf(q)
      BY <3>1 DEF ClaimInv, UndrawnOK
    <3>3. NoClaim \notin ClaimsOf(q) /\ \A c \in ClaimsOf(r) : c \notin ClaimsOf(q)
      BY <2>2, ClaimsApart
    <3>4. \A k \in GateKinds : gate'[k].claim \notin ClaimsOf(q)
      BY <3>2, <3>3 DEF ClaimStep
    <3>5. req'[r].claim \notin ClaimsOf(q)
      BY <1>3, <3>2, <3>3 DEF ClaimStep
    <3>6. \A s \in Requests : s # r => req'[s].claim \notin ClaimsOf(q)
      BY <3>2 DEF ClaimStep
    <3> QED
      BY <3>4, <3>5, <3>6
  <2> QED
    BY <2>1, <2>2
<1> QED
  BY <1>1, <1>2, <1>4 DEF ClaimInv, UndrawnOK

\* A request that answers holds no claim.
LEMMA AnswerClaims ==
    ASSUME TypeInv, NEW r \in Requests, NEW pc \in {"done", "retry"}, Answer(r, pc)
    PROVE  /\ RequestOK(r)' /\ req'[r].claim = NoClaim /\ req'[r].pc \notin Unclaimed
           /\ \A q \in Requests : q # r => req'[q] = req[q]
<1>1. /\ req'[r].pc = pc /\ req'[r].claim = NoClaim
      /\ \A q \in Requests : q # r => req'[q] = req[q]
  BY AnswerEffect DEF TypeInv, Types, RequestPositions
<1> QED
  BY <1>1 DEF RequestOK, Claimants, Disconnecting, Unclaimed

\* The gate's own statement draws no claim but the request's, and closes the gate
\* it claims.
LEMMA UpdateClaims ==
    ASSUME TypeInv, ClaimInv, NEW r \in Requests, NEW k \in GateKinds, NEW id,
           NEW to \in {Cleared, Released, Claimed(<<r, 2>>), Withdrawn(r)},
           gate' = UpdateClaim(k, id, to)
    PROVE  /\ \A j \in GateKinds :
                 /\ gate'[j].claim \in {gate[j].claim, NoClaim} \cup ClaimsOf(r)
                 /\ gate'[j].claim # NoClaim => gate'[j].pending
           /\ \A j \in GateKinds : j # k => gate'[j] = gate[j]
           /\ to # Claimed(<<r, 2>>) => gate'[k].claim \in {gate[k].claim, NoClaim}
<1>1. <<r, 2>> \in Claims
  BY ClaimIds
<1>2. Claimed(<<r, 2>>) \in GateType /\ Claimed(<<r, 2>>).pending /\ Claimed(<<r, 2>>).claim = <<r, 2>>
  BY <1>1, GateValues
<1>3. to \in GateType
  BY <1>2, GateValues, WithdrawnValues
<1>4. /\ \A j \in GateKinds : j # k => gate'[j] = gate[j]
      /\ gate'[k] = gate[k] \/ gate'[k] = to
  BY <1>3, UpdateClaimEffect DEF TypeInv, Types
<1>5. to = Claimed(<<r, 2>>) \/ to.claim = NoClaim
  BY GateValues, WithdrawnValues
<1> QED
  BY <1>2, <1>4, <1>5 DEF ClaimInv, ClaimsOf

ChangesStep(r) ==
    \/ Look(r) \/ RaiseGrant(r) \/ ClaimGate(r) \/ Refuse(r) \/ RevokeLeases(r)
    \/ Deferred(r) \/ Drained(r) \/ CommitRefused(r)
    \/ ChangeRole(r) \/ RemoveMember(r) \/ CommitGrant(r) \/ ClearAfterGrant(r)
    \/ CommitConnection(r) \/ TeamReadOff(r) \/ ManagedOff(r)

DisconnectStep(r) ==
    \/ ClaimDisconnect(r) \/ ResumeDisconnect(r) \/ DisconnectLeases(r) \/ DisconnectDeferred(r)
    \/ DisconnectDrained(r) \/ StartProviderRevoke(r) \/ RevokeAuthorization(r)
    \/ ResumeStarted(r) \/ MarkAmbiguous(r) \/ MarkProviderRevoked(r) \/ FinalizeDisconnect(r)
    \/ LookReconnect(r) \/ ClaimReconnect(r) \/ ReconnectRevoked(r)
    \/ PersistIntegration(r) \/ PersistRefused(r)

\* An access change never goes to the integration's gate.
LEMMA AccessGates ==
    ASSUME NEW change \in AccessChange
    PROVE  GateOf(change) \in {"member", "connection"}
BY DEF AccessChange, GateOf

\* The gate is set by a batch that has checked it.
LEMMA SetClaims ==
    ASSUME TypeInv, ClaimInv, NEW r \in Requests, NEW k \in GateKinds,
           NEW to \in {Cleared, Claimed(<<r, 1>>)}, gate' = [gate EXCEPT ![k] = to]
    PROVE  /\ \A j \in GateKinds :
                 /\ gate'[j].claim \in {gate[j].claim, NoClaim} \cup ClaimsOf(r)
                 /\ gate'[j].claim # NoClaim => gate'[j].pending
           /\ \A j \in GateKinds : j # k => gate'[j] = gate[j]
           /\ gate'[k] = to
           /\ to = Cleared => gate'[k].claim = NoClaim
<1>1. <<r, 1>> \in Claims
  BY ClaimIds
<1>2. Claimed(<<r, 1>>).pending /\ Claimed(<<r, 1>>).claim = <<r, 1>>
  BY <1>1, GateValues
<1>3. (\A j \in GateKinds : j # k => gate'[j] = gate[j]) /\ gate'[k] = to
  BY DEF TypeInv, Types
<1>4. to = Claimed(<<r, 1>>) \/ to.claim = NoClaim
  BY GateValues
<1> QED
  BY <1>2, <1>3, <1>4, GateValues DEF ClaimInv, ClaimsOf

\* A request that answers, having set or dropped a claim, has made a claim step.
LEMMA AnswerStep ==
    ASSUME TypeInv, ClaimInv, NEW r \in Requests, NEW pc \in {"done", "retry"}, Answer(r, pc),
           \A j \in GateKinds :
              /\ gate'[j].claim \in {gate[j].claim, NoClaim} \cup ClaimsOf(r)
              /\ gate'[j].claim # NoClaim => gate'[j].pending,
           gate'["integration"].claim \in {gate["integration"].claim, NoClaim}
    PROVE  ClaimStep(r)
BY AnswerClaims DEF ClaimStep

\* A step that leaves the gates alone and moves on to a place of the same kind.
LEMMA MoveStep ==
    ASSUME TypeInv, ClaimInv, NEW r \in Requests, UNCHANGED gate,
           \A q \in Requests : q # r => req'[q] = req[q],
           req'[r].claim \in {req[r].claim, NoClaim, gate["integration"].claim},
           req'[r].pc \in Unclaimed => req[r].pc \in Unclaimed /\ req'[r].claim = NoClaim,
           RequestOK(r)'
    PROVE  ClaimStep(r)
<1>1. "integration" \in GateKinds
  BY DEF GateKinds
<1> QED
  BY <1>1 DEF ClaimStep, ClaimInv

LEMMA LookClaims ==
    ASSUME TypeInv, ClaimInv, NEW r \in Requests, Look(r)
    PROVE  ClaimStep(r)
<1>0. req \in [Requests -> RequestType] /\ NoRequest \in RequestType /\ NoRequest.claim = NoClaim
  BY NoRequestType DEF TypeInv, Types
<1>1. PICK change \in scenario.changes : \E to \in Targets(change) :
        /\ Arrives(r, change)
        /\ Admitted(change)
        /\ req' = [req EXCEPT ![r] = [NoRequest EXCEPT !.pc = "looked", !.change = change, !.to = to,
                                                       !.role = role, !.revision = conn.revision]]
        /\ UNCHANGED <<scenario, provider, gate, role, grant, conn, integ, row, cred, iss, work, sent>>
  BY DEF Look
<1>2. PICK to \in Targets(change) :
        /\ Arrives(r, change)
        /\ Admitted(change)
        /\ req' = [req EXCEPT ![r] = [NoRequest EXCEPT !.pc = "looked", !.change = change, !.to = to,
                                                       !.role = role, !.revision = conn.revision]]
        /\ UNCHANGED <<scenario, provider, gate, role, grant, conn, integ, row, cred, iss, work, sent>>
  BY <1>1
<1>3. change \in AccessChange
  BY <1>2 DEF Admitted, AccessChange, MemberChanges, ConnectionChanges, TemplateChanges
<1>4. /\ req'[r] = [NoRequest EXCEPT !.pc = "looked", !.change = change, !.to = to,
                                     !.role = role, !.revision = conn.revision]
      /\ \A q \in Requests : q # r => req'[q] = req[q]
  BY <1>0, <1>2
<1>5. req'[r].pc = "looked" /\ req'[r].change = change /\ req'[r].claim = NoClaim
  BY <1>0, <1>4 DEF RequestType, NoRequest
<1>6. req[r].pc \in Unclaimed /\ UNCHANGED gate
  BY <1>2 DEF Arrives, Unclaimed
<1>7. RequestOK(r)'
  BY <1>3, <1>5 DEF RequestOK, Claimants, Disconnecting
<1> QED
  BY <1>4, <1>5, <1>6, <1>7, MoveStep

LEMMA RaiseGrantClaims ==
    ASSUME TypeInv, ClaimInv, NEW r \in Requests, RaiseGrant(r)
    PROVE  ClaimStep(r)
<1>0. req \in [Requests -> RequestType] /\ NoRequest \in RequestType /\ NoRequest.claim = NoClaim
  BY NoRequestType DEF TypeInv, Types
<1>1. req' = [req EXCEPT ![r] = [NoRequest EXCEPT !.pc = "done", !.change = "raise"]] /\ UNCHANGED gate
  BY DEF RaiseGrant
<1>2. /\ req'[r] = [NoRequest EXCEPT !.pc = "done", !.change = "raise"]
      /\ \A q \in Requests : q # r => req'[q] = req[q]
  BY <1>0, <1>1
<1>3. req'[r].pc = "done" /\ req'[r].claim = NoClaim
  BY <1>0, <1>2 DEF RequestType, NoRequest
<1>4. RequestOK(r)' /\ req'[r].pc \notin Unclaimed
  BY <1>3 DEF RequestOK, Claimants, Disconnecting, Unclaimed
<1> QED
  BY <1>1, <1>2, <1>3, <1>4, MoveStep

LEMMA ClaimGateClaims ==
    ASSUME TypeInv, ClaimInv, NEW r \in Requests, ClaimGate(r)
    PROVE  ClaimStep(r)
<1>1. req[r].pc = "looked"
  BY DEF ClaimGate
<1>2. req[r].change \in AccessChange /\ req[r].pc \in Unclaimed
  BY <1>1 DEF ClaimInv, RequestOK, Unclaimed
<1>3. /\ gate' = [gate EXCEPT ![GateOf(req[r].change)] = Claimed(<<r, 1>>)]
      /\ req'[r].pc \in {"superseded", "claimed"} /\ req'[r].claim = <<r, 1>>
      /\ req'[r].change = req[r].change
      /\ \A q \in Requests : q # r => req'[q] = req[q]
  BY ClaimGateEffect
<1>4. \A j \in GateKinds : /\ gate'[j].claim \in {gate[j].claim, NoClaim} \cup ClaimsOf(r)
                           /\ gate'[j].claim # NoClaim => gate'[j].pending
  BY <1>3, GateOfKinds, SetClaims
<1>5. RequestOK(r)' /\ req'[r].pc \notin Unclaimed
  BY <1>2, <1>3 DEF RequestOK, Claimants, Disconnecting, ClaimsOf, Unclaimed
<1> QED
  BY <1>2, <1>3, <1>4, <1>5 DEF ClaimStep, ClaimsOf

\* The owner's statement on the gate of an access change, and the answer.
LEMMA OwnerAnswers ==
    ASSUME TypeInv, ClaimInv, NEW r \in Requests, req[r].pc \in Claimants,
           NEW to \in {Cleared, Released, Claimed(<<r, 2>>), Withdrawn(r)},
           gate' = UpdateClaim(GateOf(req[r].change), req[r].claim, to),
           NEW pc \in {"done", "retry"}, Answer(r, pc)
    PROVE  ClaimStep(r)
<1>1. GateOf(req[r].change) \in GateKinds /\ GateOf(req[r].change) # "integration"
  BY GateOfKinds, AccessGates DEF ClaimInv, RequestOK
<1>2. "integration" \in GateKinds
  BY DEF GateKinds
<1>3. /\ \A j \in GateKinds :
            /\ gate'[j].claim \in {gate[j].claim, NoClaim} \cup ClaimsOf(r)
            /\ gate'[j].claim # NoClaim => gate'[j].pending
      /\ \A j \in GateKinds : j # GateOf(req[r].change) => gate'[j] = gate[j]
  BY <1>1, UpdateClaims
<1>4. gate'["integration"].claim \in {gate["integration"].claim, NoClaim}
  BY <1>1, <1>2, <1>3
<1> QED
  BY <1>3, <1>4, AnswerStep

LEMMA WithdrawClaims ==
    ASSUME TypeInv, ClaimInv, NEW r \in Requests,
           Refuse(r) \/ Deferred(r) \/ CommitRefused(r) \/ ClearAfterGrant(r)
    PROVE  ClaimStep(r)
<1>1. req[r].pc \in Claimants
  BY DEF Refuse, Deferred, CommitRefused, ClearAfterGrant, Claimants
<1>2. CASE Refuse(r)
  BY <1>1, <1>2, OwnerAnswers DEF Refuse
<1>3. ASSUME NEW pc \in {"done", "retry"}, GiveUp(r, pc) PROVE ClaimStep(r)
  <2>1. CASE req[r].change = "managedOff"
    BY <1>1, <1>3, <2>1, OwnerAnswers DEF GiveUp
  <2>2. CASE req[r].change # "managedOff"
    BY <1>1, <1>3, <2>2, OwnerAnswers DEF GiveUp
  <2> QED
    BY <2>1, <2>2
<1>4. CASE Deferred(r)
  <2>1. CASE req[r].change \in {"role", "remove"}
    BY <1>1, <1>4, <2>1, OwnerAnswers DEF Deferred
  <2>2. CASE req[r].change \in {"lower", "ungrant"}
    BY <1>1, <1>4, <2>2, OwnerAnswers DEF Deferred
  <2>3. CASE req[r].change \notin {"role", "remove", "lower", "ungrant"}
    BY <1>3, <1>4, <2>3 DEF Deferred
  <2> QED
    BY <2>1, <2>2, <2>3
<1>5. CASE CommitRefused(r)
  BY <1>3, <1>5 DEF CommitRefused
<1>6. CASE ClearAfterGrant(r)
  <2>1. "member" \in GateKinds /\ "integration" \in GateKinds
    BY DEF GateKinds
  <2>2. gate' = UpdateClaim("member", req[r].claim, Cleared) /\ Answer(r, "done")
    BY <1>6 DEF ClearAfterGrant
  <2>3. /\ \A j \in GateKinds :
              /\ gate'[j].claim \in {gate[j].claim, NoClaim} \cup ClaimsOf(r)
              /\ gate'[j].claim # NoClaim => gate'[j].pending
        /\ gate'["integration"] = gate["integration"]
    BY <2>1, <2>2, UpdateClaims
  <2> QED
    BY <2>2, <2>3, AnswerStep
<1> QED
  BY <1>2, <1>4, <1>5, <1>6

\* The batches of the access changes clear the gate they checked.
LEMMA CommitClaims ==
    ASSUME TypeInv, ClaimInv, NEW r \in Requests,
           \/ ChangeRole(r) \/ RemoveMember(r)
           \/ CommitConnection(r) \/ TeamReadOff(r) \/ ManagedOff(r)
    PROVE  ClaimStep(r)
<1>1. PICK k \in {"member", "connection"} : gate' = [gate EXCEPT ![k] = Cleared]
  BY DEF ChangeRole, RemoveMember, CommitConnection, TeamReadOff, ManagedOff
<1>2. Answer(r, "done")
  BY DEF ChangeRole, RemoveMember, CommitConnection, TeamReadOff, ManagedOff
<1>3. k \in GateKinds /\ "integration" \in GateKinds /\ k # "integration"
  BY DEF GateKinds
<1>4. /\ \A j \in GateKinds :
            /\ gate'[j].claim \in {gate[j].claim, NoClaim} \cup ClaimsOf(r)
            /\ gate'[j].claim # NoClaim => gate'[j].pending
      /\ gate'["integration"] = gate["integration"]
  BY <1>1, <1>3, SetClaims
<1> QED
  BY <1>2, <1>4, AnswerStep

\* The requests that go on under their claim.
LEMMA OngoingClaims ==
    ASSUME TypeInv, ClaimInv, NEW r \in Requests, RevokeLeases(r) \/ CommitGrant(r)
    PROVE  ClaimStep(r)
<1>0. req \in [Requests -> RequestType] /\ UNCHANGED gate /\ req[r].pc \in Claimants
  BY DEF TypeInv, Types, RevokeLeases, CommitGrant, Claimants
<1>1. PICK pc \in {"revoking", "clearing"} : req' = [req EXCEPT ![r].pc = pc]
  BY DEF RevokeLeases, CommitGrant
<1>2. /\ req'[r].pc = pc /\ req'[r].claim = req[r].claim /\ req'[r].change = req[r].change
      /\ \A q \in Requests : q # r => req'[q] = req[q]
  BY <1>0, <1>1, StepEffect DEF RequestPositions
<1>3. RequestOK(r)' /\ req'[r].pc \notin Unclaimed
  BY <1>0, <1>2 DEF ClaimInv, RequestOK, Claimants, Disconnecting, Unclaimed
<1> QED
  BY <1>0, <1>2, <1>3, MoveStep

LEMMA DrainedClaims ==
    ASSUME TypeInv, ClaimInv, NEW r \in Requests, Drained(r)
    PROVE  ClaimStep(r)
<1>1. req[r].pc \in Claimants
  BY DEF Drained, Claimants
<1>2. req[r].change \in AccessChange /\ req[r].claim \in ClaimsOf(r)
  BY <1>1 DEF ClaimInv, RequestOK
<1>3. /\ req'[r].pc \in {"commit", "done"} /\ req'[r].claim \in ClaimsOf(r)
      /\ req'[r].change = req[r].change
      /\ \A q \in Requests : q # r => req'[q] = req[q]
  BY <1>2, DrainedEffect DEF ClaimsOf
<1>4. RequestOK(r)' /\ req'[r].pc \notin Unclaimed
  BY <1>2, <1>3 DEF RequestOK, Claimants, Disconnecting, Unclaimed
<1>5. GateOf(req[r].change) \in GateKinds /\ GateOf(req[r].change) # "integration"
  BY <1>2, GateOfKinds, AccessGates
<1>6. "integration" \in GateKinds
  BY DEF GateKinds
<1>7. gate' = gate \/ gate' = UpdateClaim(GateOf(req[r].change), req[r].claim, Claimed(<<r, 2>>))
  BY DEF Drained
<1>8. /\ \A j \in GateKinds :
            /\ gate'[j].claim \in {gate[j].claim, NoClaim} \cup ClaimsOf(r)
            /\ gate'[j].claim # NoClaim => gate'[j].pending
      /\ gate'["integration"] = gate["integration"]
  <2>1. CASE gate' = gate
    BY <2>1 DEF ClaimInv
  <2>2. CASE gate' = UpdateClaim(GateOf(req[r].change), req[r].claim, Claimed(<<r, 2>>))
    BY <1>5, <1>6, <2>2, UpdateClaims
  <2> QED
    BY <1>7, <2>1, <2>2
<1> QED
  BY <1>3, <1>4, <1>8 DEF ClaimStep

LEMMA ChangesClaims ==
    ASSUME TypeInv, ClaimInv, NEW r \in Requests, ChangesStep(r)
    PROVE  ClaimStep(r)
BY LookClaims, RaiseGrantClaims, ClaimGateClaims, WithdrawClaims, CommitClaims, OngoingClaims,
   DrainedClaims DEF ChangesStep

-----------------------------------------------------------------------------
LEMMA ClaimDisconnectClaims ==
    ASSUME TypeInv, ClaimInv, NEW r \in Requests, ClaimDisconnect(r)
    PROVE  ClaimStep(r)
<1>0. req \in [Requests -> RequestType] /\ NoRequest \in RequestType /\ "integration" \in GateKinds
  BY NoRequestType DEF TypeInv, Types, GateKinds
<1>1. /\ req[r].pc \in Unclaimed
      /\ gate' = [gate EXCEPT !["integration"] = Claimed(<<r, 1>>)]
      /\ req' = [req EXCEPT ![r] = [NoRequest EXCEPT !.pc = "d_leases", !.change = "disconnect",
                                      !.claim = <<r, 1>>, !.generation = integ.generation]]
  BY DEF ClaimDisconnect, Arrives, Unclaimed
<1>2. /\ req'[r] = [NoRequest EXCEPT !.pc = "d_leases", !.change = "disconnect",
                                     !.claim = <<r, 1>>, !.generation = integ.generation]
      /\ \A q \in Requests : q # r => req'[q] = req[q]
  BY <1>0, <1>1
<1>3. req'[r].pc = "d_leases" /\ req'[r].change = "disconnect" /\ req'[r].claim = <<r, 1>>
  BY <1>0, <1>2 DEF RequestType, NoRequest
<1>4. \A j \in GateKinds :
         /\ gate'[j].claim \in {gate[j].claim, NoClaim} \cup ClaimsOf(r)
         /\ gate'[j].claim # NoClaim => gate'[j].pending
  BY <1>0, <1>1, SetClaims
<1>5. RequestOK(r)' /\ req'[r].pc \notin Unclaimed
  BY <1>3, ClaimIds DEF RequestOK, Claimants, Disconnecting, Unclaimed
<1> QED
  BY <1>1, <1>2, <1>3, <1>4, <1>5 DEF ClaimStep, ClaimsOf

LEMMA ResumeDisconnectClaims ==
    ASSUME TypeInv, ClaimInv, NEW r \in Requests, ResumeDisconnect(r)
    PROVE  ClaimStep(r)
<1>0. req \in [Requests -> RequestType] /\ NoRequest \in RequestType /\ "integration" \in GateKinds
  BY NoRequestType DEF TypeInv, Types, GateKinds
<1>1. /\ gate["integration"].claim # NoClaim /\ UNCHANGED gate
      /\ req' = [req EXCEPT ![r] = [NoRequest EXCEPT !.pc = Continue(integ.phase), !.change = "disconnect",
                                      !.claim = gate["integration"].claim, !.generation = integ.dgen]]
  BY DEF ResumeDisconnect
<1>2. /\ req'[r] = [NoRequest EXCEPT !.pc = Continue(integ.phase), !.change = "disconnect",
                                      !.claim = gate["integration"].claim, !.generation = integ.dgen]
      /\ \A q \in Requests : q # r => req'[q] = req[q]
  BY <1>0, <1>1
<1>3. /\ req'[r].pc = Continue(integ.phase) /\ req'[r].change = "disconnect"
      /\ req'[r].claim = gate["integration"].claim
  BY <1>0, <1>2 DEF RequestType, NoRequest
<1>4. Continue(integ.phase) \in {"d_leases", "d_start", "d_resume", "d_final", "done"}
  BY DEF Continue, TypeInv, Types, IntegType, Phases
<1>5. RequestOK(r)' /\ req'[r].pc \notin Unclaimed
  BY <1>1, <1>3, <1>4 DEF RequestOK, Claimants, Disconnecting, Unclaimed
<1> QED
  BY <1>1, <1>2, <1>3, <1>5, MoveStep

\* A step of the saga that has not finished keeps the claim and the gate.
LEMMA SagaClaims ==
    ASSUME TypeInv, ClaimInv, NEW r \in Requests,
           \/ DisconnectLeases(r) \/ DisconnectDeferred(r) \/ DisconnectDrained(r)
           \/ StartProviderRevoke(r) \/ RevokeAuthorization(r) \/ ResumeStarted(r)
           \/ MarkAmbiguous(r) \/ MarkProviderRevoked(r)
    PROVE  ClaimStep(r)
<1>0. req \in [Requests -> RequestType] /\ UNCHANGED gate /\ req[r].pc \in Disconnecting
  BY DEF TypeInv, Types, Disconnecting, DisconnectLeases, DisconnectDeferred, DisconnectDrained,
     StartProviderRevoke, RevokeAuthorization, ResumeStarted, MarkAmbiguous, MarkProviderRevoked
<1>1. \/ \E pc \in {"done", "retry"} : Answer(r, pc)
      \/ \E pc \in {"d_revoking", "d_start", "d_remote", "d_done", "d_ambiguous", "d_final"} :
            req' = [req EXCEPT ![r].pc = pc]
  <2>1. CASE DisconnectLeases(r) \/ DisconnectDeferred(r) \/ DisconnectDrained(r) \/ StartProviderRevoke(r)
    BY <2>1 DEF DisconnectLeases, DisconnectDeferred, DisconnectDrained, StartProviderRevoke
  <2>2. CASE RevokeAuthorization(r)
    BY <2>2 DEF RevokeAuthorization
  <2>3. CASE ResumeStarted(r) \/ MarkAmbiguous(r) \/ MarkProviderRevoked(r)
    BY <2>3 DEF ResumeStarted, MarkAmbiguous, MarkProviderRevoked
  <2> QED
    BY <2>1, <2>2, <2>3
<1>2. ASSUME NEW pc \in {"done", "retry"}, Answer(r, pc) PROVE ClaimStep(r)
  <2>1. RequestOK(r)' /\ req'[r].claim = NoClaim /\ req'[r].pc \notin Unclaimed
        /\ \A q \in Requests : q # r => req'[q] = req[q]
    BY <1>2, AnswerClaims
  <2> QED
    BY <1>0, <2>1, MoveStep
<1>3. ASSUME NEW pc \in {"d_revoking", "d_start", "d_remote", "d_done", "d_ambiguous", "d_final"},
             req' = [req EXCEPT ![r].pc = pc]
      PROVE  ClaimStep(r)
  <2>1. /\ req'[r].pc = pc /\ req'[r].claim = req[r].claim /\ req'[r].change = req[r].change
        /\ \A q \in Requests : q # r => req'[q] = req[q]
    BY <1>0, <1>3, StepEffect DEF RequestPositions
  <2>2. RequestOK(r)' /\ req'[r].pc \notin Unclaimed
    BY <1>0, <2>1 DEF ClaimInv, RequestOK, Claimants, Disconnecting, Unclaimed
  <2> QED
    BY <1>0, <2>1, <2>2, MoveStep
<1> QED
  BY <1>1, <1>2, <1>3

\* The last batches of a disconnect and a reconnect clear the gate or leave it.
LEMMA FinalClaims ==
    ASSUME TypeInv, ClaimInv, NEW r \in Requests,
           FinalizeDisconnect(r) \/ PersistIntegration(r) \/ PersistRefused(r)
    PROVE  ClaimStep(r)
<1>0. "integration" \in GateKinds
  BY DEF GateKinds
<1>1. Answer(r, "done")
  BY DEF FinalizeDisconnect, PersistIntegration, PersistRefused
<1>2. \/ gate' = gate
      \/ gate' = [gate EXCEPT !["integration"] = Cleared]
      \/ gate' = UpdateClaim("integration", req[r].claim, Released)
  BY DEF FinalizeDisconnect, PersistIntegration, PersistRefused
<1>3. CASE gate' = gate
  BY <1>0, <1>1, <1>3, AnswerStep DEF ClaimInv
<1>4. CASE gate' = [gate EXCEPT !["integration"] = Cleared]
  <2>1. /\ \A j \in GateKinds :
              /\ gate'[j].claim \in {gate[j].claim, NoClaim} \cup ClaimsOf(r)
              /\ gate'[j].claim # NoClaim => gate'[j].pending
        /\ gate'["integration"].claim = NoClaim
    BY <1>0, <1>4, SetClaims
  <2> QED
    BY <1>1, <2>1, AnswerStep
<1>5. CASE gate' = UpdateClaim("integration", req[r].claim, Released)
  <2>1. Released # Claimed(<<r, 2>>)
    BY ClaimIds DEF Released, Claimed
  <2>2. /\ \A j \in GateKinds :
              /\ gate'[j].claim \in {gate[j].claim, NoClaim} \cup ClaimsOf(r)
              /\ gate'[j].claim # NoClaim => gate'[j].pending
        /\ gate'["integration"].claim \in {gate["integration"].claim, NoClaim}
    BY <1>0, <1>5, <2>1, UpdateClaims
  <2> QED
    BY <1>1, <2>2, AnswerStep
<1> QED
  BY <1>2, <1>3, <1>4, <1>5

LEMMA LookReconnectClaims ==
    ASSUME TypeInv, ClaimInv, NEW r \in Requests, LookReconnect(r)
    PROVE  ClaimStep(r)
<1>0. req \in [Requests -> RequestType] /\ UNCHANGED gate /\ req[r].pc \in Unclaimed
  BY DEF TypeInv, Types, LookReconnect, Arrives, Unclaimed
<1>1. PICK new \in RequestType :
        /\ req' = [req EXCEPT ![r] = new]
        /\ new.pc \in {"c_claim", "c_persist"} /\ new.change = "reconnect"
        /\ new.claim = NoClaim \/ (new.pc = "c_persist" /\ new.claim = gate["integration"].claim)
  BY LookReconnectEffect
<1>2. req'[r] = new /\ \A q \in Requests : q # r => req'[q] = req[q]
  BY <1>0, <1>1
<1>3. RequestOK(r)'
  BY <1>1, <1>2 DEF RequestOK, Claimants, Disconnecting
<1>4. req'[r].pc \in Unclaimed => req'[r].claim = NoClaim
  BY <1>1, <1>2 DEF Unclaimed
<1> QED
  BY <1>0, <1>1, <1>2, <1>3, <1>4, MoveStep

LEMMA ClaimReconnectClaims ==
    ASSUME TypeInv, ClaimInv, NEW r \in Requests, ClaimReconnect(r)
    PROVE  ClaimStep(r)
<1>0. /\ req[r].pc \in Unclaimed /\ "integration" \in GateKinds
      /\ gate' = [gate EXCEPT !["integration"] = Claimed(<<r, 1>>)]
  BY DEF ClaimReconnect, Unclaimed, GateKinds
<1>1. /\ req'[r].pc = "c_revoking" /\ req'[r].claim = <<r, 1>>
      /\ \A q \in Requests : q # r => req'[q] = req[q]
  BY ClaimReconnectEffect
<1>2. RequestOK(r)' /\ req'[r].pc \notin Unclaimed
  BY <1>1 DEF RequestOK, Claimants, Disconnecting, Unclaimed
<1>3. \A j \in GateKinds :
         /\ gate'[j].claim \in {gate[j].claim, NoClaim} \cup ClaimsOf(r)
         /\ gate'[j].claim # NoClaim => gate'[j].pending
  BY <1>0, SetClaims
<1> QED
  BY <1>0, <1>1, <1>2, <1>3 DEF ClaimStep, ClaimsOf

LEMMA ReconnectRevokedClaims ==
    ASSUME TypeInv, ClaimInv, NEW r \in Requests, ReconnectRevoked(r)
    PROVE  ClaimStep(r)
<1>0. req \in [Requests -> RequestType] /\ "integration" \in GateKinds
  BY DEF TypeInv, Types, GateKinds
<1>1. PICK pc \in {"retry", "c_persist"} : req' = [req EXCEPT ![r].pc = pc]
  BY DEF ReconnectRevoked
<1>2. /\ req'[r].pc = pc /\ req'[r].claim = req[r].claim
      /\ \A q \in Requests : q # r => req'[q] = req[q]
  BY <1>0, <1>1, StepEffect DEF RequestPositions
<1>3. RequestOK(r)' /\ req'[r].pc \notin Unclaimed
  BY <1>2 DEF RequestOK, Claimants, Disconnecting, Unclaimed
<1>4. gate' = gate \/ gate' = UpdateClaim("integration", req[r].claim, Released)
  BY DEF ReconnectRevoked
<1>5. Released # Claimed(<<r, 2>>)
  BY ClaimIds DEF Released, Claimed
<1>6. /\ \A j \in GateKinds :
            /\ gate'[j].claim \in {gate[j].claim, NoClaim} \cup ClaimsOf(r)
            /\ gate'[j].claim # NoClaim => gate'[j].pending
      /\ gate'["integration"].claim \in {gate["integration"].claim, NoClaim}
  <2>1. CASE gate' = gate
    BY <2>1 DEF ClaimInv
  <2>2. CASE gate' = UpdateClaim("integration", req[r].claim, Released)
    BY <1>0, <1>5, <2>2, UpdateClaims
  <2> QED
    BY <1>4, <2>1, <2>2
<1> QED
  BY <1>2, <1>3, <1>6 DEF ClaimStep

\* Every step of an administrator's request is a step on its own claims.
LEMMA RequestClaims ==
    ASSUME TypeInv, ClaimInv, NEW r \in Requests, ChangesStep(r) \/ DisconnectStep(r)
    PROVE  ClaimStep(r)
BY ChangesClaims, ClaimDisconnectClaims, ResumeDisconnectClaims, SagaClaims, FinalClaims,
   LookReconnectClaims, ClaimReconnectClaims, ReconnectRevokedClaims DEF DisconnectStep

\* Everything else leaves the requests and the claims alone.
LEMMA OtherClaims ==
    ASSUME TypeInv, IssuanceNext \/ CleanupNext \/ (\E k \in GateKinds : GateGoesStale(k)) \/ UNCHANGED vars
    PROVE  /\ UNCHANGED req
           /\ \A k \in GateKinds : gate'[k].claim = gate[k].claim /\ gate'[k].pending = gate[k].pending
<1>0. gate \in [GateKinds -> GateType]
  BY DEF TypeInv, Types
<1>1. CASE IssuanceNext
  BY <1>1 DEF IssuanceNext, RefreshGoesStale, AuthorizeLease, Reserve, ClaimRefresh, StartRemoteRefresh,
     RemoteRefresh, FinalizeRefresh, RequireReconnect, CreateCredential, QueueCleanup, IssueFailed,
     Finalize, Undo, Deliver, ReleaseLease
<1>2. CASE CleanupNext
  BY <1>2 DEF CleanupNext, DeferLease, RevokeAtProvider, RevocationFails, MarkLeaseRevoked, ClaimExpired,
     SweeperDies, CleanupClaimGoesStale, LeaseExpires
<1>3. CASE \E k \in GateKinds : GateGoesStale(k)
  <2>1. PICK k \in GateKinds : GateGoesStale(k)
    BY <1>3
  <2>2. gate' = [gate EXCEPT ![k].stale = TRUE] /\ UNCHANGED req
    BY <2>1 DEF GateGoesStale
  <2>3. gate'[k] = [gate[k] EXCEPT !.stale = TRUE] /\ \A j \in GateKinds : j # k => gate'[j] = gate[j]
    BY <1>0, <2>2
  <2>4. gate'[k].claim = gate[k].claim /\ gate'[k].pending = gate[k].pending
    BY <1>0, <2>3 DEF GateType
  <2> QED
    BY <2>2, <2>3, <2>4
<1>4. CASE UNCHANGED vars
  BY <1>4 DEF vars
<1> QED
  BY <1>1, <1>2, <1>3, <1>4

\* A step is one of an administrator's request, or leaves the requests alone.
LEMMA StepKinds ==
    ASSUME [Next]_vars
    PROVE  \/ \E r \in Requests : ChangesStep(r) \/ DisconnectStep(r)
           \/ IssuanceNext \/ CleanupNext \/ (\E k \in GateKinds : GateGoesStale(k)) \/ UNCHANGED vars
BY DEF Next, ChangesNext, DisconnectNext, ChangesStep, DisconnectStep

LEMMA NextClaim ==
    ASSUME TypeInv, ClaimInv, [Next]_vars
    PROVE  ClaimInv'
<1>1. CASE \E r \in Requests : ChangesStep(r) \/ DisconnectStep(r)
  BY <1>1, RequestClaims, ClaimStepKeeps
<1>2. CASE IssuanceNext \/ CleanupNext \/ (\E k \in GateKinds : GateGoesStale(k)) \/ UNCHANGED vars
  <2>1. /\ UNCHANGED req
        /\ \A k \in GateKinds : gate'[k].claim = gate[k].claim /\ gate'[k].pending = gate[k].pending
    BY <1>2, OtherClaims
  <2> QED
    BY <2>1 DEF ClaimInv, RequestOK, UndrawnOK
<1> QED
  BY <1>1, <1>2, StepKinds

LEMMA InitClaim ==
    ASSUME Init
    PROVE  ClaimInv
<1>1. \A r \in Requests : req[r].pc = "idle" /\ req[r].claim = NoClaim
  BY NoRequestType DEF Init
<1>2. \A k \in GateKinds : gate[k].claim = NoClaim
  BY GateValues DEF Init
<1> QED
  BY <1>1, <1>2, ClaimsApart DEF ClaimInv, RequestOK, UndrawnOK, Claimants, Disconnecting

-----------------------------------------------------------------------------
(* A request that holds its gate loses sight of no lease. *)

\* Only a reservation, under open gates, makes a row where there was none.
LEMMA NewRow ==
    ASSUME TypeInv, TrackInv, [Next]_vars, NEW l \in Leases, row[l].kind = "none", row'[l].kind # "none"
    PROVE  Reserve(l) /\ AuthorityPredicate(l) /\ row'[l].mode = iss[l].mode
<1>0. row \in [Leases -> RowType]
  BY DEF TypeInv, Types
<1>1. CASE IssuanceNext
  <2>1. ~RefreshGoesStale
    BY DEF RefreshGoesStale
  <2>2. PICK m \in Leases :
          \/ AuthorizeLease(m) \/ Reserve(m) \/ ClaimRefresh(m) \/ StartRemoteRefresh(m)
          \/ RemoteRefresh(m) \/ FinalizeRefresh(m) \/ RequireReconnect(m)
          \/ CreateCredential(m) \/ QueueCleanup(m) \/ IssueFailed(m)
          \/ Finalize(m) \/ Undo(m) \/ Deliver(m) \/ ReleaseLease(m)
    BY <1>1, <2>1 DEF IssuanceNext
  <2>3. ~(\/ AuthorizeLease(m) \/ ClaimRefresh(m) \/ StartRemoteRefresh(m)
          \/ RemoteRefresh(m) \/ FinalizeRefresh(m) \/ RequireReconnect(m)
          \/ CreateCredential(m) \/ Deliver(m) \/ ReleaseLease(m))
    BY DEF AuthorizeLease, ClaimRefresh, StartRemoteRefresh, RemoteRefresh, FinalizeRefresh,
       RequireReconnect, CreateCredential, Deliver, ReleaseLease
  <2>4. ASSUME QueueCleanup(m) \/ IssueFailed(m) \/ Finalize(m) \/ Undo(m) PROVE FALSE
    <3>1. iss[m].pc \in {"queue", "failed", "created", "undo"}
      BY <2>4 DEF QueueCleanup, IssueFailed, Finalize, Undo
    <3>2. m # l
      BY <3>1 DEF TrackInv, IssueOK
    <3>3. row'[l] = row[l]
      <4>1. CASE QueueCleanup(m) \/ IssueFailed(m) \/ Finalize(m)
        BY <1>0, <3>2, <4>1 DEF QueueCleanup, IssueFailed, Finalize
      <4>2. CASE Undo(m)
        <5>1. \/ row' = [row EXCEPT ![m].kind = "real", ![m].expired = TRUE]
              \/ row' = [row EXCEPT ![m].expired = TRUE] \/ row' = [row EXCEPT ![m].revoked = TRUE]
          BY <4>2 DEF Undo
        <5> QED
          BY <1>0, <3>2, <5>1
      <4> QED
        BY <2>4, <4>1, <4>2
    <3> QED
      BY <3>3
  <2>5. Reserve(m)
    BY <2>2, <2>3, <2>4
  <2>6. /\ row' = [row EXCEPT ![m] = [NoRow EXCEPT !.kind = "pending", !.mode = iss[m].mode]]
        /\ AuthorityPredicate(m)
    BY <2>5 DEF Reserve
  <2>7. m = l
    BY <1>0, <2>6
  <2>8. row'[l] = [NoRow EXCEPT !.kind = "pending", !.mode = iss[l].mode]
    BY <1>0, <2>6, <2>7
  <2> QED
    BY <2>5, <2>6, <2>7, <2>8 DEF NoRow
<1>2. ASSUME CleanupNext PROVE FALSE
  <2>1. ASSUME \E p \in Workers : \E s \in work[p].todo \cup work[p].hand :
                  \/ DeferLease(p, s) \/ RevokeAtProvider(p, s)
                  \/ RevocationFails(p, s) \/ MarkLeaseRevoked(p, s)
        PROVE  FALSE
    BY <2>1, HandledRowStep DEF CleanupStep
  <2>2. ASSUME \E p \in Sweepers : ClaimExpired(p) \/ SweeperDies(p) PROVE FALSE
    <3>1. PICK p \in Sweepers : ClaimExpired(p) \/ SweeperDies(p)
      BY <2>2
    <3>2. p \in Workers
      BY LeaseIsWorker
    <3>3. CASE ClaimExpired(p)
      BY <3>2, <3>3, ClaimExpiredEffect DEF TypeInv
    <3>4. CASE SweeperDies(p)
      BY <3>4 DEF SweeperDies
    <3> QED
      BY <3>1, <3>3, <3>4
  <2>3. ASSUME NEW m \in Leases, CleanupClaimGoesStale(m) PROVE FALSE
    BY <1>0, <2>3, RowStale DEF CleanupClaimGoesStale
  <2>4. ASSUME NEW m \in Leases, LeaseExpires(m) PROVE FALSE
    BY <1>0, <2>4, RowExpires DEF LeaseExpires
  <2> QED
    BY <1>2, <2>1, <2>2, <2>3, <2>4 DEF CleanupNext
<1>3. ASSUME ChangesNext \/ DisconnectNext PROVE FALSE
  BY <1>3, RequestWork
<1>4. ASSUME (\E k \in GateKinds : GateGoesStale(k)) \/ UNCHANGED vars PROVE FALSE
  BY <1>4 DEF GateGoesStale, vars
<1> QED
  BY <1>1, <1>2, <1>3, <1>4 DEF Next

\* A row that is unrevoked after a step was so before it, or was just reserved.
LEMMA RowBirth ==
    ASSUME TypeInv, TrackInv, [Next]_vars, NEW l \in Leases, Unrevoked(l)'
    PROVE  \/ Unrevoked(l) /\ row'[l].mode = row[l].mode
           \/ Reserve(l) /\ AuthorityPredicate(l) /\ row'[l].mode = iss[l].mode
<1>1. CASE row[l].kind = "none"
  BY <1>1, NewRow DEF Unrevoked
<1>2. CASE row[l].kind # "none"
  BY <1>2, NextTrack DEF RowGrows, Unrevoked
<1> QED
  BY <1>1, <1>2

Draining == {"revoking", "commit", "d_revoking"}

\* The request's claim is still the one on its gate.
OwnGate(r) == gate[GateOf(req[r].change)].claim = req[r].claim

\* Then every lease it must revoke is still on its list, in its hand, or known to
\* be deferred; and when it comes to commit there is none.
DrainOK(r) ==
    req[r].pc \in Draining /\ OwnGate(r) =>
        \A l \in Leases : Unrevoked(l) /\ row[l].mode \in RevocationScope(r) =>
            /\ req[r].pc # "commit"
            /\ work[r].deferred \/ \E s \in work[r].todo \cup work[r].hand : s.lease = l

\* A request works without sweeper fences, on one row at a time.
HandOK(r) ==
    /\ \A s \in work[r].todo \cup work[r].hand : s.attempt = 0
    /\ \A s, t \in work[r].hand : s = t

DrainInv == \A r \in Requests : DrainOK(r) /\ HandOK(r)

\* A request that is revoking or committing holds a claim.
LEMMA DrainingClaim ==
    ASSUME ClaimInv, NEW r \in Requests, req[r].pc \in Draining
    PROVE  /\ req[r].claim # NoClaim
           /\ req[r].claim \in ClaimsOf(r) \/ (req[r].change = "disconnect" /\ GateOf(req[r].change) = "integration")
<1>1. CASE req[r].pc \in {"revoking", "commit"}
  BY <1>1, ClaimsApart DEF ClaimInv, RequestOK, Claimants
<1>2. CASE req[r].pc = "d_revoking"
  BY <1>2 DEF ClaimInv, RequestOK, Disconnecting, GateOf, MemberChanges, ConnectionChanges, TemplateChanges
<1> QED
  BY <1>1, <1>2 DEF Draining

\* No row is reserved while a request holds its gate.
LEMMA NoReserveUnderClaim ==
    ASSUME TypeInv, ClaimInv, NEW r \in Requests, req[r].pc \in Draining, OwnGate(r), NEW l \in Leases
    PROVE  ~AuthorityPredicate(l)
BY DrainingClaim, GateOfKinds DEF OwnGate, AuthorityPredicate, Open

\* Another request's step cannot give a gate back to this one.
LEMMA GateNotReturned ==
    ASSUME TypeInv, ClaimInv, NEW r \in Requests, NEW q \in Requests, r # q, ClaimStep(q),
           req[r].pc \in Draining, OwnGate(r)'
    PROVE  OwnGate(r) /\ req'[r] = req[r]
<1>1. req'[r] = req[r]
  BY DEF ClaimStep
<1> DEFINE k == GateOf(req[r].change)
<1>2. k \in GateKinds /\ gate'[k].claim = req[r].claim
  BY <1>1, GateOfKinds DEF OwnGate
<1>3. req[r].claim # NoClaim
  BY DrainingClaim
<1>4. req[r].claim \notin ClaimsOf(q) \/ gate'[k].claim \in {gate[k].claim, NoClaim}
  <2>1. CASE req[r].claim \in ClaimsOf(r)
    BY <2>1, ClaimsApart
  <2>2. CASE k = "integration"
    <3>1. CASE req[q].pc \in Unclaimed
      BY <3>1 DEF ClaimInv, UndrawnOK
    <3>2. CASE req[q].pc \notin Unclaimed
      BY <2>2, <3>2 DEF ClaimStep
    <3> QED
      BY <3>1, <3>2
  <2> QED
    BY <2>1, <2>2, DrainingClaim
<1>5. gate'[k].claim \in {gate[k].claim, NoClaim} \cup ClaimsOf(q)
  BY <1>2 DEF ClaimStep
<1>6. gate[k].claim = req[r].claim
  BY <1>2, <1>3, <1>4, <1>5
<1> QED
  BY <1>1, <1>6 DEF OwnGate

\* The request has this lease still to do, or knows that it could not be revoked.
Accounted(r, l) == work[r].deferred \/ \E s \in work[r].todo \cup work[r].hand : s.lease = l

\* While a request stands still it is enough that its cleanup accounts for every
\* lease it did account for.
LEMMA DrainKept ==
    ASSUME TypeInv, TrackInv, ClaimInv, [Next]_vars, NEW r \in Requests, DrainOK(r),
           req'[r] = req[r], req[r].pc \in Draining /\ OwnGate(r)' => OwnGate(r),
           \A l \in Leases : Unrevoked(l)' /\ Accounted(r, l) => Accounted(r, l)'
    PROVE  DrainOK(r)'
<1>1. RevocationScope(r)' = RevocationScope(r)
  BY DEF RevocationScope
<1>2. ASSUME req'[r].pc \in Draining, OwnGate(r)', NEW l \in Leases, Unrevoked(l)',
             row'[l].mode \in RevocationScope(r)'
      PROVE  req'[r].pc # "commit" /\ Accounted(r, l)'
  <2>1. req[r].pc \in Draining /\ OwnGate(r)
    BY <1>2
  <2>2. ~AuthorityPredicate(l)
    BY <2>1, NoReserveUnderClaim
  <2>3. Unrevoked(l) /\ row'[l].mode = row[l].mode
    BY <1>2, <2>2, RowBirth
  <2>4. req[r].pc # "commit" /\ Accounted(r, l)
    BY <1>1, <1>2, <2>1, <2>3 DEF DrainOK, Accounted
  <2> QED
    BY <1>2, <2>4
<1> QED
  BY <1>2 DEF DrainOK, Accounted

\* Cleanup by the request itself: what leaves its list is in its hand, deferred,
\* or revoked.
LEMMA HandledDrain ==
    ASSUME TypeInv, TrackInv, ClaimInv, [Next]_vars, DrainInv,
           NEW p \in Workers, NEW s \in work[p].todo \cup work[p].hand,
           \/ DeferLease(p, s) \/ RevokeAtProvider(p, s)
           \/ RevocationFails(p, s) \/ MarkLeaseRevoked(p, s)
    PROVE  DrainInv'
<1>0. UNCHANGED <<req, gate>>
  BY DEF DeferLease, RevokeAtProvider, RevocationFails, MarkLeaseRevoked
<1>1. \A q \in Workers : q # p => work'[q] = work[q]
  BY DeferEffect, RevokeEffect, FailsEffect, MarkEffect DEF TypeInv
<1>2. ASSUME NEW r \in Requests PROVE DrainOK(r)' /\ HandOK(r)'
  <2>0. r \in Workers /\ DrainOK(r) /\ HandOK(r)
    BY LeaseIsWorker DEF DrainInv
  <2>00. OwnGate(r)' => OwnGate(r)
    BY <1>0 DEF OwnGate
  <2>1. CASE r # p
    <3>1. work'[r] = work[r]
      BY <1>1, <2>0, <2>1
    <3>2. \A l \in Leases : Accounted(r, l) => Accounted(r, l)'
      BY <3>1 DEF Accounted
    <3> QED
      BY <1>0, <2>0, <2>00, <3>1, <3>2, DrainKept DEF HandOK
  <2>2. CASE r = p /\ DeferLease(p, s)
    <3>1. work'[r].todo = work[r].todo \ {s} /\ work'[r].hand = work[r].hand /\ work'[r].deferred
      BY <2>2, DeferEffect DEF TypeInv
    <3>2. HandOK(r)' /\ \A l \in Leases : Accounted(r, l)'
      BY <2>0, <3>1 DEF HandOK, Accounted
    <3> QED
      BY <1>0, <2>0, <2>00, <3>2, DrainKept
  <2>3. CASE r = p /\ RevocationFails(p, s)
    <3>1. s.attempt = 0
      BY <2>0, <2>3 DEF HandOK
    <3>2. work'[r].todo = work[r].todo \ {s} /\ work'[r].hand = work[r].hand /\ work'[r].deferred
      BY <2>3, <3>1, FailsEffect DEF TypeInv
    <3>3. HandOK(r)' /\ \A l \in Leases : Accounted(r, l)'
      BY <2>0, <3>2 DEF HandOK, Accounted
    <3> QED
      BY <1>0, <2>0, <2>00, <3>3, DrainKept
  <2>4. CASE r = p /\ RevokeAtProvider(p, s)
    <3>1. work'[r].todo = work[r].todo \ {s} /\ work'[r].hand = {s} /\ work'[r].deferred = work[r].deferred
      BY <2>4, RevokeEffect DEF TypeInv
    <3>2. work[r].hand = {} /\ s \in work[r].todo
      BY <2>4 DEF RevokeAtProvider
    <3>3. HandOK(r)' /\ \A l \in Leases : Accounted(r, l) => Accounted(r, l)'
      BY <2>0, <3>1, <3>2 DEF HandOK, Accounted
    <3> QED
      BY <1>0, <2>0, <2>00, <3>3, DrainKept
  <2>5. CASE r = p /\ MarkLeaseRevoked(p, s)
    <3>1. work'[r].todo = work[r].todo /\ work'[r].hand = {} /\ work'[r].deferred = work[r].deferred
      BY <2>5, MarkEffect DEF TypeInv
    <3>2. s.attempt = 0 /\ s \in work[r].hand /\ s.lease \in Leases
      BY <2>0, <2>5, SnapshotsInWork DEF HandOK, MarkLeaseRevoked, TypeInv
    <3>3. row'[s.lease].revoked
      <4>1. row \in [Leases -> RowType]
        BY DEF TypeInv, Types
      <4>2. CASE row[s.lease].revoked
        BY <2>5, <4>2 DEF MarkLeaseRevoked, FenceHolds
      <4>3. CASE ~row[s.lease].revoked
        BY <2>5, <3>2, <4>1, <4>3, RowSettled DEF MarkLeaseRevoked, FenceHolds
      <4> QED
        BY <4>2, <4>3
    <3>4. HandOK(r)'
      BY <2>0, <3>1 DEF HandOK
    <3>5. ASSUME NEW l \in Leases, Unrevoked(l)', Accounted(r, l) PROVE Accounted(r, l)'
      <4>1. l # s.lease
        BY <3>3, <3>5 DEF Unrevoked
      <4>2. \A t \in work[r].hand : t = s
        BY <2>0, <3>2 DEF HandOK
      <4> QED
        BY <3>1, <3>5, <4>1, <4>2 DEF Accounted
    <3> QED
      BY <1>0, <2>0, <2>00, <3>4, <3>5, DrainKept
  <2> QED
    BY <2>1, <2>2, <2>3, <2>4, <2>5
<1> QED
  BY <1>2 DEF DrainInv

\* Whoever else cleans up works on a list of his own.
LEMMA OtherDrain ==
    ASSUME TypeInv, TrackInv, ClaimInv, [Next]_vars, DrainInv, UNCHANGED req,
           \A k \in GateKinds : gate'[k].claim = gate[k].claim,
           \A r \in Requests : work'[r] = work[r]
    PROVE  DrainInv'
<1>1. ASSUME NEW r \in Requests PROVE DrainOK(r)' /\ HandOK(r)'
  <2>1. OwnGate(r)' => OwnGate(r)
    BY GateOfKinds DEF OwnGate
  <2>2. \A l \in Leases : Accounted(r, l) => Accounted(r, l)'
    BY DEF Accounted
  <2> QED
    BY <2>1, <2>2, DrainKept DEF HandOK, DrainInv
<1> QED
  BY <1>1 DEF DrainInv

LEMMA IssuanceDrain ==
    ASSUME TypeInv, TrackInv, ClaimInv, [Next]_vars, DrainInv, IssuanceNext
    PROVE  DrainInv'
<1>1. ASSUME NEW l \in Leases, Deliver(l) \/ ReleaseLease(l)
      PROVE  work' = work \/ work' = [work EXCEPT ![l] = SelectedLease(l)]
  BY <1>1 DEF Deliver, ReleaseLease
<1>2. ASSUME NEW l \in Leases,
             \/ AuthorizeLease(l) \/ Reserve(l) \/ ClaimRefresh(l) \/ StartRemoteRefresh(l)
             \/ RemoteRefresh(l) \/ FinalizeRefresh(l) \/ RequireReconnect(l)
             \/ CreateCredential(l) \/ QueueCleanup(l) \/ IssueFailed(l) \/ Finalize(l) \/ Undo(l)
      PROVE  work' = work
  BY <1>2 DEF AuthorizeLease, Reserve, ClaimRefresh, StartRemoteRefresh, RemoteRefresh, FinalizeRefresh,
     RequireReconnect, CreateCredential, QueueCleanup, IssueFailed, Finalize, Undo
<1>3. RefreshGoesStale => work' = work
  BY DEF RefreshGoesStale
<1>4. work' = work \/ \E l \in Leases : work' = [work EXCEPT ![l] = SelectedLease(l)]
  BY <1>1, <1>2, <1>3 DEF IssuanceNext
<1>5. \A r \in Requests : work'[r] = work[r]
  BY <1>4, LeaseIsWorker, LeasesAssumption DEF TypeInv, Types
<1> QED
  BY <1>5, OtherClaims, OtherDrain

LEMMA CleanupDrain ==
    ASSUME TypeInv, TrackInv, ClaimInv, [Next]_vars, DrainInv, CleanupNext
    PROVE  DrainInv'
<1>0. work \in [Workers -> WorkType]
  BY DEF TypeInv, Types
<1>1. CASE \E p \in Sweepers : ClaimExpired(p) \/ SweeperDies(p)
  <2>1. PICK p \in Sweepers : ClaimExpired(p) \/ SweeperDies(p)
    BY <1>1
  <2>2. \A r \in Requests : r # p /\ r \in Workers
    BY LeaseIsWorker, LeasesAssumption
  <2>3. \A r \in Requests : work'[r] = work[r]
    BY <1>0, <2>1, <2>2 DEF ClaimExpired, SweeperDies
  <2> QED
    BY <2>3, OtherClaims, OtherDrain
<1>2. CASE \E l \in Leases : CleanupClaimGoesStale(l) \/ LeaseExpires(l)
  <2>1. UNCHANGED work
    BY <1>2 DEF CleanupClaimGoesStale, LeaseExpires
  <2> QED
    BY <2>1, OtherClaims, OtherDrain
<1> QED
  BY <1>1, <1>2, HandledDrain DEF CleanupNext

\* A request cleans up on a list of its own, and selects it in one read.
LEMMA OwnWork ==
    ASSUME TypeInv, NEW r \in Requests, ChangesStep(r) \/ DisconnectStep(r)
    PROVE  /\ \A q \in Requests : q # r => work'[q] = work[q]
           /\ work'[r] = work[r] \/ work'[r] = NoWork \/ \E modes : work'[r] = Selected(modes)
<1>0. work \in [Workers -> WorkType] /\ Requests \subseteq Workers
  BY LeaseIsWorker DEF TypeInv, Types
<1>1. \/ work' = work \/ work' = [work EXCEPT ![r] = NoWork]
      \/ work' = [work EXCEPT ![r] = Selected(RevocationScope(r))]
      \/ work' = [work EXCEPT ![r] = Selected(AccessModes)]
  <2>1. CASE ChangesStep(r)
    BY <2>1 DEF ChangesStep, Look, RaiseGrant, ClaimGate, Refuse, RevokeLeases, Deferred, Drained,
       CommitRefused, ChangeRole, RemoveMember, CommitGrant, ClearAfterGrant, CommitConnection,
       TeamReadOff, ManagedOff
  <2>2. CASE DisconnectStep(r)
    BY <2>2 DEF DisconnectStep, ClaimDisconnect, ResumeDisconnect, DisconnectLeases, DisconnectDeferred,
       DisconnectDrained, StartProviderRevoke, RevokeAuthorization, ResumeStarted, MarkAmbiguous,
       MarkProviderRevoked, FinalizeDisconnect, LookReconnect, ClaimReconnect, ReconnectRevoked,
       PersistIntegration, PersistRefused
  <2> QED
    BY <2>1, <2>2
<1>2. CASE work' = work
  BY <1>2
<1>3. CASE work' = [work EXCEPT ![r] = NoWork]
  BY <1>0, <1>3
<1>4. ASSUME NEW modes, work' = [work EXCEPT ![r] = Selected(modes)]
      PROVE  /\ \A q \in Requests : q # r => work'[q] = work[q]
             /\ \E m : work'[r] = Selected(m)
  BY <1>0, <1>4
<1> QED
  BY <1>1, <1>2, <1>3, <1>4

LEMMA SelectedHand ==
    ASSUME TypeInv, NEW modes
    PROVE  /\ \A s \in Selected(modes).todo \cup Selected(modes).hand : s.attempt = 0
           /\ Selected(modes).hand = {}
<1>1. \A s \in Selected(modes).todo :
         \E l \in Leases : Unrevoked(l) /\ row[l].mode \in modes /\ s = Snapshot(l, 0)
  BY SelectedEffect DEF TypeInv
<1>2. \A l \in Leases : Unrevoked(l) => Snapshot(l, 0).attempt = 0
  BY SnapshotEffect DEF TypeInv
<1> QED
  BY <1>1, <1>2, SelectedEffect DEF TypeInv

LEMMA OwnHand ==
    ASSUME TypeInv, NEW r \in Requests, HandOK(r), ChangesStep(r) \/ DisconnectStep(r)
    PROVE  HandOK(r)'
<1>1. CASE work'[r] = work[r]
  BY <1>1 DEF HandOK
<1>2. CASE work'[r] = NoWork
  BY <1>2, NoWorkType DEF HandOK
<1>3. ASSUME NEW modes, work'[r] = Selected(modes) PROVE HandOK(r)'
  BY <1>3, SelectedHand DEF HandOK
<1> QED
  BY <1>1, <1>2, <1>3, OwnWork

\* A request comes to revoking and committing by three steps only.
LEMMA NotDraining ==
    ASSUME TypeInv, NEW r \in Requests, ChangesStep(r) \/ DisconnectStep(r),
           ~RevokeLeases(r), ~Drained(r), ~DisconnectLeases(r)
    PROVE  req'[r].pc \notin Draining
<1>0. req \in [Requests -> RequestType] /\ NoRequest \in RequestType
  BY NoRequestType DEF TypeInv, Types
<1>1. ASSUME NEW pc \in {"done", "retry"}, Answer(r, pc) PROVE req'[r].pc \notin Draining
  BY <1>0, <1>1, AnswerEffect DEF RequestPositions, Draining
<1>2. ASSUME NEW pc \in {"clearing", "d_start", "d_remote", "d_done", "d_ambiguous", "d_final",
                         "retry", "c_persist"},
             req' = [req EXCEPT ![r].pc = pc]
      PROVE  req'[r].pc \notin Draining
  <2>1. req'[r].pc = pc
    BY <1>0, <1>2, StepEffect DEF RequestPositions
  <2> QED
    BY <2>1 DEF Draining
<1>3. CASE Look(r)
  <2>1. PICK change, to : req' = [req EXCEPT ![r] = [NoRequest EXCEPT !.pc = "looked", !.change = change,
                                                !.to = to, !.role = role, !.revision = conn.revision]]
    BY <1>3 DEF Look
  <2>2. req'[r] = [NoRequest EXCEPT !.pc = "looked", !.change = change, !.to = to,
                                    !.role = role, !.revision = conn.revision]
    BY <1>0, <2>1
  <2>3. req'[r].pc = "looked"
    BY <1>0, <2>2 DEF RequestType
  <2> QED
    BY <2>3 DEF Draining
<1>4. CASE RaiseGrant(r)
  <2>1. req'[r] = [NoRequest EXCEPT !.pc = "done", !.change = "raise"]
    BY <1>0, <1>4 DEF RaiseGrant
  <2>2. req'[r].pc = "done"
    BY <1>0, <2>1 DEF RequestType
  <2> QED
    BY <2>2 DEF Draining
<1>5. CASE ClaimGate(r)
  BY <1>5, ClaimGateEffect DEF Draining
<1>6. CASE Refuse(r) \/ Deferred(r) \/ CommitRefused(r) \/ ClearAfterGrant(r)
  BY <1>1, <1>6 DEF Refuse, Deferred, CommitRefused, ClearAfterGrant, GiveUp
<1>7. CASE ChangeRole(r) \/ RemoveMember(r) \/ CommitConnection(r) \/ TeamReadOff(r) \/ ManagedOff(r)
  BY <1>1, <1>7 DEF ChangeRole, RemoveMember, CommitConnection, TeamReadOff, ManagedOff
<1>8. CASE CommitGrant(r)
  BY <1>2, <1>8 DEF CommitGrant
<1>9. CASE ClaimDisconnect(r)
  <2>1. req'[r] = [NoRequest EXCEPT !.pc = "d_leases", !.change = "disconnect",
                                    !.claim = <<r, 1>>, !.generation = integ.generation]
    BY <1>0, <1>9 DEF ClaimDisconnect
  <2>2. req'[r].pc = "d_leases"
    BY <1>0, <2>1 DEF RequestType
  <2> QED
    BY <2>2 DEF Draining
<1>10. CASE ResumeDisconnect(r)
  <2>1. req'[r] = [NoRequest EXCEPT !.pc = Continue(integ.phase), !.change = "disconnect",
                                      !.claim = gate["integration"].claim, !.generation = integ.dgen]
    BY <1>0, <1>10 DEF ResumeDisconnect
  <2>2. req'[r].pc = Continue(integ.phase)
    BY <1>0, <2>1 DEF RequestType
  <2>3. Continue(integ.phase) \in {"d_leases", "d_start", "d_resume", "d_final", "done"}
    BY DEF Continue, TypeInv, Types, IntegType, Phases
  <2> QED
    BY <2>2, <2>3 DEF Draining
<1>11. CASE DisconnectDeferred(r) \/ MarkAmbiguous(r) \/ FinalizeDisconnect(r) \/ PersistIntegration(r)
            \/ PersistRefused(r)
  BY <1>1, <1>11 DEF DisconnectDeferred, MarkAmbiguous, FinalizeDisconnect, PersistIntegration, PersistRefused
<1>12. CASE DisconnectDrained(r) \/ StartProviderRevoke(r) \/ MarkProviderRevoked(r)
  BY <1>1, <1>2, <1>12 DEF DisconnectDrained, StartProviderRevoke, MarkProviderRevoked
<1>13. CASE RevokeAuthorization(r) \/ ResumeStarted(r) \/ ReconnectRevoked(r)
  <2>1. \E pc \in {"d_done", "d_ambiguous", "retry", "c_persist"} : req' = [req EXCEPT ![r].pc = pc]
    BY <1>13 DEF RevokeAuthorization, ResumeStarted, ReconnectRevoked
  <2> QED
    BY <1>2, <2>1
<1>14. CASE LookReconnect(r)
  <2>1. req'[r].pc \in {"c_claim", "c_persist"}
    BY <1>0, <1>14, LookReconnectEffect
  <2> QED
    BY <2>1 DEF Draining
<1>15. CASE ClaimReconnect(r)
  BY <1>15, ClaimReconnectEffect DEF Draining
<1> QED
  BY <1>3, <1>4, <1>5, <1>6, <1>7, <1>8, <1>9, <1>10, <1>11, <1>12, <1>13, <1>14, <1>15
  DEF ChangesStep, DisconnectStep

\* revokeActiveLeases has every lease of the change's scope on its list.
LEMMA SelectDrain ==
    ASSUME TypeInv, NEW r \in Requests, RevokeLeases(r) \/ DisconnectLeases(r)
    PROVE  DrainOK(r)'
<1>0. /\ req \in [Requests -> RequestType] /\ work \in [Workers -> WorkType] /\ r \in Workers
      /\ UNCHANGED row /\ \A l \in Leases : row[l].mode \in AccessModes
  BY LeaseIsWorker DEF TypeInv, Types, RevokeLeases, DisconnectLeases, RowType
<1>1. PICK pc \in {"revoking", "d_revoking"} : req' = [req EXCEPT ![r].pc = pc]
  BY DEF RevokeLeases, DisconnectLeases
<1>2. /\ req'[r].pc = pc /\ req'[r].change = req[r].change /\ req'[r].to = req[r].to
      /\ req'[r].first = req[r].first /\ req'[r].role = req[r].role
  BY <1>0, <1>1, StepEffect DEF RequestPositions
<1>3. RevocationScope(r)' = RevocationScope(r)
  BY <1>2 DEF RevocationScope
<1>4. PICK modes : /\ work'[r] = Selected(modes)
                   /\ \A l \in Leases : row[l].mode \in RevocationScope(r) => row[l].mode \in modes
  <2>1. CASE RevokeLeases(r)
    <3>1. work'[r] = Selected(RevocationScope(r))
      BY <1>0, <2>1 DEF RevokeLeases
    <3> QED
      BY <3>1
  <2>2. CASE DisconnectLeases(r)
    <3>1. work'[r] = Selected(AccessModes)
      BY <1>0, <2>2 DEF DisconnectLeases
    <3> QED
      BY <1>0, <3>1
  <2> QED
    BY <2>1, <2>2
<1>5. ASSUME NEW l \in Leases, Unrevoked(l)', row'[l].mode \in RevocationScope(r)'
      PROVE  \E s \in work'[r].todo : s.lease = l
  <2>1. Unrevoked(l) /\ row[l].mode \in modes
    BY <1>0, <1>3, <1>4, <1>5 DEF Unrevoked
  <2>2. Snapshot(l, 0) \in work'[r].todo
    BY <1>4, <2>1, SelectedEffect DEF TypeInv
  <2>3. Snapshot(l, 0).lease = l
    BY <2>1, SnapshotEffect DEF TypeInv
  <2> QED
    BY <2>2, <2>3
<1> QED
  BY <1>2, <1>5 DEF DrainOK

\* A request that comes to commit under the claim on its gate has drained it.
LEMMA DrainedDrain ==
    ASSUME TypeInv, ClaimInv, NEW r \in Requests, DrainOK(r), Drained(r)
    PROVE  DrainOK(r)'
<1>0. /\ req \in [Requests -> RequestType] /\ UNCHANGED row
      /\ req[r].pc = "revoking" /\ req[r].pc \in Draining
      /\ work[r].todo = {} /\ work[r].hand = {} /\ ~work[r].deferred
  BY DEF TypeInv, Types, Drained, WorkDone, Draining
<1>1. /\ req'[r].change = req[r].change /\ req'[r].to = req[r].to
      /\ req'[r].first = req[r].first /\ req'[r].role = req[r].role
  BY DrainedEffect
<1>2. RevocationScope(r)' = RevocationScope(r)
  BY <1>1 DEF RevocationScope
<1>3. ASSUME req'[r].pc \in Draining, OwnGate(r)' PROVE OwnGate(r)
  <2>1. CASE req[r].change \in {"role", "remove"}
    <3> DEFINE k == GateOf(req[r].change)
    <3>1. req' = [req EXCEPT ![r].pc = IF Holds(k, req[r].claim) THEN "commit" ELSE "done",
                             ![r].claim = <<r, 2>>]
      BY <2>1 DEF Drained
    <3>2. req'[r] = [req[r] EXCEPT !.pc = IF Holds(k, req[r].claim) THEN "commit" ELSE "done",
                                   !.claim = <<r, 2>>]
      BY <1>0, <3>1
    <3>3. req'[r].pc = IF Holds(k, req[r].claim) THEN "commit" ELSE "done"
      BY <1>0, <3>2 DEF RequestType
    <3>4. Holds(k, req[r].claim)
      BY <1>3, <3>3 DEF Draining
    <3> QED
      BY <3>4 DEF Holds, OwnGate
  <2>2. CASE req[r].change \notin {"role", "remove"}
    <3>1. gate' = gate /\ req' = [req EXCEPT ![r].pc = "commit"]
      BY <2>2 DEF Drained
    <3>2. req'[r].claim = req[r].claim
      BY <1>0, <3>1, StepEffect DEF RequestPositions
    <3> QED
      BY <1>1, <1>3, <3>1, <3>2 DEF OwnGate
  <2> QED
    BY <2>1, <2>2
<1>4. ASSUME req'[r].pc \in Draining, OwnGate(r)', NEW l \in Leases, Unrevoked(l)',
             row'[l].mode \in RevocationScope(r)'
      PROVE  FALSE
  BY <1>0, <1>2, <1>3, <1>4 DEF DrainOK, Unrevoked
<1> QED
  BY <1>4 DEF DrainOK

LEMMA RequestDrain ==
    ASSUME TypeInv, TrackInv, ClaimInv, [Next]_vars, DrainInv, NEW r \in Requests,
           ChangesStep(r) \/ DisconnectStep(r)
    PROVE  DrainInv'
<1>1. DrainOK(r)'
  <2>1. CASE RevokeLeases(r) \/ DisconnectLeases(r)
    BY <2>1, SelectDrain
  <2>2. CASE Drained(r)
    BY <2>2, DrainedDrain DEF DrainInv
  <2>3. CASE ~RevokeLeases(r) /\ ~DisconnectLeases(r) /\ ~Drained(r)
    BY <2>3, NotDraining DEF DrainOK
  <2> QED
    BY <2>1, <2>2, <2>3
<1>2. HandOK(r)'
  BY OwnHand DEF DrainInv
<1>3. ASSUME NEW q \in Requests, q # r PROVE DrainOK(q)' /\ HandOK(q)'
  <2>1. ClaimStep(r)
    BY RequestClaims
  <2>2. req'[q] = req[q] /\ work'[q] = work[q]
    BY <1>3, <2>1, OwnWork DEF ClaimStep
  <2>3. req[q].pc \in Draining /\ OwnGate(q)' => OwnGate(q)
    BY <1>3, <2>1, GateNotReturned
  <2>4. \A l \in Leases : Accounted(q, l) => Accounted(q, l)'
    BY <2>2 DEF Accounted
  <2> QED
    BY <2>2, <2>3, <2>4, DrainKept DEF HandOK, DrainInv
<1> QED
  BY <1>1, <1>2, <1>3 DEF DrainInv

LEMMA NextDrain ==
    ASSUME TypeInv, TrackInv, ClaimInv, DrainInv, [Next]_vars
    PROVE  DrainInv'
<1>1. CASE \E r \in Requests : ChangesStep(r) \/ DisconnectStep(r)
  BY <1>1, RequestDrain
<1>2. CASE IssuanceNext
  BY <1>2, IssuanceDrain
<1>3. CASE CleanupNext
  BY <1>3, CleanupDrain
<1>4. CASE (\E k \in GateKinds : GateGoesStale(k)) \/ UNCHANGED vars
  <2>1. UNCHANGED work
    BY <1>4 DEF GateGoesStale, vars
  <2> QED
    BY <1>4, <2>1, OtherClaims, OtherDrain
<1> QED
  BY <1>1, <1>2, <1>3, <1>4, StepKinds

LEMMA InitDrain ==
    ASSUME Init
    PROVE  DrainInv
<1>1. \A r \in Requests : req[r].pc = "idle"
  BY NoRequestType DEF Init
<1>2. \A r \in Requests : work[r].todo = {} /\ work[r].hand = {}
  BY NoWorkType, LeaseIsWorker DEF Init
<1> QED
  BY <1>1, <1>2 DEF DrainInv, DrainOK, HandOK, Draining

\* A request that commits under the claim on its gate has no lease left to revoke.
LEMMA CommitDrained ==
    ASSUME DrainInv, NEW r \in Requests, req[r].pc = "commit",
           gate[GateOf(req[r].change)].claim = req[r].claim
    PROVE  \A l \in Leases : Unrevoked(l) => row[l].mode \notin RevocationScope(r)
BY DEF DrainInv, DrainOK, Draining, OwnGate

-----------------------------------------------------------------------------
(* The phases of a disconnect. *)

Late == {"leases_revoked", "provider_revoke_started", "provider_revoke_ambiguous",
         "provider_revoked", "finalized"}

\* A disconnect that has passed its lease phase leaves no lease, keeps the gate
\* until it is finalized, and is finalized with the integration's end.
PhaseInv ==
    /\ integ.phase \in Late => NoUnrevokedLease
    /\ integ.phase \notin {"idle", "finalized"} => gate["integration"].pending
    /\ integ.phase = "finalized" => integ.status = "revoked"

\* No access change touches the integration's gate.
LEMMA ChangesGate ==
    ASSUME TypeInv, ClaimInv, NEW r \in Requests, ChangesStep(r)
    PROVE  gate'["integration"] = gate["integration"] /\ UNCHANGED <<row, integ>>
<1>0. gate \in [GateKinds -> GateType] /\ "integration" \in GateKinds /\ "member" \in GateKinds
  BY DEF TypeInv, Types, GateKinds
<1>1. UNCHANGED <<row, integ>>
  BY DEF ChangesStep, Look, RaiseGrant, ClaimGate, Refuse, RevokeLeases, Deferred, Drained,
     CommitRefused, ChangeRole, RemoveMember, CommitGrant, ClearAfterGrant, CommitConnection,
     TeamReadOff, ManagedOff
<1>2. CASE Look(r) \/ RaiseGrant(r) \/ RevokeLeases(r) \/ CommitGrant(r)
  BY <1>1, <1>2 DEF Look, RaiseGrant, RevokeLeases, CommitGrant
<1>3. CASE ChangeRole(r) \/ RemoveMember(r) \/ CommitConnection(r) \/ TeamReadOff(r) \/ ManagedOff(r)
  <2>1. PICK k \in {"member", "connection"} : gate' = [gate EXCEPT ![k] = Cleared]
    BY <1>3 DEF ChangeRole, RemoveMember, CommitConnection, TeamReadOff, ManagedOff
  <2> QED
    BY <1>0, <1>1, <2>1
<1>4. CASE ClearAfterGrant(r)
  <2>1. gate' = UpdateClaim("member", req[r].claim, Cleared)
    BY <1>4 DEF ClearAfterGrant
  <2> QED
    BY <1>0, <1>1, <2>1, UpdateClaims
<1>5. CASE ClaimGate(r) \/ Refuse(r) \/ Deferred(r) \/ Drained(r) \/ CommitRefused(r)
  <2>1. req[r].pc \in {"looked"} \cup Claimants
    BY <1>5 DEF ClaimGate, Refuse, Deferred, Drained, CommitRefused, Claimants
  <2>2. GateOf(req[r].change) \in GateKinds /\ GateOf(req[r].change) # "integration"
    BY <2>1, GateOfKinds, AccessGates DEF ClaimInv, RequestOK
  <2>3. \/ gate' = gate
        \/ gate' = [gate EXCEPT ![GateOf(req[r].change)] = Claimed(<<r, 1>>)]
        \/ \E to \in {Cleared, Released, Claimed(<<r, 2>>), Withdrawn(r)} :
              gate' = UpdateClaim(GateOf(req[r].change), req[r].claim, to)
    <3>1. CASE ClaimGate(r)
      BY <3>1, ClaimGateEffect
    <3>2. CASE Refuse(r) \/ Deferred(r) \/ Drained(r) \/ CommitRefused(r)
      BY <3>2 DEF Refuse, Deferred, Drained, CommitRefused, GiveUp
    <3> QED
      BY <1>5, <3>1, <3>2
  <2>4. CASE gate' = gate
    BY <1>1, <2>4
  <2>5. CASE gate' = [gate EXCEPT ![GateOf(req[r].change)] = Claimed(<<r, 1>>)]
    BY <1>0, <1>1, <2>2, <2>5
  <2>6. CASE \E to \in {Cleared, Released, Claimed(<<r, 2>>), Withdrawn(r)} :
                gate' = UpdateClaim(GateOf(req[r].change), req[r].claim, to)
    BY <1>0, <1>1, <2>2, <2>6, UpdateClaims
  <2> QED
    BY <2>3, <2>4, <2>5, <2>6
<1> QED
  BY <1>2, <1>3, <1>4, <1>5 DEF ChangesStep

\* A lease request moves no phase, and revives no disconnected integration.
LEMMA IssuanceInteg ==
    ASSUME TypeInv, IssuanceNext
    PROVE  /\ integ'.phase = integ.phase /\ UNCHANGED <<gate, conn, role, grant, provider>>
           /\ integ.status = "revoked" <=> integ'.status = "revoked"
<1>0. integ \in IntegType
  BY DEF TypeInv, Types
<1>1. UNCHANGED <<gate, conn, role, grant, provider>>
  BY DEF IssuanceNext, RefreshGoesStale, AuthorizeLease, Reserve, ClaimRefresh, StartRemoteRefresh,
     RemoteRefresh, FinalizeRefresh, RequireReconnect, CreateCredential, QueueCleanup, IssueFailed,
     Finalize, Undo, Deliver, ReleaseLease
<1>2. CASE RefreshGoesStale
  BY <1>0, <1>1, <1>2 DEF RefreshGoesStale, IntegType
<1>3. ASSUME NEW l \in Leases, ClaimRefresh(l)
      PROVE  integ'.phase = integ.phase /\ integ'.status = integ.status
  BY <1>0, <1>3 DEF ClaimRefresh, IntegType
<1>4. ASSUME NEW l \in Leases, StartRemoteRefresh(l)
      PROVE  integ'.phase = integ.phase /\ (integ.status = "revoked" <=> integ'.status = "revoked")
  BY <1>0, <1>4 DEF StartRemoteRefresh, IntegType
<1>5. ASSUME NEW l \in Leases, FinalizeRefresh(l)
      PROVE  integ'.phase = integ.phase /\ (integ.status = "revoked" <=> integ'.status = "revoked")
  BY <1>0, <1>5 DEF FinalizeRefresh, IntegType
<1>6. ASSUME NEW l \in Leases, RequireReconnect(l)
      PROVE  integ'.phase = integ.phase /\ (integ.status = "revoked" <=> integ'.status = "revoked")
  BY <1>0, <1>6 DEF RequireReconnect, IntegType
<1>7. ASSUME NEW l \in Leases,
             \/ AuthorizeLease(l) \/ Reserve(l) \/ RemoteRefresh(l) \/ CreateCredential(l)
             \/ QueueCleanup(l) \/ IssueFailed(l) \/ Finalize(l) \/ Undo(l) \/ Deliver(l) \/ ReleaseLease(l)
      PROVE  integ' = integ
  BY <1>7 DEF AuthorizeLease, Reserve, RemoteRefresh, CreateCredential, QueueCleanup, IssueFailed,
     Finalize, Undo, Deliver, ReleaseLease
<1> QED
  BY <1>1, <1>2, <1>3, <1>4, <1>5, <1>6, <1>7 DEF IssuanceNext

\* A row is reserved only while nobody disconnects.
LEMMA ReserveIdle ==
    ASSUME TypeInv, PhaseInv, NEW l \in Leases, AuthorityPredicate(l)
    PROVE  integ.phase = "idle"
BY DEF PhaseInv, AuthorityPredicate, Open, GateKinds

LEMMA OtherPhase ==
    ASSUME TypeInv, TrackInv, ClaimInv, PhaseInv, [Next]_vars,
           IssuanceNext \/ CleanupNext \/ (\E k \in GateKinds : GateGoesStale(k)) \/ UNCHANGED vars
    PROVE  PhaseInv'
<1>1. /\ integ'.phase = integ.phase /\ (integ.status = "revoked" <=> integ'.status = "revoked")
  BY IssuanceInteg, CleanupFrame
<1>2. gate'["integration"].pending = gate["integration"].pending
  BY OtherClaims DEF GateKinds
<1>3. ASSUME integ.phase \in Late, NEW l \in Leases, Unrevoked(l)' PROVE FALSE
  <2>1. ~AuthorityPredicate(l)
    BY <1>3, ReserveIdle DEF Late
  <2>2. Unrevoked(l)
    BY <1>3, <2>1, RowBirth
  <2> QED
    BY <1>3, <2>2 DEF PhaseInv, NoUnrevokedLease
<1> QED
  BY <1>1, <1>2, <1>3 DEF PhaseInv, NoUnrevokedLease

\* A drained disconnect that still holds its gate leaves no lease.
LEMMA DisconnectLeavesNone ==
    ASSUME TypeInv, ClaimInv, DrainInv, NEW r \in Requests, DisconnectDrained(r),
           CanMove(r, "claimed") \/ CanMove(r, "lease_cleanup_pending")
    PROVE  NoUnrevokedLease /\ gate["integration"].pending
<1>1. /\ req[r].pc = "d_revoking" /\ work[r].todo = {} /\ work[r].hand = {} /\ ~work[r].deferred
  BY DEF DisconnectDrained, WorkDone
<1>2. gate["integration"].pending /\ gate["integration"].claim = req[r].claim
  BY DEF CanMove, Holds
<1>3. req[r].change = "disconnect"
  BY <1>1 DEF ClaimInv, RequestOK, Disconnecting
<1>4. GateOf(req[r].change) = "integration" /\ RevocationScope(r) = AccessModes
  BY <1>3 DEF GateOf, MemberChanges, ConnectionChanges, TemplateChanges, RevocationScope
<1>5. \A l \in Leases : row[l].mode \in AccessModes
  BY DEF TypeInv, Types, RowType
<1> QED
  BY <1>1, <1>2, <1>4, <1>5 DEF DrainInv, DrainOK, Draining, OwnGate, NoUnrevokedLease

LEMMA DisconnectPhase ==
    ASSUME TypeInv, ClaimInv, DrainInv, PhaseInv, NEW r \in Requests, DisconnectStep(r)
    PROVE  PhaseInv'
<1>0. /\ integ \in IntegType /\ gate \in [GateKinds -> GateType] /\ "integration" \in GateKinds
      /\ Claimed(<<r, 1>>).pending
  BY ClaimIds, GateValues DEF TypeInv, Types, GateKinds
<1>1. UNCHANGED row
  BY RequestWork DEF DisconnectStep, DisconnectNext
<1>2. NoUnrevokedLease => NoUnrevokedLease'
  BY <1>1 DEF NoUnrevokedLease, Unrevoked
<1>3. ASSUME UNCHANGED integ, gate["integration"].pending => gate'["integration"].pending PROVE PhaseInv'
  BY <1>2, <1>3 DEF PhaseInv
<1>4. CASE \/ ResumeDisconnect(r) \/ DisconnectLeases(r) \/ RevokeAuthorization(r) \/ ResumeStarted(r)
           \/ LookReconnect(r)
  BY <1>3, <1>4 DEF ResumeDisconnect, DisconnectLeases, RevokeAuthorization, ResumeStarted, LookReconnect
<1>5. CASE ClaimReconnect(r)
  <2>1. UNCHANGED integ /\ gate'["integration"] = Claimed(<<r, 1>>)
    BY <1>0, <1>5 DEF ClaimReconnect
  <2> QED
    BY <1>0, <1>3, <2>1
<1>6. CASE ReconnectRevoked(r) \/ PersistRefused(r)
  <2>1. UNCHANGED integ /\ (gate' = gate \/ gate' = UpdateClaim("integration", req[r].claim, Released))
    BY <1>6 DEF ReconnectRevoked, PersistRefused
  <2>2. gate'["integration"] = gate["integration"] \/ gate'["integration"] = Released
    BY <1>0, <2>1, GateValues, UpdateClaimEffect
  <2> QED
    BY <1>3, <2>1, <2>2, GateValues
<1>7. CASE ClaimDisconnect(r)
  <2>1. gate'["integration"] = Claimed(<<r, 1>>) /\ integ'.phase = "claimed"
    BY <1>0, <1>7 DEF ClaimDisconnect, IntegType
  <2> QED
    BY <1>0, <2>1 DEF PhaseInv, Late
<1>8. CASE DisconnectDeferred(r)
  <2>1. CASE CanMove(r, "claimed")
    <3>1. integ'.phase = "lease_cleanup_pending" /\ UNCHANGED gate /\ gate["integration"].pending
      BY <1>0, <1>8, <2>1 DEF DisconnectDeferred, IntegType, CanMove, Holds
    <3> QED
      BY <3>1 DEF PhaseInv, Late
  <2>2. CASE ~CanMove(r, "claimed")
    BY <1>3, <1>8, <2>2 DEF DisconnectDeferred
  <2> QED
    BY <2>1, <2>2
<1>9. CASE DisconnectDrained(r)
  <2>1. CASE CanMove(r, "claimed") \/ CanMove(r, "lease_cleanup_pending")
    <3>1. integ'.phase = "leases_revoked" /\ UNCHANGED gate
      BY <1>0, <1>9, <2>1 DEF DisconnectDrained, IntegType
    <3>2. NoUnrevokedLease /\ gate["integration"].pending
      BY <1>9, <2>1, DisconnectLeavesNone
    <3> QED
      BY <1>2, <3>1, <3>2 DEF PhaseInv
  <2>2. CASE ~(CanMove(r, "claimed") \/ CanMove(r, "lease_cleanup_pending"))
    BY <1>3, <1>9, <2>2 DEF DisconnectDrained
  <2> QED
    BY <2>1, <2>2
<1>10. CASE StartProviderRevoke(r) \/ MarkAmbiguous(r) \/ MarkProviderRevoked(r)
  <2>1. ASSUME integ'.phase \in Late \ {"finalized"}, integ.phase \in Late, gate["integration"].pending,
               UNCHANGED gate
        PROVE  PhaseInv'
    BY <1>2, <2>1 DEF PhaseInv
  <2>2. CASE StartProviderRevoke(r)
    <3>1. CASE CanMove(r, "leases_revoked")
      BY <1>0, <2>1, <2>2, <3>1 DEF StartProviderRevoke, CanMove, Holds, IntegType, Late
    <3>2. CASE ~CanMove(r, "leases_revoked")
      BY <1>3, <2>2, <3>2 DEF StartProviderRevoke
    <3> QED
      BY <3>1, <3>2
  <2>3. CASE MarkAmbiguous(r)
    <3>1. CASE CanMove(r, "provider_revoke_started")
      BY <1>0, <2>1, <2>3, <3>1 DEF MarkAmbiguous, CanMove, Holds, IntegType, Late
    <3>2. CASE ~CanMove(r, "provider_revoke_started")
      BY <1>3, <2>3, <3>2 DEF MarkAmbiguous
    <3> QED
      BY <3>1, <3>2
  <2>4. CASE MarkProviderRevoked(r)
    <3>1. CASE CanMove(r, "provider_revoke_started")
      BY <1>0, <2>1, <2>4, <3>1 DEF MarkProviderRevoked, CanMove, Holds, IntegType, Late
    <3>2. CASE ~CanMove(r, "provider_revoke_started")
      BY <1>3, <2>4, <3>2 DEF MarkProviderRevoked
    <3> QED
      BY <3>1, <3>2
  <2> QED
    BY <1>10, <2>2, <2>3, <2>4
<1>11. CASE FinalizeDisconnect(r)
  <2>1. CASE CanMove(r, "provider_revoked") /\ NoUnrevokedLease
    <3>1. integ'.phase = "finalized" /\ integ'.status = "revoked"
      BY <1>0, <1>11, <2>1 DEF FinalizeDisconnect, IntegType
    <3> QED
      BY <1>2, <2>1, <3>1 DEF PhaseInv
  <2>2. CASE ~(CanMove(r, "provider_revoked") /\ NoUnrevokedLease)
    BY <1>3, <1>11, <2>2 DEF FinalizeDisconnect
  <2> QED
    BY <2>1, <2>2
<1>12. CASE PersistIntegration(r)
  <2>1. integ'.phase = "idle"
    BY <1>0, <1>12 DEF PersistIntegration, IntegType
  <2> QED
    BY <2>1 DEF PhaseInv, Late
<1> QED
  BY <1>4, <1>5, <1>6, <1>7, <1>8, <1>9, <1>10, <1>11, <1>12 DEF DisconnectStep

LEMMA NextPhase ==
    ASSUME TypeInv, TrackInv, ClaimInv, DrainInv, PhaseInv, [Next]_vars
    PROVE  PhaseInv'
<1>1. ASSUME NEW r \in Requests, ChangesStep(r) PROVE PhaseInv'
  <2>1. gate'["integration"] = gate["integration"] /\ UNCHANGED <<row, integ>>
    BY <1>1, ChangesGate
  <2> QED
    BY <2>1 DEF PhaseInv, NoUnrevokedLease, Unrevoked
<1>2. ASSUME NEW r \in Requests, DisconnectStep(r) PROVE PhaseInv'
  BY <1>2, DisconnectPhase
<1> QED
  BY <1>1, <1>2, OtherPhase, StepKinds

LEMMA InitPhase ==
    ASSUME Init
    PROVE  PhaseInv
BY DEF Init, PhaseInv, Late

-----------------------------------------------------------------------------
(* No lease is stranded. *)

\* A connection that may issue leases names its integration.
StrandInv ==
    /\ ~conn.deleted /\ conn.managed => conn.linked
    /\ NoStrandedLease

\* A deletion leaves no lease of the connection.
LEMMA DeleteLeavesNone ==
    ASSUME TypeInv, DrainInv, NEW r \in Requests, CommitConnection(r), req[r].change = "delete"
    PROVE  NoUnrevokedLease
<1>1. req[r].pc = "commit" /\ gate["connection"].claim = req[r].claim
  BY DEF CommitConnection
<1>2. GateOf(req[r].change) = "connection" /\ RevocationScope(r) = AccessModes
  BY DEF GateOf, MemberChanges, ConnectionChanges, TemplateChanges, RevocationScope
<1>3. \A l \in Leases : row[l].mode \in AccessModes
  BY DEF TypeInv, Types, RowType
<1> QED
  BY <1>1, <1>2, <1>3, CommitDrained DEF NoUnrevokedLease

\* What an access change does to the connection's link: nothing, unless it is
\* the deletion, which has drained it.
LEMMA ChangesLink ==
    ASSUME TypeInv, DrainInv, NEW r \in Requests, ChangesStep(r)
    PROVE  \/ conn'.deleted = conn.deleted /\ conn'.linked = conn.linked /\ (conn'.managed => conn.managed)
           \/ conn'.deleted /\ NoUnrevokedLease
<1>0. conn \in ConnType
  BY DEF TypeInv, Types
<1>1. CASE CommitConnection(r)
  <2>1. req[r].change \in {"rename", "readonly", "writable", "delete"}
    BY <1>1 DEF CommitConnection, TemplateChanges
  <2>2. CASE req[r].change = "delete"
    <3>1. conn' = [conn EXCEPT !.deleted = TRUE, !.linked = FALSE]
      BY <1>1, <2>2 DEF CommitConnection
    <3>2. conn'.deleted
      BY <1>0, <3>1 DEF ConnType
    <3> QED
      BY <1>1, <2>2, <3>2, DeleteLeavesNone
  <2>3. CASE req[r].change # "delete"
    <3>1. conn' = conn \/ conn' = [conn EXCEPT !.writes = FALSE] \/ conn' = [conn EXCEPT !.writes = TRUE]
      BY <1>1, <2>1, <2>3 DEF CommitConnection
    <3> QED
      BY <1>0, <3>1 DEF ConnType
  <2> QED
    BY <2>2, <2>3
<1>2. CASE ClaimGate(r)
  BY <1>0, <1>2, ClaimGateEffect DEF ConnType
<1>3. CASE TeamReadOff(r) \/ ManagedOff(r)
  <2>1. \/ conn' = [conn EXCEPT !.revision = @ + 1]
        \/ conn' = [conn EXCEPT !.managed = FALSE, !.revision = @ + 1]
    BY <1>3 DEF TeamReadOff, ManagedOff
  <2> QED
    BY <1>0, <2>1 DEF ConnType
<1>4. CASE \/ Look(r) \/ RaiseGrant(r) \/ Refuse(r) \/ RevokeLeases(r) \/ Deferred(r) \/ Drained(r)
           \/ CommitRefused(r) \/ ChangeRole(r) \/ RemoveMember(r) \/ CommitGrant(r) \/ ClearAfterGrant(r)
  <2>1. conn' = conn
    BY <1>4 DEF Look, RaiseGrant, Refuse, RevokeLeases, Deferred, Drained, CommitRefused, ChangeRole,
       RemoveMember, CommitGrant, ClearAfterGrant
  <2> QED
    BY <2>1
<1> QED
  BY <1>1, <1>2, <1>3, <1>4 DEF ChangesStep

\* Only the last batch of a disconnect ends the integration or its link.
LEMMA DisconnectLink ==
    ASSUME TypeInv, StrandInv, NEW r \in Requests, DisconnectStep(r)
    PROVE  /\ UNCHANGED <<role, grant, provider, row, cred, iss>>
           /\ conn'.writes = conn.writes
           /\ conn'.deleted = conn.deleted
           /\ \/ /\ conn'.linked = conn.linked /\ conn'.managed = conn.managed
                 /\ integ'.status = "revoked" => integ.status = "revoked"
              \/ NoUnrevokedLease /\ (~conn'.deleted /\ conn'.managed => conn'.linked)
<1>0. conn \in ConnType /\ integ \in IntegType
  BY DEF TypeInv, Types
<1>1. UNCHANGED <<row, cred, iss>>
  BY RequestWork DEF DisconnectStep, DisconnectNext
<1>2. UNCHANGED <<role, grant, provider>>
  BY DEF DisconnectStep, ClaimDisconnect, ResumeDisconnect, DisconnectLeases, DisconnectDeferred,
     DisconnectDrained, StartProviderRevoke, RevokeAuthorization, ResumeStarted, MarkAmbiguous,
     MarkProviderRevoked, FinalizeDisconnect, LookReconnect, ClaimReconnect, ReconnectRevoked,
     PersistIntegration, PersistRefused
<1>3. CASE FinalizeDisconnect(r)
  <2>1. CASE CanMove(r, "provider_revoked") /\ NoUnrevokedLease
    <3>1. conn' = IF conn.deleted \/ ~conn.linked THEN conn
                  ELSE [conn EXCEPT !.managed = FALSE, !.linked = FALSE, !.revision = @ + 1]
      BY <1>3, <2>1 DEF FinalizeDisconnect
    <3>2. CASE conn' = conn
      BY <1>1, <1>2, <2>1, <3>2 DEF StrandInv
    <3>3. CASE conn' = [conn EXCEPT !.managed = FALSE, !.linked = FALSE, !.revision = @ + 1]
      BY <1>0, <1>1, <1>2, <2>1, <3>3 DEF ConnType
    <3> QED
      BY <3>1, <3>2, <3>3
  <2>2. CASE ~(CanMove(r, "provider_revoked") /\ NoUnrevokedLease)
    BY <1>1, <1>2, <1>3, <2>2 DEF FinalizeDisconnect
  <2> QED
    BY <2>1, <2>2
<1>4. CASE PersistIntegration(r)
  <2>1. conn' = conn \/ conn' = [conn EXCEPT !.revision = @ + 1]
    BY <1>4 DEF PersistIntegration
  <2>2. integ'.status = "active"
    BY <1>0, <1>4 DEF PersistIntegration, IntegType
  <2> QED
    BY <1>0, <1>1, <1>2, <2>1, <2>2 DEF ConnType
<1>5. CASE \/ ClaimDisconnect(r) \/ DisconnectDeferred(r) \/ DisconnectDrained(r) \/ StartProviderRevoke(r)
           \/ MarkAmbiguous(r) \/ MarkProviderRevoked(r)
  <2>1. UNCHANGED conn
    BY <1>5 DEF ClaimDisconnect, DisconnectDeferred, DisconnectDrained, StartProviderRevoke,
       MarkAmbiguous, MarkProviderRevoked
  <2>2. \/ integ' = integ
        \/ integ' = [integ EXCEPT !.phase = "claimed", !.dgen = integ.generation]
        \/ \E ph : integ' = [integ EXCEPT !.phase = ph]
        \/ integ' = [integ EXCEPT !.status = "reconnect_required", !.phase = "provider_revoke_ambiguous"]
    BY <1>5 DEF ClaimDisconnect, DisconnectDeferred, DisconnectDrained, StartProviderRevoke,
       MarkAmbiguous, MarkProviderRevoked
  <2>3. integ'.status = integ.status \/ integ'.status = "reconnect_required"
    BY <1>0, <2>2 DEF IntegType
  <2> QED
    BY <1>1, <1>2, <2>1, <2>3
<1>6. CASE \/ ResumeDisconnect(r) \/ DisconnectLeases(r) \/ RevokeAuthorization(r) \/ ResumeStarted(r)
           \/ LookReconnect(r) \/ ClaimReconnect(r) \/ ReconnectRevoked(r) \/ PersistRefused(r)
  <2>1. UNCHANGED <<conn, integ>>
    BY <1>6 DEF ResumeDisconnect, DisconnectLeases, RevokeAuthorization, ResumeStarted, LookReconnect,
       ClaimReconnect, ReconnectRevoked, PersistRefused
  <2> QED
    BY <1>1, <1>2, <2>1
<1> QED
  BY <1>3, <1>4, <1>5, <1>6 DEF DisconnectStep

LEMMA NextStrand ==
    ASSUME TypeInv, TrackInv, ClaimInv, DrainInv, StrandInv, [Next]_vars
    PROVE  StrandInv'
<1>1. ASSUME NEW r \in Requests, ChangesStep(r) PROVE StrandInv'
  <2>1. UNCHANGED <<row, integ>>
    BY <1>1, ChangesGate
  <2>2. \/ conn'.deleted = conn.deleted /\ conn'.linked = conn.linked /\ (conn'.managed => conn.managed)
        \/ conn'.deleted /\ NoUnrevokedLease
    BY <1>1, ChangesLink
  <2> QED
    BY <2>1, <2>2 DEF StrandInv, NoStrandedLease, NoUnrevokedLease, Unrevoked
<1>2. ASSUME NEW r \in Requests, DisconnectStep(r) PROVE StrandInv'
  <2>1. /\ UNCHANGED row /\ conn'.deleted = conn.deleted
        /\ \/ /\ conn'.linked = conn.linked /\ conn'.managed = conn.managed
              /\ integ'.status = "revoked" => integ.status = "revoked"
           \/ NoUnrevokedLease /\ (~conn'.deleted /\ conn'.managed => conn'.linked)
    BY <1>2, DisconnectLink
  <2> QED
    BY <2>1 DEF StrandInv, NoStrandedLease, NoUnrevokedLease, Unrevoked
<1>3. CASE IssuanceNext \/ CleanupNext \/ (\E k \in GateKinds : GateGoesStale(k)) \/ UNCHANGED vars
  <2>1. UNCHANGED conn /\ (integ.status = "revoked" <=> integ'.status = "revoked")
    BY <1>3, IssuanceInteg, CleanupFrame
  <2>2. ASSUME NEW l \in Leases, Unrevoked(l)' PROVE conn.linked /\ integ.status # "revoked"
    <3>1. CASE Unrevoked(l)
      BY <3>1 DEF StrandInv, NoStrandedLease
    <3>2. CASE AuthorityPredicate(l)
      BY <3>2 DEF StrandInv, AuthorityPredicate
    <3> QED
      BY <2>2, <3>1, <3>2, RowBirth
  <2> QED
    BY <2>1, <2>2 DEF StrandInv, NoStrandedLease
<1> QED
  BY <1>1, <1>2, <1>3, StepKinds

LEMMA InitStrand ==
    ASSUME Init
    PROVE  StrandInv
BY DEF Init, StrandInv, NoStrandedLease, Unrevoked, NoRow

-----------------------------------------------------------------------------
(* Secrets stay authorized. *)

\* A secret that is usable after a step was so before it, or was just handed
\* over under the member's present authority.
LEMMA UsableBirth ==
    ASSUME TypeInv, TrackInv, [Next]_vars, NEW l \in Leases, Usable(l)'
    PROVE  /\ Usable(l) \/ (StillDeliverable(l) /\ row[l].mode = iss[l].mode)
           /\ row'[l].mode = row[l].mode
<1>0. /\ iss \in [Leases -> IssueType] /\ cred \in [Leases -> {"none", "live", "dead"}]
      /\ IssueOK(l)
  BY DEF TypeInv, Types, TrackInv
<1>1. RowGrows(l) /\ CredGrows(l) /\ iss'[l].secret /\ cred'[l] = "live"
  BY NextTrack DEF Usable
<1>2. CASE iss[l].secret
  <2>1. row[l].kind = "real" /\ cred[l] # "none"
    BY <1>0, <1>2 DEF IssueOK
  <2>2. cred[l] = "live"
    BY <1>0, <1>1, <2>1 DEF CredGrows
  <2> QED
    BY <1>1, <1>2, <2>1, <2>2 DEF RowGrows, Usable
<1>3. CASE ~iss[l].secret
  <2>1. ~(CleanupNext \/ ChangesNext \/ DisconnectNext \/ (\E k \in GateKinds : GateGoesStale(k))
          \/ UNCHANGED vars)
    BY <1>1, <1>3, CleanupFrame, RequestWork
  <2>2. IssuanceNext
    BY <2>1 DEF Next
  <2>3. ~RefreshGoesStale
    BY <1>1, <1>3 DEF RefreshGoesStale
  <2>4. ASSUME NEW m \in Leases, NEW pc, Goto(m, pc) PROVE FALSE
    <3>1. iss'[m] = [iss[m] EXCEPT !.pc = pc] /\ (m # l => iss'[l] = iss[l])
      BY <1>0, <2>4 DEF Goto
    <3>2. iss'[m].secret = iss[m].secret
      BY <1>0, <3>1 DEF IssueType
    <3> QED
      BY <1>1, <1>3, <3>1, <3>2
  <2>5. ASSUME NEW m \in Leases, Answered(m) PROVE FALSE
    BY <1>0, <1>1, <1>3, <2>5, AnsweredEffect
  <2>6. ASSUME NEW m \in Leases, AuthorizeLease(m) PROVE FALSE
    <3>1. PICK mode : iss' = [iss EXCEPT ![m] = [pc |-> "authorized", mode |-> mode, role |-> role,
                                      revision |-> conn.revision, generation |-> integ.generation,
                                      secret |-> FALSE]]
      BY <2>6 DEF AuthorizeLease
    <3> QED
      BY <1>0, <1>1, <1>3, <3>1
  <2>7. ASSUME NEW m \in Leases, FinalizeRefresh(m) PROVE FALSE
    <3>1. iss' = [iss EXCEPT ![m].pc = "reserved", ![m].generation = @ + 1]
      BY <2>4, <2>7 DEF FinalizeRefresh
    <3>2. iss'[m] = [iss[m] EXCEPT !.pc = "reserved", !.generation = @ + 1] /\ (m # l => iss'[l] = iss[l])
      BY <1>0, <3>1
    <3>3. iss'[m].secret = iss[m].secret
      BY <1>0, <3>2 DEF IssueType
    <3> QED
      BY <1>1, <1>3, <3>2, <3>3
  <2>8. ASSUME NEW m \in Leases, Reserve(m) \/ Finalize(m) PROVE FALSE
    BY <2>4, <2>5, <2>8 DEF Reserve, Finalize
  <2>9. ASSUME NEW m \in Leases,
               ClaimRefresh(m) \/ StartRemoteRefresh(m) \/ RemoteRefresh(m) \/ RequireReconnect(m)
        PROVE  FALSE
    BY <2>4, <2>9 DEF ClaimRefresh, StartRemoteRefresh, RemoteRefresh, RequireReconnect
  <2>10. ASSUME NEW m \in Leases,
                CreateCredential(m) \/ QueueCleanup(m) \/ IssueFailed(m) \/ Undo(m) \/ ReleaseLease(m)
         PROVE  FALSE
    BY <2>4, <2>5, <2>10 DEF CreateCredential, QueueCleanup, IssueFailed, Undo, ReleaseLease
  <2>11. PICK m \in Leases : Deliver(m)
    BY <2>2, <2>3, <2>6, <2>7, <2>8, <2>9, <2>10 DEF IssuanceNext
  <2>12. /\ StillDeliverable(m) /\ iss[m].pc = "finalized" /\ UNCHANGED row
         /\ iss' = [iss EXCEPT ![m].pc = "delivered", ![m].secret = TRUE]
    BY <2>5, <2>11 DEF Deliver
  <2>13. m = l
    BY <1>0, <1>1, <1>3, <2>12
  <2> QED
    BY <1>0, <2>12, <2>13 DEF IssueOK
<1> QED
  BY <1>2, <1>3

\* A step that keeps the member's authority, and what each usable secret needs of
\* the connection, keeps every secret authorized.
LEMMA AuthorityKept ==
    ASSUME TypeInv, TrackInv, SecretsStayAuthorized, [Next]_vars,
           UNCHANGED <<role, grant, provider>>,
           conn'.writes = conn.writes, conn'.deleted = conn.deleted, conn'.managed = conn.managed,
           integ'.status = "revoked" => integ.status = "revoked"
    PROVE  SecretsStayAuthorized'
<1>1. ASSUME NEW l \in Leases, Usable(l)'
      PROVE  /\ CapabilityPredicate(row[l].mode) /\ ConnectionGrantPredicate(row[l].mode)
             /\ ~conn.deleted /\ conn.managed /\ integ.status # "revoked"
             /\ row'[l].mode = row[l].mode
  <2>1. /\ Usable(l) \/ (StillDeliverable(l) /\ row[l].mode = iss[l].mode)
        /\ row'[l].mode = row[l].mode
    BY <1>1, UsableBirth
  <2>2. CASE Usable(l)
    BY <2>1, <2>2 DEF SecretsStayAuthorized
  <2>3. CASE StillDeliverable(l) /\ row[l].mode = iss[l].mode
    BY <2>1, <2>3 DEF StillDeliverable, AuthorityPredicate
  <2> QED
    BY <2>1, <2>2, <2>3
<1>2. ASSUME NEW mode
      PROVE  /\ CapabilityPredicate(mode) => CapabilityPredicate(mode)'
             /\ ConnectionGrantPredicate(mode) => ConnectionGrantPredicate(mode)'
  BY DEF CapabilityPredicate, ConnectionGrantPredicate
<1>3. ASSUME NEW l \in Leases, Usable(l)'
      PROVE  CapabilityPredicate(row[l].mode)' /\ ConnectionGrantPredicate(row[l].mode)'
  <2>1. CapabilityPredicate(row[l].mode) /\ ConnectionGrantPredicate(row[l].mode)
        /\ row'[l].mode = row[l].mode
    BY <1>1, <1>3
  <2> QED
    BY <2>1 DEF CapabilityPredicate, ConnectionGrantPredicate
<1> QED
  BY <1>1, <1>3 DEF SecretsStayAuthorized

\* A removal leaves the member no lease.
LEMMA RemoveLeavesNone ==
    ASSUME TypeInv, DrainInv, NEW r \in Requests, RemoveMember(r)
    PROVE  NoUnrevokedLease
<1>1. req[r].pc = "commit" /\ req[r].change = "remove" /\ gate["member"].claim = req[r].claim
  BY DEF RemoveMember
<1>2. GateOf(req[r].change) = "member" /\ RevocationScope(r) = AccessModes
  BY <1>1 DEF GateOf, MemberChanges, RevocationScope
<1>3. \A l \in Leases : row[l].mode \in AccessModes
  BY DEF TypeInv, Types, RowType
<1> QED
  BY <1>1, <1>2, <1>3, CommitDrained DEF NoUnrevokedLease

\* A write lock leaves no lease that writes.
LEMMA LockLeavesReaders ==
    ASSUME TypeInv, DrainInv, NEW r \in Requests, CommitConnection(r), req[r].change = "readonly"
    PROVE  \A l \in Leases : Unrevoked(l) => row[l].mode = "read"
<1>1. req[r].pc = "commit" /\ gate["connection"].claim = req[r].claim
  BY DEF CommitConnection
<1>2. GateOf(req[r].change) = "connection" /\ RevocationScope(r) = {"write", "schema"}
  BY DEF GateOf, MemberChanges, ConnectionChanges, TemplateChanges, RevocationScope
<1>3. \A l \in Leases : row[l].mode \in AccessModes
  BY DEF TypeInv, Types, RowType
<1> QED
  BY <1>1, <1>2, <1>3, CommitDrained DEF AccessModes

LEMMA ChangesAuthority ==
    ASSUME TypeInv, TrackInv, ClaimInv, DrainInv, SecretsStayAuthorized, [Next]_vars,
           NEW r \in Requests, ChangesStep(r)
    PROVE  SecretsStayAuthorized'
<1>0. /\ conn \in ConnType /\ UsableSecretsAreTracked
      /\ \A l \in Leases : row[l].mode \in AccessModes
  BY TrackGives DEF TypeInv, Types, RowType
<1>1. UNCHANGED <<provider, integ, row, cred, iss>>
  BY ChangesFrame DEF ChangesStep, ChangesNext
<1>2. \A l \in Leases : Usable(l)' => Usable(l) /\ Unrevoked(l) /\ row'[l].mode = row[l].mode
  BY <1>0, <1>1 DEF Usable, UsableSecretsAreTracked
<1>3. ASSUME NoUnrevokedLease PROVE SecretsStayAuthorized'
  BY <1>2, <1>3 DEF SecretsStayAuthorized, NoUnrevokedLease
<1>4. CASE ChangeRole(r) \/ CommitGrant(r) \/ TeamReadOff(r) \/ ManagedOff(r)
  BY <1>3, <1>4 DEF ChangeRole, CommitGrant, TeamReadOff, ManagedOff
<1>5. CASE RemoveMember(r)
  BY <1>3, <1>5, RemoveLeavesNone
<1>6. CASE RaiseGrant(r)
  <2>1. grant' = "use" /\ Rank(grant) <= 2 /\ UNCHANGED <<role, conn>>
    BY <1>6 DEF RaiseGrant, Targets, Rank
  <2>2. grant # "manage"
    BY <2>1 DEF Rank
  <2>3. ASSUME NEW l \in Leases, Usable(l)'
        PROVE  /\ CapabilityPredicate(row[l].mode)' /\ ConnectionGrantPredicate(row[l].mode)'
               /\ ~conn'.deleted /\ conn'.managed /\ integ'.status # "revoked"
    <3>1. /\ CapabilityPredicate(row[l].mode) /\ ConnectionGrantPredicate(row[l].mode)
          /\ ~conn.deleted /\ conn.managed /\ integ.status # "revoked"
      BY <1>2, <2>3 DEF SecretsStayAuthorized
    <3>2. ConnectionGrantPredicate(row[l].mode)'
      BY <1>0, <1>1, <2>1, <2>2, <3>1 DEF ConnectionGrantPredicate, AccessModes
    <3>3. CapabilityPredicate(row[l].mode)'
      BY <1>0, <1>1, <2>1, <3>1 DEF CapabilityPredicate, AccessModes
    <3> QED
      BY <1>1, <2>1, <3>1, <3>2, <3>3
  <2> QED
    BY <2>3 DEF SecretsStayAuthorized
<1>7. CASE CommitConnection(r)
  <2>1. req[r].change \in {"rename", "readonly", "writable", "delete"} /\ UNCHANGED <<role, grant>>
    BY <1>7 DEF CommitConnection, TemplateChanges
  <2>2. CASE req[r].change = "delete"
    BY <1>3, <1>7, <2>2, DeleteLeavesNone
  <2>3. CASE req[r].change = "rename"
    <3>1. conn' = conn
      BY <1>7, <2>3 DEF CommitConnection
    <3> QED
      BY <1>1, <2>1, <3>1, AuthorityKept
  <2>4. CASE req[r].change \in {"readonly", "writable"}
    <3>1. conn' = [conn EXCEPT !.writes = FALSE] \/ conn' = [conn EXCEPT !.writes = TRUE]
      BY <1>7, <2>4 DEF CommitConnection
    <3>2. conn'.deleted = conn.deleted /\ conn'.managed = conn.managed
      BY <1>0, <3>1 DEF ConnType
    <3>3. req[r].change = "writable" => conn'.writes
      BY <1>0, <1>7 DEF CommitConnection, ConnType
    <3>4. ASSUME NEW l \in Leases, Usable(l)'
          PROVE  /\ CapabilityPredicate(row[l].mode)' /\ ConnectionGrantPredicate(row[l].mode)'
                 /\ ~conn'.deleted /\ conn'.managed /\ integ'.status # "revoked"
      <4>1. /\ CapabilityPredicate(row[l].mode) /\ ConnectionGrantPredicate(row[l].mode)
            /\ ~conn.deleted /\ conn.managed /\ integ.status # "revoked"
        BY <1>2, <3>4 DEF SecretsStayAuthorized
      <4>2. ConnectionGrantPredicate(row[l].mode)'
        BY <1>1, <2>1, <4>1 DEF ConnectionGrantPredicate
      <4>3. row[l].mode = "read" \/ conn'.writes
        BY <1>2, <1>7, <2>4, <3>3, <3>4, LockLeavesReaders
      <4>4. CapabilityPredicate(row[l].mode)'
        BY <1>0, <1>1, <2>1, <4>1, <4>3 DEF CapabilityPredicate, AccessModes
      <4> QED
        BY <1>1, <3>2, <4>1, <4>2, <4>4
    <3> QED
      BY <3>4 DEF SecretsStayAuthorized
  <2> QED
    BY <2>1, <2>2, <2>3, <2>4
<1>8. CASE ClaimGate(r)
  <2>1. UNCHANGED <<role, grant>>
    BY <1>8 DEF ClaimGate
  <2>2. conn'.writes = conn.writes /\ conn'.deleted = conn.deleted /\ conn'.managed = conn.managed
    BY <1>0, <1>8, ClaimGateEffect DEF ConnType
  <2> QED
    BY <1>1, <2>1, <2>2, AuthorityKept
<1>9. CASE \/ Look(r) \/ Refuse(r) \/ RevokeLeases(r) \/ Deferred(r) \/ Drained(r)
           \/ CommitRefused(r) \/ ClearAfterGrant(r)
  <2>1. UNCHANGED <<role, grant, conn>>
    BY <1>9 DEF Look, Refuse, RevokeLeases, Deferred, Drained, CommitRefused, ClearAfterGrant
  <2> QED
    BY <1>1, <2>1, AuthorityKept
<1> QED
  BY <1>4, <1>5, <1>6, <1>7, <1>8, <1>9 DEF ChangesStep

LEMMA NextAuthority ==
    ASSUME TypeInv, TrackInv, ClaimInv, DrainInv, StrandInv, SecretsStayAuthorized, [Next]_vars
    PROVE  SecretsStayAuthorized'
<1>1. ASSUME NEW r \in Requests, DisconnectStep(r) PROVE SecretsStayAuthorized'
  <2>1. /\ UNCHANGED <<role, grant, provider, row, cred, iss>>
        /\ conn'.writes = conn.writes /\ conn'.deleted = conn.deleted
        /\ \/ /\ conn'.linked = conn.linked /\ conn'.managed = conn.managed
              /\ integ'.status = "revoked" => integ.status = "revoked"
           \/ NoUnrevokedLease
    BY <1>1, DisconnectLink
  <2>2. CASE conn'.managed = conn.managed /\ (integ'.status = "revoked" => integ.status = "revoked")
    BY <2>1, <2>2, AuthorityKept
  <2>3. CASE NoUnrevokedLease
    <3>1. \A l \in Leases : Usable(l)' => Usable(l)
      BY <2>1 DEF Usable
    <3>2. \A l \in Leases : ~Usable(l)
      BY <2>3, TrackGives DEF UsableSecretsAreTracked, NoUnrevokedLease
    <3> QED
      BY <3>1, <3>2 DEF SecretsStayAuthorized
  <2> QED
    BY <2>1, <2>2, <2>3
<1>2. CASE IssuanceNext \/ CleanupNext \/ (\E k \in GateKinds : GateGoesStale(k)) \/ UNCHANGED vars
  <2>1. UNCHANGED <<role, grant, provider, conn>> /\ (integ'.status = "revoked" => integ.status = "revoked")
    BY <1>2, IssuanceInteg, CleanupFrame
  <2> QED
    BY <2>1, AuthorityKept
<1> QED
  BY <1>1, <1>2, ChangesAuthority, StepKinds

-----------------------------------------------------------------------------
\* What holds throughout: the leases, the claims, the draining of a gate, the
\* phases of a disconnect, the link of a lease to its provider, and the authority
\* behind every usable secret.
SafetyInv ==
    /\ TypeInv /\ TrackInv /\ ClaimInv /\ DrainInv /\ PhaseInv /\ StrandInv
    /\ SecretsStayAuthorized

LEMMA InitSafety ==
    ASSUME Init
    PROVE  SafetyInv
<1>1. SecretsStayAuthorized
  BY DEF Init, SecretsStayAuthorized, Usable, NoIssue
<1> QED
  BY <1>1, InitTypes, InitTrack, InitClaim, InitDrain, InitPhase, InitStrand DEF SafetyInv

LEMMA NextSafety ==
    ASSUME SafetyInv, [Next]_vars
    PROVE  SafetyInv'
BY NextTypes, NextTrack, NextClaim, NextDrain, NextPhase, NextStrand, NextAuthority DEF SafetyInv

LEMMA PhaseGives ==
    ASSUME TypeInv, TrackInv, PhaseInv
    PROVE  ProviderRevokedLast
BY TrackGives DEF PhaseInv, Late, NoUnrevokedLease, UsableSecretsAreTracked, ProviderRevokedLast

\* A secret a desktop can still use is always covered by the member's present
\* role and grant, the connection's write policy and a connected integration.
\* Every change of authority closes its gate before it lists the leases and
\* commits only under the claim it drew, so no lease is reserved behind its back,
\* whichever of the other changes, deferred revocations, stale claims taken over
\* and resumed disconnects it meets.
THEOREM SecretsAuthorized == Spec => []SecretsStayAuthorized
<1>1. Init => SafetyInv
  BY InitSafety
<1>2. SafetyInv /\ [Next]_vars => SafetyInv'
  BY NextSafety
<1>3. SafetyInv => SecretsStayAuthorized
  BY DEF SafetyInv
<1> QED
  BY <1>1, <1>2, <1>3, PTL DEF Spec

\* As long as a lease row is not marked revoked its connection names the
\* integration and the integration has its credential: neither the deletion of a
\* connection nor the end of a disconnect takes from the sweeper what it needs to
\* revoke the lease.
THEOREM LeasesNotStranded == Spec => []NoStrandedLease
<1>1. Init => SafetyInv
  BY InitSafety
<1>2. SafetyInv /\ [Next]_vars => SafetyInv'
  BY NextSafety
<1>3. SafetyInv => NoStrandedLease
  BY DEF SafetyInv, StrandInv
<1> QED
  BY <1>1, <1>2, <1>3, PTL DEF Spec

\* Once a disconnect has passed its lease phase, no desktop holds a usable secret
\* of the integration, however many requests resume the saga under one claim: a
\* request that lost the claim, or whose cleanup was deferred, cannot move the
\* phase, and nothing is reserved while the gate is pending.
THEOREM LeasesRevokedFirst == Spec => []ProviderRevokedLast
<1>1. Init => SafetyInv
  BY InitSafety
<1>2. SafetyInv /\ [Next]_vars => SafetyInv'
  BY NextSafety
<1>3. SafetyInv => ProviderRevokedLast
  BY PhaseGives DEF SafetyInv
<1> QED
  BY <1>1, <1>2, <1>3, PTL DEF Spec

=============================================================================
