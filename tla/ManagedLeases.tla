--------------------------- MODULE ManagedLeases ---------------------------
(***************************************************************************)
(* Managed database access of the workspace control plane: lease requests, *)
(* lease cleanup, access changes and provider disconnect composed over the *)
(* rows they share.  What the composition promises is that a secret a      *)
(* desktop holds never outlives the authority it was handed out under.     *)
(*                                                                         *)
(* A worker that dies takes no further step and leaves what it wrote, which *)
(* the specification, having no fairness, allows of every request.         *)
(***************************************************************************)
EXTENDS ProviderDisconnect

MaxGeneration == 1 + Cardinality(Requests) + Cardinality(Leases)

Init ==
    /\ scenario \in Scenarios
    /\ provider \in scenario.providers
    /\ gate = [k \in GateKinds |-> Cleared]
    /\ role = scenario.role /\ grant = scenario.grant
    /\ conn = [deleted |-> FALSE, managed |-> TRUE, linked |-> TRUE, writes |-> scenario.writes,
               revision |-> 1]
    /\ integ = [status |-> "active", generation |-> 1, refresh |-> "idle", rclaim |-> NoClaim,
                rgen |-> 0, rstale |-> FALSE, fresh |-> scenario.fresh, phase |-> "idle", dgen |-> 0]
    /\ row = [l \in Leases |-> NoRow]
    /\ cred = [l \in Leases |-> "none"]
    /\ iss = [l \in Leases |-> NoIssue]
    /\ req = [r \in Requests |-> NoRequest]
    /\ work = [p \in Workers |-> NoWork]
    /\ sent = [g \in 1..MaxGeneration |-> 0]

Next ==
    \/ IssuanceNext
    \/ CleanupNext
    \/ ChangesNext
    \/ DisconnectNext
    \/ \E k \in GateKinds : GateGoesStale(k)

Spec == Init /\ [][Next]_vars

-----------------------------------------------------------------------------
GateType == [pending : BOOLEAN, claim : {NoClaim} \cup (Requests \X {1, 2}), stale : BOOLEAN]

RowType == [kind : {"none", "pending", "real"}, mode : AccessModes, expired : BOOLEAN,
            revoked : BOOLEAN, attempts : 0..scenario.attempts, claimed : BOOLEAN, stale : BOOLEAN]

(* Type correctness of the rows, the provider's view and the requests. *)
TypeOK ==
    /\ scenario \in Scenarios /\ provider \in scenario.providers
    /\ gate \in [GateKinds -> GateType]
    /\ role \in Roles /\ grant \in Capabilities
    /\ conn.revision \in Nat /\ integ.generation \in 1..MaxGeneration
    /\ integ.status \in {"active", "reconnect_required", "revoked"}
    /\ row \in [Leases -> RowType]
    /\ cred \in [Leases -> {"none", "live", "dead"}]
    /\ \A r \in Requests : req[r].change \in Changes \cup {"none"}
    /\ \A p \in Workers : \A s \in work[p].todo \cup work[p].hand : s.lease \in Leases
    /\ sent \in [1..MaxGeneration -> Nat]

\* A desktop holds this lease's secret and the provider still honours it.
Usable(l) == iss[l].secret /\ cred[l] = "live"

(* A usable secret is always covered by the member's current role and grant,
   the connection's current write policy and an integration that is not
   disconnected: no committed demotion, removal, grant change, write lock,
   deletion, mode switch or disconnect leaves one behind, whatever other
   change, crash, stale claim or late provider answer it met. *)
SecretsStayAuthorized ==
    \A l \in Leases : Usable(l) =>
        /\ CapabilityPredicate(row[l].mode)
        /\ ConnectionGrantPredicate(row[l].mode)
        /\ ~conn.deleted /\ conn.managed
        /\ integ.status # "revoked"

(* The row of a usable secret is never marked revoked: until the provider
   stops honouring it, cleanup can still find it. *)
UsableSecretsAreTracked == \A l \in Leases : Usable(l) => Unrevoked(l)

(* An unrevoked row's connection still names its integration and the
   integration still has its credential, so the sweeper can finish it:
   deleting a connection or disconnecting a provider strands no row. *)
NoStrandedLease ==
    \A l \in Leases : Unrevoked(l) => conn.linked /\ integ.status # "revoked"

(* Once a disconnect has passed its lease phase no desktop holds a usable
   secret of the integration, also when several requests resume the saga. *)
ProviderRevokedLast ==
    integ.phase \in {"leases_revoked", "provider_revoke_started", "provider_revoke_ambiguous",
                     "provider_revoked", "finalized"}
      => \A l \in Leases : ~Usable(l)

(* PlanetScale's refresh token of one generation is spent at most once: it
   has no idempotency key, so a second use could revoke the whole family. *)
RefreshTokenSpentOnce == \A g \in 1..MaxGeneration : sent[g] <= 1

=============================================================================
