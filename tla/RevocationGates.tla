-------------------------- MODULE RevocationGates --------------------------
(***************************************************************************)
(* The durable state that decides whether one workspace member may hold a  *)
(* database credential on one managed connection, and the gates that       *)
(* suspend that authority while an administrator changes it                *)
(* (workspace-cloud/lib/revocation-gates.ts).                              *)
(*                                                                         *)
(* Every D1 statement or atomic batch is one step; every provider call is  *)
(* a step of its own.  Time is abstract: a lease expires, a claim goes     *)
(* stale, whenever the model chooses.                                      *)
(***************************************************************************)
EXTENDS Naturals, FiniteSets

CONSTANTS Leases,       \* lease requests: one issuing request and its row each
          Requests,     \* administrators' requests, each making one change
          Sweepers,     \* callers of cleanupExpiredManagedLeases
          Scenarios     \* which changes meet, the member's first access, and the
                        \* bounds: how many leases and changes are asked for and
                        \* how often the sweepers claim one row

AccessModes == {"read", "write", "schema"}
Roles == {"none", "viewer", "editor", "admin"}
Capabilities == {"none", "read", "use", "manage"}
Changes == {"role", "remove", "lower", "ungrant", "raise", "rename", "readonly", "writable",
            "delete", "teamOff", "managedOff", "disconnect", "reconnect"}

ASSUME LeasesAssumption ==
    /\ IsFiniteSet(Leases) /\ IsFiniteSet(Requests) /\ IsFiniteSet(Sweepers)
    /\ Leases \cap Requests = {} /\ Leases \cap Sweepers = {} /\ Requests \cap Sweepers = {}

ASSUME ScenariosAssumption ==
    \A s \in Scenarios :
        /\ s.changes \subseteq Changes /\ s.leases \in Nat /\ s.requests \in Nat /\ s.attempts \in Nat
        /\ s.modes \subseteq AccessModes
        /\ s.providers \subseteq {"planetScale", "neon", "gcpCloudSql", "vault"}
        /\ s.role \in Roles /\ s.grant \in Capabilities
        /\ s.writes \in BOOLEAN /\ s.fresh \in BOOLEAN

VARIABLES scenario,  \* the member of Scenarios this behaviour plays
          provider,  \* the integration's provider
          gate,      \* revocation_pending_at / _claim_id / _claimed_at, per row that has them
          role,      \* member.role; "none" once the member is removed
          grant,     \* the member's workspace_connection_grant.capability
          conn,      \* the workspace_connection row
          integ,     \* the workspace_provider_integration row
          row,       \* workspace_credential_lease, one row per lease request
          cred,      \* external: the credential as the provider holds it
          iss,       \* each issuing request's position and what it read
          req,       \* each administrator's request's position and what it read
          work,      \* revokeLeaseRows in progress, per process that runs it
          sent       \* external: how often each generation's refresh token was spent

vars == <<scenario, provider, gate, role, grant, conn, integ, row, cred, iss, req, work, sent>>

Workers == Leases \cup Requests \cup Sweepers
GateKinds == {"member", "connection", "integration"}
NoClaim == <<>>

-----------------------------------------------------------------------------
(* Gates.  A claim id is <<request, n>>: each claim and each renewal draws a
   fresh UUID. *)

Open(k) == ~gate[k].pending /\ gate[k].claim = NoClaim

Holds(k, id) == gate[k].pending /\ gate[k].claim = id

\* claimRevocationGate's WHERE clause: a free claim or one older than five minutes
CanClaim(k) ==
    /\ gate[k].claim = NoClaim \/ gate[k].stale
    /\ CASE k = "member"      -> role # "none"
         [] k = "connection"  -> ~conn.deleted
         [] k = "integration" -> integ.status = "active"

Claimed(id) == [pending |-> TRUE, claim |-> id, stale |-> FALSE]
Cleared == [pending |-> FALSE, claim |-> NoClaim, stale |-> FALSE]
Released == [pending |-> TRUE, claim |-> NoClaim, stale |-> FALSE]

\* updateClaim: the row changes only for the owner of the current claim
UpdateClaim(k, id, to) == IF Holds(k, id) THEN [gate EXCEPT ![k] = to] ELSE gate

\* Five minutes pass without the claim being renewed (which only a request
\* about to claim the gate can tell).
GateGoesStale(k) ==
    /\ gate[k].claim # NoClaim
    /\ ~gate[k].stale
    /\ \E r \in Requests : req[r].pc \in {"looked", "c_claim"}
    /\ gate' = [gate EXCEPT ![k].stale = TRUE]
    /\ UNCHANGED <<scenario, provider, role, grant, conn, integ, row, cred, iss, req, work, sent>>

-----------------------------------------------------------------------------
(* The authority a lease is reserved, finalized and delivered under. *)

CapabilityPredicate(mode) ==
    CASE mode = "schema" -> role = "admin" /\ conn.writes /\ provider \in {"neon", "gcpCloudSql"}
      [] mode = "write"  -> role \in {"editor", "admin"} /\ conn.writes
      [] mode = "read"   -> role # "none"

ConnectionGrantPredicate(mode) ==
    grant \in CASE mode = "schema" -> {"manage"}
                [] mode = "write"  -> {"use", "manage"}
                [] mode = "read"   -> {"read", "use", "manage"}

\* authorityPredicate, against what issuing request l read when it began
AuthorityPredicate(l) ==
    /\ role = iss[l].role
    /\ CapabilityPredicate(iss[l].mode)
    /\ ConnectionGrantPredicate(iss[l].mode)
    /\ \A k \in GateKinds : Open(k)
    /\ ~conn.deleted /\ conn.managed
    /\ conn.revision = iss[l].revision
    /\ integ.generation = iss[l].generation
    /\ integ.status = "active" /\ integ.refresh = "idle"

Unrevoked(l) == row[l].kind # "none" /\ ~row[l].revoked

=============================================================================
