--------------------------- MODULE AccessChanges ---------------------------
(***************************************************************************)
(* Changes of a member's or a connection's authority made by an            *)
(* administrator: role and removal (members/route.ts), grants              *)
(* (grants/route.ts), template edit and deletion                           *)
(* (connections/[connectionId]/route.ts), the team-read policy             *)
(* (workspace-team-read-http.ts) and the switch to member-local            *)
(* credentials (managed-access/route.ts).  Each claims a gate, revokes the *)
(* leases it affects, and commits in one batch under its claim.            *)
(*                                                                         *)
(* The administrator's own authority is re-read by every commit and may be *)
(* gone, and other components (provisioned principals, owned articles) may *)
(* forbid the change: both are nondeterministic refusals.                  *)
(***************************************************************************)
EXTENDS LeaseIssuance

NoRequest == [pc |-> "idle", change |-> "none", to |-> "none", claim |-> NoClaim, first |-> FALSE,
              role |-> "none", revision |-> 0, generation |-> 0]

\* The response; nothing the request read matters any more.
Answer(r, pc) == req' = [req EXCEPT ![r] = [NoRequest EXCEPT !.pc = pc, !.change = req[r].change]]

MemberChanges == {"role", "remove", "lower", "ungrant"}
TemplateChanges == {"rename", "readonly", "writable", "delete", "managedOff"}
ConnectionChanges == TemplateChanges \cup {"teamOff"}
GateOf(change) == IF change \in MemberChanges THEN "member"
                  ELSE IF change \in ConnectionChanges THEN "connection" ELSE "integration"

Rank(c) == CASE c = "none" -> 0 [] c = "read" -> 1 [] c = "use" -> 2 [] c = "manage" -> 3

\* Mutant: the role route accepts a role it does not assign.
Targets_Owner(change) == IF change = "role" THEN {"owner"} ELSE {"none"}

\* What the change moves the member or the connection to.  An analyst has a
\* viewer's managed access.
Targets(change) == CASE change = "role"  -> {"viewer", "editor", "admin"}
                     [] change = "lower" -> {"read"}
                     [] change = "raise" -> {"use"}
                     [] OTHER            -> {"none"}

\* The route's preconditions, read before any claim
Admitted(change) ==
    CASE change \in {"role", "remove"}    -> role # "none"
      [] change \in {"lower", "ungrant"}  -> role # "none" /\ Open("member") /\ ~conn.deleted
                                             /\ ~gate["connection"].pending
      [] change \in {"rename", "delete", "teamOff"} -> ~conn.deleted /\ ~gate["connection"].pending
      [] change \in {"readonly", "writable"} -> ~conn.deleted /\ ~gate["connection"].pending
                                                /\ conn.writes = (change = "readonly")
      [] change = "managedOff" -> ~conn.deleted /\ conn.linked /\ ~conn.writes
      [] OTHER -> FALSE

Arrives(r, change) ==
    /\ req[r].pc = "idle" /\ change \in scenario.changes
    /\ Cardinality({x \in Requests : req[x].pc # "idle"}) < scenario.requests

Look(r) ==
    \E change \in scenario.changes : \E to \in Targets(change) :
        /\ Arrives(r, change)
        /\ Admitted(change)
        /\ req' = [req EXCEPT ![r] = [NoRequest EXCEPT !.pc = "looked", !.change = change, !.to = to,
                                                       !.role = role, !.revision = conn.revision]]
        /\ UNCHANGED <<scenario, provider, gate, role, grant, conn, integ, row, cred, iss, work, sent>>

\* increaseConnectionGrant: one batch, refused while the member's gate is not open
RaiseGrant(r) ==
    \E to \in Targets("raise") :
        /\ Arrives(r, "raise")
        /\ role # "none" /\ Open("member")
        /\ ~conn.deleted /\ ~gate["connection"].pending
        /\ Rank(grant) <= Rank(to)
        /\ grant' = to
        /\ req' = [req EXCEPT ![r] = [NoRequest EXCEPT !.pc = "done", !.change = "raise"]]
        /\ UNCHANGED <<scenario, provider, gate, role, conn, integ, row, cred, iss, work, sent>>

\* claimRevocationGate; the connection's revision moves with its first claim.
\* The grant and team-read routes insist on the first claim, the other
\* connection routes on the revision they read.
ClaimGate(r) ==
    LET k == GateOf(req[r].change)
        first == ~gate[k].pending
        bump == IF k = "connection" /\ first THEN 1 ELSE 0
        superseded == \/ req[r].change \in {"lower", "ungrant", "teamOff"} /\ ~first
                      \/ req[r].change \in TemplateChanges /\ conn.revision # req[r].revision
    IN
    /\ req[r].pc = "looked"
    /\ CanClaim(k)
    /\ gate' = [gate EXCEPT ![k] = Claimed(<<r, 1>>)]
    /\ conn' = [conn EXCEPT !.revision = @ + bump]
    /\ req' = [req EXCEPT ![r].pc = IF superseded THEN "superseded" ELSE "claimed",
                          ![r].claim = <<r, 1>>, ![r].first = first,
                          ![r].role = IF req[r].change \in {"role", "remove"} THEN role ELSE @,
                          ![r].revision = conn.revision + bump]
    /\ UNCHANGED <<scenario, provider, role, grant, integ, row, cred, iss, work, sent>>

\* clear when the gate was this request's own doing, release otherwise
Withdrawn(r) == IF req[r].first THEN Cleared ELSE Released

\* How a request whose leases were not drained, or whose batch matched nothing,
\* leaves its gate
GiveUp(r, answer) ==
    /\ gate' = UpdateClaim(GateOf(req[r].change), req[r].claim,
                           IF req[r].change = "managedOff" THEN Released ELSE Withdrawn(r))
    /\ Answer(r, answer)

\* Superseded, or forbidden for a provisioned principal or an owned article
Refuse(r) ==
    /\ \/ req[r].pc = "superseded"
       \/ req[r].pc = "claimed" /\ req[r].change \in {"role", "remove"}
    /\ gate' = UpdateClaim(GateOf(req[r].change), req[r].claim, Withdrawn(r))
    /\ Answer(r, "done")
    /\ UNCHANGED <<scenario, provider, role, grant, conn, integ, row, cred, iss, work, sent>>

\* Mutant: the write lock forgets the write leases.
RevocationScope_SchemaOnly(r) ==
    CASE req[r].change = "readonly" -> {"schema"}
      [] req[r].change = "writable" -> {}
      [] OTHER -> AccessModes

RevocationScope(r) ==
    CASE req[r].change = "role" /\ req[r].role = req[r].to /\ req[r].first -> {}
      [] req[r].change = "readonly" -> {"write", "schema"}
      [] req[r].change = "writable" -> {}
      [] OTHER -> AccessModes

\* revokeActiveLeases
RevokeLeases(r) ==
    /\ req[r].pc = "claimed" /\ req[r].change \in MemberChanges \cup ConnectionChanges
    /\ work' = [work EXCEPT ![r] = Selected(RevocationScope(r))]
    /\ req' = [req EXCEPT ![r].pc = "revoking"]
    /\ UNCHANGED <<scenario, provider, gate, role, grant, conn, integ, row, cred, iss, sent>>

\* Some lease could not be revoked yet: 409, try again.  The member routes keep
\* the gate pending, the grant routes keep it pending and claimed, the
\* connection routes withdraw.
Deferred(r) ==
    LET k == GateOf(req[r].change) IN
    /\ req[r].pc = "revoking" /\ WorkDone(r) /\ work[r].deferred
    /\ IF req[r].change \in {"role", "remove"}
       THEN gate' = UpdateClaim(k, req[r].claim, Released) /\ Answer(r, "retry")
       ELSE IF req[r].change \in {"lower", "ungrant"}
       THEN gate' = UpdateClaim(k, req[r].claim, Claimed(<<r, 2>>)) /\ Answer(r, "retry")
       ELSE GiveUp(r, "retry")
    /\ work' = [work EXCEPT ![r] = NoWork]
    /\ UNCHANGED <<scenario, provider, role, grant, conn, integ, row, cred, iss, sent>>

\* Every lease is revoked.  The member routes renew their claim first.
Drained(r) ==
    LET k == GateOf(req[r].change) IN
    /\ req[r].pc = "revoking" /\ WorkDone(r) /\ ~work[r].deferred
    /\ IF req[r].change \in {"role", "remove"}
       THEN /\ gate' = UpdateClaim(k, req[r].claim, Claimed(<<r, 2>>))
            /\ req' = [req EXCEPT ![r].pc = IF Holds(k, req[r].claim) THEN "commit" ELSE "done",
                                  ![r].claim = <<r, 2>>]
       ELSE gate' = gate /\ req' = [req EXCEPT ![r].pc = "commit"]
    /\ work' = [work EXCEPT ![r] = NoWork]
    /\ UNCHANGED <<scenario, provider, role, grant, conn, integ, row, cred, iss, sent>>

NoUnrevokedLease == \A l \in Leases : ~Unrevoked(l)

\* changeWorkspaceMemberRole
ChangeRole(r) ==
    /\ req[r].pc = "commit" /\ req[r].change = "role"
    /\ role = req[r].role /\ Holds("member", req[r].claim)
    /\ NoUnrevokedLease
    /\ role' = req[r].to
    /\ gate' = [gate EXCEPT !["member"] = Cleared]
    /\ Answer(r, "done")
    /\ UNCHANGED <<scenario, provider, grant, conn, integ, row, cred, iss, work, sent>>

\* removeMemberAfterAnalysisRunnerCleanup: the row and its grants go.  This
\* batch, unlike the others, does not look for unrevoked leases.
RemoveMember(r) ==
    /\ req[r].pc = "commit" /\ req[r].change = "remove"
    /\ role = req[r].role /\ gate["member"].claim = req[r].claim
    /\ role' = "none" /\ grant' = "none"
    /\ gate' = [gate EXCEPT !["member"] = Cleared]
    /\ Answer(r, "done")
    /\ UNCHANGED <<scenario, provider, conn, integ, row, cred, iss, work, sent>>

\* lowerConnectionGrant and removeConnectionGrant; the gate is cleared by a
\* statement of its own afterwards
CommitGrant(r) ==
    /\ req[r].pc = "commit" /\ req[r].change \in {"lower", "ungrant"}
    /\ Holds("member", req[r].claim) /\ NoUnrevokedLease /\ ~conn.deleted
    /\ grant # "none"
    /\ req[r].change = "lower" => role = req[r].role /\ Rank(grant) > Rank(req[r].to)
    /\ grant' = req[r].to
    /\ req' = [req EXCEPT ![r].pc = "clearing"]
    /\ UNCHANGED <<scenario, provider, gate, role, conn, integ, row, cred, iss, work, sent>>

ClearAfterGrant(r) ==
    /\ req[r].pc = "clearing"
    /\ gate' = UpdateClaim("member", req[r].claim, Cleared)
    /\ Answer(r, "done")
    /\ UNCHANGED <<scenario, provider, role, grant, conn, integ, row, cred, iss, work, sent>>

\* commitConnectionMutation: neither kind looks for unrevoked leases
CommitConnection(r) ==
    /\ req[r].pc = "commit" /\ req[r].change \in TemplateChanges \ {"managedOff"}
    /\ ~conn.deleted /\ conn.revision = req[r].revision
    /\ gate["connection"].claim = req[r].claim
    /\ conn' = CASE req[r].change = "rename"   -> conn
                 [] req[r].change = "readonly" -> [conn EXCEPT !.writes = FALSE]
                 [] req[r].change = "writable" -> [conn EXCEPT !.writes = TRUE]
                 [] req[r].change = "delete"   -> [conn EXCEPT !.deleted = TRUE, !.linked = FALSE]
    /\ gate' = [gate EXCEPT !["connection"] = Cleared]
    /\ Answer(r, "done")
    /\ UNCHANGED <<scenario, provider, role, grant, integ, row, cred, iss, work, sent>>

\* setWorkspaceTeamRead(false): the member's grant came from the policy
TeamReadOff(r) ==
    /\ req[r].pc = "commit" /\ req[r].change = "teamOff"
    /\ ~conn.deleted /\ conn.revision = req[r].revision
    /\ gate["connection"].claim = req[r].claim /\ NoUnrevokedLease
    /\ grant' = IF grant = "read" THEN "none" ELSE grant
    /\ conn' = [conn EXCEPT !.revision = @ + 1]
    /\ gate' = [gate EXCEPT !["connection"] = Cleared]
    /\ Answer(r, "done")
    /\ UNCHANGED <<scenario, provider, role, integ, row, cred, iss, work, sent>>

\* disableWorkspaceManagedAccess: the provider link is kept
ManagedOff(r) ==
    /\ req[r].pc = "commit" /\ req[r].change = "managedOff"
    /\ ~conn.deleted /\ ~conn.writes /\ conn.revision = req[r].revision
    /\ gate["connection"].claim = req[r].claim /\ NoUnrevokedLease
    /\ integ.status = "active" /\ integ.refresh = "idle" /\ Open("integration")
    /\ conn' = [conn EXCEPT !.managed = FALSE, !.revision = @ + 1]
    /\ gate' = [gate EXCEPT !["connection"] = Cleared]
    /\ Answer(r, "done")
    /\ UNCHANGED <<scenario, provider, role, grant, integ, row, cred, iss, work, sent>>

\* The batch matched nothing, or the administrator's authority is gone.
CommitRefused(r) ==
    /\ req[r].pc = "commit" /\ req[r].change \in MemberChanges \cup ConnectionChanges
    /\ GiveUp(r, "done")
    /\ UNCHANGED <<scenario, provider, role, grant, conn, integ, row, cred, iss, work, sent>>

ChangesNext ==
    \E r \in Requests :
        \/ Look(r) \/ RaiseGrant(r) \/ ClaimGate(r) \/ Refuse(r) \/ RevokeLeases(r)
        \/ Deferred(r) \/ Drained(r) \/ CommitRefused(r)
        \/ ChangeRole(r) \/ RemoveMember(r) \/ CommitGrant(r) \/ ClearAfterGrant(r)
        \/ CommitConnection(r) \/ TeamReadOff(r) \/ ManagedOff(r)

=============================================================================
