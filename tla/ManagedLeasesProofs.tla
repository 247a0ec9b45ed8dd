------------------------ MODULE ManagedLeasesProofs ------------------------
(***************************************************************************)
(* Theorems about ManagedLeases for any number of lease requests, changes, *)
(* sweepers and scenarios: the rows and the requests have their types, and *)
(* a refresh token is spent at most once.                                  *)
(***************************************************************************)
EXTENDS ManagedLeases, Sequences, FiniteSetTheorems, TLAPS

IssuePositions == {"idle", "authorized", "refresh", "claimed", "remote", "refreshed", "unrefreshed",
                   "reserved", "created", "queue", "failed", "undo", "finalized", "delivered", "done"}
RequestPositions == {"idle", "looked", "claimed", "superseded", "revoking", "commit", "clearing",
                     "done", "retry", "d_leases", "d_revoking", "d_start", "d_remote", "d_resume",
                     "d_ambiguous", "d_done", "d_final", "c_claim", "c_revoking", "c_persist"}
Statuses == {"active", "reconnect_required", "revoked"}
RefreshStates == {"idle", "claimed", "remote_started", "reconnect_required"}
Phases == {"idle", "claimed", "lease_cleanup_pending", "leases_revoked", "provider_revoke_started",
           "provider_revoke_ambiguous", "provider_revoked", "finalized"}
Claims == {NoClaim} \cup (Requests \X {1, 2})

ConnType == [deleted : BOOLEAN, managed : BOOLEAN, linked : BOOLEAN, writes : BOOLEAN, revision : Nat]
IntegType == [status : Statuses, generation : Nat, refresh : RefreshStates,
              rclaim : {NoClaim} \cup {<<l>> : l \in Leases}, rgen : Nat, rstale : BOOLEAN,
              fresh : BOOLEAN, phase : Phases, dgen : Nat]
IssueType == [pc : IssuePositions, mode : AccessModes, role : Roles, revision : Nat,
              generation : Nat, secret : BOOLEAN]
RequestType == [pc : RequestPositions, change : Changes \cup {"none"},
                to : Roles \cup Capabilities \cup Statuses, claim : Claims, first : BOOLEAN,
                role : Roles, revision : Nat, generation : Nat]
SnapshotType == [lease : Leases, kind : {"pending", "real"}, expired : BOOLEAN, attempt : Nat,
                 linked : BOOLEAN, usable : BOOLEAN]
WorkType == [todo : SUBSET SnapshotType, hand : SUBSET SnapshotType, deferred : BOOLEAN]

\* TypeOK, with the types of what the requests carry.
Types ==
    /\ scenario \in Scenarios /\ provider \in scenario.providers
    /\ gate \in [GateKinds -> GateType]
    /\ role \in Roles /\ grant \in Capabilities
    /\ conn \in ConnType /\ integ \in IntegType
    /\ row \in [Leases -> RowType]
    /\ cred \in [Leases -> {"none", "live", "dead"}]
    /\ iss \in [Leases -> IssueType]
    /\ req \in [Requests -> RequestType]
    /\ work \in [Workers -> WorkType]
    /\ sent \in [1..MaxGeneration -> Nat]

\* A change of role targets a role, a change of grant a capability.
TargetInv ==
    \A r \in Requests :
        /\ req[r].change = "role" => req[r].to \in Roles
        /\ req[r].change \in {"lower", "ungrant"} => req[r].to \in Capabilities

\* Only a lease request that refreshed the token and a request that disconnected
\* or reconnected, each once, have moved the generation.
Unrenewed == {"idle", "authorized", "refresh", "claimed", "remote", "refreshed"}
Renewed == {l \in Leases : iss[l].pc \notin Unrenewed}
Finished == {r \in Requests : req[r].pc \in {"done", "retry"}}
GenerationInv ==
    integ.generation \in 1..(1 + Cardinality(Finished) + Cardinality(Renewed))

TypeInv == Types /\ TargetInv

-----------------------------------------------------------------------------
\* The token of this generation is spent, or is being spent, for good.
Spent(g) == \/ g < integ.generation
            \/ g = integ.generation /\ integ.refresh \in {"remote_started", "reconnect_required"}

RefreshInv ==
    /\ \A g \in 1..MaxGeneration : sent[g] <= 1 /\ (sent[g] = 1 => Spent(g))
    /\ \A l \in Leases : iss[l].pc = "remote" =>
          /\ Spent(iss[l].generation)
          /\ iss[l].generation \in 1..MaxGeneration => sent[iss[l].generation] = 0
          /\ \A m \in Leases :
                iss[m].pc = "remote" /\ iss[m].generation = iss[l].generation => m = l

-----------------------------------------------------------------------------
(* What the statements do to a row, a request or a gate. *)

\* The scenario's fields have their types.
LEMMA ScenarioFields ==
    ASSUME scenario \in Scenarios
    PROVE  /\ scenario.changes \subseteq Changes /\ scenario.modes \subseteq AccessModes
           /\ scenario.attempts \in Nat
           /\ scenario.role \in Roles /\ scenario.grant \in Capabilities
           /\ scenario.writes \in BOOLEAN /\ scenario.fresh \in BOOLEAN
BY ScenariosAssumption

\* A claim id is no empty claim, and names one request.
LEMMA ClaimIds ==
    /\ \A r \in Requests : \A n \in {1, 2} : <<r, n>> \in Claims /\ <<r, n>> # NoClaim
    /\ \A r, q \in Requests : \A n, m \in {1, 2} : <<r, n>> = <<q, m>> => r = q
    /\ NoClaim \in Claims
<1>1. \A r \in Requests : \A n \in {1, 2} : Len(<<r, n>>) = 2 /\ Len(<<>>) = 0
  OBVIOUS
<1> QED
  BY <1>1 DEF Claims, NoClaim

LEMMA GateValues ==
    /\ Cleared \in GateType /\ Released \in GateType
    /\ \A id \in Claims : Claimed(id) \in GateType
    /\ \A id \in Claims : Claimed(id).pending /\ Claimed(id).claim = id
    /\ Cleared.claim = NoClaim /\ ~Cleared.pending
    /\ Released.claim = NoClaim /\ Released.pending
BY DEF Cleared, Released, Claimed, GateType, Claims

\* The owner's statement moves its gate, or nothing.
LEMMA UpdateClaimEffect ==
    ASSUME gate \in [GateKinds -> GateType], NEW k \in GateKinds, NEW id, NEW to \in GateType,
           gate' = UpdateClaim(k, id, to)
    PROVE  /\ gate' \in [GateKinds -> GateType]
           /\ \A j \in GateKinds : j # k => gate'[j] = gate[j]
           /\ gate'[k] = gate[k] \/ (Holds(k, id) /\ gate'[k] = to)
BY DEF UpdateClaim

\* An issuing request that goes on changes its step and nothing else.
LEMMA GotoEffect ==
    ASSUME iss \in [Leases -> IssueType], NEW l \in Leases, NEW pc \in IssuePositions, Goto(l, pc)
    PROVE  /\ iss' \in [Leases -> IssueType]
           /\ iss'[l].pc = pc /\ iss'[l].mode = iss[l].mode /\ iss'[l].secret = iss[l].secret
           /\ iss'[l].generation = iss[l].generation
           /\ \A m \in Leases : m # l => iss'[m] = iss[m]
<1>1. iss[l] \in IssueType
  OBVIOUS
<1>2. iss'[l] = [iss[l] EXCEPT !.pc = pc]
  BY DEF Goto
<1>3. iss'[l] \in IssueType
  BY <1>1, <1>2 DEF IssueType
<1>4. \A m \in Leases : m # l => iss'[m] = iss[m]
  BY DEF Goto
<1>5. iss' \in [Leases -> IssueType]
  BY <1>3 DEF Goto
<1>6. /\ iss'[l].pc = pc /\ iss'[l].mode = iss[l].mode /\ iss'[l].secret = iss[l].secret
      /\ iss'[l].generation = iss[l].generation
  BY <1>1, <1>2 DEF IssueType
<1> QED
  BY <1>4, <1>5, <1>6

\* An issuing request that has answered holds nothing.
LEMMA AnsweredEffect ==
    ASSUME iss \in [Leases -> IssueType], NEW l \in Leases, Answered(l)
    PROVE  /\ iss' \in [Leases -> IssueType]
           /\ iss'[l].pc = "done" /\ ~iss'[l].secret
           /\ \A m \in Leases : m # l => iss'[m] = iss[m]
<1>1. [NoIssue EXCEPT !.pc = "done"] \in IssueType
  BY DEF NoIssue, IssueType, IssuePositions, AccessModes, Roles
<1>2. /\ [NoIssue EXCEPT !.pc = "done"].pc = "done"
      /\ ~[NoIssue EXCEPT !.pc = "done"].secret
  BY DEF NoIssue
<1> QED
  BY <1>1, <1>2 DEF Answered

LEMMA NoRequestType ==
    NoRequest \in RequestType /\ NoRequest.pc = "idle" /\ NoRequest.claim = NoClaim
BY DEF NoRequest, RequestType, RequestPositions, Changes, Roles, Claims

\* A request that has answered keeps only the name of its change.
LEMMA AnswerEffect ==
    ASSUME req \in [Requests -> RequestType], NEW r \in Requests, NEW pc \in RequestPositions,
           Answer(r, pc)
    PROVE  /\ req' \in [Requests -> RequestType]
           /\ req'[r].pc = pc /\ req'[r].claim = NoClaim /\ req'[r].to = "none"
           /\ req'[r].change = req[r].change
           /\ \A q \in Requests : q # r => req'[q] = req[q]
<1> DEFINE to == [NoRequest EXCEPT !.pc = pc, !.change = req[r].change]
<1>1. req[r].change \in Changes \cup {"none"}
  BY DEF RequestType
<1>2. to \in RequestType /\ to.pc = pc /\ to.claim = NoClaim /\ to.to = "none"
      /\ to.change = req[r].change
  BY <1>1 DEF NoRequest, RequestType, Roles, Claims
<1>3. req' = [req EXCEPT ![r] = to]
  BY DEF Answer
<1> HIDE DEF to
<1> QED
  BY <1>2, <1>3

\* A request that goes on changes its step and nothing else.
LEMMA StepEffect ==
    ASSUME req \in [Requests -> RequestType], NEW r \in Requests, NEW pc \in RequestPositions,
           req' = [req EXCEPT ![r].pc = pc]
    PROVE  /\ req' \in [Requests -> RequestType]
           /\ req'[r].pc = pc /\ req'[r].claim = req[r].claim /\ req'[r].to = req[r].to
           /\ req'[r].change = req[r].change /\ req'[r].first = req[r].first
           /\ req'[r].role = req[r].role
           /\ \A q \in Requests : q # r => req'[q] = req[q]
<1>1. req[r] \in RequestType
  OBVIOUS
<1>2. req'[r] = [req[r] EXCEPT !.pc = pc]
  OBVIOUS
<1>3. req'[r] \in RequestType
  BY <1>1, <1>2 DEF RequestType
<1>4. \A q \in Requests : q # r => req'[q] = req[q]
  OBVIOUS
<1>5. req' \in [Requests -> RequestType]
  BY <1>3
<1>6. /\ req'[r].pc = pc /\ req'[r].claim = req[r].claim /\ req'[r].to = req[r].to
      /\ req'[r].change = req[r].change /\ req'[r].first = req[r].first
      /\ req'[r].role = req[r].role
  BY <1>1, <1>2 DEF RequestType
<1> QED
  BY <1>4, <1>5, <1>6

\* A snapshot reads the row as it is.
LEMMA SnapshotEffect ==
    ASSUME Types, NEW l \in Leases, Unrevoked(l), NEW n \in Nat
    PROVE  /\ Snapshot(l, n) \in SnapshotType
           /\ Snapshot(l, n).lease = l /\ Snapshot(l, n).kind = row[l].kind
           /\ Snapshot(l, n).expired = row[l].expired /\ Snapshot(l, n).attempt = n
BY DEF Types, Snapshot, Unrevoked, SnapshotType, RowType, ConnType, IntegType

LEMMA NoWorkType ==
    NoWork \in WorkType /\ NoWork.todo = {} /\ NoWork.hand = {} /\ ~NoWork.deferred
BY DEF NoWork, WorkType

\* revokeActiveLeases has everything it selected still to do.
LEMMA SelectedEffect ==
    ASSUME Types, NEW modes
    PROVE  /\ Selected(modes) \in WorkType
           /\ Selected(modes).hand = {}
           /\ \A s \in Selected(modes).todo :
                 \E l \in Leases : Unrevoked(l) /\ row[l].mode \in modes /\ s = Snapshot(l, 0)
           /\ \A l \in Leases : Unrevoked(l) /\ row[l].mode \in modes => Snapshot(l, 0) \in Selected(modes).todo
<1> DEFINE T == {Snapshot(l, 0) : l \in {x \in Leases : Unrevoked(x) /\ row[x].mode \in modes}}
<1>1. T \in SUBSET SnapshotType
  BY SnapshotEffect
<1>2. Selected(modes) = [NoWork EXCEPT !.todo = T]
  BY DEF Selected
<1>3. /\ \A s \in T : \E l \in Leases : Unrevoked(l) /\ row[l].mode \in modes /\ s = Snapshot(l, 0)
      /\ \A l \in Leases : Unrevoked(l) /\ row[l].mode \in modes => Snapshot(l, 0) \in T
  OBVIOUS
<1> HIDE DEF T
<1>4. [NoWork EXCEPT !.todo = T] \in WorkType /\ [NoWork EXCEPT !.todo = T].hand = {}
      /\ [NoWork EXCEPT !.todo = T].todo = T
  BY <1>1 DEF NoWork, WorkType
<1> QED
  BY <1>2, <1>3, <1>4

LEMMA SelectedLeaseEffect ==
    ASSUME Types, NEW l \in Leases
    PROVE  /\ SelectedLease(l) \in WorkType
           /\ SelectedLease(l).hand = {}
           /\ \A s \in SelectedLease(l).todo : Unrevoked(l) /\ s = Snapshot(l, 0)
<1> DEFINE T == IF Unrevoked(l) THEN {Snapshot(l, 0)} ELSE {}
<1>1. T \in SUBSET SnapshotType
  BY SnapshotEffect
<1>2. SelectedLease(l) = [NoWork EXCEPT !.todo = T]
  BY DEF SelectedLease
<1>3. \A s \in T : Unrevoked(l) /\ s = Snapshot(l, 0)
  OBVIOUS
<1> HIDE DEF T
<1>4. [NoWork EXCEPT !.todo = T] \in WorkType /\ [NoWork EXCEPT !.todo = T].hand = {}
      /\ [NoWork EXCEPT !.todo = T].todo = T
  BY <1>1 DEF NoWork, WorkType
<1> QED
  BY <1>2, <1>3, <1>4

-----------------------------------------------------------------------------
(* The updates of a lease row. *)

\* The row's expiry passes, or is set to the past.
LEMMA RowExpires ==
    ASSUME row \in [Leases -> RowType], NEW l \in Leases,
           row' = [row EXCEPT ![l].expired = TRUE]
    PROVE  /\ row' \in [Leases -> RowType]
           /\ row'[l].kind = row[l].kind /\ row'[l].mode = row[l].mode
           /\ row'[l].expired = TRUE /\ row'[l].revoked = row[l].revoked
           /\ \A m \in Leases : m # l => row'[m] = row[m]
<1>1. row[l] \in RowType
  OBVIOUS
<1>2. row'[l] = [row[l] EXCEPT !.expired = TRUE]
  OBVIOUS
<1>3. row'[l] \in RowType
  BY <1>1, <1>2 DEF RowType
<1>4. /\ row'[l].kind = row[l].kind /\ row'[l].mode = row[l].mode
      /\ row'[l].expired = TRUE /\ row'[l].revoked = row[l].revoked
  BY <1>1, <1>2 DEF RowType
<1>5. \A m \in Leases : m # l => row'[m] = row[m]
  OBVIOUS
<1>6. row' \in [Leases -> RowType]
  BY <1>3
<1> QED
  BY <1>4, <1>5, <1>6

\* The row is marked revoked.
LEMMA RowRevoked ==
    ASSUME row \in [Leases -> RowType], NEW l \in Leases,
           row' = [row EXCEPT ![l].revoked = TRUE]
    PROVE  /\ row' \in [Leases -> RowType]
           /\ row'[l].kind = row[l].kind /\ row'[l].mode = row[l].mode
           /\ row'[l].expired = row[l].expired /\ row'[l].revoked = TRUE
           /\ \A m \in Leases : m # l => row'[m] = row[m]
<1>1. row[l] \in RowType
  OBVIOUS
<1>2. row'[l] = [row[l] EXCEPT !.revoked = TRUE]
  OBVIOUS
<1>3. row'[l] \in RowType
  BY <1>1, <1>2 DEF RowType
<1>4. /\ row'[l].kind = row[l].kind /\ row'[l].mode = row[l].mode
      /\ row'[l].expired = row[l].expired /\ row'[l].revoked = TRUE
  BY <1>1, <1>2 DEF RowType
<1>5. \A m \in Leases : m # l => row'[m] = row[m]
  OBVIOUS
<1>6. row' \in [Leases -> RowType]
  BY <1>3
<1> QED
  BY <1>4, <1>5, <1>6

\* The row names its credential.
LEMMA RowReal ==
    ASSUME row \in [Leases -> RowType], NEW l \in Leases,
           row' = [row EXCEPT ![l].kind = "real"]
    PROVE  /\ row' \in [Leases -> RowType]
           /\ row'[l].kind = "real" /\ row'[l].mode = row[l].mode
           /\ row'[l].expired = row[l].expired /\ row'[l].revoked = row[l].revoked
           /\ \A m \in Leases : m # l => row'[m] = row[m]
<1>1. row[l] \in RowType
  OBVIOUS
<1>2. row'[l] = [row[l] EXCEPT !.kind = "real"]
  OBVIOUS
<1>3. row'[l] \in RowType
  BY <1>1, <1>2 DEF RowType
<1>4. /\ row'[l].kind = "real" /\ row'[l].mode = row[l].mode
      /\ row'[l].expired = row[l].expired /\ row'[l].revoked = row[l].revoked
  BY <1>1, <1>2 DEF RowType
<1>5. \A m \in Leases : m # l => row'[m] = row[m]
  OBVIOUS
<1>6. row' \in [Leases -> RowType]
  BY <1>3
<1> QED
  BY <1>4, <1>5, <1>6

\* The row names its credential and is due at once.
LEMMA RowDue ==
    ASSUME row \in [Leases -> RowType], NEW l \in Leases,
           row' = [row EXCEPT ![l].kind = "real", ![l].expired = TRUE]
    PROVE  /\ row' \in [Leases -> RowType]
           /\ row'[l].kind = "real" /\ row'[l].mode = row[l].mode
           /\ row'[l].expired = TRUE /\ row'[l].revoked = row[l].revoked
           /\ \A m \in Leases : m # l => row'[m] = row[m]
<1>1. row[l] \in RowType
  OBVIOUS
<1>2. row'[l] = [row[l] EXCEPT !.kind = "real", !.expired = TRUE]
  OBVIOUS
<1>3. row'[l] \in RowType
  BY <1>1, <1>2 DEF RowType
<1>4. /\ row'[l].kind = "real" /\ row'[l].mode = row[l].mode
      /\ row'[l].expired = TRUE /\ row'[l].revoked = row[l].revoked
  BY <1>1, <1>2 DEF RowType
<1>5. \A m \in Leases : m # l => row'[m] = row[m]
  OBVIOUS
<1>6. row' \in [Leases -> RowType]
  BY <1>3
<1> QED
  BY <1>4, <1>5, <1>6

\* A sweeper gives up its cleanup claim.
LEMMA RowUnclaimed ==
    ASSUME row \in [Leases -> RowType], NEW l \in Leases,
           row' = [row EXCEPT ![l].claimed = FALSE, ![l].stale = FALSE]
    PROVE  /\ row' \in [Leases -> RowType]
           /\ row'[l].kind = row[l].kind /\ row'[l].mode = row[l].mode
           /\ row'[l].expired = row[l].expired /\ row'[l].revoked = row[l].revoked
           /\ \A m \in Leases : m # l => row'[m] = row[m]
<1>1. row[l] \in RowType
  OBVIOUS
<1>2. row'[l] = [row[l] EXCEPT !.claimed = FALSE, !.stale = FALSE]
  OBVIOUS
<1>3. row'[l] \in RowType
  BY <1>1, <1>2 DEF RowType
<1>4. /\ row'[l].kind = row[l].kind /\ row'[l].mode = row[l].mode
      /\ row'[l].expired = row[l].expired /\ row'[l].revoked = row[l].revoked
  BY <1>1, <1>2 DEF RowType
<1>5. \A m \in Leases : m # l => row'[m] = row[m]
  OBVIOUS
<1>6. row' \in [Leases -> RowType]
  BY <1>3
<1> QED
  BY <1>4, <1>5, <1>6

\* Cleanup marks the row revoked.
LEMMA RowSettled ==
    ASSUME row \in [Leases -> RowType], NEW l \in Leases,
           row' = [row EXCEPT ![l].revoked = TRUE, ![l].claimed = FALSE, ![l].stale = FALSE]
    PROVE  /\ row' \in [Leases -> RowType]
           /\ row'[l].kind = row[l].kind /\ row'[l].mode = row[l].mode
           /\ row'[l].expired = row[l].expired /\ row'[l].revoked = TRUE
           /\ \A m \in Leases : m # l => row'[m] = row[m]
<1>1. row[l] \in RowType
  OBVIOUS
<1>2. row'[l] = [row[l] EXCEPT !.revoked = TRUE, !.claimed = FALSE, !.stale = FALSE]
  OBVIOUS
<1>3. row'[l] \in RowType
  BY <1>1, <1>2 DEF RowType
<1>4. /\ row'[l].kind = row[l].kind /\ row'[l].mode = row[l].mode
      /\ row'[l].expired = row[l].expired /\ row'[l].revoked = TRUE
  BY <1>1, <1>2 DEF RowType
<1>5. \A m \in Leases : m # l => row'[m] = row[m]
  OBVIOUS
<1>6. row' \in [Leases -> RowType]
  BY <1>3
<1> QED
  BY <1>4, <1>5, <1>6

\* A cleanup claim goes stale.
LEMMA RowStale ==
    ASSUME row \in [Leases -> RowType], NEW l \in Leases,
           row' = [row EXCEPT ![l].stale = TRUE]
    PROVE  /\ row' \in [Leases -> RowType]
           /\ row'[l].kind = row[l].kind /\ row'[l].mode = row[l].mode
           /\ row'[l].expired = row[l].expired /\ row'[l].revoked = row[l].revoked
           /\ \A m \in Leases : m # l => row'[m] = row[m]
<1>1. row[l] \in RowType
  OBVIOUS
<1>2. row'[l] = [row[l] EXCEPT !.stale = TRUE]
  OBVIOUS
<1>3. row'[l] \in RowType
  BY <1>1, <1>2 DEF RowType
<1>4. /\ row'[l].kind = row[l].kind /\ row'[l].mode = row[l].mode
      /\ row'[l].expired = row[l].expired /\ row'[l].revoked = row[l].revoked
  BY <1>1, <1>2 DEF RowType
<1>5. \A m \in Leases : m # l => row'[m] = row[m]
  OBVIOUS
<1>6. row' \in [Leases -> RowType]
  BY <1>3
<1> QED
  BY <1>4, <1>5, <1>6

-----------------------------------------------------------------------------
(* Types: the lease requests. *)

\* Every step keeps the scenario, and with it the type of a row.
LEMMA RowTypeSame ==
    ASSUME UNCHANGED scenario
    PROVE  RowType' = RowType
BY DEF RowType

LEMMA AuthorizeLeaseTypes ==
    ASSUME TypeInv, NEW l \in Leases, AuthorizeLease(l)
    PROVE  TypeInv'
<1>1. PICK mode \in scenario.modes :
         iss' = [iss EXCEPT ![l] = [pc |-> "authorized", mode |-> mode, role |-> role,
                                    revision |-> conn.revision, generation |-> integ.generation,
                                    secret |-> FALSE]]
  BY DEF AuthorizeLease
<1>2. mode \in AccessModes
  BY ScenarioFields DEF TypeInv, Types
<1>3. conn.revision \in Nat /\ integ.generation \in Nat /\ role \in Roles
  BY DEF TypeInv, Types, ConnType, IntegType
<1>4. [pc |-> "authorized", mode |-> mode, role |-> role, revision |-> conn.revision,
       generation |-> integ.generation, secret |-> FALSE] \in IssueType
  BY <1>2, <1>3 DEF IssueType, IssuePositions
<1>5. iss' \in [Leases -> IssueType]
  BY <1>1, <1>4 DEF TypeInv, Types
<1>6. UNCHANGED <<scenario, provider, gate, role, grant, conn, integ, row, cred, req, work, sent>>
  BY DEF AuthorizeLease
<1> QED
  BY <1>5, <1>6, RowTypeSame DEF TypeInv, Types, TargetInv

LEMMA ReserveTypes ==
    ASSUME TypeInv, NEW l \in Leases, Reserve(l)
    PROVE  TypeInv'
<1>1. iss[l].mode \in AccessModes /\ scenario.attempts \in Nat
  BY ScenarioFields DEF TypeInv, Types, IssueType
<1>2. [NoRow EXCEPT !.kind = "pending", !.mode = iss[l].mode] \in RowType
  <2>1. 0 \in 0..scenario.attempts
    BY <1>1
  <2> DEFINE attempts == 0..scenario.attempts
  <2> HIDE DEF attempts
  <2> QED
    BY <1>1, <2>1 DEF NoRow, RowType, attempts
<1>3. row' \in [Leases -> RowType]
  BY <1>2 DEF Reserve, TypeInv, Types
<1>4. iss' \in [Leases -> IssueType]
  BY GotoEffect, AnsweredEffect DEF Reserve, TypeInv, Types, IssuePositions
<1>5. UNCHANGED <<scenario, provider, gate, role, grant, conn, integ, cred, req, work, sent>>
  BY DEF Reserve
<1> QED
  BY <1>3, <1>4, <1>5, RowTypeSame DEF TypeInv, Types, TargetInv

\* The steps of the token refresh change the integration and the request.
LEMMA RefreshTypes ==
    ASSUME TypeInv, NEW l \in Leases,
           ClaimRefresh(l) \/ StartRemoteRefresh(l) \/ FinalizeRefresh(l) \/ RequireReconnect(l)
    PROVE  TypeInv'
<1>1. iss[l].generation \in Nat /\ integ \in IntegType /\ iss \in [Leases -> IssueType]
  BY DEF TypeInv, Types, IssueType
<1>2. CASE ClaimRefresh(l)
  <2>1. integ' \in IntegType
    BY <1>1, <1>2 DEF ClaimRefresh, IntegType, RefreshStates
  <2>2. iss' \in [Leases -> IssueType]
    BY <1>1, <1>2, GotoEffect DEF ClaimRefresh, IssuePositions
  <2> QED
    BY <1>2, <2>1, <2>2, RowTypeSame DEF ClaimRefresh, TypeInv, Types, TargetInv
<1>3. CASE StartRemoteRefresh(l)
  <2>1. integ' \in IntegType
    BY <1>1, <1>3 DEF StartRemoteRefresh, IntegType, RefreshStates, Statuses
  <2>2. iss' \in [Leases -> IssueType]
    BY <1>1, <1>3, GotoEffect DEF StartRemoteRefresh, IssuePositions
  <2> QED
    BY <1>3, <2>1, <2>2, RowTypeSame DEF StartRemoteRefresh, TypeInv, Types, TargetInv
<1>4. CASE FinalizeRefresh(l)
  <2>1. integ' \in IntegType
    <3>1. integ.generation + 1 \in Nat
      BY <1>1 DEF IntegType
    <3>2. CASE integ' = integ
      BY <1>1, <3>2
    <3>3. CASE integ' = [integ EXCEPT !.status = "active", !.refresh = "idle", !.rclaim = NoClaim,
                                      !.rstale = FALSE, !.rgen = 0, !.fresh = TRUE,
                                      !.generation = integ.generation + 1]
      BY <1>1, <3>1, <3>3 DEF IntegType, RefreshStates, Statuses
    <3> QED
      BY <1>4, <3>2, <3>3 DEF FinalizeRefresh
  <2>2. iss' \in [Leases -> IssueType]
    <3>1. CASE Goto(l, "unrefreshed")
      BY <1>1, <3>1, GotoEffect DEF IssuePositions
    <3>2. CASE iss' = [iss EXCEPT ![l].pc = "reserved", ![l].generation = @ + 1]
      <4>1. iss'[l] = [iss[l] EXCEPT !.pc = "reserved", !.generation = iss[l].generation + 1]
        BY <1>1, <3>2
      <4>2. iss[l] \in IssueType /\ iss[l].generation + 1 \in Nat
        BY <1>1
      <4>3. iss'[l] \in IssueType
        BY <4>1, <4>2 DEF IssueType, IssuePositions
      <4> QED
        BY <1>1, <3>2, <4>3
    <3> QED
      BY <1>4, <3>1, <3>2 DEF FinalizeRefresh
  <2> QED
    BY <1>4, <2>1, <2>2, RowTypeSame DEF FinalizeRefresh, TypeInv, Types, TargetInv
<1>5. CASE RequireReconnect(l)
  <2>1. integ' \in IntegType
    BY <1>1, <1>5 DEF RequireReconnect, IntegType, RefreshStates, Statuses
  <2>2. iss' \in [Leases -> IssueType]
    BY <1>1, <1>5, GotoEffect DEF RequireReconnect, IssuePositions
  <2> QED
    BY <1>5, <2>1, <2>2, RowTypeSame DEF RequireReconnect, TypeInv, Types, TargetInv
<1> QED
  BY <1>2, <1>3, <1>4, <1>5

LEMMA RemoteRefreshTypes ==
    ASSUME TypeInv, NEW l \in Leases, RemoteRefresh(l)
    PROVE  TypeInv'
<1>1. iss' \in [Leases -> IssueType]
  BY GotoEffect DEF RemoteRefresh, TypeInv, Types, IssuePositions
<1>2. sent' \in [1..MaxGeneration -> Nat]
  <2> DEFINE G == 1..MaxGeneration
             g == iss[l].generation
  <2>1. sent \in [G -> Nat] /\ sent' = [sent EXCEPT ![g] = sent[g] + 1]
    BY DEF RemoteRefresh, TypeInv, Types
  <2> HIDE DEF G, g
  <2>2. ASSUME g \in G PROVE sent' \in [G -> Nat]
    BY <2>1, <2>2
  <2>3. ASSUME g \notin G PROVE sent' \in [G -> Nat]
    BY <2>1, <2>3
  <2> QED
    BY <2>2, <2>3 DEF G
<1> QED
  BY <1>1, <1>2, RowTypeSame DEF RemoteRefresh, TypeInv, Types, TargetInv, MaxGeneration

LEMMA RefreshGoesStaleTypes ==
    ASSUME TypeInv, RefreshGoesStale
    PROVE  TypeInv'
<1>1. integ' \in IntegType
  BY DEF RefreshGoesStale, TypeInv, Types, IntegType
<1> QED
  BY <1>1, RowTypeSame DEF RefreshGoesStale, TypeInv, Types, TargetInv

\* The steps around the provider call change the row, the credential and the
\* request.
LEMMA CreateCredentialTypes ==
    ASSUME TypeInv, NEW l \in Leases, CreateCredential(l)
    PROVE  TypeInv'
<1>1. iss' \in [Leases -> IssueType]
  BY GotoEffect DEF CreateCredential, TypeInv, Types, IssuePositions
<1>2. cred' \in [Leases -> {"none", "live", "dead"}]
  BY DEF CreateCredential, TypeInv, Types
<1> QED
  BY <1>1, <1>2, RowTypeSame DEF CreateCredential, TypeInv, Types, TargetInv

LEMMA RowStepTypes ==
    ASSUME TypeInv, NEW l \in Leases, QueueCleanup(l) \/ IssueFailed(l) \/ Finalize(l) \/ Undo(l)
    PROVE  TypeInv'
<1>1. iss' \in [Leases -> IssueType]
  BY GotoEffect, AnsweredEffect
     DEF QueueCleanup, IssueFailed, Finalize, Undo, TypeInv, Types, IssuePositions
<1>2. row' \in [Leases -> RowType]
  <2>1. CASE row' = [row EXCEPT ![l].expired = TRUE]
    BY <2>1, RowExpires DEF TypeInv, Types
  <2>2. CASE row' = [row EXCEPT ![l].revoked = TRUE]
    BY <2>2, RowRevoked DEF TypeInv, Types
  <2>3. CASE row' = [row EXCEPT ![l].kind = "real"]
    BY <2>3, RowReal DEF TypeInv, Types
  <2>4. CASE row' = [row EXCEPT ![l].kind = "real", ![l].expired = TRUE]
    BY <2>4, RowDue DEF TypeInv, Types
  <2>5. CASE row' = row
    BY <2>5 DEF TypeInv, Types
  <2> QED
    BY <2>1, <2>2, <2>3, <2>4, <2>5 DEF QueueCleanup, IssueFailed, Finalize, Undo
<1>3. cred' \in [Leases -> {"none", "live", "dead"}]
  BY DEF QueueCleanup, IssueFailed, Finalize, Undo, TypeInv, Types
<1>4. UNCHANGED <<scenario, provider, gate, role, grant, conn, integ, req, work, sent>>
  BY DEF QueueCleanup, IssueFailed, Finalize, Undo
<1> QED
  BY <1>1, <1>2, <1>3, <1>4, RowTypeSame DEF TypeInv, Types, TargetInv

\* The request's own cleanup starts with its lease.
LEMMA LeaseIsWorker == Leases \subseteq Workers /\ Requests \subseteq Workers /\ Sweepers \subseteq Workers
BY DEF Workers

LEMMA DeliverTypes ==
    ASSUME TypeInv, NEW l \in Leases, Deliver(l) \/ ReleaseLease(l)
    PROVE  TypeInv'
<1>1. CASE Answered(l) /\ work' = [work EXCEPT ![l] = SelectedLease(l)]
  <2>1. iss' \in [Leases -> IssueType]
    BY <1>1, AnsweredEffect DEF TypeInv, Types
  <2>2. work' \in [Workers -> WorkType]
    BY <1>1, SelectedLeaseEffect, LeaseIsWorker DEF TypeInv, Types
  <2> QED
    BY <2>1, <2>2, RowTypeSame DEF Deliver, ReleaseLease, TypeInv, Types, TargetInv
<1>2. CASE iss' = [iss EXCEPT ![l].pc = "delivered", ![l].secret = TRUE] /\ work' = work
  <2>1. iss[l] \in IssueType
    BY DEF TypeInv, Types
  <2>2. iss'[l] = [iss[l] EXCEPT !.pc = "delivered", !.secret = TRUE]
    BY <1>2 DEF TypeInv, Types
  <2>3. iss'[l] \in IssueType
    BY <2>1, <2>2 DEF IssueType, IssuePositions
  <2>4. iss' \in [Leases -> IssueType]
    BY <1>2, <2>3 DEF TypeInv, Types
  <2> QED
    BY <1>2, <2>4, RowTypeSame DEF Deliver, ReleaseLease, TypeInv, Types, TargetInv
<1> QED
  BY <1>1, <1>2 DEF Deliver, ReleaseLease

LEMMA IssuanceTypes ==
    ASSUME TypeInv, IssuanceNext
    PROVE  TypeInv'
BY AuthorizeLeaseTypes, ReserveTypes, RefreshTypes, RemoteRefreshTypes, RefreshGoesStaleTypes,
   CreateCredentialTypes, RowStepTypes, DeliverTypes
   DEF IssuanceNext

-----------------------------------------------------------------------------
(* Types: cleanup. *)

\* A row still to do, or in the hand, is a snapshot of a lease.
LEMMA SnapshotsInWork ==
    ASSUME Types, NEW p \in Workers, NEW s \in work[p].todo \cup work[p].hand
    PROVE  s \in SnapshotType /\ s.lease \in Leases
BY DEF Types, WorkType, SnapshotType

\* A deferred row leaves the list.
LEMMA DeferEffect ==
    ASSUME Types, NEW p \in Workers, NEW s \in work[p].todo \cup work[p].hand, DeferLease(p, s)
    PROVE  /\ work' \in [Workers -> WorkType]
           /\ work'[p].todo = work[p].todo \ {s} /\ work'[p].hand = work[p].hand
           /\ work'[p].deferred
           /\ \A q \in Workers : q # p => work'[q] = work[q]
<1>1. work[p] \in WorkType
  BY DEF Types
<1>2. work'[p] = [work[p] EXCEPT !.todo = work[p].todo \ {s}, !.deferred = TRUE]
  BY DEF DeferLease, Types
<1>3. work'[p] \in WorkType
  BY <1>1, <1>2 DEF WorkType
<1>4. /\ work'[p].todo = work[p].todo \ {s} /\ work'[p].hand = work[p].hand
      /\ work'[p].deferred
  BY <1>1, <1>2 DEF WorkType
<1>5. \A q \in Workers : q # p => work'[q] = work[q]
  BY DEF DeferLease, Types
<1>6. work' \in [Workers -> WorkType]
  BY <1>3 DEF DeferLease, Types
<1> QED
  BY <1>4, <1>5, <1>6

\* A row revoked at the provider goes from the list to the hand.
LEMMA RevokeEffect ==
    ASSUME Types, NEW p \in Workers, NEW s \in work[p].todo \cup work[p].hand,
           RevokeAtProvider(p, s)
    PROVE  /\ work' \in [Workers -> WorkType]
           /\ work'[p].todo = work[p].todo \ {s} /\ work'[p].hand = {s}
           /\ work'[p].deferred = work[p].deferred
           /\ \A q \in Workers : q # p => work'[q] = work[q]
<1>1. work[p] \in WorkType /\ s \in SnapshotType
  BY SnapshotsInWork DEF Types
<1>2. work'[p] = [work[p] EXCEPT !.todo = work[p].todo \ {s}, !.hand = {s}]
  BY DEF RevokeAtProvider, Types
<1>3. work'[p] \in WorkType
  <2> DEFINE T == work[p].todo \ {s}
             H == {s}
  <2>1. T \in SUBSET SnapshotType /\ H \in SUBSET SnapshotType
    BY <1>1 DEF WorkType
  <2>2. work'[p] = [work[p] EXCEPT !.todo = T, !.hand = H]
    BY <1>2
  <2> HIDE DEF T, H
  <2> QED
    BY <1>1, <2>1, <2>2 DEF WorkType
<1>4. /\ work'[p].todo = work[p].todo \ {s} /\ work'[p].hand = {s}
      /\ work'[p].deferred = work[p].deferred
  BY <1>1, <1>2 DEF WorkType
<1>5. \A q \in Workers : q # p => work'[q] = work[q]
  BY DEF RevokeAtProvider, Types
<1>6. work' \in [Workers -> WorkType]
  BY <1>3 DEF RevokeAtProvider, Types
<1> QED
  BY <1>4, <1>5, <1>6

\* A row whose revocation failed leaves the list; of a selected row the
\* deferral is recorded.
LEMMA FailsEffect ==
    ASSUME Types, NEW p \in Workers, NEW s \in work[p].todo \cup work[p].hand,
           RevocationFails(p, s)
    PROVE  /\ work' \in [Workers -> WorkType]
           /\ work'[p].todo = work[p].todo \ {s} /\ work'[p].hand = work[p].hand
           /\ s.attempt = 0 \/ work[p].deferred => work'[p].deferred
           /\ \A q \in Workers : q # p => work'[q] = work[q]
<1> DEFINE d == work[p].deferred \/ s.attempt = 0 \/ FenceHolds(s)
<1>1. work[p] \in WorkType
  BY DEF Types
<1>2. work' = [work EXCEPT ![p] = [work[p] EXCEPT !.todo = work[p].todo \ {s}, !.deferred = d]]
  BY DEF RevocationFails, Types
<1>3. d \in BOOLEAN /\ (s.attempt = 0 \/ work[p].deferred => d)
  OBVIOUS
<1> HIDE DEF d
<1>4. work'[p] = [work[p] EXCEPT !.todo = work[p].todo \ {s}, !.deferred = d]
  BY <1>2 DEF Types
<1>5. work'[p] \in WorkType
  BY <1>1, <1>3, <1>4 DEF WorkType
<1>6. /\ work'[p].todo = work[p].todo \ {s} /\ work'[p].hand = work[p].hand
      /\ work'[p].deferred = d
  BY <1>1, <1>4 DEF WorkType
<1>7. \A q \in Workers : q # p => work'[q] = work[q]
  BY <1>2 DEF Types
<1>8. work' \in [Workers -> WorkType]
  BY <1>2, <1>4, <1>5 DEF Types
<1> QED
  BY <1>3, <1>6, <1>7, <1>8

\* A row that has been marked leaves the hand.
LEMMA MarkEffect ==
    ASSUME Types, NEW p \in Workers, NEW s \in work[p].todo \cup work[p].hand,
           MarkLeaseRevoked(p, s)
    PROVE  /\ work' \in [Workers -> WorkType]
           /\ work'[p].todo = work[p].todo /\ work'[p].hand = {}
           /\ work'[p].deferred = work[p].deferred
           /\ \A q \in Workers : q # p => work'[q] = work[q]
<1>1. work[p] \in WorkType
  BY DEF Types
<1>2. work'[p] = [work[p] EXCEPT !.hand = {}]
  BY DEF MarkLeaseRevoked, Types
<1>3. work'[p] \in WorkType
  BY <1>1, <1>2 DEF WorkType
<1>4. /\ work'[p].todo = work[p].todo /\ work'[p].hand = {}
      /\ work'[p].deferred = work[p].deferred
  BY <1>1, <1>2 DEF WorkType
<1>5. \A q \in Workers : q # p => work'[q] = work[q]
  BY DEF MarkLeaseRevoked, Types
<1>6. work' \in [Workers -> WorkType]
  BY <1>3 DEF MarkLeaseRevoked, Types
<1> QED
  BY <1>4, <1>5, <1>6

LEMMA HandledTypes ==
    ASSUME TypeInv, NEW p \in Workers, NEW s \in work[p].todo \cup work[p].hand,
           \/ DeferLease(p, s) \/ RevokeAtProvider(p, s)
           \/ RevocationFails(p, s) \/ MarkLeaseRevoked(p, s)
    PROVE  TypeInv'
<1>1. s.lease \in Leases
  BY SnapshotsInWork DEF TypeInv
<1>2. work' \in [Workers -> WorkType]
  BY DeferEffect, RevokeEffect, FailsEffect, MarkEffect DEF TypeInv
<1>3. row' \in [Leases -> RowType]
  BY <1>1, RowUnclaimed, RowSettled
     DEF DeferLease, RevokeAtProvider, RevocationFails, MarkLeaseRevoked, TypeInv, Types
<1>4. cred' \in [Leases -> {"none", "live", "dead"}]
  BY <1>1 DEF DeferLease, RevokeAtProvider, RevocationFails, MarkLeaseRevoked, TypeInv, Types
<1>5. UNCHANGED <<scenario, provider, gate, role, grant, conn, integ, iss, req, sent>>
  BY DEF DeferLease, RevokeAtProvider, RevocationFails, MarkLeaseRevoked
<1> QED
  BY <1>2, <1>3, <1>4, <1>5, RowTypeSame DEF TypeInv, Types, TargetInv

\* A sweeper claims due rows, and counts the attempt within its bound.
LEMMA ClaimExpiredEffect ==
    ASSUME Types, NEW p \in Workers, ClaimExpired(p)
    PROVE  /\ work' \in [Workers -> WorkType] /\ row' \in [Leases -> RowType]
           /\ \A l \in Leases : /\ row'[l].kind = row[l].kind /\ row'[l].mode = row[l].mode
                                 /\ row'[l].expired = row[l].expired
                                 /\ row'[l].revoked = row[l].revoked
           /\ \A q \in Workers : q # p => work'[q] = work[q]
           /\ work'[p].hand = {}
           /\ \A s \in work'[p].todo : \E l \in Leases : \E n \in Nat :
                 Unrevoked(l) /\ s = Snapshot(l, n)
<1> DEFINE T == {Snapshot(l, row[l].attempts + 1) : l \in {x \in Leases : Claimable(x)}}
<1>1. \A l \in Leases : row[l] \in RowType /\ row[l].attempts \in Nat /\ row[l].attempts + 1 \in Nat
  BY ScenarioFields DEF Types, RowType
<1>2. \A l \in Leases : Claimable(l) => Unrevoked(l) /\ row[l].attempts + 1 \in 0..scenario.attempts
  BY <1>1, ScenarioFields DEF Claimable, Types
<1>3. T \in SUBSET SnapshotType
  BY <1>1, <1>2, SnapshotEffect
<1>4. \A s \in T : \E l \in Leases : \E n \in Nat : Unrevoked(l) /\ s = Snapshot(l, n)
  BY <1>1, <1>2
<1>5. work' = [work EXCEPT ![p] = [NoWork EXCEPT !.todo = T]]
  BY DEF ClaimExpired
<1> HIDE DEF T
<1>6. [NoWork EXCEPT !.todo = T] \in WorkType /\ [NoWork EXCEPT !.todo = T].hand = {}
      /\ [NoWork EXCEPT !.todo = T].todo = T
  BY <1>3 DEF NoWork, WorkType
<1>7. /\ work' \in [Workers -> WorkType] /\ work'[p].hand = {} /\ work'[p].todo = T
      /\ \A q \in Workers : q # p => work'[q] = work[q]
  BY <1>5, <1>6 DEF Types
<1>8. ASSUME NEW l \in Leases
      PROVE  /\ row'[l] \in RowType
             /\ row'[l].kind = row[l].kind /\ row'[l].mode = row[l].mode
             /\ row'[l].expired = row[l].expired /\ row'[l].revoked = row[l].revoked
  <2>1. CASE ~Claimable(l)
    BY <1>1, <2>1 DEF ClaimExpired
  <2>2. CASE Claimable(l)
    <3> DEFINE n == row[l].attempts + 1
    <3>1. n \in 0..scenario.attempts
      BY <1>2, <2>2
    <3>2. row'[l] = [row[l] EXCEPT !.claimed = TRUE, !.stale = FALSE, !.attempts = n]
      BY <2>2 DEF ClaimExpired
    <3>3. row[l] \in RowType
      BY <1>1
    <3> HIDE DEF n
    <3> QED
      BY <3>1, <3>2, <3>3 DEF RowType
  <2> QED
    BY <2>1, <2>2
<1>9. row' \in [Leases -> RowType]
  BY <1>8 DEF ClaimExpired
<1> QED
  BY <1>4, <1>7, <1>8, <1>9

LEMMA CleanupTypes ==
    ASSUME TypeInv, CleanupNext
    PROVE  TypeInv'
<1>1. ASSUME NEW p \in Sweepers, ClaimExpired(p) PROVE TypeInv'
  BY <1>1, ClaimExpiredEffect, LeaseIsWorker, RowTypeSame
     DEF ClaimExpired, TypeInv, Types, TargetInv
<1>2. ASSUME NEW p \in Sweepers, SweeperDies(p) PROVE TypeInv'
  BY <1>2, NoWorkType, RowTypeSame DEF SweeperDies, TypeInv, Types, TargetInv
<1>3. ASSUME NEW l \in Leases, CleanupClaimGoesStale(l) PROVE TypeInv'
  BY <1>3, RowStale, RowTypeSame DEF CleanupClaimGoesStale, TypeInv, Types, TargetInv
<1>4. ASSUME NEW l \in Leases, LeaseExpires(l) PROVE TypeInv'
  BY <1>4, RowExpires, RowTypeSame DEF LeaseExpires, TypeInv, Types, TargetInv
<1> QED
  BY <1>1, <1>2, <1>3, <1>4, HandledTypes DEF CleanupNext

-----------------------------------------------------------------------------
(* Types: the administrators' requests. *)

LEMMA GateOfKinds == \A change : GateOf(change) \in GateKinds
BY DEF GateOf, GateKinds

LEMMA WithdrawnValues == \A r \in Requests : Withdrawn(r) \in {Cleared, Released} /\ Withdrawn(r) \in GateType
BY GateValues DEF Withdrawn

\* A request that keeps its change, and its target or nothing, disturbs no other.
LEMMA TargetKept ==
    ASSUME TargetInv, NEW r \in Requests,
           \A q \in Requests : q # r => req'[q] = req[q],
           req'[r].change = req[r].change,
           req'[r].to = req[r].to \/ req'[r].to = "none"
    PROVE  TargetInv'
BY DEF TargetInv, Roles, Capabilities

\* A request that answers leaves what it changed typed.
LEMMA AnswerTypes ==
    ASSUME TypeInv, NEW r \in Requests, NEW pc \in {"done", "retry"}, Answer(r, pc),
           gate' \in [GateKinds -> GateType], role' \in Roles, grant' \in Capabilities,
           conn' \in ConnType, integ' \in IntegType, work' \in [Workers -> WorkType],
           UNCHANGED <<scenario, provider, row, cred, iss, sent>>
    PROVE  TypeInv'
<1>1. pc \in RequestPositions
  BY DEF RequestPositions
<1>2. /\ req' \in [Requests -> RequestType]
      /\ req'[r].to = "none" /\ req'[r].change = req[r].change
      /\ \A q \in Requests : q # r => req'[q] = req[q]
  BY <1>1, AnswerEffect DEF TypeInv, Types
<1>3. TargetInv'
  BY <1>2, TargetKept DEF TypeInv
<1> QED
  BY <1>2, <1>3, RowTypeSame DEF TypeInv, Types

\* So does one that goes on.
LEMMA StepTypes ==
    ASSUME TypeInv, NEW r \in Requests, NEW pc \in RequestPositions, req' = [req EXCEPT ![r].pc = pc],
           gate' \in [GateKinds -> GateType], role' \in Roles, grant' \in Capabilities,
           conn' \in ConnType, integ' \in IntegType, work' \in [Workers -> WorkType],
           UNCHANGED <<scenario, provider, row, cred, iss, sent>>
    PROVE  TypeInv'
<1>1. /\ req' \in [Requests -> RequestType]
      /\ req'[r].to = req[r].to /\ req'[r].change = req[r].change
      /\ \A q \in Requests : q # r => req'[q] = req[q]
  BY StepEffect DEF TypeInv, Types
<1>2. TargetInv'
  BY <1>1, TargetKept DEF TypeInv
<1> QED
  BY <1>1, <1>2, RowTypeSame DEF TypeInv, Types

\* What a request that arrives reads is typed.
LEMMA ArrivalTypes ==
    ASSUME TypeInv, NEW r \in Requests, NEW new \in RequestType,
           new.change = "role" => new.to \in Roles,
           new.change \in {"lower", "ungrant"} => new.to \in Capabilities,
           req' = [req EXCEPT ![r] = new],
           gate' \in [GateKinds -> GateType], grant' \in Capabilities, integ' \in IntegType,
           UNCHANGED <<scenario, provider, role, conn, row, cred, iss, work, sent>>
    PROVE  TypeInv'
<1>1. req' \in [Requests -> RequestType] /\ req'[r] = new
      /\ \A q \in Requests : q # r => req'[q] = req[q]
  BY DEF TypeInv, Types
<1>2. TargetInv'
  BY <1>1 DEF TypeInv, TargetInv
<1> QED
  BY <1>1, <1>2, RowTypeSame DEF TypeInv, Types

LEMMA LookTypes ==
    ASSUME TypeInv, NEW r \in Requests, Look(r)
    PROVE  TypeInv'
<1>0. PICK change \in scenario.changes : \E to \in Targets(change) :
         req' = [req EXCEPT ![r] = [NoRequest EXCEPT !.pc = "looked", !.change = change, !.to = to,
                                                     !.role = role, !.revision = conn.revision]]
  BY DEF Look
<1>1. PICK to \in Targets(change) :
         req' = [req EXCEPT ![r] = [NoRequest EXCEPT !.pc = "looked", !.change = change, !.to = to,
                                                     !.role = role, !.revision = conn.revision]]
  BY <1>0
<1> DEFINE new == [NoRequest EXCEPT !.pc = "looked", !.change = change, !.to = to,
                                    !.role = role, !.revision = conn.revision]
<1>2. change \in Changes /\ role \in Roles /\ conn.revision \in Nat
  BY ScenarioFields DEF TypeInv, Types, ConnType
<1>3. to \in Roles \cup Capabilities
  BY DEF Targets, Roles, Capabilities
<1>4. /\ change = "role" => to \in Roles
      /\ change \in {"lower", "ungrant"} => to \in Capabilities
  BY DEF Targets, Roles, Capabilities
<1>5. new \in RequestType /\ new.change = change /\ new.to = to
  BY <1>2, <1>3 DEF NoRequest, RequestType, RequestPositions, Claims
<1>6. UNCHANGED <<scenario, provider, gate, role, grant, conn, integ, row, cred, iss, work, sent>>
  BY DEF Look
<1>7. gate' \in [GateKinds -> GateType] /\ grant' \in Capabilities /\ integ' \in IntegType
  BY <1>6 DEF TypeInv, Types
<1>8. req' = [req EXCEPT ![r] = new]
  BY <1>1
<1> HIDE DEF new
<1> QED
  BY <1>4, <1>5, <1>6, <1>7, <1>8, ArrivalTypes

LEMMA RaiseGrantTypes ==
    ASSUME TypeInv, NEW r \in Requests, RaiseGrant(r)
    PROVE  TypeInv'
<1> DEFINE new == [NoRequest EXCEPT !.pc = "done", !.change = "raise"]
<1>1. new \in RequestType /\ new.change = "raise"
  BY DEF NoRequest, RequestType, RequestPositions, Claims, Changes, Roles
<1>2. grant' \in Capabilities
  BY DEF RaiseGrant, Targets, Capabilities
<1>3. req' = [req EXCEPT ![r] = new]
  BY DEF RaiseGrant
<1>4. UNCHANGED <<scenario, provider, gate, role, conn, integ, row, cred, iss, work, sent>>
  BY DEF RaiseGrant
<1>5. gate' \in [GateKinds -> GateType] /\ integ' \in IntegType
  BY <1>4 DEF TypeInv, Types
<1> HIDE DEF new
<1> QED
  BY <1>1, <1>2, <1>3, <1>4, <1>5, ArrivalTypes

\* The claim a request draws: what it remembers of it, and the gate it closes.
LEMMA ClaimGateEffect ==
    ASSUME TypeInv, NEW r \in Requests, ClaimGate(r)
    PROVE  /\ gate' = [gate EXCEPT ![GateOf(req[r].change)] = Claimed(<<r, 1>>)]
           /\ \E n \in {0, 1} : conn' = [conn EXCEPT !.revision = @ + n]
           /\ req' \in [Requests -> RequestType]
           /\ req'[r].pc \in {"superseded", "claimed"} /\ req'[r].claim = <<r, 1>>
           /\ req'[r].change = req[r].change /\ req'[r].to = req[r].to
           /\ \A q \in Requests : q # r => req'[q] = req[q]
<1> DEFINE k == GateOf(req[r].change)
           first == ~gate[k].pending
           bump == IF k = "connection" /\ first THEN 1 ELSE 0
           superseded == \/ req[r].change \in {"lower", "ungrant", "teamOff"} /\ ~first
                         \/ req[r].change \in TemplateChanges /\ conn.revision # req[r].revision
           pc == IF superseded THEN "superseded" ELSE "claimed"
           ro == IF req[r].change \in {"role", "remove"} THEN role ELSE req[r].role
           rev == conn.revision + bump
<1>1. bump \in {0, 1}
  OBVIOUS
<1>2. conn' = [conn EXCEPT !.revision = @ + bump] /\ gate' = [gate EXCEPT ![k] = Claimed(<<r, 1>>)]
  BY DEF ClaimGate
<1>3. req[r] \in RequestType /\ role \in Roles /\ conn.revision \in Nat /\ req \in [Requests -> RequestType]
  BY DEF TypeInv, Types, ConnType
<1>4. req' = [req EXCEPT ![r] = [req[r] EXCEPT !.pc = pc, !.claim = <<r, 1>>, !.first = first,
                                              !.role = ro, !.revision = rev]]
  BY <1>3 DEF ClaimGate
<1>5. pc \in {"superseded", "claimed"} /\ pc \in RequestPositions
  BY DEF RequestPositions
<1>6. ro \in Roles /\ rev \in Nat
  BY <1>1, <1>3 DEF RequestType
<1>7. first \in BOOLEAN
  OBVIOUS
<1>8. <<r, 1>> \in Claims
  BY ClaimIds
<1>9. \E n \in {0, 1} : conn' = [conn EXCEPT !.revision = @ + n]
  BY <1>1, <1>2
<1> DEFINE id == <<r, 1>>
<1>10. id \in Claims /\ req' = [req EXCEPT ![r] = [req[r] EXCEPT !.pc = pc, !.claim = id, !.first = first,
                                              !.role = ro, !.revision = rev]]
  BY <1>4, <1>8
<1> HIDE DEF bump, superseded, pc, ro, rev, first, id
<1>11. req'[r] = [req[r] EXCEPT !.pc = pc, !.claim = id, !.first = first, !.role = ro, !.revision = rev]
  BY <1>3, <1>10
<1>12. /\ req'[r] \in RequestType /\ req'[r].pc = pc /\ req'[r].claim = id
       /\ req'[r].change = req[r].change /\ req'[r].to = req[r].to
  BY <1>3, <1>5, <1>6, <1>7, <1>10, <1>11 DEF RequestType
<1>13. req' \in [Requests -> RequestType] /\ \A q \in Requests : q # r => req'[q] = req[q]
  BY <1>3, <1>10, <1>11, <1>12
<1> QED
  BY <1>2, <1>5, <1>9, <1>12, <1>13 DEF id

LEMMA ClaimGateTypes ==
    ASSUME TypeInv, NEW r \in Requests, ClaimGate(r)
    PROVE  TypeInv'
<1>1. gate' \in [GateKinds -> GateType]
  <2>1. Claimed(<<r, 1>>) \in GateType
    BY ClaimIds, GateValues
  <2> QED
    BY <2>1, ClaimGateEffect DEF TypeInv, Types
<1>2. conn' \in ConnType
  <2>1. PICK n \in {0, 1} : conn' = [conn EXCEPT !.revision = @ + n]
    BY ClaimGateEffect
  <2>2. conn \in ConnType /\ conn.revision + n \in Nat
    BY DEF TypeInv, Types, ConnType
  <2> QED
    BY <2>1, <2>2 DEF ConnType
<1>3. TargetInv'
  BY ClaimGateEffect, TargetKept DEF TypeInv
<1>4. UNCHANGED <<scenario, provider, role, grant, integ, row, cred, iss, work, sent>>
  BY DEF ClaimGate
<1> QED
  BY <1>1, <1>2, <1>3, <1>4, ClaimGateEffect, RowTypeSame DEF TypeInv, Types

\* A renewed claim, or the end of one, is a gate.
LEMMA GateMoves ==
    ASSUME TypeInv, NEW r \in Requests, NEW k \in GateKinds, NEW id,
           NEW to \in {Cleared, Released, Claimed(<<r, 2>>), Withdrawn(r)},
           gate' = UpdateClaim(k, id, to)
    PROVE  gate' \in [GateKinds -> GateType]
<1>1. Claimed(<<r, 2>>) \in GateType
  BY ClaimIds, GateValues
<1>2. to \in GateType
  BY <1>1, GateValues, WithdrawnValues
<1> QED
  BY <1>2, UpdateClaimEffect DEF TypeInv, Types

LEMMA WithdrawTypes ==
    ASSUME TypeInv, NEW r \in Requests, Refuse(r) \/ Deferred(r) \/ CommitRefused(r) \/ ClearAfterGrant(r)
    PROVE  TypeInv'
<1> DEFINE k == GateOf(req[r].change)
<1>1. k \in GateKinds /\ "member" \in GateKinds
  BY GateOfKinds DEF GateKinds
<1>2. work \in [Workers -> WorkType] /\ r \in Workers
  BY LeaseIsWorker DEF TypeInv, Types
<1>3. CASE Refuse(r)
  <2>1. gate' = UpdateClaim(k, req[r].claim, Withdrawn(r))
    BY <1>3 DEF Refuse
  <2>2. gate' \in [GateKinds -> GateType]
    BY <1>1, <2>1, GateMoves
  <2> QED
    BY <1>3, <2>2, AnswerTypes DEF Refuse, TypeInv, Types
<1>4. CASE Deferred(r)
  <2>1. \E to \in {Cleared, Released, Claimed(<<r, 2>>), Withdrawn(r)} :
           gate' = UpdateClaim(k, req[r].claim, to)
    BY <1>4 DEF Deferred, GiveUp
  <2>2. gate' \in [GateKinds -> GateType]
    BY <1>1, <2>1, GateMoves
  <2>3. work' \in [Workers -> WorkType]
    BY <1>2, <1>4, NoWorkType DEF Deferred
  <2>4. Answer(r, "retry")
    BY <1>4 DEF Deferred, GiveUp
  <2> QED
    BY <1>4, <2>2, <2>3, <2>4, AnswerTypes DEF Deferred, TypeInv, Types
<1>5. CASE CommitRefused(r)
  <2>1. \E to \in {Cleared, Released, Claimed(<<r, 2>>), Withdrawn(r)} :
           gate' = UpdateClaim(k, req[r].claim, to)
    BY <1>5 DEF CommitRefused, GiveUp
  <2>2. gate' \in [GateKinds -> GateType]
    BY <1>1, <2>1, GateMoves
  <2> QED
    BY <1>5, <2>2, AnswerTypes DEF CommitRefused, GiveUp, TypeInv, Types
<1>6. CASE ClearAfterGrant(r)
  <2>1. gate' \in [GateKinds -> GateType]
    BY <1>1, <1>6, GateMoves DEF ClearAfterGrant
  <2> QED
    BY <1>6, <2>1, AnswerTypes DEF ClearAfterGrant, TypeInv, Types
<1> QED
  BY <1>3, <1>4, <1>5, <1>6

LEMMA RevokeLeasesTypes ==
    ASSUME TypeInv, NEW r \in Requests, RevokeLeases(r)
    PROVE  TypeInv'
<1>1. work' \in [Workers -> WorkType]
  BY SelectedEffect, LeaseIsWorker DEF RevokeLeases, TypeInv, Types
<1>2. "revoking" \in RequestPositions
  BY DEF RequestPositions
<1> QED
  BY <1>1, <1>2, StepTypes DEF RevokeLeases, TypeInv, Types

\* A request whose leases are drained commits under its claim, or under the
\* renewed one.
LEMMA DrainedEffect ==
    ASSUME TypeInv, NEW r \in Requests, Drained(r)
    PROVE  /\ req' \in [Requests -> RequestType]
           /\ req'[r].pc \in {"commit", "done"} /\ req'[r].claim \in {req[r].claim, <<r, 2>>}
           /\ req'[r].change = req[r].change /\ req'[r].to = req[r].to
           /\ req'[r].first = req[r].first /\ req'[r].role = req[r].role
           /\ \A q \in Requests : q # r => req'[q] = req[q]
<1>1. req[r] \in RequestType /\ req \in [Requests -> RequestType]
  BY DEF TypeInv, Types
<1>2. PICK pc \in {"commit", "done"}, id \in {req[r].claim, <<r, 2>>} :
         req' = [req EXCEPT ![r] = [req[r] EXCEPT !.pc = pc, !.claim = id]]
  <2>1. CASE req[r].change \in {"role", "remove"}
    BY <1>1, <2>1 DEF Drained
  <2>2. CASE req[r].change \notin {"role", "remove"}
    <3>1. req' = [req EXCEPT ![r].pc = "commit"]
      BY <2>2 DEF Drained
    <3>2. [req[r] EXCEPT !.pc = "commit", !.claim = req[r].claim] = [req[r] EXCEPT !.pc = "commit"]
      BY <1>1 DEF RequestType
    <3>3. req' = [req EXCEPT ![r] = [req[r] EXCEPT !.pc = "commit", !.claim = req[r].claim]]
      BY <1>1, <3>1, <3>2
    <3> QED
      BY <3>3
  <2> QED
    BY <2>1, <2>2
<1>3. id \in Claims /\ pc \in RequestPositions
  BY <1>1, ClaimIds DEF RequestType, RequestPositions
<1>4. req'[r] = [req[r] EXCEPT !.pc = pc, !.claim = id]
  BY <1>1, <1>2
<1>5. /\ req'[r] \in RequestType /\ req'[r].pc = pc /\ req'[r].claim = id
      /\ req'[r].change = req[r].change /\ req'[r].to = req[r].to
      /\ req'[r].first = req[r].first /\ req'[r].role = req[r].role
  BY <1>1, <1>3, <1>4 DEF RequestType
<1>6. req' \in [Requests -> RequestType] /\ \A q \in Requests : q # r => req'[q] = req[q]
  BY <1>1, <1>2, <1>4, <1>5
<1> QED
  BY <1>5, <1>6

LEMMA DrainedTypes ==
    ASSUME TypeInv, NEW r \in Requests, Drained(r)
    PROVE  TypeInv'
<1> DEFINE k == GateOf(req[r].change)
<1>1. k \in GateKinds
  BY GateOfKinds
<1>2. gate' = gate \/ gate' = UpdateClaim(k, req[r].claim, Claimed(<<r, 2>>))
  BY DEF Drained
<1>3. gate' \in [GateKinds -> GateType]
  BY <1>1, <1>2, GateMoves DEF TypeInv, Types
<1>4. work' \in [Workers -> WorkType]
  BY NoWorkType DEF Drained, TypeInv, Types
<1>5. TargetInv'
  BY DrainedEffect, TargetKept DEF TypeInv
<1>6. UNCHANGED <<scenario, provider, role, grant, conn, integ, row, cred, iss, sent>>
  BY DEF Drained
<1> QED
  BY <1>3, <1>4, <1>5, <1>6, DrainedEffect, RowTypeSame DEF TypeInv, Types

LEMMA CommitTypes ==
    ASSUME TypeInv, NEW r \in Requests,
           \/ ChangeRole(r) \/ RemoveMember(r) \/ CommitGrant(r)
           \/ CommitConnection(r) \/ TeamReadOff(r) \/ ManagedOff(r)
    PROVE  TypeInv'
<1>1. \A k \in GateKinds : [gate EXCEPT ![k] = Cleared] \in [GateKinds -> GateType]
  BY GateValues DEF TypeInv, Types
<1>2. "member" \in GateKinds /\ "connection" \in GateKinds
  BY DEF GateKinds
<1>3. CASE ChangeRole(r)
  <2>1. role' \in Roles
    BY <1>3 DEF ChangeRole, TypeInv, TargetInv
  <2> QED
    BY <1>1, <1>2, <1>3, <2>1, AnswerTypes DEF ChangeRole, TypeInv, Types
<1>4. CASE RemoveMember(r)
  <2>1. role' \in Roles /\ grant' \in Capabilities
    BY <1>4 DEF RemoveMember, Roles, Capabilities
  <2> QED
    BY <1>1, <1>2, <1>4, <2>1, AnswerTypes DEF RemoveMember, TypeInv, Types
<1>5. CASE CommitGrant(r)
  <2>1. grant' \in Capabilities
    BY <1>5 DEF CommitGrant, TypeInv, TargetInv
  <2>2. "clearing" \in RequestPositions
    BY DEF RequestPositions
  <2> QED
    BY <1>5, <2>1, <2>2, StepTypes DEF CommitGrant, TypeInv, Types
<1>6. CASE CommitConnection(r)
  <2>1. \/ conn' = conn \/ conn' = [conn EXCEPT !.writes = FALSE] \/ conn' = [conn EXCEPT !.writes = TRUE]
        \/ conn' = [conn EXCEPT !.deleted = TRUE, !.linked = FALSE]
    <3>1. req[r].change \in {"rename", "readonly", "writable", "delete"}
      BY <1>6 DEF CommitConnection, TemplateChanges
    <3>2. CASE req[r].change = "rename"
      BY <1>6, <3>2 DEF CommitConnection
    <3>3. CASE req[r].change = "readonly"
      BY <1>6, <3>3 DEF CommitConnection
    <3>4. CASE req[r].change = "writable"
      BY <1>6, <3>4 DEF CommitConnection
    <3>5. CASE req[r].change = "delete"
      BY <1>6, <3>5 DEF CommitConnection
    <3> QED
      BY <3>1, <3>2, <3>3, <3>4, <3>5
  <2>2. conn' \in ConnType
    BY <2>1 DEF TypeInv, Types, ConnType
  <2> QED
    BY <1>1, <1>2, <1>6, <2>2, AnswerTypes DEF CommitConnection, TypeInv, Types
<1>7. CASE TeamReadOff(r)
  <2>1. conn' \in ConnType
    BY <1>7 DEF TeamReadOff, TypeInv, Types, ConnType
  <2>2. grant' \in Capabilities
    BY <1>7 DEF TeamReadOff, TypeInv, Types, Capabilities
  <2> QED
    BY <1>1, <1>2, <1>7, <2>1, <2>2, AnswerTypes DEF TeamReadOff, TypeInv, Types
<1>8. CASE ManagedOff(r)
  <2>1. conn' \in ConnType
    <3>1. conn' = [conn EXCEPT !.managed = FALSE, !.revision = conn.revision + 1]
      BY <1>8 DEF ManagedOff
    <3>2. conn \in ConnType /\ conn.revision + 1 \in Nat
      BY DEF TypeInv, Types, ConnType
    <3> QED
      BY <3>1, <3>2 DEF ConnType
  <2> QED
    BY <1>1, <1>2, <1>8, <2>1, AnswerTypes DEF ManagedOff, TypeInv, Types
<1> QED
  BY <1>3, <1>4, <1>5, <1>6, <1>7, <1>8

LEMMA ChangesTypes ==
    ASSUME TypeInv, ChangesNext
    PROVE  TypeInv'
BY LookTypes, RaiseGrantTypes, ClaimGateTypes, WithdrawTypes, RevokeLeasesTypes, DrainedTypes, CommitTypes
   DEF ChangesNext

-----------------------------------------------------------------------------
(* Types: disconnect and reconnect. *)

LEMMA ClaimDisconnectTypes ==
    ASSUME TypeInv, NEW r \in Requests, ClaimDisconnect(r) \/ ResumeDisconnect(r)
    PROVE  TypeInv'
<1>1. integ \in IntegType /\ integ.generation \in Nat /\ integ.dgen \in Nat /\ integ.phase \in Phases
  BY DEF TypeInv, Types, IntegType
<1>2. "integration" \in GateKinds
  BY DEF GateKinds
<1>3. CASE ClaimDisconnect(r)
  <2> DEFINE id == <<r, 1>>
             new == [NoRequest EXCEPT !.pc = "d_leases", !.change = "disconnect", !.claim = id,
                                      !.generation = integ.generation]
  <2>1. id \in Claims
    BY ClaimIds
  <2>2. req' = [req EXCEPT ![r] = new] /\ gate' = [gate EXCEPT !["integration"] = Claimed(id)]
    BY <1>3 DEF ClaimDisconnect
  <2>3. integ' \in IntegType
    <3>1. integ' = [integ EXCEPT !.phase = "claimed", !.dgen = integ.generation]
      BY <1>3 DEF ClaimDisconnect
    <3> QED
      BY <1>1, <3>1 DEF IntegType, Phases
  <2> HIDE DEF id
  <2>4. new \in RequestType /\ new.change = "disconnect"
    BY <1>1, <2>1 DEF NoRequest, RequestType, RequestPositions, Changes, Roles
  <2>5. gate' \in [GateKinds -> GateType]
    BY <1>2, <2>1, <2>2, GateValues DEF TypeInv, Types
  <2> HIDE DEF new
  <2> QED
    BY <1>3, <2>2, <2>3, <2>4, <2>5, ArrivalTypes DEF ClaimDisconnect, TypeInv, Types
<1>4. CASE ResumeDisconnect(r)
  <2> DEFINE id == gate["integration"].claim
             pc == Continue(integ.phase)
             new == [NoRequest EXCEPT !.pc = pc, !.change = "disconnect", !.claim = id,
                                      !.generation = integ.dgen]
  <2>1. id \in Claims
    BY <1>2 DEF TypeInv, Types, GateType, Claims
  <2>2. pc \in RequestPositions
    BY <1>1 DEF Continue, Phases, RequestPositions
  <2>3. req' = [req EXCEPT ![r] = new]
    BY <1>4 DEF ResumeDisconnect
  <2> HIDE DEF id, pc
  <2>4. new \in RequestType /\ new.change = "disconnect"
    BY <1>1, <2>1, <2>2 DEF NoRequest, RequestType, Changes, Roles
  <2> HIDE DEF new
  <2> QED
    BY <1>4, <2>3, <2>4, ArrivalTypes DEF ResumeDisconnect, TypeInv, Types
<1> QED
  BY <1>3, <1>4

\* Each step of the saga moves the phase, or gives up.
LEMMA SagaTypes ==
    ASSUME TypeInv, NEW r \in Requests,
           \/ DisconnectLeases(r) \/ DisconnectDeferred(r) \/ DisconnectDrained(r)
           \/ StartProviderRevoke(r) \/ RevokeAuthorization(r) \/ ResumeStarted(r)
           \/ MarkAmbiguous(r) \/ MarkProviderRevoked(r)
    PROVE  TypeInv'
<1>1. integ \in IntegType
  BY DEF TypeInv, Types
<1>2. {"reconnect_required"} \subseteq Statuses /\ "provider_revoke_ambiguous" \in Phases
  BY DEF Statuses, Phases
<1>3. /\ r \in Workers
      /\ [work EXCEPT ![r] = Selected(AccessModes)] \in [Workers -> WorkType]
      /\ [work EXCEPT ![r] = NoWork] \in [Workers -> WorkType]
  BY SelectedEffect, NoWorkType, LeaseIsWorker DEF TypeInv, Types
<1>4. {"d_revoking", "d_start", "d_remote", "d_done", "d_ambiguous", "d_final"} \subseteq RequestPositions
  BY DEF RequestPositions
<1>5. {"lease_cleanup_pending", "leases_revoked", "provider_revoke_started", "provider_revoked"} \subseteq Phases
  BY DEF Phases
<1>6. integ' \in IntegType
  <2>1. \/ integ' = integ
        \/ \E phase \in Phases : integ' = [integ EXCEPT !.phase = phase]
        \/ integ' = [integ EXCEPT !.status = "reconnect_required", !.phase = "provider_revoke_ambiguous"]
    BY <1>5 DEF DisconnectLeases, DisconnectDeferred, DisconnectDrained, StartProviderRevoke,
       RevokeAuthorization, ResumeStarted, MarkAmbiguous, MarkProviderRevoked
  <2>2. ASSUME NEW phase \in Phases, integ' = [integ EXCEPT !.phase = phase] PROVE integ' \in IntegType
    BY <1>1, <2>2 DEF IntegType
  <2>3. CASE integ' = [integ EXCEPT !.status = "reconnect_required", !.phase = "provider_revoke_ambiguous"]
    BY <1>1, <1>2, <2>3 DEF IntegType
  <2> QED
    BY <1>1, <2>1, <2>2, <2>3
<1>7. work' \in [Workers -> WorkType]
  <2>1. \/ work' = work \/ work' = [work EXCEPT ![r] = NoWork]
        \/ work' = [work EXCEPT ![r] = Selected(AccessModes)]
    BY DEF DisconnectLeases, DisconnectDeferred, DisconnectDrained, StartProviderRevoke,
       RevokeAuthorization, ResumeStarted, MarkAmbiguous, MarkProviderRevoked
  <2> QED
    BY <1>3, <2>1 DEF TypeInv, Types
<1>8. \/ \E pc \in {"done", "retry"} : Answer(r, pc)
      \/ \E pc \in RequestPositions : req' = [req EXCEPT ![r].pc = pc]
  BY <1>4 DEF DisconnectLeases, DisconnectDeferred, DisconnectDrained, StartProviderRevoke,
     RevokeAuthorization, ResumeStarted, MarkAmbiguous, MarkProviderRevoked
<1>9. UNCHANGED <<scenario, provider, gate, role, grant, conn, row, cred, iss, sent>>
  BY DEF DisconnectLeases, DisconnectDeferred, DisconnectDrained, StartProviderRevoke,
     RevokeAuthorization, ResumeStarted, MarkAmbiguous, MarkProviderRevoked
<1>10. gate' \in [GateKinds -> GateType] /\ role' \in Roles /\ grant' \in Capabilities /\ conn' \in ConnType
  BY <1>9 DEF TypeInv, Types
<1>11. CASE \E pc \in {"done", "retry"} : Answer(r, pc)
  BY <1>6, <1>7, <1>9, <1>10, <1>11, AnswerTypes
<1>12. CASE \E pc \in RequestPositions : req' = [req EXCEPT ![r].pc = pc]
  BY <1>6, <1>7, <1>9, <1>10, <1>12, StepTypes
<1> QED
  BY <1>8, <1>11, <1>12

\* The two batches that move the generation.
LEMMA GenerationTypes ==
    ASSUME TypeInv, NEW r \in Requests, FinalizeDisconnect(r) \/ PersistIntegration(r)
    PROVE  TypeInv'
<1>1. integ \in IntegType /\ conn \in ConnType /\ integ.generation + 1 \in Nat /\ conn.revision + 1 \in Nat
  BY DEF TypeInv, Types, IntegType, ConnType
<1>2. integ' \in IntegType
  <2>1. CASE integ' = integ
    BY <1>1, <2>1
  <2>2. CASE integ' = [integ EXCEPT !.status = "revoked", !.phase = "finalized", !.fresh = FALSE,
                                    !.generation = integ.generation + 1]
    BY <1>1, <2>2 DEF IntegType, Statuses, Phases
  <2>3. CASE integ' = [integ EXCEPT !.status = "active", !.refresh = "idle", !.rclaim = NoClaim,
                              !.rstale = FALSE, !.rgen = 0, !.phase = "idle", !.dgen = 0,
                              !.fresh = TRUE, !.generation = integ.generation + 1]
    BY <1>1, <2>3 DEF IntegType, Statuses, Phases, RefreshStates
  <2> QED
    BY <2>1, <2>2, <2>3 DEF FinalizeDisconnect, PersistIntegration
<1>3. conn' \in ConnType
  <2>1. CASE conn' = conn
    BY <1>1, <2>1
  <2>2. CASE conn' = [conn EXCEPT !.managed = FALSE, !.linked = FALSE, !.revision = conn.revision + 1]
    BY <1>1, <2>2 DEF ConnType
  <2>3. CASE conn' = [conn EXCEPT !.revision = conn.revision + 1]
    BY <1>1, <2>3 DEF ConnType
  <2> QED
    BY <2>1, <2>2, <2>3 DEF FinalizeDisconnect, PersistIntegration
<1>4. gate' \in [GateKinds -> GateType]
  <2>1. gate' = gate \/ gate' = [gate EXCEPT !["integration"] = Cleared]
    BY DEF FinalizeDisconnect, PersistIntegration
  <2> QED
    BY <2>1, GateValues DEF TypeInv, Types, GateKinds
<1>5. Answer(r, "done") /\ UNCHANGED <<scenario, provider, role, grant, row, cred, iss, work, sent>>
  BY DEF FinalizeDisconnect, PersistIntegration
<1> QED
  BY <1>2, <1>3, <1>4, <1>5, AnswerTypes DEF TypeInv, Types

\* What a reconnect carries.
LEMMA LookReconnectEffect ==
    ASSUME TypeInv, NEW r \in Requests, LookReconnect(r)
    PROVE  \E new \in RequestType :
              /\ req' = [req EXCEPT ![r] = new]
              /\ new.pc \in {"c_claim", "c_persist"} /\ new.change = "reconnect"
              /\ new.claim = NoClaim \/ (new.pc = "c_persist" /\ new.claim = gate["integration"].claim)
<1> DEFINE supersedes == provider = "planetScale" /\ integ.status = "reconnect_required"
                         /\ gate["integration"].pending /\ gate["integration"].claim # NoClaim
           pc == IF integ.status = "active" THEN "c_claim" ELSE "c_persist"
           id == IF supersedes THEN gate["integration"].claim ELSE NoClaim
           new == [NoRequest EXCEPT !.pc = pc, !.change = "reconnect", !.to = integ.status,
                                    !.claim = id, !.generation = integ.generation]
<1>1. gate["integration"].claim \in Claims
  BY DEF TypeInv, Types, GateType, Claims, GateKinds
<1>2. integ.status \in Statuses /\ integ.generation \in Nat
  BY DEF TypeInv, Types, IntegType
<1>3. req' = [req EXCEPT ![r] = new]
  BY DEF LookReconnect
<1>4. pc \in RequestPositions /\ pc \in {"c_claim", "c_persist"}
  BY DEF RequestPositions
<1>5. id \in Claims /\ (id = NoClaim \/ (pc = "c_persist" /\ id = gate["integration"].claim))
  BY <1>1, ClaimIds
<1> HIDE DEF pc, id
<1>6. new \in RequestType /\ new.pc = pc /\ new.change = "reconnect" /\ new.claim = id
  BY <1>2, <1>4, <1>5 DEF NoRequest, RequestType, Changes, Roles
<1> HIDE DEF new
<1> QED
  BY <1>3, <1>4, <1>5, <1>6

LEMMA ClaimReconnectEffect ==
    ASSUME TypeInv, NEW r \in Requests, ClaimReconnect(r)
    PROVE  /\ req' \in [Requests -> RequestType]
           /\ req'[r].pc = "c_revoking" /\ req'[r].claim = <<r, 1>>
           /\ req'[r].change = req[r].change /\ req'[r].to = req[r].to
           /\ \A q \in Requests : q # r => req'[q] = req[q]
<1> DEFINE id == <<r, 1>>
<1>1. req[r] \in RequestType /\ req \in [Requests -> RequestType] /\ id \in Claims
  BY ClaimIds DEF TypeInv, Types
<1>2. req' = [req EXCEPT ![r] = [req[r] EXCEPT !.pc = "c_revoking", !.claim = id]]
  BY <1>1 DEF ClaimReconnect
<1> HIDE DEF id
<1>3. req'[r] = [req[r] EXCEPT !.pc = "c_revoking", !.claim = id]
  BY <1>1, <1>2
<1>4. /\ req'[r] \in RequestType /\ req'[r].pc = "c_revoking" /\ req'[r].claim = id
      /\ req'[r].change = req[r].change /\ req'[r].to = req[r].to
  BY <1>1, <1>3 DEF RequestType, RequestPositions
<1>5. req' \in [Requests -> RequestType] /\ \A q \in Requests : q # r => req'[q] = req[q]
  BY <1>1, <1>2, <1>3, <1>4
<1> QED
  BY <1>4, <1>5 DEF id

LEMMA ReconnectTypes ==
    ASSUME TypeInv, NEW r \in Requests,
           LookReconnect(r) \/ ClaimReconnect(r) \/ ReconnectRevoked(r) \/ PersistRefused(r)
    PROVE  TypeInv'
<1>1. "integration" \in GateKinds /\ r \in Workers
  BY LeaseIsWorker DEF GateKinds
<1>2. CASE LookReconnect(r)
  <2>1. PICK new \in RequestType : req' = [req EXCEPT ![r] = new] /\ new.change = "reconnect"
    BY <1>2, LookReconnectEffect
  <2> QED
    BY <1>2, <2>1, ArrivalTypes DEF LookReconnect, TypeInv, Types
<1>3. CASE ClaimReconnect(r)
  <2>1. Claimed(<<r, 1>>) \in GateType
    BY ClaimIds, GateValues
  <2>2. gate' \in [GateKinds -> GateType]
    BY <1>1, <1>3, <2>1 DEF ClaimReconnect, TypeInv, Types
  <2>3. work' \in [Workers -> WorkType]
    BY <1>1, <1>3, SelectedEffect DEF ClaimReconnect, TypeInv, Types
  <2>4. TargetInv'
    BY <1>3, ClaimReconnectEffect, TargetKept DEF TypeInv
  <2>5. UNCHANGED <<scenario, provider, role, grant, conn, integ, row, cred, iss, sent>>
    BY <1>3 DEF ClaimReconnect
  <2> QED
    BY <1>3, <2>2, <2>3, <2>4, <2>5, ClaimReconnectEffect, RowTypeSame DEF TypeInv, Types
<1>4. CASE ReconnectRevoked(r)
  <2>1. gate' = gate \/ gate' = UpdateClaim("integration", req[r].claim, Released)
    BY <1>4 DEF ReconnectRevoked
  <2>2. gate' \in [GateKinds -> GateType]
    BY <1>1, <2>1, GateMoves DEF TypeInv, Types
  <2>3. work' \in [Workers -> WorkType]
    BY <1>4, NoWorkType DEF ReconnectRevoked, TypeInv, Types
  <2>4. \E pc \in RequestPositions : req' = [req EXCEPT ![r].pc = pc]
    BY <1>4 DEF ReconnectRevoked, RequestPositions
  <2> QED
    BY <1>4, <2>2, <2>3, <2>4, StepTypes DEF ReconnectRevoked, TypeInv, Types
<1>5. CASE PersistRefused(r)
  <2>1. gate' = gate \/ gate' = UpdateClaim("integration", req[r].claim, Released)
    BY <1>5 DEF PersistRefused
  <2>2. gate' \in [GateKinds -> GateType]
    BY <1>1, <2>1, GateMoves DEF TypeInv, Types
  <2> QED
    BY <1>5, <2>2, AnswerTypes DEF PersistRefused, TypeInv, Types
<1> QED
  BY <1>2, <1>3, <1>4, <1>5

LEMMA DisconnectTypes ==
    ASSUME TypeInv, DisconnectNext
    PROVE  TypeInv'
BY ClaimDisconnectTypes, SagaTypes, GenerationTypes, ReconnectTypes DEF DisconnectNext

-----------------------------------------------------------------------------
LEMMA InitTypes ==
    ASSUME Init
    PROVE  TypeInv
<1>1. scenario \in Scenarios /\ provider \in scenario.providers
  BY DEF Init
<1>2. /\ scenario.role \in Roles /\ scenario.grant \in Capabilities /\ scenario.attempts \in Nat
      /\ scenario.writes \in BOOLEAN /\ scenario.fresh \in BOOLEAN
  BY <1>1, ScenarioFields
<1>3. gate \in [GateKinds -> GateType] /\ role \in Roles /\ grant \in Capabilities
  BY <1>2, GateValues DEF Init
<1>4. conn \in ConnType /\ integ \in IntegType
  BY <1>2 DEF Init, ConnType, IntegType, Statuses, RefreshStates, Phases
<1>5. row \in [Leases -> RowType]
  <2>1. 0 \in 0..scenario.attempts
    BY <1>2
  <2>2. NoRow \in RowType
    BY <2>1 DEF NoRow, RowType, AccessModes
  <2> QED
    BY <2>2 DEF Init
<1>6. cred \in [Leases -> {"none", "live", "dead"}]
  BY DEF Init
<1>7. iss \in [Leases -> IssueType]
  <2>1. NoIssue \in IssueType
    BY DEF NoIssue, IssueType, IssuePositions, AccessModes, Roles
  <2> QED
    BY <2>1 DEF Init
<1>8. req \in [Requests -> RequestType] /\ work \in [Workers -> WorkType]
  BY NoRequestType, NoWorkType DEF Init
<1>9. sent \in [1..MaxGeneration -> Nat]
  BY DEF Init
<1>10. TargetInv
  <2>1. NoRequest.to = "none"
    BY DEF NoRequest
  <2>2. \A r \in Requests : req[r].to = "none"
    BY <2>1 DEF Init
  <2> QED
    BY <2>2 DEF TargetInv, Roles, Capabilities
<1> QED
  BY <1>1, <1>3, <1>4, <1>5, <1>6, <1>7, <1>8, <1>9, <1>10 DEF TypeInv, Types

LEMMA NextTypes ==
    ASSUME TypeInv, [Next]_vars
    PROVE  TypeInv'
<1>1. ASSUME NEW k \in GateKinds, GateGoesStale(k) PROVE TypeInv'
  <2>1. gate'[k] = [gate[k] EXCEPT !.stale = TRUE] /\ gate[k] \in GateType
    BY <1>1 DEF GateGoesStale, TypeInv, Types
  <2>2. gate'[k] \in GateType
    BY <2>1 DEF GateType
  <2>3. gate' \in [GateKinds -> GateType]
    BY <1>1, <2>2 DEF GateGoesStale, TypeInv, Types
  <2> QED
    BY <1>1, <2>3, RowTypeSame DEF GateGoesStale, TypeInv, Types, TargetInv
<1>2. CASE UNCHANGED vars
  BY <1>2, RowTypeSame DEF vars, TypeInv, Types, TargetInv
<1> QED
  BY <1>1, <1>2, IssuanceTypes, CleanupTypes, ChangesTypes, DisconnectTypes DEF Next

-----------------------------------------------------------------------------
(* The generation is moved at most once by every request. *)

\* A lease request that is past the refresh stays past it, and the one that
\* moves the generation passes it.
LEMMA IssuanceProgress ==
    ASSUME TypeInv, IssuanceNext
    PROVE  /\ \A m \in Leases : iss[m].pc \notin Unrenewed => iss'[m].pc \notin Unrenewed
           /\ \/ integ'.generation = integ.generation
              \/ /\ integ'.generation = integ.generation + 1
                 /\ \E m \in Leases : iss[m].pc \in Unrenewed /\ iss'[m].pc \notin Unrenewed
<1>0. iss \in [Leases -> IssueType] /\ integ \in IntegType
  BY DEF TypeInv, Types
<1>1. CASE RefreshGoesStale
  BY <1>0, <1>1 DEF RefreshGoesStale, IntegType
<1>2. ASSUME NEW l \in Leases, AuthorizeLease(l) \/ Reserve(l) \/ ClaimRefresh(l) \/ StartRemoteRefresh(l) \/ RemoteRefresh(l)
      PROVE  /\ iss[l].pc \in Unrenewed
             /\ \A m \in Leases : m # l => iss'[m] = iss[m]
             /\ integ'.generation = integ.generation
  <2>1. iss[l].pc \in Unrenewed
    BY <1>2 DEF AuthorizeLease, Reserve, ClaimRefresh, StartRemoteRefresh, RemoteRefresh, Unrenewed
  <2>2. integ'.generation = integ.generation
    BY <1>0, <1>2 DEF AuthorizeLease, Reserve, ClaimRefresh, StartRemoteRefresh, RemoteRefresh, IntegType
  <2>3. \A m \in Leases : m # l => iss'[m] = iss[m]
    BY <1>0, <1>2 DEF AuthorizeLease, Reserve, ClaimRefresh, StartRemoteRefresh, RemoteRefresh, Goto, Answered
  <2> QED
    BY <2>1, <2>2, <2>3
<1>3. ASSUME NEW l \in Leases, FinalizeRefresh(l)
      PROVE  /\ iss[l].pc \in Unrenewed /\ iss'[l].pc \notin Unrenewed
             /\ \A m \in Leases : m # l => iss'[m] = iss[m]
             /\ \/ integ'.generation = integ.generation
                \/ integ'.generation = integ.generation + 1
  <2>1. iss[l].pc \in Unrenewed
    BY <1>3 DEF FinalizeRefresh, Unrenewed
  <2>2. iss'[l].pc \in {"reserved", "unrefreshed"}
    BY <1>0, <1>3 DEF FinalizeRefresh, Goto, IssueType
  <2>3. \A m \in Leases : m # l => iss'[m] = iss[m]
    BY <1>0, <1>3 DEF FinalizeRefresh, Goto
  <2>4. integ'.generation = integ.generation \/ integ'.generation = integ.generation + 1
    BY <1>0, <1>3 DEF FinalizeRefresh, IntegType
  <2>5. iss'[l].pc \notin Unrenewed
    BY <2>2 DEF Unrenewed
  <2> QED
    BY <2>1, <2>3, <2>4, <2>5
<1>4. ASSUME NEW l \in Leases,
             \/ RequireReconnect(l) \/ CreateCredential(l) \/ QueueCleanup(l) \/ IssueFailed(l)
             \/ Finalize(l) \/ Undo(l) \/ Deliver(l) \/ ReleaseLease(l)
      PROVE  /\ iss'[l].pc \notin Unrenewed
             /\ \A m \in Leases : m # l => iss'[m] = iss[m]
             /\ integ'.generation = integ.generation
  <2>1. \/ \E pc \in IssuePositions \ Unrenewed : Goto(l, pc)
        \/ Answered(l)
        \/ iss' = [iss EXCEPT ![l].pc = "delivered", ![l].secret = TRUE]
    BY <1>4 DEF RequireReconnect, CreateCredential, QueueCleanup, IssueFailed, Finalize, Undo, Deliver,
       ReleaseLease, IssuePositions, Unrenewed
  <2>2. ASSUME NEW pc \in IssuePositions \ Unrenewed, Goto(l, pc)
        PROVE  iss'[l].pc \notin Unrenewed /\ \A m \in Leases : m # l => iss'[m] = iss[m]
    BY <1>0, <2>2, GotoEffect
  <2>3. CASE Answered(l)
    <3>1. iss'[l].pc = "done" /\ \A m \in Leases : m # l => iss'[m] = iss[m]
      BY <1>0, <2>3, AnsweredEffect
    <3>2. integ'.generation = integ.generation
      BY <1>4, <1>0 DEF RequireReconnect, CreateCredential, QueueCleanup, IssueFailed, Finalize, Undo,
         Deliver, ReleaseLease, IntegType
    <3> QED
      BY <3>1, <3>2 DEF Unrenewed
  <2>4. CASE iss' = [iss EXCEPT ![l].pc = "delivered", ![l].secret = TRUE]
    <3>1. iss'[l].pc = "delivered" /\ \A m \in Leases : m # l => iss'[m] = iss[m]
      BY <1>0, <2>4 DEF IssueType
    <3>2. integ'.generation = integ.generation
      BY <1>4, <1>0 DEF RequireReconnect, CreateCredential, QueueCleanup, IssueFailed, Finalize, Undo,
         Deliver, ReleaseLease, IntegType
    <3> QED
      BY <3>1, <3>2 DEF Unrenewed
  <2>5. integ'.generation = integ.generation
    BY <1>4, <1>0 DEF RequireReconnect, CreateCredential, QueueCleanup, IssueFailed, Finalize, Undo,
       Deliver, ReleaseLease, IntegType
  <2> QED
    BY <2>1, <2>2, <2>3, <2>4, <2>5
<1> QED
  <2>1. CASE RefreshGoesStale
    BY <1>1, <2>1 DEF RefreshGoesStale
  <2>2. ASSUME NEW l \in Leases,
               AuthorizeLease(l) \/ Reserve(l) \/ ClaimRefresh(l) \/ StartRemoteRefresh(l) \/ RemoteRefresh(l)
        PROVE  /\ \A m \in Leases : iss[m].pc \notin Unrenewed => iss'[m].pc \notin Unrenewed
               /\ integ'.generation = integ.generation
    BY <1>2, <2>2
  <2>3. ASSUME NEW l \in Leases, FinalizeRefresh(l)
        PROVE  /\ \A m \in Leases : iss[m].pc \notin Unrenewed => iss'[m].pc \notin Unrenewed
               /\ \/ integ'.generation = integ.generation
                  \/ /\ integ'.generation = integ.generation + 1
                     /\ \E m \in Leases : iss[m].pc \in Unrenewed /\ iss'[m].pc \notin Unrenewed
    BY <1>3, <2>3
  <2>4. ASSUME NEW l \in Leases,
               \/ RequireReconnect(l) \/ CreateCredential(l) \/ QueueCleanup(l) \/ IssueFailed(l)
               \/ Finalize(l) \/ Undo(l) \/ Deliver(l) \/ ReleaseLease(l)
        PROVE  /\ \A m \in Leases : iss[m].pc \notin Unrenewed => iss'[m].pc \notin Unrenewed
               /\ integ'.generation = integ.generation
    BY <1>4, <2>4
  <2> QED
    BY <2>1, <2>2, <2>3, <2>4 DEF IssuanceNext

\* A request that has answered takes no further step.
LEMMA RequestMoves ==
    ASSUME TypeInv, ChangesNext \/ DisconnectNext
    PROVE  /\ UNCHANGED iss
           /\ \E r \in Requests : /\ req[r].pc \notin {"done", "retry"}
                                  /\ \A q \in Requests : q # r => req'[q] = req[q]
<1>0. req \in [Requests -> RequestType]
  BY DEF TypeInv, Types
<1>1. CASE ChangesNext
  <2>1. PICK r \in Requests :
           \/ Look(r) \/ RaiseGrant(r) \/ ClaimGate(r) \/ Refuse(r) \/ RevokeLeases(r)
           \/ Deferred(r) \/ Drained(r) \/ CommitRefused(r)
           \/ ChangeRole(r) \/ RemoveMember(r) \/ CommitGrant(r) \/ ClearAfterGrant(r)
           \/ CommitConnection(r) \/ TeamReadOff(r) \/ ManagedOff(r)
    BY <1>1 DEF ChangesNext
  <2>2. UNCHANGED iss
    BY <2>1 DEF Look, RaiseGrant, ClaimGate, Refuse, RevokeLeases, Deferred, Drained, CommitRefused,
       ChangeRole, RemoveMember, CommitGrant, ClearAfterGrant, CommitConnection, TeamReadOff, ManagedOff
  <2>3. req[r].pc \notin {"done", "retry"}
    BY <2>1 DEF Look, RaiseGrant, ClaimGate, Refuse, RevokeLeases, Deferred, Drained, CommitRefused,
       ChangeRole, RemoveMember, CommitGrant, ClearAfterGrant, CommitConnection, TeamReadOff, ManagedOff,
       Arrives
  <2>4. \A q \in Requests : q # r => req'[q] = req[q]
    <3>1. CASE ClaimGate(r)
      BY <3>1, ClaimGateEffect
    <3>2. CASE Drained(r)
      BY <3>2, DrainedEffect
    <3>3. CASE ~ClaimGate(r) /\ ~Drained(r)
      BY <1>0, <2>1, <3>3 DEF Look, RaiseGrant, Refuse, RevokeLeases, Deferred, CommitRefused,
         ChangeRole, RemoveMember, CommitGrant, ClearAfterGrant, CommitConnection, TeamReadOff, ManagedOff,
         GiveUp, Answer
    <3> QED
      BY <3>1, <3>2, <3>3
  <2> QED
    BY <2>2, <2>3, <2>4
<1>2. CASE DisconnectNext
  <2>1. PICK r \in Requests :
           \/ ClaimDisconnect(r) \/ ResumeDisconnect(r) \/ DisconnectLeases(r) \/ DisconnectDeferred(r)
           \/ DisconnectDrained(r) \/ StartProviderRevoke(r) \/ RevokeAuthorization(r)
           \/ ResumeStarted(r) \/ MarkAmbiguous(r) \/ MarkProviderRevoked(r) \/ FinalizeDisconnect(r)
           \/ LookReconnect(r) \/ ClaimReconnect(r) \/ ReconnectRevoked(r)
           \/ PersistIntegration(r) \/ PersistRefused(r)
    BY <1>2 DEF DisconnectNext
  <2>2. UNCHANGED iss
    BY <2>1 DEF ClaimDisconnect, ResumeDisconnect, DisconnectLeases, DisconnectDeferred,
       DisconnectDrained, StartProviderRevoke, RevokeAuthorization, ResumeStarted, MarkAmbiguous,
       MarkProviderRevoked, FinalizeDisconnect, LookReconnect, ClaimReconnect, ReconnectRevoked,
       PersistIntegration, PersistRefused
  <2>3. req[r].pc \notin {"done", "retry"}
    BY <2>1 DEF ClaimDisconnect, ResumeDisconnect, DisconnectLeases, DisconnectDeferred,
       DisconnectDrained, StartProviderRevoke, RevokeAuthorization, ResumeStarted, MarkAmbiguous,
       MarkProviderRevoked, FinalizeDisconnect, LookReconnect, ClaimReconnect, ReconnectRevoked,
       PersistIntegration, PersistRefused, Arrives
  <2>4. \A q \in Requests : q # r => req'[q] = req[q]
    BY <1>0, <2>1 DEF ClaimDisconnect, ResumeDisconnect, DisconnectLeases, DisconnectDeferred,
       DisconnectDrained, StartProviderRevoke, RevokeAuthorization, ResumeStarted, MarkAmbiguous,
       MarkProviderRevoked, FinalizeDisconnect, LookReconnect, ClaimReconnect, ReconnectRevoked,
       PersistIntegration, PersistRefused, Answer
  <2> QED
    BY <2>2, <2>3, <2>4
<1> QED
  BY <1>1, <1>2

\* A change of access leaves the integration, the leases and the scenario alone.
LEMMA ChangesFrame ==
    ASSUME ChangesNext
    PROVE  UNCHANGED <<scenario, provider, integ, row, cred, iss, sent>>
<1>1. PICK r \in Requests :
         \/ Look(r) \/ RaiseGrant(r) \/ ClaimGate(r) \/ Refuse(r) \/ RevokeLeases(r)
         \/ Deferred(r) \/ Drained(r) \/ CommitRefused(r)
         \/ ChangeRole(r) \/ RemoveMember(r) \/ CommitGrant(r) \/ ClearAfterGrant(r)
         \/ CommitConnection(r) \/ TeamReadOff(r) \/ ManagedOff(r)
  BY DEF ChangesNext
<1> QED
  BY <1>1 DEF Look, RaiseGrant, ClaimGate, Refuse, RevokeLeases, Deferred, Drained, CommitRefused,
     ChangeRole, RemoveMember, CommitGrant, ClearAfterGrant, CommitConnection, TeamReadOff, ManagedOff

\* Only the last batch of a disconnect and of a reconnect move the generation,
\* and the request answers with it.
LEMMA RequestGeneration ==
    ASSUME TypeInv, ChangesNext \/ DisconnectNext
    PROVE  \/ integ'.generation = integ.generation
           \/ /\ integ'.generation = integ.generation + 1
              /\ \E r \in Requests : req[r].pc \notin {"done", "retry"} /\ req'[r].pc = "done"
<1>0. req \in [Requests -> RequestType] /\ integ \in IntegType
  BY DEF TypeInv, Types
<1>1. CASE ChangesNext
  BY <1>1, ChangesFrame
<1>2. ASSUME NEW r \in Requests, FinalizeDisconnect(r) \/ PersistIntegration(r)
      PROVE  /\ req[r].pc \notin {"done", "retry"} /\ req'[r].pc = "done"
             /\ \/ integ'.generation = integ.generation
                \/ integ'.generation = integ.generation + 1
  <2>1. Answer(r, "done") /\ req[r].pc \in {"d_final", "c_persist"}
    BY <1>2 DEF FinalizeDisconnect, PersistIntegration
  <2>2. req'[r].pc = "done"
    BY <1>0, <2>1, AnswerEffect DEF RequestPositions
  <2>3. integ'.generation = integ.generation \/ integ'.generation = integ.generation + 1
    BY <1>0, <1>2 DEF FinalizeDisconnect, PersistIntegration, IntegType
  <2> QED
    BY <2>1, <2>2, <2>3
<1>3. ASSUME NEW r \in Requests,
             \/ ClaimDisconnect(r) \/ ResumeDisconnect(r) \/ DisconnectLeases(r) \/ DisconnectDeferred(r)
             \/ DisconnectDrained(r) \/ StartProviderRevoke(r) \/ RevokeAuthorization(r)
             \/ ResumeStarted(r) \/ MarkAmbiguous(r) \/ MarkProviderRevoked(r)
             \/ LookReconnect(r) \/ ClaimReconnect(r) \/ ReconnectRevoked(r) \/ PersistRefused(r)
      PROVE  integ'.generation = integ.generation
  BY <1>0, <1>3 DEF ClaimDisconnect, ResumeDisconnect, DisconnectLeases, DisconnectDeferred,
     DisconnectDrained, StartProviderRevoke, RevokeAuthorization, ResumeStarted, MarkAmbiguous,
     MarkProviderRevoked, LookReconnect, ClaimReconnect, ReconnectRevoked, PersistRefused, IntegType
<1> QED
  BY <1>1, <1>2, <1>3 DEF DisconnectNext

\* Everything else leaves both kinds of request, and the generation, alone.
LEMMA CleanupFrame ==
    ASSUME CleanupNext \/ (\E k \in GateKinds : GateGoesStale(k)) \/ UNCHANGED vars
    PROVE  UNCHANGED <<iss, req, integ, sent, conn, role, grant, provider, scenario>>
<1> DEFINE Framed == UNCHANGED <<iss, req, integ, sent, conn, role, grant, provider, scenario>>
<1>1. ASSUME NEW p \in Workers, NEW s \in work[p].todo \cup work[p].hand,
             \/ DeferLease(p, s) \/ RevokeAtProvider(p, s)
             \/ RevocationFails(p, s) \/ MarkLeaseRevoked(p, s)
      PROVE  Framed
  BY <1>1 DEF DeferLease, RevokeAtProvider, RevocationFails, MarkLeaseRevoked
<1>2. ASSUME NEW p \in Sweepers, ClaimExpired(p) \/ SweeperDies(p)
      PROVE  Framed
  BY <1>2 DEF ClaimExpired, SweeperDies
<1>3. ASSUME NEW l \in Leases, CleanupClaimGoesStale(l) \/ LeaseExpires(l)
      PROVE  Framed
  BY <1>3 DEF CleanupClaimGoesStale, LeaseExpires
<1>4. ASSUME NEW k \in GateKinds, GateGoesStale(k)
      PROVE  Framed
  BY <1>4 DEF GateGoesStale
<1>5. ASSUME UNCHANGED vars
      PROVE  Framed
  BY <1>5 DEF vars
<1> QED
  BY <1>1, <1>2, <1>3, <1>4, <1>5 DEF CleanupNext

\* The generation stays below the number of requests that may move it.
LEMMA NextGeneration ==
    ASSUME TypeInv, GenerationInv, [Next]_vars
    PROVE  GenerationInv'
<1> DEFINE F == Finished
           R == Renewed
           Fp == Finished'
           Rp == Renewed'
<1>1. /\ F \subseteq Requests /\ Fp \subseteq Requests /\ R \subseteq Leases /\ Rp \subseteq Leases
  BY DEF Finished, Renewed
<1>2. /\ IsFiniteSet(F) /\ IsFiniteSet(Fp) /\ IsFiniteSet(R) /\ IsFiniteSet(Rp)
  BY <1>1, FS_Subset, LeasesAssumption
<1>3. /\ Cardinality(F) \in Nat /\ Cardinality(Fp) \in Nat /\ Cardinality(R) \in Nat /\ Cardinality(Rp) \in Nat
  BY <1>2, FS_CardinalityType
<1>4. /\ F \subseteq Fp /\ R \subseteq Rp
      /\ \/ integ'.generation = integ.generation
         \/ integ'.generation = integ.generation + 1 /\ (F # Fp \/ R # Rp)
  <2>1. CASE IssuanceNext
    <3>1. UNCHANGED req
      BY <2>1 DEF IssuanceNext, AuthorizeLease, Reserve, ClaimRefresh, StartRemoteRefresh, RemoteRefresh,
         FinalizeRefresh, RequireReconnect, CreateCredential, QueueCleanup, IssueFailed, Finalize, Undo,
         Deliver, ReleaseLease, RefreshGoesStale
    <3>2. F \subseteq Fp
      BY <3>1 DEF Finished
    <3>3. R \subseteq Rp
      BY <2>1, IssuanceProgress DEF Renewed
    <3>4. ASSUME NEW m \in Leases, iss[m].pc \in Unrenewed, iss'[m].pc \notin Unrenewed PROVE R # Rp
      BY <3>4 DEF Renewed
    <3> QED
      BY <2>1, <3>2, <3>3, <3>4, IssuanceProgress
  <2>2. CASE ChangesNext \/ DisconnectNext
    <3>1. UNCHANGED iss
      BY <2>2, RequestMoves
    <3>2. R \subseteq Rp
      BY <3>1 DEF Renewed
    <3>3. F \subseteq Fp
      BY <2>2, RequestMoves DEF Finished
    <3>4. ASSUME NEW r \in Requests, req[r].pc \notin {"done", "retry"}, req'[r].pc = "done" PROVE F # Fp
      BY <3>4 DEF Finished
    <3> QED
      BY <2>2, <3>2, <3>3, <3>4, RequestGeneration
  <2>3. CASE CleanupNext \/ (\E k \in GateKinds : GateGoesStale(k)) \/ UNCHANGED vars
    <3>1. UNCHANGED <<iss, req, integ>>
      BY <2>3, CleanupFrame
    <3> QED
      BY <3>1 DEF Finished, Renewed
  <2> QED
    BY <2>1, <2>2, <2>3 DEF Next
<1>5. /\ Cardinality(F) <= Cardinality(Fp) /\ (Cardinality(F) = Cardinality(Fp) => F = Fp)
      /\ Cardinality(R) <= Cardinality(Rp) /\ (Cardinality(R) = Cardinality(Rp) => R = Rp)
  <2>1. F \in SUBSET Fp /\ R \in SUBSET Rp
    BY <1>4
  <2> QED
    BY <1>2, <2>1, FS_Subset
<1>6. integ.generation \in 1..(1 + Cardinality(F) + Cardinality(R))
  BY DEF GenerationInv
<1> HIDE DEF F, R, Fp, Rp
<1>7. integ'.generation \in 1..(1 + Cardinality(Fp) + Cardinality(Rp))
  BY <1>3, <1>4, <1>5, <1>6
<1> QED
  BY <1>7 DEF GenerationInv, Fp, Rp

LEMMA InitGeneration ==
    ASSUME Init
    PROVE  GenerationInv
<1>1. Finished \subseteq Requests /\ Renewed \subseteq Leases
  BY DEF Finished, Renewed
<1>2. IsFiniteSet(Finished) /\ IsFiniteSet(Renewed)
  BY <1>1, FS_Subset, LeasesAssumption
<1>3. Cardinality(Finished) \in Nat /\ Cardinality(Renewed) \in Nat
  BY <1>2, FS_CardinalityType
<1>4. integ.generation = 1
  BY DEF Init
<1> QED
  BY <1>3, <1>4 DEF GenerationInv

\* Each lease request and each administrator's request moves the generation at
\* most once, so it stays within the bound the state space is built on.
LEMMA GenerationBound ==
    ASSUME GenerationInv
    PROVE  integ.generation \in 1..MaxGeneration
<1>1. Finished \in SUBSET Requests /\ Renewed \in SUBSET Leases
  BY DEF Finished, Renewed
<1>2. /\ Cardinality(Finished) <= Cardinality(Requests) /\ IsFiniteSet(Finished)
      /\ Cardinality(Renewed) <= Cardinality(Leases) /\ IsFiniteSet(Renewed)
  BY <1>1, FS_Subset, LeasesAssumption
<1>3. /\ Cardinality(Finished) \in Nat /\ Cardinality(Renewed) \in Nat
      /\ Cardinality(Requests) \in Nat /\ Cardinality(Leases) \in Nat
  BY <1>2, FS_CardinalityType, LeasesAssumption
<1> QED
  BY <1>2, <1>3 DEF GenerationInv, MaxGeneration

LEMMA TypesGiveTypeOK ==
    ASSUME TypeInv, GenerationInv
    PROVE  TypeOK
<1>1. integ.generation \in 1..MaxGeneration
  BY GenerationBound
<1>2. conn.revision \in Nat /\ integ.status \in {"active", "reconnect_required", "revoked"}
  BY DEF TypeInv, Types, ConnType, IntegType, Statuses
<1>3. \A r \in Requests : req[r].change \in Changes \cup {"none"}
  BY DEF TypeInv, Types, RequestType
<1>4. \A p \in Workers : \A s \in work[p].todo \cup work[p].hand : s.lease \in Leases
  BY SnapshotsInWork DEF TypeInv
<1> QED
  BY <1>1, <1>2, <1>3, <1>4 DEF TypeOK, TypeInv, Types

\* The rows, the provider's view and the requests have their types whatever
\* requests and sweepers meet, and the integration's credential generation is
\* bounded by the requests that may replace the credential.
THEOREM TypeCorrect == Spec => []TypeOK
<1>1. Init => TypeInv /\ GenerationInv
  BY InitTypes, InitGeneration
<1>2. TypeInv /\ GenerationInv /\ [Next]_vars => (TypeInv /\ GenerationInv)'
  BY NextTypes, NextGeneration
<1>3. TypeInv /\ GenerationInv => TypeOK
  BY TypesGiveTypeOK
<1> QED
  BY <1>1, <1>2, <1>3, PTL DEF Spec

-----------------------------------------------------------------------------
(* A refresh token is spent at most once. *)

\* A step that sends no token and starts no refresh disturbs nothing, when a
\* token that was spent stays so.
LEMMA RefreshKept ==
    ASSUME TypeInv, RefreshInv, UNCHANGED sent,
           \A g \in Nat : Spent(g) => Spent(g)',
           \A l \in Leases : iss'[l].pc = "remote" =>
              iss[l].pc = "remote" /\ iss'[l].generation = iss[l].generation
    PROVE  RefreshInv'
<1>1. \A l \in Leases : iss[l].generation \in Nat
  BY DEF TypeInv, Types, IssueType
<1>2. \A g \in 1..MaxGeneration : sent'[g] <= 1 /\ (sent'[g] = 1 => Spent(g)')
  <2>1. \A g \in 1..MaxGeneration : g \in Nat
    OBVIOUS
  <2> QED
    BY <2>1 DEF RefreshInv
<1>3. ASSUME NEW l \in Leases, iss'[l].pc = "remote"
      PROVE  /\ Spent(iss[l].generation)'
             /\ iss'[l].generation \in 1..MaxGeneration => sent'[iss'[l].generation] = 0
             /\ \A m \in Leases :
                   iss'[m].pc = "remote" /\ iss'[m].generation = iss'[l].generation => m = l
  <2>1. iss[l].pc = "remote" /\ iss'[l].generation = iss[l].generation
    BY <1>3
  <2>2. Spent(iss[l].generation)
    BY <2>1 DEF RefreshInv
  <2>3. Spent(iss[l].generation)'
    BY <1>1, <2>1, <2>2 DEF Spent
  <2>4. iss'[l].generation \in 1..MaxGeneration => sent'[iss'[l].generation] = 0
    BY <2>1 DEF RefreshInv
  <2>5. \A m \in Leases :
           iss'[m].pc = "remote" /\ iss'[m].generation = iss'[l].generation => m = l
    BY <2>1 DEF RefreshInv
  <2> QED
    BY <2>3, <2>4, <2>5
<1> QED
  BY <1>2, <1>3 DEF RefreshInv, MaxGeneration

\* The generation only grows, and a refresh that has begun at the provider ends
\* only with a new generation.
LEMMA SpentStays ==
    ASSUME TypeInv,
           \/ /\ integ'.generation = integ.generation
              /\ integ.refresh \in {"remote_started", "reconnect_required"} =>
                    integ'.refresh \in {"remote_started", "reconnect_required"}
           \/ integ'.generation = integ.generation + 1
    PROVE  \A g \in Nat : Spent(g) => Spent(g)'
<1>1. integ.generation \in Nat
  BY DEF TypeInv, Types, IntegType
<1> QED
  BY <1>1 DEF Spent

LEMMA StartRemoteRefreshSpent ==
    ASSUME TypeInv, RefreshInv, NEW l \in Leases, StartRemoteRefresh(l)
    PROVE  RefreshInv'
<1>0. iss \in [Leases -> IssueType] /\ integ \in IntegType /\ UNCHANGED sent /\ sent \in [1..MaxGeneration -> Nat]
  BY DEF TypeInv, Types, StartRemoteRefresh
<1>1. CASE Goto(l, "failed") /\ integ' = integ
  <2>1. \A m \in Leases : iss'[m].pc = "remote" =>
           iss[m].pc = "remote" /\ iss'[m].generation = iss[m].generation
    BY <1>0, <1>1, GotoEffect DEF IssuePositions
  <2>2. \A g \in Nat : Spent(g) => Spent(g)'
    BY <1>1, SpentStays
  <2> QED
    BY <1>0, <2>1, <2>2, RefreshKept
<1>2. CASE /\ OwnsRefresh(l) /\ integ.refresh = "claimed" /\ Goto(l, "remote")
           /\ integ' = [integ EXCEPT !.status = "reconnect_required", !.refresh = "remote_started"]
  <2> DEFINE g == iss[l].generation
  <2>1. g = integ.generation /\ integ'.generation = g /\ integ'.refresh = "remote_started" /\ g \in Nat
    BY <1>0, <1>2 DEF OwnsRefresh, IntegType
  <2>2. /\ iss'[l].generation = g
        /\ \A m \in Leases : m # l => iss'[m] = iss[m]
    BY <1>0, <1>2, GotoEffect DEF IssuePositions
  <2>3. ~Spent(g)
    BY <1>2, <2>1 DEF Spent
  <2>4. g \in 1..MaxGeneration => sent[g] = 0
    BY <1>0, <2>3 DEF RefreshInv
  <2>5. \A m \in Leases : iss[m].pc = "remote" => iss[m].generation # g
    BY <2>3 DEF RefreshInv
  <2>6. \A h \in Nat : Spent(h) => Spent(h)'
    BY <2>1, SpentStays
  <2>7. \A h \in 1..MaxGeneration : sent'[h] <= 1 /\ (sent'[h] = 1 => Spent(h)')
    <3>1. \A h \in 1..MaxGeneration : h \in Nat
      OBVIOUS
    <3> QED
      BY <1>0, <2>6, <3>1 DEF RefreshInv
  <2>8. ASSUME NEW m \in Leases, iss'[m].pc = "remote"
        PROVE  /\ Spent(iss[m].generation)'
               /\ iss'[m].generation \in 1..MaxGeneration => sent'[iss'[m].generation] = 0
               /\ \A n \in Leases :
                     iss'[n].pc = "remote" /\ iss'[n].generation = iss'[m].generation => n = m
    <3>1. CASE m = l
      <4>1. Spent(iss[m].generation)'
        BY <2>1, <2>2, <3>1 DEF Spent
      <4>2. iss'[m].generation \in 1..MaxGeneration => sent'[iss'[m].generation] = 0
        BY <1>0, <2>2, <2>4, <3>1
      <4> QED
        BY <2>2, <2>5, <3>1, <4>1, <4>2
    <3>2. CASE m # l
      <4>1. iss'[m] = iss[m] /\ iss[m].pc = "remote" /\ iss[m].generation \in Nat
        BY <1>0, <2>2, <2>8, <3>2 DEF IssueType
      <4>2. Spent(iss[m].generation)
        BY <4>1 DEF RefreshInv
      <4>3. Spent(iss[m].generation)'
        BY <2>6, <4>1, <4>2 DEF Spent
      <4>4. iss'[m].generation \in 1..MaxGeneration => sent'[iss'[m].generation] = 0
        BY <1>0, <4>1 DEF RefreshInv
      <4>5. \A n \in Leases : iss'[n].pc = "remote" /\ iss'[n].generation = iss'[m].generation => n = m
        BY <2>2, <2>5, <4>1 DEF RefreshInv
      <4> QED
        BY <4>3, <4>4, <4>5
    <3> QED
      BY <3>1, <3>2
  <2> QED
    BY <2>7, <2>8 DEF RefreshInv, MaxGeneration
<1> QED
  BY <1>1, <1>2 DEF StartRemoteRefresh

LEMMA RemoteRefreshSpent ==
    ASSUME TypeInv, RefreshInv, NEW l \in Leases, RemoteRefresh(l)
    PROVE  RefreshInv'
<1> DEFINE g == iss[l].generation
           G == 1..MaxGeneration
<1>1. /\ iss \in [Leases -> IssueType] /\ UNCHANGED integ /\ sent \in [G -> Nat]
      /\ sent' = [sent EXCEPT ![g] = sent[g] + 1] /\ iss[l].pc = "remote"
  BY DEF TypeInv, Types, RemoteRefresh
<1>2. PICK pc \in {"refreshed", "unrefreshed"} : Goto(l, pc)
  BY DEF RemoteRefresh
<1>3. iss'[l].pc # "remote" /\ \A m \in Leases : m # l => iss'[m] = iss[m]
  BY <1>1, <1>2, GotoEffect DEF IssuePositions
<1>4. Spent(g) /\ (g \in G => sent[g] = 0)
  BY <1>1 DEF RefreshInv
<1>5. \A h : Spent(h)' <=> Spent(h)
  BY <1>1 DEF Spent
<1>6. \A h \in G : h # g => sent'[h] = sent[h]
  <2> HIDE DEF g, G
  <2> QED
    BY <1>1
<1>7. g \in G => sent'[g] = 1
  <2> HIDE DEF g, G
  <2> QED
    BY <1>1, <1>4
<1>8. \A h \in G : sent'[h] <= 1 /\ (sent'[h] = 1 => Spent(h)')
  BY <1>4, <1>5, <1>6, <1>7 DEF RefreshInv
<1>9. ASSUME NEW m \in Leases, iss'[m].pc = "remote"
      PROVE  /\ Spent(iss[m].generation)'
             /\ iss'[m].generation \in G => sent'[iss'[m].generation] = 0
             /\ \A n \in Leases :
                   iss'[n].pc = "remote" /\ iss'[n].generation = iss'[m].generation => n = m
  <2>1. m # l /\ iss'[m] = iss[m] /\ iss[m].pc = "remote"
    BY <1>3, <1>9
  <2>2. iss[m].generation # g
    BY <1>1, <2>1 DEF RefreshInv
  <2>3. Spent(iss[m].generation)'
    BY <1>1, <2>1 DEF RefreshInv, Spent
  <2>4. iss'[m].generation \in G => sent'[iss'[m].generation] = 0
    BY <1>6, <2>1, <2>2 DEF RefreshInv
  <2>5. \A n \in Leases : iss'[n].pc = "remote" /\ iss'[n].generation = iss'[m].generation => n = m
    BY <1>3, <2>1 DEF RefreshInv
  <2> QED
    BY <2>3, <2>4, <2>5
<1> QED
  BY <1>8, <1>9 DEF RefreshInv, MaxGeneration

LEMMA IssuanceSpent ==
    ASSUME TypeInv, RefreshInv, NEW l \in Leases,
           \/ AuthorizeLease(l) \/ Reserve(l) \/ ClaimRefresh(l) \/ FinalizeRefresh(l) \/ RequireReconnect(l)
           \/ CreateCredential(l) \/ QueueCleanup(l) \/ IssueFailed(l)
           \/ Finalize(l) \/ Undo(l) \/ Deliver(l) \/ ReleaseLease(l)
    PROVE  RefreshInv'
<1>1. iss \in [Leases -> IssueType] /\ integ \in IntegType
  BY DEF TypeInv, Types
<1>2. UNCHANGED sent
  BY DEF AuthorizeLease, Reserve, ClaimRefresh, FinalizeRefresh, RequireReconnect, CreateCredential,
     QueueCleanup, IssueFailed, Finalize, Undo, Deliver, ReleaseLease
<1>3. \/ integ'.generation = integ.generation
         /\ (integ.refresh \in {"remote_started", "reconnect_required"} =>
                integ'.refresh \in {"remote_started", "reconnect_required"})
      \/ integ'.generation = integ.generation + 1
  BY <1>1 DEF AuthorizeLease, Reserve, ClaimRefresh, FinalizeRefresh, RequireReconnect, CreateCredential,
     QueueCleanup, IssueFailed, Finalize, Undo, Deliver, ReleaseLease, IntegType
<1>4. \A m \in Leases : m # l => iss'[m] = iss[m]
  BY <1>1 DEF AuthorizeLease, Reserve, ClaimRefresh, FinalizeRefresh, RequireReconnect, CreateCredential,
     QueueCleanup, IssueFailed, Finalize, Undo, Deliver, ReleaseLease, Goto, Answered
<1>5. iss'[l].pc # "remote"
  <2>1. CASE AuthorizeLease(l)
    <3>1. PICK mode :
             iss' = [iss EXCEPT ![l] = [pc |-> "authorized", mode |-> mode, role |-> role,
                                        revision |-> conn.revision, generation |-> integ.generation,
                                        secret |-> FALSE]]
      BY <2>1 DEF AuthorizeLease
    <3> QED
      BY <1>1, <3>1
  <2>2. CASE \E pc \in IssuePositions \ {"remote"} : Goto(l, pc)
    BY <1>1, <2>2, GotoEffect
  <2>3. CASE Answered(l)
    BY <1>1, <2>3, AnsweredEffect
  <2>4. CASE iss' = [iss EXCEPT ![l].pc = "delivered", ![l].secret = TRUE]
    BY <1>1, <2>4 DEF IssueType
  <2>5. CASE iss' = [iss EXCEPT ![l].pc = "reserved", ![l].generation = @ + 1]
    BY <1>1, <2>5 DEF IssueType
  <2> QED
    BY <2>1, <2>2, <2>3, <2>4, <2>5 DEF AuthorizeLease, Reserve, ClaimRefresh, FinalizeRefresh,
       RequireReconnect, CreateCredential, QueueCleanup, IssueFailed, Finalize, Undo, Deliver, ReleaseLease,
       IssuePositions
<1> QED
  BY <1>2, <1>3, <1>4, <1>5, SpentStays, RefreshKept

\* Disconnecting and reconnecting send no refresh token, and end a refresh only
\* with a new generation.
LEMMA DisconnectRefresh ==
    ASSUME TypeInv, DisconnectNext
    PROVE  /\ UNCHANGED <<sent, iss>>
           /\ \/ integ'.generation = integ.generation /\ integ'.refresh = integ.refresh
              \/ integ'.generation = integ.generation + 1
<1>0. integ \in IntegType
  BY DEF TypeInv, Types
<1>1. PICK r \in Requests :
         \/ ClaimDisconnect(r) \/ ResumeDisconnect(r) \/ DisconnectLeases(r) \/ DisconnectDeferred(r)
         \/ DisconnectDrained(r) \/ StartProviderRevoke(r) \/ RevokeAuthorization(r)
         \/ ResumeStarted(r) \/ MarkAmbiguous(r) \/ MarkProviderRevoked(r) \/ FinalizeDisconnect(r)
         \/ LookReconnect(r) \/ ClaimReconnect(r) \/ ReconnectRevoked(r)
         \/ PersistIntegration(r) \/ PersistRefused(r)
  BY DEF DisconnectNext
<1>2. UNCHANGED <<sent, iss>>
  BY <1>1 DEF ClaimDisconnect, ResumeDisconnect, DisconnectLeases, DisconnectDeferred,
     DisconnectDrained, StartProviderRevoke, RevokeAuthorization, ResumeStarted, MarkAmbiguous,
     MarkProviderRevoked, FinalizeDisconnect, LookReconnect, ClaimReconnect, ReconnectRevoked,
     PersistIntegration, PersistRefused
<1>3. \/ integ'.generation = integ.generation /\ integ'.refresh = integ.refresh
      \/ integ'.generation = integ.generation + 1
  BY <1>0, <1>1 DEF ClaimDisconnect, ResumeDisconnect, DisconnectLeases, DisconnectDeferred,
     DisconnectDrained, StartProviderRevoke, RevokeAuthorization, ResumeStarted, MarkAmbiguous,
     MarkProviderRevoked, FinalizeDisconnect, LookReconnect, ClaimReconnect, ReconnectRevoked,
     PersistIntegration, PersistRefused, IntegType
<1> QED
  BY <1>2, <1>3

LEMMA NextRefresh ==
    ASSUME TypeInv, RefreshInv, [Next]_vars
    PROVE  RefreshInv'
<1>1. ASSUME UNCHANGED <<sent, iss>>,
             \/ integ'.generation = integ.generation /\ integ'.refresh = integ.refresh
             \/ integ'.generation = integ.generation + 1
      PROVE  RefreshInv'
  BY <1>1, SpentStays, RefreshKept
<1>2. CASE RefreshGoesStale
  <2>1. /\ UNCHANGED <<sent, iss>>
        /\ integ'.generation = integ.generation /\ integ'.refresh = integ.refresh
    BY <1>2 DEF RefreshGoesStale, TypeInv, Types, IntegType
  <2> QED
    BY <1>1, <2>1
<1>3. CASE IssuanceNext
  BY <1>2, <1>3, StartRemoteRefreshSpent, RemoteRefreshSpent, IssuanceSpent DEF IssuanceNext
<1>4. CASE ChangesNext
  BY <1>1, <1>4, ChangesFrame
<1>5. CASE DisconnectNext
  BY <1>1, <1>5, DisconnectRefresh
<1>6. CASE CleanupNext \/ (\E k \in GateKinds : GateGoesStale(k)) \/ UNCHANGED vars
  BY <1>1, <1>6, CleanupFrame
<1> QED
  BY <1>3, <1>4, <1>5, <1>6 DEF Next

LEMMA InitRefresh ==
    ASSUME Init
    PROVE  RefreshInv
<1>1. \A l \in Leases : iss[l].pc = "idle"
  BY DEF Init, NoIssue
<1>2. \A g \in 1..MaxGeneration : sent[g] = 0
  BY DEF Init
<1> QED
  BY <1>1, <1>2 DEF RefreshInv

\* PlanetScale's refresh token of one generation is spent at most once, however
\* many lease requests find the access token stale, whichever of their claims
\* goes stale and whoever disconnects or reconnects meanwhile: the durable mark
\* written before the call outlives every one of them.
THEOREM TokenSpentOnce == Spec => []RefreshTokenSpentOnce
<1>1. Init => TypeInv /\ RefreshInv
  BY InitTypes, InitRefresh
<1>2. TypeInv /\ RefreshInv /\ [Next]_vars => (TypeInv /\ RefreshInv)'
  BY NextTypes, NextRefresh
<1>3. RefreshInv => RefreshTokenSpentOnce
  BY DEF RefreshInv, RefreshTokenSpentOnce
<1> QED
  BY <1>1, <1>2, <1>3, PTL DEF Spec

=============================================================================
