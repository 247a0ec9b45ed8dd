----------------------- MODULE BranchOperationsProofs -----------------------
(***************************************************************************)
(* Theorems about BranchOperations for any number of managers, requests    *)
(* and scenarios: the rows and the requests have their types.              *)
(***************************************************************************)
EXTENDS BranchOperations, TLAPS

OpRecords == [state : OperationStates, requester : Somebody, approver : Somebody,
              expired : BOOLEAN, overdue : BOOLEAN, revision : Nat, leased : BOOLEAN,
              recorded : BOOLEAN, operation : BOOLEAN, access : AccessStates, fence : BOOLEAN]
ConnRecords == [exists : BOOLEAN, branch : Branches, revision : Nat,
                pending : BOOLEAN, claim : Requests \cup {NoOne}, stale : BOOLEAN]
Observations == [status : Statuses, branch : BOOLEAN, operation : BOOLEAN, access : AccessStates,
                 databases : BOOLEAN, fence : BOOLEAN]
ReqRecords == [pc : Positions, kind : Kinds, member : Somebody, tries : 0..2, late : BOOLEAN,
               obs : Observations]
Answers == {"none", "sent", "accepted", "errored", "locked", "refused"}

\* The answers a request takes for a failure: the provider denied the call, or
\* answered a deletion with an error although it took effect.
Denied(k) == wire[k] \in {"locked", "refused"} \/ (k = "delete" /\ wire[k] = "errored")

\* TypeOK with its sets of records named, so that a proof can leave them closed.
Types ==
    /\ scenario \in Scenarios
    /\ op \in [Kinds -> OpRecords]
    /\ live \in [Members -> BOOLEAN] /\ current \in BOOLEAN /\ receipt \in BOOLEAN
    /\ conn \in [Connections -> ConnRecords]
    /\ lease \in [Connections -> Branches]
    /\ side \in SideStates /\ inherited \in BOOLEAN
    /\ wire \in [Kinds -> Answers]
    /\ landed \in [Kinds -> Nat]
    /\ req \in [Requests -> ReqRecords]
    /\ faults \in 0..scenario.faults

\* The second half of a switch.
SwitchSteps == {"gate", "drain", "target", "commit", "release", "clear", "unclaim"}

\* What a request carries at each step: it calls the provider at most twice,
\* only for a create or a delete, an awaited call has been sent, and no
\* observation reports managed access as bootstrapped.
RequestOK(r) ==
    /\ req[r].pc \in {"cancel", "claim", "mark"} => req[r].tries = 0
    /\ req[r].pc = "send" => req[r].tries \in {0, 1} /\ req[r].kind # "switch"
    /\ req[r].pc = "await" => wire[req[r].kind] # "none" /\ req[r].kind # "switch"
    /\ req[r].pc \in SwitchSteps => req[r].kind = "switch"
    /\ req[r].obs.access # "ready"

RequestInv == \A r \in Requests : RequestOK(r)

TypeInv == Types /\ RequestInv

\* The named sets are the ones TypeOK spells out.
LEMMA TypesAreTypeOK == Types <=> TypeOK
BY DEF Types, TypeOK, OpRecords, ConnRecords, ReqRecords, Observations, Answers

-----------------------------------------------------------------------------
(* What the statements do to a row. *)

\* A statement that moves the state of one operation changes nothing else.
LEMMA MoveEffect ==
    ASSUME op \in [Kinds -> OpRecords], NEW k \in Kinds, NEW s \in OperationStates,
           op' = [op EXCEPT ![k].state = s]
    PROVE  /\ op' \in [Kinds -> OpRecords]
           /\ op'[k].state = s
           /\ op'[k].access = op[k].access
           /\ op'[k].fence = op[k].fence
           /\ op'[k].recorded = op[k].recorded
           /\ op'[k].revision = op[k].revision
           /\ \A j \in Kinds : j # k => op'[j] = op[j]
<1>1. op[k] \in OpRecords
  OBVIOUS
<1>2. op'[k] = [op[k] EXCEPT !.state = s]
  OBVIOUS
<1>3. op'[k] \in OpRecords
  BY <1>1, <1>2 DEF OpRecords
<1>4. \A j \in Kinds : j # k => op'[j] = op[j]
  OBVIOUS
<1>5. op' \in [Kinds -> OpRecords]
  BY <1>3, <1>4
<1>6. /\ op'[k].state = s
      /\ op'[k].access = op[k].access
      /\ op'[k].fence = op[k].fence
      /\ op'[k].recorded = op[k].recorded
      /\ op'[k].revision = op[k].revision
  BY <1>1, <1>2 DEF OpRecords
<1> QED
  BY <1>4, <1>5, <1>6

\* The initial observation and the ones the requests build are observations.
LEMMA SeesType ==
    ASSUME NEW status \in Statuses, NEW branch \in BOOLEAN, NEW access \in AccessStates
    PROVE  /\ Sees(status, branch, access) \in Observations
           /\ Sees(status, branch, access).status = status
           /\ Sees(status, branch, access).branch = branch
           /\ Sees(status, branch, access).access = access
BY DEF Sees, Observations

LEMMA SeesOperationType ==
    ASSUME NEW access \in AccessStates
    PROVE  /\ SeesOperation(access) \in Observations
           /\ SeesOperation(access).status = "pending"
           /\ SeesOperation(access).branch
           /\ SeesOperation(access).access = access
BY DEF SeesOperation, Sees, Observations, Statuses

LEMMA NoRequestType ==
    /\ NoRequest \in ReqRecords
    /\ NoRequest.pc = "idle"
    /\ NoRequest.obs = NoObservation
    /\ NoObservation.access = "unavailable"
BY DEF NoRequest, NoObservation, ReqRecords, Observations, Positions, Kinds, Somebody, Statuses,
       AccessStates

\* A request that answers is idle again.
LEMMA AnswerEffect ==
    ASSUME TypeInv, NEW r \in Requests, Answer(r)
    PROVE  /\ req' \in [Requests -> ReqRecords]
           /\ req'[r] = NoRequest
           /\ req'[r].pc = "idle"
           /\ req'[r].obs.access = "unavailable"
           /\ \A q \in Requests : q # r => req'[q] = req[q]
BY NoRequestType DEF TypeInv, Types, Answer

\* A request that goes on changes its step and nothing else.
LEMMA GoesEffect ==
    ASSUME TypeInv, NEW r \in Requests, NEW pc \in Positions, Goes(r, pc)
    PROVE  /\ req' \in [Requests -> ReqRecords]
           /\ req'[r].pc = pc
           /\ req'[r].kind = req[r].kind
           /\ req'[r].tries = req[r].tries
           /\ req'[r].obs = req[r].obs
           /\ \A q \in Requests : q # r => req'[q] = req[q]
<1>1. req[r] \in ReqRecords
  BY DEF TypeInv, Types
<1>2. req'[r] = [req[r] EXCEPT !.pc = pc]
  BY DEF TypeInv, Types, Goes
<1>3. req'[r] \in ReqRecords
  BY <1>1, <1>2 DEF ReqRecords
<1>4. \A q \in Requests : q # r => req'[q] = req[q]
  BY DEF TypeInv, Types, Goes
<1>5. req' \in [Requests -> ReqRecords]
  BY <1>3 DEF TypeInv, Types, Goes
<1>6. /\ req'[r].pc = pc
      /\ req'[r].kind = req[r].kind
      /\ req'[r].tries = req[r].tries
      /\ req'[r].obs = req[r].obs
  BY <1>1, <1>2 DEF ReqRecords
<1> QED
  BY <1>4, <1>5, <1>6

\* A request that observes takes the observation along.
LEMMA ObservesEffect ==
    ASSUME TypeInv, NEW r \in Requests, NEW pc \in Positions, NEW o \in Observations,
           Observes(r, o, pc)
    PROVE  /\ req' \in [Requests -> ReqRecords]
           /\ req'[r].pc = pc
           /\ req'[r].kind = req[r].kind
           /\ req'[r].tries = req[r].tries
           /\ req'[r].obs = o
           /\ \A q \in Requests : q # r => req'[q] = req[q]
<1>1. req[r] \in ReqRecords
  BY DEF TypeInv, Types
<1>2. req'[r] = [req[r] EXCEPT !.obs = o, !.pc = pc]
  BY DEF TypeInv, Types, Observes
<1>3. req'[r] \in ReqRecords
  BY <1>1, <1>2 DEF ReqRecords
<1>4. \A q \in Requests : q # r => req'[q] = req[q]
  BY DEF TypeInv, Types, Observes
<1>5. req' \in [Requests -> ReqRecords]
  BY <1>3 DEF TypeInv, Types, Observes
<1>6. /\ req'[r].pc = pc
      /\ req'[r].kind = req[r].kind
      /\ req'[r].tries = req[r].tries
      /\ req'[r].obs = o
  BY <1>1, <1>2 DEF ReqRecords
<1> QED
  BY <1>4, <1>5, <1>6

\* What a plan, a decision, a deadline or a bootstrap writes leaves rows, and
\* touches the row of its own operation only.
LEMMA PlanEffect ==
    ASSUME TypeInv, NEW m \in Members, NEW k \in Kinds, Plan(m, k)
    PROVE  /\ op' \in [Kinds -> OpRecords]
           /\ k \in scenario.kinds /\ PlanHolds(k)
           /\ op[k].state = "none"
           /\ op'[k].state = "awaiting_approval"
           /\ op'[k].access = "unavailable"
           /\ op'[k].fence = FALSE
           /\ \A j \in Kinds : j # k => op'[j] = op[j]
<1> DEFINE row == [NoOperation EXCEPT !.state = "awaiting_approval", !.requester = m,
                                      !.revision = conn["moving"].revision,
                                      !.leased = Leased("moving")]
<1>1. conn["moving"].revision \in Nat
  BY DEF TypeInv, Types, ConnRecords, Connections
<1>2. Leased("moving") \in BOOLEAN
  BY DEF Leased
<1>3. /\ row \in OpRecords
      /\ row.state = "awaiting_approval" /\ row.access = "unavailable" /\ row.fence = FALSE
  BY <1>1, <1>2 DEF NoOperation, OpRecords, OperationStates, Somebody, AccessStates, NoOne
<1>4. op' = [op EXCEPT ![k] = row]
  BY DEF Plan
<1> HIDE DEF row
<1>5. op'[k] = row /\ \A j \in Kinds : j # k => op'[j] = op[j]
  BY <1>4 DEF TypeInv, Types
<1>6. op' \in [Kinds -> OpRecords]
  BY <1>3, <1>4 DEF TypeInv, Types
<1> QED
  BY <1>3, <1>5, <1>6 DEF Plan

LEMMA DeadlineEffect ==
    ASSUME TypeInv, NEW k \in Kinds, PlanExpires(k) \/ StartIsOverdue(k)
    PROVE  /\ op' \in [Kinds -> OpRecords]
           /\ op'[k].state = op[k].state
           /\ op'[k].access = op[k].access
           /\ op'[k].fence = op[k].fence
           /\ \A j \in Kinds : j # k => op'[j] = op[j]
<1>1. op[k] \in OpRecords
  BY DEF TypeInv, Types
<1>2. op'[k] = [op[k] EXCEPT !.expired = TRUE] \/ op'[k] = [op[k] EXCEPT !.overdue = TRUE]
  BY DEF TypeInv, Types, PlanExpires, StartIsOverdue
<1>3. /\ op'[k] \in OpRecords
      /\ op'[k].state = op[k].state
      /\ op'[k].access = op[k].access
      /\ op'[k].fence = op[k].fence
  BY <1>1, <1>2 DEF OpRecords
<1>4. \A j \in Kinds : j # k => op'[j] = op[j]
  BY DEF TypeInv, Types, PlanExpires, StartIsOverdue
<1>5. op' \in [Kinds -> OpRecords]
  BY <1>3 DEF TypeInv, Types, PlanExpires, StartIsOverdue
<1> QED
  BY <1>3, <1>4, <1>5

LEMMA ApproveEffect ==
    ASSUME TypeInv, NEW m \in Members, NEW k \in Kinds, Approve(m, k)
    PROVE  /\ op' \in [Kinds -> OpRecords]
           /\ op[k].state = "awaiting_approval"
           /\ op'[k].state = "approved"
           /\ op'[k].access = op[k].access
           /\ op'[k].fence = op[k].fence
           /\ \A j \in Kinds : j # k => op'[j] = op[j]
<1>1. op[k] \in OpRecords
  BY DEF TypeInv, Types
<1>2. op'[k] = [op[k] EXCEPT !.state = "approved", !.approver = m]
  BY DEF TypeInv, Types, Approve
<1>3. /\ op'[k] \in OpRecords
      /\ op'[k].state = "approved"
      /\ op'[k].access = op[k].access
      /\ op'[k].fence = op[k].fence
  BY <1>1, <1>2 DEF OpRecords, OperationStates, Somebody
<1>4. \A j \in Kinds : j # k => op'[j] = op[j]
  BY DEF TypeInv, Types, Approve
<1>5. op' \in [Kinds -> OpRecords]
  BY <1>3 DEF TypeInv, Types, Approve
<1> QED
  BY <1>3, <1>4, <1>5 DEF Approve

LEMMA RejectEffect ==
    ASSUME TypeInv, NEW m \in Members, NEW k \in Kinds, Reject(m, k)
    PROVE  /\ op' \in [Kinds -> OpRecords]
           /\ op[k].state = "awaiting_approval"
           /\ op'[k].state = "cancelled"
           /\ op'[k].access = op[k].access
           /\ op'[k].fence = op[k].fence
           /\ \A j \in Kinds : j # k => op'[j] = op[j]
<1>1. "cancelled" \in OperationStates
  BY DEF OperationStates, Terminal
<1> QED
  BY <1>1, MoveEffect DEF TypeInv, Types, Reject

LEMMA BootstrapEffect ==
    ASSUME TypeInv, NEW m \in Members, Bootstrap(m)
    PROVE  /\ op' \in [Kinds -> OpRecords]
           /\ op'["create"].state = op["create"].state
           /\ op["create"].access = "bootstrap_required"
           /\ op["create"].fence
           /\ op'["create"].access = "ready"
           /\ op'["create"].fence = op["create"].fence
           /\ \A j \in Kinds : j # "create" => op'[j] = op[j]
<1>1. op["create"] \in OpRecords
  BY DEF TypeInv, Types, Kinds
<1>2. op'["create"] = [op["create"] EXCEPT !.access = "ready"]
  BY DEF TypeInv, Types, Bootstrap, Kinds
<1>3. /\ op'["create"] \in OpRecords
      /\ op'["create"].state = op["create"].state
      /\ op'["create"].access = "ready"
      /\ op'["create"].fence = op["create"].fence
  BY <1>1, <1>2 DEF OpRecords, AccessStates
<1>4. \A j \in Kinds : j # "create" => op'[j] = op[j]
  BY DEF TypeInv, Types, Bootstrap
<1>5. op' \in [Kinds -> OpRecords]
  BY <1>3 DEF TypeInv, Types, Bootstrap
<1> QED
  BY <1>3, <1>4, <1>5 DEF Bootstrap

\* A valid observation moves a started operation on, or a finished create that
\* was never fenced to its fence.
LEMMA ReconcileEffect ==
    ASSUME TypeInv, NEW k \in Kinds, NEW o \in Observations, op' = Reconciled(k, o)
    PROVE  /\ op' \in [Kinds -> OpRecords]
           /\ op'[k].state = TargetState(k, o)
           /\ op'[k].access = o.access
           /\ op'[k].fence = o.fence
           /\ \A j \in Kinds : j # k => op'[j] = op[j]
<1>1. op[k] \in OpRecords
  BY DEF TypeInv, Types
<1>2. TargetState(k, o) \in OperationStates
  BY DEF TargetState, OperationStates, Started, Terminal
<1>3. /\ op[k].recorded \in BOOLEAN /\ o.branch \in BOOLEAN /\ o.access \in AccessStates
      /\ op[k].operation \in BOOLEAN /\ o.operation \in BOOLEAN /\ o.fence \in BOOLEAN
  BY <1>1 DEF OpRecords, Observations
<1> DEFINE t == TargetState(k, o)
           rec == op[k].recorded \/ o.branch
           named == op[k].operation \/ o.operation
<1>4. op'[k] = [op[k] EXCEPT !.state = t, !.access = o.access, !.fence = o.fence, !.recorded = rec,
                             !.operation = named]
  BY DEF TypeInv, Types, Reconciled
<1>5. t \in OperationStates /\ rec \in BOOLEAN /\ named \in BOOLEAN
  BY <1>2, <1>3
<1> HIDE DEF t, rec, named
<1>6. /\ op'[k] \in OpRecords
      /\ op'[k].state = t
      /\ op'[k].access = o.access
      /\ op'[k].fence = o.fence
  BY <1>1, <1>3, <1>4, <1>5 DEF OpRecords
<1>7. \A j \in Kinds : j # k => op'[j] = op[j]
  BY DEF TypeInv, Types, Reconciled
<1>8. op' \in [Kinds -> OpRecords]
  BY <1>6 DEF TypeInv, Types, Reconciled
<1> QED
  BY <1>6, <1>7, <1>8 DEF t

-----------------------------------------------------------------------------
(* What the steps do to the connections. *)

\* The connections exist and point where they did.
SameConnections ==
    \A c \in Connections : conn'[c].exists = conn[c].exists /\ conn'[c].branch = conn[c].branch

\* An edit, a claim that ages and a gate given back leave both connections where
\* they point; an import and a switch do not.
LEMMA EditEffect ==
    ASSUME TypeInv, NEW c \in Connections, EditConnection(c)
    PROVE  conn' \in [Connections -> ConnRecords] /\ SameConnections
<1>1. conn[c] \in ConnRecords
  BY DEF TypeInv, Types
<1>2. conn'[c] = [conn[c] EXCEPT !.revision = conn[c].revision + 1]
  BY DEF TypeInv, Types, EditConnection
<1>3. /\ conn'[c] \in ConnRecords
      /\ conn'[c].exists = conn[c].exists /\ conn'[c].branch = conn[c].branch
  BY <1>1, <1>2 DEF ConnRecords
<1>4. conn' \in [Connections -> ConnRecords]
  BY <1>3 DEF TypeInv, Types, EditConnection
<1>5. SameConnections
  BY <1>3 DEF TypeInv, Types, SameConnections, EditConnection
<1> QED
  BY <1>4, <1>5

LEMMA StaleEffect ==
    ASSUME TypeInv, GateGoesStale
    PROVE  conn' \in [Connections -> ConnRecords] /\ SameConnections
<1>1. conn["moving"] \in ConnRecords
  BY DEF TypeInv, Types, Connections
<1>2. conn'["moving"] = [conn["moving"] EXCEPT !.stale = TRUE]
  BY DEF TypeInv, Types, GateGoesStale, Connections
<1>3. /\ conn'["moving"] \in ConnRecords
      /\ conn'["moving"].exists = conn["moving"].exists
      /\ conn'["moving"].branch = conn["moving"].branch
  BY <1>1, <1>2 DEF ConnRecords
<1>4. conn' \in [Connections -> ConnRecords]
  BY <1>3 DEF TypeInv, Types, GateGoesStale
<1>5. SameConnections
  BY <1>3 DEF TypeInv, Types, SameConnections, GateGoesStale
<1> QED
  BY <1>4, <1>5

LEMMA ImportEffect ==
    ASSUME TypeInv, NEW m \in Members, Import(m)
    PROVE  /\ conn' \in [Connections -> ConnRecords]
           /\ conn'["imported"].exists /\ conn'["imported"].branch = "side"
           /\ conn'["moving"] = conn["moving"]
<1>1. conn["imported"] \in ConnRecords
  BY DEF TypeInv, Types, Connections
<1>2. conn'["imported"] = [conn["imported"] EXCEPT !.exists = TRUE, !.branch = "side"]
  BY DEF TypeInv, Types, Import, Connections
<1>3. /\ conn'["imported"] \in ConnRecords
      /\ conn'["imported"].exists /\ conn'["imported"].branch = "side"
  BY <1>1, <1>2 DEF ConnRecords, Branches
<1>4. conn' \in [Connections -> ConnRecords]
  BY <1>3 DEF TypeInv, Types, Import
<1>5. conn'["moving"] = conn["moving"]
  BY DEF TypeInv, Types, Import, Connections
<1> QED
  BY <1>3, <1>4, <1>5

\* Giving a gate back, or finding that another request owns it.
LEMMA GateWithoutEffect ==
    ASSUME TypeInv, NEW r \in Requests, NEW pending \in BOOLEAN, conn' = GateWithout(r, pending)
    PROVE  conn' \in [Connections -> ConnRecords] /\ SameConnections
<1>1. CASE conn' = conn
  BY <1>1 DEF TypeInv, Types, SameConnections
<1>2. CASE conn' = [conn EXCEPT !["moving"] = [@ EXCEPT !.pending = pending, !.claim = NoOne,
                                                        !.stale = FALSE]]
  <2>1. conn["moving"] \in ConnRecords
    BY DEF TypeInv, Types, Connections
  <2>2. conn'["moving"] = [conn["moving"] EXCEPT !.pending = pending, !.claim = NoOne,
                                                 !.stale = FALSE]
    BY <1>2 DEF TypeInv, Types, Connections
  <2>3. /\ conn'["moving"] \in ConnRecords
        /\ conn'["moving"].exists = conn["moving"].exists
        /\ conn'["moving"].branch = conn["moving"].branch
    BY <2>1, <2>2 DEF ConnRecords
  <2>4. conn' \in [Connections -> ConnRecords]
    BY <1>2, <2>3 DEF TypeInv, Types
  <2>5. SameConnections
    BY <1>2, <2>3 DEF TypeInv, Types, SameConnections
  <2> QED
    BY <2>4, <2>5
<1> QED
  BY <1>1, <1>2 DEF GateWithout

-----------------------------------------------------------------------------
(* Every step keeps the types. *)

LEMMA InitType == ASSUME Init PROVE TypeInv
<1>1. scenario \in Scenarios /\ faults \in 0..scenario.faults
  BY ScenariosAssumption DEF Init
<1>2. op \in [Kinds -> OpRecords]
  <2>1. NoOperation \in OpRecords /\ EarlierCreate \in OpRecords
    BY DEF NoOperation, EarlierCreate, OpRecords, OperationStates, Terminal, Somebody, AccessStates
  <2> QED
    BY <2>1 DEF Init
<1>3. conn \in [Connections -> ConnRecords]
  <2>1. NewConnection \in ConnRecords
    BY DEF NewConnection, ConnRecords, Branches
  <2>2. [NewConnection EXCEPT !.exists = TRUE, !.branch = "main"] \in ConnRecords
    BY DEF NewConnection, ConnRecords, Branches
  <2> QED
    BY <2>1, <2>2 DEF Init
<1>4. req \in [Requests -> ReqRecords] /\ \A r \in Requests : req[r] = NoRequest
  BY NoRequestType DEF Init
<1>5. live \in [Members -> BOOLEAN]
  <2>1. \A m \in Members : (m \in scenario.team) \in BOOLEAN
    OBVIOUS
  <2>2. live = [m \in Members |-> m \in scenario.team]
    BY DEF Init
  <2> QED
    BY <2>1, <2>2
<1>9. /\ current \in BOOLEAN /\ receipt \in BOOLEAN
      /\ lease \in [Connections -> Branches]
      /\ landed \in [Kinds -> Nat]
  BY DEF Init, Branches
<1>8. inherited \in BOOLEAN
  <2>1. inherited \in IF "legacy" \in scenario.with THEN BOOLEAN ELSE {FALSE}
    BY DEF Init
  <2> QED
    BY <2>1
<1>6. side \in SideStates /\ wire \in [Kinds -> Answers]
  BY DEF Init, SideStates, Answers
<1>7. RequestInv
  BY <1>4, NoRequestType DEF RequestInv, RequestOK, SwitchSteps
<1> QED
  BY <1>1, <1>2, <1>3, <1>4, <1>5, <1>6, <1>7, <1>8, <1>9 DEF TypeInv, Types

\* The requests keep what they carry when they and the provider's answers stay.
LEMMA RequestsStay ==
    ASSUME TypeInv, UNCHANGED <<req, wire>>
    PROVE  RequestInv'
BY DEF TypeInv, RequestInv, RequestOK

\* A request that acts alone leaves the others as they were.
LEMMA OneRequestMoves ==
    ASSUME TypeInv, NEW r \in Requests, wire' = wire, RequestOK(r)',
           \A q \in Requests : q # r => req'[q] = req[q]
    PROVE  RequestInv'
BY DEF TypeInv, RequestInv, RequestOK

\* An answered request carries nothing.
LEMMA AnswerType ==
    ASSUME TypeInv, NEW r \in Requests, Answer(r), wire' = wire
    PROVE  req' \in [Requests -> ReqRecords] /\ RequestInv'
<1>1. RequestOK(r)'
  BY AnswerEffect DEF RequestOK, SwitchSteps
<1> QED
  BY <1>1, AnswerEffect, OneRequestMoves

LEMMA PlanningType ==
    ASSUME TypeInv, NEW m \in Members, NEW k \in Kinds,
           \/ Plan(m, k) \/ Approve(m, k) \/ Reject(m, k)
           \/ PlanExpires(k) \/ StartIsOverdue(k)
    PROVE  TypeInv'
<1>1. op' \in [Kinds -> OpRecords]
  BY PlanEffect, ApproveEffect, RejectEffect, DeadlineEffect
<1>2. UNCHANGED <<scenario, live, current, conn, lease, receipt, side, inherited, wire, landed, req,
                  faults>>
  BY DEF Plan, Approve, Reject, PlanExpires, StartIsOverdue, rows, external
<1>3. RequestInv'
  BY <1>2, RequestsStay
<1> QED
  BY <1>1, <1>2, <1>3 DEF TypeInv, Types

LEMMA BootstrapType ==
    ASSUME TypeInv, NEW m \in Members, Bootstrap(m)
    PROVE  TypeInv'
<1>1. UNCHANGED <<scenario, live, current, conn, lease, receipt, side, inherited, wire, landed, req,
                  faults>>
  BY DEF Bootstrap, rows, external
<1> QED
  BY <1>1, BootstrapEffect, RequestsStay DEF TypeInv, Types

LEMMA WorkspaceType ==
    ASSUME TypeInv, NEW m \in Members, NEW c \in Connections,
           \/ LosesAuthority(m) \/ IntegrationChanges \/ Discover \/ Import(m)
           \/ EditConnection(c) \/ IssueLease(c) \/ LeaseEnds(c) \/ GateGoesStale
    PROVE  TypeInv'
<1>1. UNCHANGED <<scenario, op, side, inherited, wire, landed, req, faults>>
  BY DEF LosesAuthority, IntegrationChanges, Discover, Import, EditConnection, IssueLease,
         LeaseEnds, GateGoesStale, rows, external
<1>2. RequestInv'
  BY <1>1, RequestsStay
<1>3. live' \in [Members -> BOOLEAN] /\ current' \in BOOLEAN /\ receipt' \in BOOLEAN
  BY DEF LosesAuthority, IntegrationChanges, Discover, Import, EditConnection, IssueLease,
         LeaseEnds, GateGoesStale, rows, TypeInv, Types
<1>4. conn' \in [Connections -> ConnRecords]
  <2>1. CASE LosesAuthority(m) \/ IntegrationChanges \/ Discover \/ IssueLease(c) \/ LeaseEnds(c)
    BY <2>1 DEF LosesAuthority, IntegrationChanges, Discover, IssueLease, LeaseEnds, TypeInv, Types
  <2> QED
    BY <2>1, ImportEffect, EditEffect, StaleEffect
<1>5. lease' \in [Connections -> Branches]
  <2>1. conn[c].branch \in Branches /\ NoOne \in Branches
    BY DEF TypeInv, Types, ConnRecords, Branches
  <2> QED
    BY <2>1 DEF LosesAuthority, IntegrationChanges, Discover, Import, EditConnection, IssueLease,
         LeaseEnds, GateGoesStale, rows, TypeInv, Types
<1> QED
  BY <1>1, <1>2, <1>3, <1>4, <1>5 DEF TypeInv, Types

-----------------------------------------------------------------------------
(* The requests. *)

\* A new request starts at one of four steps, with nothing observed.
LEMMA BeginEffect ==
    ASSUME TypeInv, NEW r \in Requests, NEW m \in Members, NEW k \in Kinds, Begin(r, m, k)
    PROVE  /\ req' \in [Requests -> ReqRecords]
           /\ req[r].pc = "idle"
           /\ req'[r].pc \in {"cancel", "claim", "observe", "gate"}
           /\ req'[r].pc = "gate" => k = "switch"
           /\ req'[r].pc = "observe" => k # "switch"
           /\ req'[r].kind = k
           /\ req'[r].tries = 0
           /\ req'[r].obs = NoObservation
           /\ \A q \in Requests : q # r => req'[q] = req[q]
<1>1. PICK pc \in {"cancel", "claim", "observe", "gate"} :
         /\ pc = "gate" => k = "switch"
         /\ pc = "observe" => k # "switch"
         /\ req' = [req EXCEPT ![r] = [NoRequest EXCEPT !.pc = pc, !.kind = k, !.member = m,
                                                         !.late = op[k].overdue]]
  BY DEF Begin
<1>2. op[k].overdue \in BOOLEAN
  BY DEF TypeInv, Types, OpRecords
<1>3. pc \in Positions /\ m \in Somebody
  BY DEF Positions, Somebody
<1>4. req'[r] = [NoRequest EXCEPT !.pc = pc, !.kind = k, !.member = m, !.late = op[k].overdue]
  BY <1>1 DEF TypeInv, Types
<1>5. NoRequest.tries = 0
  BY DEF NoRequest
<1>6. /\ req'[r] \in ReqRecords
      /\ req'[r].pc = pc /\ req'[r].kind = k /\ req'[r].tries = 0 /\ req'[r].obs = NoObservation
  <2> DEFINE y == req'[r]
             late == op[k].overdue
  <2>1. late \in BOOLEAN /\ y = [NoRequest EXCEPT !.pc = pc, !.kind = k, !.member = m, !.late = late]
    BY <1>2, <1>4
  <2> HIDE DEF y, late
  <2>2. y \in ReqRecords /\ y.pc = pc /\ y.kind = k /\ y.tries = 0 /\ y.obs = NoObservation
    BY <2>1, <1>3, <1>5, NoRequestType DEF ReqRecords
  <2> QED
    BY <2>2 DEF y
<1>7. req' \in [Requests -> ReqRecords] /\ \A q \in Requests : q # r => req'[q] = req[q]
  BY <1>1, <1>6 DEF TypeInv, Types
<1> QED
  BY <1>1, <1>6, <1>7 DEF Begin

\* The call leaves, and its request counts it.
LEMMA SendEffect ==
    ASSUME TypeInv, NEW r \in Requests, Send(r)
    PROVE  /\ req' \in [Requests -> ReqRecords]
           /\ wire' = [wire EXCEPT ![req[r].kind] = "sent"]
           /\ req'[r].pc = "await"
           /\ req'[r].kind = req[r].kind
           /\ req'[r].obs = req[r].obs
           /\ \A q \in Requests : q # r => req'[q] = req[q]
<1>1. req[r] \in ReqRecords /\ req[r].tries + 1 \in 0..2
  BY DEF TypeInv, Types, RequestInv, RequestOK, Send
<1>2. req'[r] = [req[r] EXCEPT !.pc = "await", !.tries = req[r].tries + 1]
  BY DEF TypeInv, Types, Send
<1> DEFINE n == req[r].tries + 1
<1>3. n \in 0..2 /\ req'[r] = [req[r] EXCEPT !.pc = "await", !.tries = n]
  BY <1>1, <1>2
<1> HIDE DEF n
<1>4. /\ req'[r] \in ReqRecords
      /\ req'[r].pc = "await" /\ req'[r].kind = req[r].kind /\ req'[r].obs = req[r].obs
  BY <1>1, <1>3 DEF ReqRecords, Positions
<1>5. req' \in [Requests -> ReqRecords] /\ \A q \in Requests : q # r => req'[q] = req[q]
  BY <1>4 DEF TypeInv, Types, Send
<1> QED
  BY <1>4, <1>5 DEF Send, Kind

LEMMA BeginType ==
    ASSUME TypeInv, NEW r \in Requests, NEW m \in Members, NEW k \in Kinds, Begin(r, m, k)
    PROVE  TypeInv'
<1>1. UNCHANGED <<scenario, op, live, current, conn, lease, receipt, side, inherited, wire, landed,
                  faults>>
  BY DEF Begin, rows, external
<1>2. RequestOK(r)'
  BY BeginEffect, NoRequestType DEF RequestOK, SwitchSteps
<1>3. RequestInv'
  BY <1>1, <1>2, BeginEffect, OneRequestMoves
<1> QED
  BY <1>1, <1>3, BeginEffect DEF TypeInv, Types

\* What an operation's row becomes on the way to the remote-start fence.
LEMMA FenceEffect ==
    ASSUME TypeInv, NEW r \in Requests, CancelExpired(r) \/ Claim(r) \/ MarkRemoteStarted(r)
    PROVE  /\ op' \in [Kinds -> OpRecords]
           /\ LET k == req[r].kind IN
                /\ \/ op'[k].state = op[k].state
                   \/ op[k].state = "approved" /\ op'[k].state = "claimed"
                   \/ op[k].state \in {"approved", "claimed"} /\ op'[k].state = "cancelled"
                   \/ /\ op[k].state = "claimed" /\ op'[k].state = "remote_started"
                      /\ k = "delete" => Unreferenced
                /\ op'[k].access = op[k].access
                /\ op'[k].fence = op[k].fence
                /\ \A j \in Kinds : j # k => op'[j] = op[j]
<1> DEFINE k == req[r].kind
<1>1. k \in Kinds
  BY DEF TypeInv, Types, ReqRecords
<1>2. /\ "claimed" \in OperationStates /\ "cancelled" \in OperationStates
      /\ "remote_started" \in OperationStates
  BY DEF OperationStates, Started, Terminal
<1>3. op \in [Kinds -> OpRecords]
  BY DEF TypeInv, Types
<1>4. \/ op' = op
      \/ op[k].state = "approved" /\ op' = [op EXCEPT ![k].state = "claimed"]
      \/ op[k].state \in {"approved", "claimed"} /\ op' = [op EXCEPT ![k].state = "cancelled"]
      \/ /\ op[k].state = "claimed" /\ op' = [op EXCEPT ![k].state = "remote_started"]
         /\ k = "delete" => Unreferenced
  BY DEF CancelExpired, Claim, MarkRemoteStarted, Kind, Cancellable, Startable
<1> HIDE DEF k
<1>5. CASE op' = op
  BY <1>1, <1>3, <1>5 DEF k
<1>6. CASE op[k].state = "approved" /\ op' = [op EXCEPT ![k].state = "claimed"]
  BY <1>1, <1>2, <1>3, <1>6, MoveEffect DEF k
<1>7. CASE op[k].state \in {"approved", "claimed"} /\ op' = [op EXCEPT ![k].state = "cancelled"]
  BY <1>1, <1>2, <1>3, <1>7, MoveEffect DEF k
<1>8. CASE /\ op[k].state = "claimed" /\ op' = [op EXCEPT ![k].state = "remote_started"]
           /\ k = "delete" => Unreferenced
  BY <1>1, <1>2, <1>3, <1>8, MoveEffect DEF k
<1> QED
  BY <1>4, <1>5, <1>6, <1>7, <1>8

\* Where a request goes on the way to the fence: it answers, it has claimed, or
\* it passes the fence, and calls the provider only when it left `claimed` itself.
LEMMA FenceMoves ==
    ASSUME TypeInv, NEW r \in Requests, CancelExpired(r) \/ Claim(r) \/ MarkRemoteStarted(r)
    PROVE  LET k == req[r].kind IN
           /\ req[r].pc \in {"cancel", "claim", "mark"}
           /\ \/ Answer(r)
              \/ Goes(r, "mark")
              \/ Goes(r, "gate") /\ k = "switch"
              \/ Goes(r, "observe") /\ k # "switch"
              \/ /\ Goes(r, "send") /\ k # "switch"
                 /\ op[k].state = "claimed" /\ op'[k].state = "remote_started"
<1> DEFINE k == req[r].kind
<1>1. CASE CancelExpired(r) \/ Claim(r)
  BY <1>1 DEF CancelExpired, Claim
<1>2. CASE MarkRemoteStarted(r)
  <2>1. req[r].pc = "mark" /\ k \in Kinds /\ op \in [Kinds -> OpRecords]
    BY <1>2 DEF MarkRemoteStarted, TypeInv, Types, ReqRecords
  <2>2. CASE Answer(r)
    BY <2>1, <2>2
  <2>3. CASE /\ op' = IF op[k].state = "claimed" THEN [op EXCEPT ![k].state = "remote_started"] ELSE op
             /\ Goes(r, AfterFence(k))
    <3>1. CASE k = "switch"
      <4>1. AfterFence(k) = "gate"
        BY <3>1 DEF AfterFence
      <4> QED
        BY <2>1, <2>3, <3>1, <4>1
    <3>2. CASE k # "switch" /\ op[k].state = "claimed"
      <4>1. AfterFence(k) = "send"
        BY <3>2 DEF AfterFence
      <4>2. op'[k].state = "remote_started"
        BY <2>1, <2>3, <3>2, MoveEffect DEF OperationStates, Started
      <4> QED
        BY <2>1, <2>3, <3>2, <4>1, <4>2
    <3>3. CASE k # "switch" /\ op[k].state # "claimed"
      <4>1. AfterFence(k) = "observe"
        BY <3>3 DEF AfterFence
      <4> QED
        BY <2>1, <2>3, <3>3, <4>1
    <3> QED
      BY <3>1, <3>2, <3>3
  <2> QED
    BY <1>2, <2>2, <2>3 DEF MarkRemoteStarted, Kind
<1> QED
  BY <1>1, <1>2

LEMMA FenceType ==
    ASSUME TypeInv, NEW r \in Requests, CancelExpired(r) \/ Claim(r) \/ MarkRemoteStarted(r)
    PROVE  TypeInv'
<1>1. UNCHANGED <<scenario, live, current, conn, lease, receipt, side, inherited, wire, landed, faults>>
  BY DEF CancelExpired, Claim, MarkRemoteStarted, rows, external
<1>2. req' \in [Requests -> ReqRecords] /\ RequestInv'
  <2>1. CASE Answer(r)
    BY <1>1, <2>1, AnswerType
  <2>2. ASSUME NEW pc \in {"mark", "gate", "observe", "send"}, Goes(r, pc),
               pc = "gate" => req[r].kind = "switch", pc = "send" => req[r].kind # "switch"
        PROVE  req' \in [Requests -> ReqRecords] /\ RequestInv'
    <3>1. pc \in Positions
      BY DEF Positions
    <3>2. req[r].tries = 0 /\ req[r].obs.access # "ready"
      BY FenceMoves DEF TypeInv, RequestInv, RequestOK
    <3>3. RequestOK(r)'
      BY <2>2, <3>1, <3>2, GoesEffect DEF RequestOK, SwitchSteps
    <3> QED
      BY <1>1, <2>2, <3>1, <3>3, GoesEffect, OneRequestMoves
  <2> QED
    BY <2>1, <2>2, FenceMoves
<1> QED
  BY <1>1, <1>2, FenceEffect DEF TypeInv, Types

LEMMA SendType ==
    ASSUME TypeInv, NEW r \in Requests, Send(r)
    PROVE  TypeInv'
<1>1. UNCHANGED <<scenario, op, live, current, conn, lease, receipt, side, inherited, landed, faults>>
  BY DEF Send, rows
<1>2. req[r].kind \in Kinds
  BY DEF TypeInv, Types, ReqRecords
<1>3. wire' \in [Kinds -> Answers]
  BY <1>2, SendEffect DEF TypeInv, Types, Answers
<1>4. \A k \in Kinds : wire[k] # "none" => wire'[k] # "none"
  BY <1>2, SendEffect DEF TypeInv, Types
<1>5. \A q \in Requests : req[q].kind \in Kinds
  BY DEF TypeInv, Types, ReqRecords
<1>6. RequestOK(r)'
  <2>1. wire'[req[r].kind] = "sent" /\ req[r].kind # "switch" /\ req[r].obs.access # "ready"
    BY <1>2, SendEffect DEF TypeInv, Types, RequestInv, RequestOK, Send
  <2> QED
    BY <2>1, SendEffect DEF RequestOK, SwitchSteps
<1>7. RequestInv'
  BY <1>4, <1>5, <1>6, SendEffect DEF TypeInv, RequestInv, RequestOK
<1> QED
  BY <1>1, <1>3, <1>7, SendEffect DEF TypeInv, Types

\* The provider's side of a call.
LEMMA ProviderType ==
    ASSUME TypeInv, NEW k \in Kinds, Lands(k) \/ Refuses(k) \/ Settles
    PROVE  TypeInv'
<1>1. UNCHANGED <<scenario, op, live, current, conn, lease, receipt, req, faults>>
  BY DEF Lands, Refuses, Settles, rows
<1>2. wire' \in [Kinds -> Answers] /\ \A j \in Kinds : wire[j] # "none" => wire'[j] # "none"
  BY DEF Lands, Refuses, Settles, TypeInv, Types, Answers
<1>3. landed' \in [Kinds -> Nat]
  BY DEF Lands, Refuses, Settles, TypeInv, Types
<1>4. side' \in SideStates
  BY DEF Lands, Refuses, Settles, TypeInv, Types, SideStates
<1>5. inherited' \in BOOLEAN
  BY DEF Lands, Refuses, Settles, TypeInv, Types
<1>6. \A q \in Requests : req[q].kind \in Kinds
  BY DEF TypeInv, Types, ReqRecords
<1>7. RequestInv'
  BY <1>1, <1>2, <1>6 DEF TypeInv, RequestInv, RequestOK
<1> QED
  BY <1>1, <1>2, <1>3, <1>4, <1>5, <1>7 DEF TypeInv, Types

-----------------------------------------------------------------------------
(* What a request observes. *)

\* The answer of a call, and silence, as observations.
LEMMA ReceiptType ==
    ASSUME TypeInv, NEW k \in {"create", "delete"}, wire[k] \notin {"none", "sent"}
    PROVE  /\ Receipt(k) \in Observations
           /\ Receipt(k).access \in {"waiting_for_provider", "unavailable"}
           /\ Receipt(k).status = "failed" => Denied(k)
           /\ k = "delete" =>
                /\ Receipt(k).access = "unavailable"
                /\ Receipt(k).branch \/ Receipt(k).status = "failed"
<1>1. wire[k] \in {"accepted", "errored", "locked", "refused"}
  BY DEF TypeInv, Types, Answers, Kinds
<1>2. CASE wire[k] = "accepted"
  <2>1. PICK access \in {"waiting_for_provider", "unavailable"} :
           /\ Receipt(k) = SeesOperation(access)
           /\ k = "delete" => access = "unavailable"
    BY <1>2 DEF Receipt, CreateReceipt, DeleteReceipt
  <2>2. access \in AccessStates
    BY DEF AccessStates
  <2>3. /\ SeesOperation(access) \in Observations
        /\ SeesOperation(access).status = "pending"
        /\ SeesOperation(access).branch
        /\ SeesOperation(access).access = access
    BY <2>2, SeesOperationType
  <2> QED
    BY <2>1, <2>3
<1>3. CASE wire[k] # "accepted"
  <2>1. \/ Receipt(k) = Sees("failed", FALSE, "unavailable") /\ Denied(k)
        \/ Receipt(k) = Sees("missing", FALSE, "waiting_for_provider") /\ k # "delete"
    BY <1>1, <1>3 DEF Receipt, CreateReceipt, DeleteReceipt, Denied
  <2>2. CASE Receipt(k) = Sees("failed", FALSE, "unavailable") /\ Denied(k)
    BY <2>2 DEF Sees, Observations, Statuses, AccessStates
  <2>3. CASE Receipt(k) = Sees("missing", FALSE, "waiting_for_provider") /\ k # "delete"
    BY <2>3 DEF Sees, Observations, Statuses, AccessStates
  <2> QED
    BY <2>1, <2>2, <2>3
<1> QED
  BY <1>2, <1>3

LEMMA SilenceType ==
    ASSUME NEW k \in {"create", "delete"}
    PROVE  /\ Silence(k) \in Observations
           /\ Silence(k).access \in {"waiting_for_provider", "unavailable"}
           /\ Silence(k).status # "failed"
           /\ k = "delete" => Silence(k).access = "unavailable" /\ Silence(k).branch
BY DEF Silence, Sees, Observations, Statuses, AccessStates

\* What the provider shows of a create: a branch is reported as fenced only
\* when it is there and no inherited role is left on it.
LEMMA CreateObservationType ==
    ASSUME TypeInv
    PROVE  /\ CreateObservation \in Observations
           /\ CreateObservation.access # "ready"
           /\ CreateObservation.access = "bootstrap_required" => side = "ready" /\ ~inherited
           /\ CreateObservation.status = "failed" => CreateObservation.branch
<1> DEFINE o == CreateObservation
<1>1. \/ o = Sees("missing", FALSE, "waiting_for_provider")
      \/ o = Sees("pending", TRUE, "waiting_for_provider")
      \/ o = [Sees("ready", TRUE, "not_requested") EXCEPT !.databases = TRUE]
      \/ side = "ready" /\ ~inherited /\ o = FencedBranch
      \/ o = Sees("failed", TRUE, "needs_repair")
      \/ o = Sees("conflict", TRUE, "needs_repair")
  BY DEF CreateObservation
<1> HIDE DEF o
<1>2. /\ o \in Observations
      /\ o.access # "ready"
      /\ o.access = "bootstrap_required" => side = "ready" /\ ~inherited
      /\ o.status = "failed" => o.branch
  <2>1. CASE side = "ready" /\ ~inherited /\ o = FencedBranch
    BY <2>1 DEF FencedBranch, Sees, Observations, Statuses, AccessStates
  <2>2. CASE o = [Sees("ready", TRUE, "not_requested") EXCEPT !.databases = TRUE]
    BY <2>2 DEF Sees, Observations, Statuses, AccessStates
  <2>3. CASE o = Sees("missing", FALSE, "waiting_for_provider")
    BY <2>3 DEF Sees, Observations, Statuses, AccessStates
  <2>4. CASE o = Sees("pending", TRUE, "waiting_for_provider")
    BY <2>4 DEF Sees, Observations, Statuses, AccessStates
  <2>5. CASE o = Sees("failed", TRUE, "needs_repair")
    BY <2>5 DEF Sees, Observations, Statuses, AccessStates
  <2>6. CASE o = Sees("conflict", TRUE, "needs_repair")
    BY <2>6 DEF Sees, Observations, Statuses, AccessStates
  <2> QED
    BY <1>1, <2>1, <2>2, <2>3, <2>4, <2>5, <2>6
<1> QED
  BY <1>2 DEF o

LEMMA DeleteObservationType ==
    ASSUME NEW late \in BOOLEAN
    PROVE  /\ DeleteObservation(late) \in Observations
           /\ DeleteObservation(late).access = "unavailable"
           /\ DeleteObservation(late).branch
BY DEF DeleteObservation, Sees, Observations, Statuses, AccessStates

\* What a request takes along from the provider's answer.
LEMMA ReceiveMoves ==
    ASSUME TypeInv, NEW r \in Requests, Receive(r)
    PROVE  LET k == req[r].kind IN
           /\ req[r].pc = "await" /\ k \in {"create", "delete"}
           /\ \/ Goes(r, "send") /\ wire[k] = "locked" /\ req[r].tries = 1
              \/ \E o \in Observations :
                    /\ Observes(r, o, "record")
                    /\ o.access \in {"waiting_for_provider", "unavailable"}
                    /\ o.status = "failed" => Denied(k)
                    /\ k = "delete" => o.access = "unavailable" /\ (o.branch \/ o.status = "failed")
<1> DEFINE k == req[r].kind
<1>1. req[r].pc = "await" /\ k \in {"create", "delete"} /\ wire[k] # "none"
  BY DEF TypeInv, Types, ReqRecords, Kinds, RequestInv, RequestOK, Receive
<1>2. \/ Goes(r, "send") /\ wire[k] = "locked" /\ req[r].tries = 1
      \/ wire[k] # "sent" /\ Observes(r, Receipt(k), "record")
      \/ Observes(r, Silence(k), "record")
  BY DEF Receive, Kind
<1>3. CASE Goes(r, "send") /\ wire[k] = "locked" /\ req[r].tries = 1
  BY <1>1, <1>3
<1>4. CASE wire[k] # "sent" /\ Observes(r, Receipt(k), "record")
  <2> HIDE DEF k
  <2>1. /\ Receipt(k) \in Observations
        /\ Receipt(k).access \in {"waiting_for_provider", "unavailable"}
        /\ Receipt(k).status = "failed" => Denied(k)
        /\ k = "delete" => /\ Receipt(k).access = "unavailable"
                           /\ Receipt(k).branch \/ Receipt(k).status = "failed"
    BY <1>1, <1>4, ReceiptType
  <2> QED
    BY <1>1, <1>4, <2>1 DEF k
<1>5. CASE Observes(r, Silence(k), "record")
  <2> HIDE DEF k
  <2>1. /\ Silence(k) \in Observations
        /\ Silence(k).access \in {"waiting_for_provider", "unavailable"}
        /\ Silence(k).status # "failed"
        /\ k = "delete" => Silence(k).access = "unavailable" /\ Silence(k).branch
    BY <1>1, SilenceType
  <2> QED
    BY <1>1, <1>5, <2>1 DEF k
<1> QED
  BY <1>2, <1>3, <1>4, <1>5

\* What a request takes along from a look at the provider.
LEMMA ObserveMoves ==
    ASSUME TypeInv, NEW r \in Requests, Observe(r)
    PROVE  /\ req[r].pc = "observe"
           /\ \E o \in Observations :
                /\ Observes(r, o, "apply")
                /\ o.access # "ready"
                /\ o.status = "failed" => o.branch
                /\ req[r].kind = "create" /\ o.access = "bootstrap_required" =>
                     side = "ready" /\ ~inherited
                /\ req[r].kind = "delete" => o.access = "unavailable" /\ o.branch
<1>1. req[r].late \in BOOLEAN
  BY DEF TypeInv, Types, ReqRecords
<1>2. CASE req[r].kind = "create"
  <2>1. req[r].pc = "observe" /\ Observes(r, CreateObservation, "apply")
    BY <1>2 DEF Observe, Kind
  <2> QED
    BY <1>2, <2>1, CreateObservationType
<1>3. CASE req[r].kind # "create"
  <2>1. req[r].pc = "observe" /\ Observes(r, DeleteObservation(req[r].late), "apply")
    BY <1>3 DEF Observe, Kind
  <2> QED
    BY <1>1, <1>3, <2>1, DeleteObservationType
<1> QED
  BY <1>2, <1>3

LEMMA ReceiveType ==
    ASSUME TypeInv, NEW r \in Requests, Receive(r)
    PROVE  TypeInv'
<1>1. UNCHANGED <<scenario, op, live, current, conn, lease, receipt, side, inherited, wire, landed,
                  faults>>
  BY DEF Receive, rows, external
<1>2. req' \in [Requests -> ReqRecords] /\ RequestInv'
  <2>1. CASE Goes(r, "send") /\ req[r].tries = 1
    <3>1. "send" \in Positions /\ req[r].obs.access # "ready" /\ req[r].kind # "switch"
      BY ReceiveMoves DEF Positions, TypeInv, RequestInv, RequestOK
    <3>2. RequestOK(r)'
      BY <2>1, <3>1, GoesEffect DEF RequestOK, SwitchSteps
    <3> QED
      BY <1>1, <2>1, <3>1, <3>2, GoesEffect, OneRequestMoves
  <2>2. ASSUME NEW o \in Observations, Observes(r, o, "record"),
               o.access \in {"waiting_for_provider", "unavailable"}
        PROVE  req' \in [Requests -> ReqRecords] /\ RequestInv'
    <3>1. "record" \in Positions
      BY DEF Positions
    <3>2. RequestOK(r)'
      BY <2>2, <3>1, ObservesEffect DEF RequestOK, SwitchSteps
    <3> QED
      BY <1>1, <2>2, <3>1, <3>2, ObservesEffect, OneRequestMoves
  <2> QED
    BY <2>1, <2>2, ReceiveMoves
<1> QED
  BY <1>1, <1>2 DEF TypeInv, Types

LEMMA ObserveType ==
    ASSUME TypeInv, NEW r \in Requests, Observe(r)
    PROVE  TypeInv'
<1>1. UNCHANGED <<scenario, op, live, current, conn, lease, receipt, side, inherited, wire, landed,
                  faults>>
  BY DEF Observe, rows, external
<1>2. PICK o \in Observations : Observes(r, o, "apply") /\ o.access # "ready"
  BY ObserveMoves
<1>3. "apply" \in Positions
  BY DEF Positions
<1>4. RequestOK(r)'
  BY <1>2, <1>3, ObservesEffect DEF RequestOK, SwitchSteps
<1>5. req' \in [Requests -> ReqRecords] /\ RequestInv'
  BY <1>1, <1>2, <1>3, <1>4, ObservesEffect, OneRequestMoves
<1> QED
  BY <1>1, <1>5 DEF TypeInv, Types

\* An observation changes nothing, or moves a started operation to its target
\* state, or gives a finished create the fence it lacks.
LEMMA ApplyEffect ==
    ASSUME TypeInv, NEW r \in Requests, Apply(r)
    PROVE  LET k == req[r].kind
               o == req[r].obs IN
           /\ req[r].pc \in {"record", "apply"} /\ k \in Kinds
           /\ op' \in [Kinds -> OpRecords]
           /\ \A j \in Kinds : j # k => op'[j] = op[j]
           /\ \/ op' = op
              \/ /\ op[k].state \in Started \/ (NeedsFence(k) /\ o.status = "ready")
                 /\ ValidObservation(o)
                 /\ op'[k].state = TargetState(k, o)
                 /\ op'[k].access = o.access
                 /\ op'[k].fence = o.fence
<1> DEFINE k == req[r].kind
           o == req[r].obs
<1>1. req[r].pc \in {"record", "apply"} /\ k \in Kinds /\ o \in Observations
  BY DEF Apply, TypeInv, Types, ReqRecords
<1>2. \/ op' = op
      \/ ValidObservation(o) /\ Applicable(req[r].member, k, o) /\ op' = Reconciled(k, o)
  BY DEF Apply, Kind
<1>3. CASE op' = op
  BY <1>1, <1>3 DEF TypeInv, Types
<1>4. CASE ValidObservation(o) /\ Applicable(req[r].member, k, o) /\ op' = Reconciled(k, o)
  <2> HIDE DEF k, o
  <2>1. /\ op' \in [Kinds -> OpRecords]
        /\ op'[k].state = TargetState(k, o) /\ op'[k].access = o.access /\ op'[k].fence = o.fence
        /\ \A j \in Kinds : j # k => op'[j] = op[j]
    BY <1>1, <1>4, ReconcileEffect
  <2>2. op[k].state \in Started \/ (NeedsFence(k) /\ o.status = "ready")
    BY <1>4 DEF Applicable
  <2> QED
    BY <1>1, <1>4, <2>1, <2>2 DEF k, o
<1> QED
  BY <1>2, <1>3, <1>4

LEMMA ApplyType ==
    ASSUME TypeInv, NEW r \in Requests, Apply(r)
    PROVE  TypeInv'
<1>1. UNCHANGED <<scenario, live, current, conn, lease, receipt, side, inherited, wire, landed, faults>>
  BY DEF Apply, rows, external
<1>2. Goes(r, "observe") \/ Answer(r)
  BY DEF Apply
<1>3. req' \in [Requests -> ReqRecords] /\ RequestInv'
  <2>1. CASE Goes(r, "observe")
    <3>1. "observe" \in Positions /\ req[r].obs.access # "ready"
      BY DEF Positions, TypeInv, RequestInv, RequestOK
    <3>2. RequestOK(r)'
      BY <2>1, <3>1, GoesEffect DEF RequestOK, SwitchSteps
    <3> QED
      BY <1>1, <2>1, <3>1, <3>2, GoesEffect, OneRequestMoves
  <2> QED
    BY <1>1, <1>2, <2>1, AnswerType
<1> QED
  BY <1>1, <1>3, ApplyEffect DEF TypeInv, Types

\* A request that dies counts against the scenario's faults.
LEMMA FailsType ==
    ASSUME TypeInv, NEW r \in Requests, Fails(r)
    PROVE  TypeInv'
<1>1. UNCHANGED <<scenario, op, live, current, conn, lease, receipt, side, inherited, wire, landed>>
  BY DEF Fails, rows, external
<1>2. faults' \in 0..scenario'.faults
  BY <1>1, ScenariosAssumption DEF Fails, TypeInv, Types
<1>3. req' \in [Requests -> ReqRecords] /\ RequestInv'
  BY <1>1, AnswerType DEF Fails
<1> QED
  BY <1>1, <1>2, <1>3 DEF TypeInv, Types

-----------------------------------------------------------------------------
(* The second half of a switch. *)

\* A step of the switch that keeps the connections where they point, or moves
\* the leases out of the way.
LEMMA SwitchMove ==
    ASSUME TypeInv, NEW r \in Requests, wire' = wire, req[r].kind = "switch",
           NEW pc \in SwitchSteps, Goes(r, pc)
    PROVE  req' \in [Requests -> ReqRecords] /\ RequestInv'
<1>1. pc \in Positions /\ pc \notin {"cancel", "claim", "mark", "send", "await"}
  BY DEF Positions, SwitchSteps
<1>2. req[r].obs.access # "ready"
  BY DEF TypeInv, RequestInv, RequestOK
<1>3. RequestOK(r)'
  BY <1>1, <1>2, GoesEffect DEF RequestOK
<1> QED
  BY <1>1, <1>3, GoesEffect, OneRequestMoves

LEMMA ClaimGateEffect ==
    ASSUME TypeInv, NEW r \in Requests, ClaimGate(r)
    PROVE  /\ conn' \in [Connections -> ConnRecords] /\ SameConnections
           /\ req[r].pc = "gate"
           /\ Answer(r) \/ \E pc \in SwitchSteps : Goes(r, pc)
<1>1. conn["moving"] \in ConnRecords /\ "moving" \in Connections
  BY DEF TypeInv, Types, Connections
<1>2. CASE conn' = conn
  BY <1>2 DEF TypeInv, Types, SameConnections, ClaimGate, SwitchSteps
<1>3. CASE conn' # conn
  <2>1. PICK revision \in Nat :
           conn' = [conn EXCEPT !["moving"] = [@ EXCEPT !.revision = revision, !.pending = TRUE,
                                                        !.claim = r, !.stale = FALSE]]
    <3>1. conn["moving"].revision \in Nat
      BY <1>1 DEF ConnRecords
    <3> DEFINE n == IF ~moving.pending THEN moving.revision + 1 ELSE moving.revision
    <3>2. n \in Nat
      BY <3>1 DEF moving
    <3>3. conn' = [conn EXCEPT !["moving"] = [@ EXCEPT !.revision = n, !.pending = TRUE,
                                                      !.claim = r, !.stale = FALSE]]
      BY <1>3 DEF ClaimGate
    <3> QED
      BY <3>2, <3>3
  <2>2. conn'["moving"] = [conn["moving"] EXCEPT !.revision = revision, !.pending = TRUE,
                                                 !.claim = r, !.stale = FALSE]
    BY <1>1, <2>1 DEF TypeInv, Types
  <2>3. /\ conn'["moving"] \in ConnRecords
        /\ conn'["moving"].exists = conn["moving"].exists
        /\ conn'["moving"].branch = conn["moving"].branch
    <3> DEFINE y == conn'["moving"]
    <3>1. y = [conn["moving"] EXCEPT !.revision = revision, !.pending = TRUE, !.claim = r,
                                     !.stale = FALSE]
      BY <2>2
    <3> HIDE DEF y
    <3>2. y \in ConnRecords /\ y.exists = conn["moving"].exists /\ y.branch = conn["moving"].branch
      BY <1>1, <3>1 DEF ConnRecords
    <3> QED
      BY <3>2 DEF y
  <2>4. conn' \in [Connections -> ConnRecords]
    BY <2>1, <2>3 DEF TypeInv, Types
  <2>5. SameConnections
    BY <2>1, <2>3 DEF TypeInv, Types, SameConnections
  <2> QED
    BY <2>4, <2>5 DEF ClaimGate, SwitchSteps
<1> QED
  BY <1>2, <1>3

LEMMA ClaimGateType ==
    ASSUME TypeInv, NEW r \in Requests, ClaimGate(r)
    PROVE  TypeInv'
<1>1. UNCHANGED <<scenario, op, live, current, lease, receipt, side, inherited, wire, landed, faults>>
  BY DEF ClaimGate, rows, external
<1>2. req[r].kind = "switch"
  BY ClaimGateEffect DEF TypeInv, RequestInv, RequestOK, SwitchSteps
<1>3. req' \in [Requests -> ReqRecords] /\ RequestInv'
  BY <1>1, <1>2, ClaimGateEffect, AnswerType, SwitchMove
<1> QED
  BY <1>1, <1>3, ClaimGateEffect DEF TypeInv, Types

LEMMA DrainTargetType ==
    ASSUME TypeInv, NEW r \in Requests, Drain(r) \/ Target(r)
    PROVE  TypeInv'
<1>1. UNCHANGED <<scenario, op, live, current, conn, receipt, side, inherited, wire, landed, faults>>
  BY DEF Drain, Target, rows, external
<1>2. req[r].kind = "switch"
  BY DEF Drain, Target, TypeInv, RequestInv, RequestOK, SwitchSteps
<1>3. \E pc \in SwitchSteps : Goes(r, pc)
  BY DEF Drain, Target, SwitchSteps
<1>4. req' \in [Requests -> ReqRecords] /\ RequestInv'
  BY <1>1, <1>2, <1>3, SwitchMove
<1>5. lease' \in [Connections -> Branches]
  BY DEF Drain, Target, rows, TypeInv, Types, Branches
<1> QED
  BY <1>1, <1>4, <1>5 DEF TypeInv, Types

\* The switch commits, in one batch with the connection, or nothing changes.
LEMMA CommitEffect ==
    ASSUME TypeInv, NEW r \in Requests, Commit(r)
    PROVE  /\ req[r].pc = "commit"
           /\ conn' \in [Connections -> ConnRecords] /\ op' \in [Kinds -> OpRecords]
           /\ \/ /\ Committable(r) /\ Answer(r) /\ faults' = faults
                 /\ \A k \in Kinds : k # "switch" => op'[k] = op[k]
                 /\ op'["switch"].state = "succeeded"
                 /\ conn'["imported"] = conn["imported"]
                 /\ conn'["moving"].exists /\ conn'["moving"].branch = "side"
              \/ /\ op' = op /\ conn' = conn
                 /\ Goes(r, "clear") \/ Goes(r, "release")
<1>1. CASE op' = op /\ conn' = conn /\ (Goes(r, "clear") \/ Goes(r, "release"))
  BY <1>1 DEF TypeInv, Types, Commit
<1>2. CASE /\ Committable(r)
           /\ op' = [op EXCEPT !["switch"] = [@ EXCEPT !.state = "succeeded", !.access = "ready",
                                                        !.recorded = TRUE]]
           /\ conn' = [conn EXCEPT !["moving"] = [@ EXCEPT !.branch = "side", !.pending = FALSE,
                                                            !.claim = NoOne, !.stale = FALSE]]
           /\ Answer(r)
           /\ faults' = faults
  <2>1. conn["moving"] \in ConnRecords /\ op["switch"] \in OpRecords /\ conn["moving"].exists
    BY <1>2 DEF TypeInv, Types, Connections, Kinds, Committable, On
  <2> DEFINE y == conn'["moving"]
             z == op'["switch"]
  <2>2. /\ y = [conn["moving"] EXCEPT !.branch = "side", !.pending = FALSE, !.claim = NoOne,
                                      !.stale = FALSE]
        /\ conn'["imported"] = conn["imported"]
    BY <1>2 DEF TypeInv, Types, Connections
  <2>3. /\ z = [op["switch"] EXCEPT !.state = "succeeded", !.access = "ready", !.recorded = TRUE]
        /\ \A k \in Kinds : k # "switch" => op'[k] = op[k]
    BY <1>2 DEF TypeInv, Types, Kinds
  <2>4. "side" \in Branches /\ "succeeded" \in OperationStates /\ "ready" \in AccessStates
    BY DEF Branches, OperationStates, Terminal, AccessStates
  <2> HIDE DEF y, z
  <2>5. y \in ConnRecords /\ y.exists /\ y.branch = "side"
    BY <2>1, <2>2, <2>4 DEF ConnRecords
  <2>6. z \in OpRecords /\ z.state = "succeeded"
    BY <2>1, <2>3, <2>4 DEF OpRecords
  <2>7. conn' \in [Connections -> ConnRecords]
    BY <1>2, <2>5 DEF TypeInv, Types, y
  <2>8. op' \in [Kinds -> OpRecords]
    BY <1>2, <2>6 DEF TypeInv, Types, z
  <2> QED
    BY <1>2, <2>2, <2>3, <2>5, <2>6, <2>7, <2>8 DEF Commit, y, z
<1> QED
  BY <1>1, <1>2 DEF Commit

LEMMA CommitType ==
    ASSUME TypeInv, NEW r \in Requests, Commit(r)
    PROVE  TypeInv'
<1>1. UNCHANGED <<scenario, live, current, lease, receipt, side, inherited, wire, landed>>
  BY DEF Commit, rows, external
<1>2. req[r].kind = "switch"
  BY CommitEffect DEF TypeInv, RequestInv, RequestOK, SwitchSteps
<1>3. Answer(r) \/ \E pc \in SwitchSteps : Goes(r, pc)
  BY CommitEffect DEF SwitchSteps
<1>4. req' \in [Requests -> ReqRecords] /\ RequestInv'
  BY <1>1, <1>2, <1>3, AnswerType, SwitchMove
<1>5. faults' \in 0..scenario'.faults
  BY <1>1, ScenariosAssumption DEF Commit, TypeInv, Types
<1> QED
  BY <1>1, <1>4, <1>5, CommitEffect DEF TypeInv, Types

\* A request that gives the gate back answers, or sends its operation to repair.
LEMMA ReleaseEffect ==
    ASSUME TypeInv, NEW r \in Requests, Release(r) \/ GiveUp(r)
    PROVE  conn' \in [Connections -> ConnRecords] /\ SameConnections
<1>1. CASE conn' = conn
  BY <1>1 DEF TypeInv, Types, SameConnections
<1>2. CASE Release(r)
  BY <1>2, GateWithoutEffect DEF Release
<1>3. CASE GiveUp(r) /\ conn' # conn
  <2>1. (req[r].pc = "unclaim") \in BOOLEAN
    OBVIOUS
  <2> QED
    BY <1>3, <2>1, GateWithoutEffect DEF GiveUp
<1> QED
  BY <1>1, <1>2, <1>3

LEMMA ReleaseType ==
    ASSUME TypeInv, NEW r \in Requests, Release(r)
    PROVE  TypeInv'
<1>1. UNCHANGED <<scenario, op, live, current, lease, receipt, side, inherited, wire, landed, faults>>
  BY DEF Release, rows, external
<1>2. req' \in [Requests -> ReqRecords] /\ RequestInv'
  BY <1>1, AnswerType DEF Release
<1> QED
  BY <1>1, <1>2, ReleaseEffect DEF TypeInv, Types

LEMMA GiveUpType ==
    ASSUME TypeInv, NEW r \in Requests, GiveUp(r)
    PROVE  TypeInv'
<1>1. UNCHANGED <<scenario, op, live, current, lease, receipt, side, inherited, wire, landed>>
  BY DEF GiveUp, rows, external
<1>2. faults' \in 0..scenario'.faults
  BY <1>1, ScenariosAssumption DEF GiveUp, TypeInv, Types
<1> DEFINE o == Sees("conflict", TRUE, "needs_repair")
<1>3. o \in Observations /\ o.access = "needs_repair" /\ "apply" \in Positions
  BY SeesType DEF Statuses, AccessStates, Positions
<1>4. Observes(r, o, "apply")
  BY DEF GiveUp
<1> HIDE DEF o
<1>5. RequestOK(r)'
  BY <1>3, <1>4, ObservesEffect DEF RequestOK, SwitchSteps
<1>6. req' \in [Requests -> ReqRecords] /\ RequestInv'
  BY <1>1, <1>3, <1>4, <1>5, ObservesEffect, OneRequestMoves
<1> QED
  BY <1>1, <1>2, <1>6, ReleaseEffect DEF TypeInv, Types

-----------------------------------------------------------------------------
(* The theorem. *)

LEMMA ProceedType ==
    ASSUME TypeInv, NEW r \in Requests, Proceed(r)
    PROVE  TypeInv'
BY FenceType, SendType, ReceiveType, ObserveType, ApplyType, ClaimGateType, DrainTargetType,
   CommitType, ReleaseType, GiveUpType DEF Proceed

LEMMA NextType ==
    ASSUME TypeInv, [Next]_vars
    PROVE  TypeInv'
<1>1. CASE UNCHANGED vars
  BY <1>1 DEF vars, TypeInv, Types, RequestInv, RequestOK
<1>2. ASSUME NEW m \in Members, NEW k \in Kinds, Plan(m, k) \/ Approve(m, k) \/ Reject(m, k)
      PROVE  TypeInv'
  BY <1>2, PlanningType
<1>3. ASSUME NEW k \in Kinds, PlanExpires(k) \/ StartIsOverdue(k)
      PROVE  TypeInv'
  BY <1>3, PlanningType, MembersAssumption
<1>4. ASSUME NEW r \in Requests, NEW m \in Members, NEW k \in Kinds, Begin(r, m, k)
      PROVE  TypeInv'
  BY <1>4, BeginType
<1>5. ASSUME NEW r \in Requests, Proceed(r) \/ Fails(r)
      PROVE  TypeInv'
  BY <1>5, ProceedType, FailsType
<1>6. ASSUME NEW k \in {"create", "delete"}, Lands(k) \/ Refuses(k)
      PROVE  TypeInv'
  BY <1>6, ProviderType DEF Kinds
<1>7. CASE Settles
  BY <1>7, ProviderType DEF Kinds
<1>8. ASSUME NEW m \in Members, NEW c \in Connections,
             \/ Bootstrap(m) \/ Import(m) \/ LosesAuthority(m) \/ IntegrationChanges \/ Discover
             \/ EditConnection(c) \/ IssueLease(c) \/ LeaseEnds(c) \/ GateGoesStale
      PROVE  TypeInv'
  BY <1>8, WorkspaceType, BootstrapType
<1>9. "moving" \in Connections /\ Members # {}
  BY MembersAssumption DEF Connections
<1> QED
  BY <1>1, <1>2, <1>3, <1>4, <1>5, <1>6, <1>7, <1>8, <1>9 DEF Next

LEMMA TypeInvariant == Spec => []TypeInv
<1>1. Init => TypeInv
  BY InitType
<1>2. TypeInv /\ [Next]_vars => TypeInv'
  BY NextType
<1> QED
  BY <1>1, <1>2, PTL DEF Spec

\* Whatever requests, deaths, retries and changes of the workspace interleave,
\* the operation rows, the connection rows with their gates and the requests of
\* the operations route keep their types, and no more requests die than the
\* scenario allows.
THEOREM TypeCorrect == Spec => []TypeOK
<1>1. TypeInv => TypeOK
  BY TypesAreTypeOK DEF TypeInv
<1> QED
  BY <1>1, TypeInvariant, PTL

=============================================================================
