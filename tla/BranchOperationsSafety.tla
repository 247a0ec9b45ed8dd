----------------------- MODULE BranchOperationsSafety -----------------------
(***************************************************************************)
(* Safety of BranchOperations for any number of managers, requests and     *)
(* scenarios: at most one provider mutation, closed operations that act no  *)
(* more, fenced managed access, final outcomes, leases that follow their    *)
(* connection and no import of a branch under deletion.                     *)
(***************************************************************************)
EXTENDS BranchOperationsProofs

\* A request between the remote-start fence and the record of its receipt.
Senders == {"send", "await", "record"}
Sending(r, k) == req[r].kind = k /\ req[r].pc \in Senders

\* The operation has passed the remote-start fence.
CrossedStates == Started \cup {"succeeded", "failed", "needs_repair"}
Crossed(k) == op[k].state \in CrossedStates

\* The fence lets one request of an operation through to the provider, and
\* nothing is asked before the row says so.
FenceInv ==
    /\ \A k \in Kinds : wire[k] # "none" => Crossed(k)
    /\ \A r \in Requests : req[r].pc \in Senders => Crossed(req[r].kind)
    /\ \A r, q \in Requests :
          req[r].pc \in Senders /\ req[q].pc \in Senders /\ req[r].kind = req[q].kind => r = q

\* The answers to a call that took effect.
Effective == {"accepted", "errored"}

\* The provider acts on a call at most once, and a call leaves only while no
\* other is under way or answered.
LandedInv ==
    /\ \A k \in Kinds : landed[k] = IF wire[k] \in Effective THEN 1 ELSE 0
    /\ \A r \in Requests : req[r].pc = "send" => wire[req[r].kind] \in {"none", "locked"}

\* An observation that closes an operation without a branch is the receipt of a
\* call the provider denied or, of a deletion, answered with an error.
ClosedInv ==
    /\ \A r \in Requests :
          /\ req[r].pc = "record" /\ req[r].obs.status = "failed" => Denied(req[r].kind)
          /\ req[r].pc = "apply" /\ req[r].obs.status = "failed" => req[r].obs.branch
    /\ \A k \in Kinds : op[k].state = "failed" =>
          Denied(k) /\ \A r \in Requests : ~Sending(r, k)

CallInv == FenceInv /\ LandedInv /\ ClosedInv

-----------------------------------------------------------------------------
(* One provider mutation, and closed operations. *)

\* A request works for one of the kinds.
LEMMA KindOf ==
    ASSUME TypeInv
    PROVE  \A r \in Requests : req[r].kind \in Kinds
BY DEF TypeInv, Types, ReqRecords

\* Rows that move outside the fence disturb nothing.
LEMMA RowsMove ==
    ASSUME TypeInv, CallInv, UNCHANGED <<req, wire, landed>>,
           \A k \in Kinds : Crossed(k) => Crossed(k)',
           \A k \in Kinds : op'[k].state = "failed" => op[k].state = "failed"
    PROVE  CallInv'
<1>1. FenceInv'
  BY KindOf DEF CallInv, FenceInv, Crossed
<1>2. LandedInv'
  BY DEF CallInv, LandedInv
<1>3. ClosedInv'
  BY DEF CallInv, ClosedInv, Denied, Sending
<1> QED
  BY <1>1, <1>2, <1>3 DEF CallInv

\* A request that ends up outside the provider call disturbs nothing, when the
\* only operation it may have closed is the one whose denied call it made.
LEMMA LeavesTheCall ==
    ASSUME TypeInv, CallInv, NEW r \in Requests, UNCHANGED <<wire, landed>>,
           \A q \in Requests : q # r => req'[q] = req[q],
           req'[r].pc \notin Senders,
           req'[r].pc = "apply" /\ req'[r].obs.status = "failed" => req'[r].obs.branch,
           \A k \in Kinds : Crossed(k) => Crossed(k)',
           \A k \in Kinds : op'[k].state = "failed" =>
              op[k].state = "failed" \/ (Sending(r, k) /\ Denied(k))
    PROVE  CallInv'
<1>1. FenceInv'
  BY KindOf DEF CallInv, FenceInv, Crossed
<1>2. LandedInv'
  <2>1. req'[r].pc # "send"
    BY DEF Senders
  <2> QED
    BY <2>1 DEF CallInv, LandedInv
<1>3. ClosedInv'
  <2>1. req'[r].pc # "record"
    BY DEF Senders
  <2>2. \A q \in Requests :
           /\ req'[q].pc = "record" /\ req'[q].obs.status = "failed" => Denied(req[q].kind)'
           /\ req'[q].pc = "apply" /\ req'[q].obs.status = "failed" => req'[q].obs.branch
    BY <2>1 DEF CallInv, ClosedInv, Denied
  <2>3. ASSUME NEW k \in Kinds, op'[k].state = "failed", NEW q \in Requests
        PROVE  Denied(k)' /\ ~(req'[q].kind = k /\ req'[q].pc \in Senders)
    <3>1. CASE op[k].state = "failed"
      BY <3>1 DEF CallInv, ClosedInv, Denied, Sending
    <3>2. CASE Sending(r, k) /\ Denied(k)
      BY <3>2 DEF CallInv, FenceInv, Denied, Sending
    <3> QED
      BY <2>3, <3>1, <3>2
  <2>4. \A k \in Kinds : op'[k].state = "failed" => Denied(k)'
    <3>1. ASSUME NEW k \in Kinds, op'[k].state = "failed" PROVE Denied(k)'
      BY <3>1 DEF CallInv, ClosedInv, Denied
    <3> QED
      BY <3>1
  <2> QED
    BY <2>2, <2>3, <2>4 DEF ClosedInv, Sending
<1> QED
  BY <1>1, <1>2, <1>3 DEF CallInv

LEMMA InitCall == ASSUME Init PROVE CallInv
<1>1. \A r \in Requests : req[r].pc = "idle"
  BY NoRequestType DEF Init
<1>2. \A k \in Kinds : wire[k] = "none" /\ landed[k] = 0
  BY DEF Init
<1>3. \A k \in Kinds : op[k].state # "failed"
  BY DEF Init, NoOperation, EarlierCreate
<1> QED
  BY <1>1, <1>2, <1>3 DEF CallInv, FenceInv, LandedInv, ClosedInv, Effective, Senders, Sending

LEMMA WorkspaceCall ==
    ASSUME TypeInv, CallInv, NEW m \in Members, NEW k \in Kinds, NEW c \in Connections,
           \/ Plan(m, k) \/ Approve(m, k) \/ Reject(m, k) \/ PlanExpires(k) \/ StartIsOverdue(k)
           \/ Bootstrap(m) \/ Import(m) \/ LosesAuthority(m) \/ IntegrationChanges \/ Discover
           \/ EditConnection(c) \/ IssueLease(c) \/ LeaseEnds(c) \/ GateGoesStale
    PROVE  CallInv'
<1>1. UNCHANGED <<req, wire, landed>>
  BY DEF Plan, Approve, Reject, PlanExpires, StartIsOverdue, Bootstrap, Import, LosesAuthority,
         IntegrationChanges, Discover, EditConnection, IssueLease, LeaseEnds, GateGoesStale, external
<1>2. CASE Plan(m, k)
  <2>1. ~Crossed(k) /\ op'[k].state # "failed" /\ \A j \in Kinds : j # k => op'[j] = op[j]
    BY <1>2, PlanEffect DEF Crossed, CrossedStates, Started
  <2> QED
    BY <1>1, <2>1, RowsMove DEF Crossed
<1>3. CASE Approve(m, k)
  <2>1. ~Crossed(k) /\ op'[k].state # "failed" /\ \A j \in Kinds : j # k => op'[j] = op[j]
    BY <1>3, ApproveEffect DEF Crossed, CrossedStates, Started
  <2> QED
    BY <1>1, <2>1, RowsMove DEF Crossed
<1>4. CASE Reject(m, k)
  <2>1. ~Crossed(k) /\ op'[k].state # "failed" /\ \A j \in Kinds : j # k => op'[j] = op[j]
    BY <1>4, RejectEffect DEF Crossed, CrossedStates, Started
  <2> QED
    BY <1>1, <2>1, RowsMove DEF Crossed
<1>5. CASE PlanExpires(k) \/ StartIsOverdue(k)
  <2>1. \A j \in Kinds : op'[j].state = op[j].state
    BY <1>5, DeadlineEffect
  <2> QED
    BY <1>1, <2>1, RowsMove DEF Crossed
<1>6. CASE Bootstrap(m)
  <2>1. \A j \in Kinds : op'[j].state = op[j].state
    BY <1>6, BootstrapEffect
  <2> QED
    BY <1>1, <2>1, RowsMove DEF Crossed
<1>7. CASE op' = op
  BY <1>1, <1>7, RowsMove DEF Crossed
<1> QED
  BY <1>2, <1>3, <1>4, <1>5, <1>6, <1>7
  DEF Import, LosesAuthority, IntegrationChanges, Discover, EditConnection, IssueLease, LeaseEnds,
      GateGoesStale

LEMMA BeginCall ==
    ASSUME TypeInv, CallInv, NEW r \in Requests, NEW m \in Members, NEW k \in Kinds, Begin(r, m, k)
    PROVE  CallInv'
<1>1. UNCHANGED <<op, wire, landed>>
  BY DEF Begin, external
<1>2. req'[r].pc \notin Senders /\ req'[r].pc # "apply"
  BY BeginEffect DEF Senders
<1> QED
  BY <1>1, <1>2, BeginEffect, LeavesTheCall DEF Crossed

LEMMA FenceCall ==
    ASSUME TypeInv, CallInv, NEW r \in Requests,
           CancelExpired(r) \/ Claim(r) \/ MarkRemoteStarted(r)
    PROVE  CallInv'
<1> DEFINE k == req[r].kind
<1>1. UNCHANGED <<wire, landed>> /\ k \in Kinds
  BY KindOf DEF CancelExpired, Claim, MarkRemoteStarted, external
<1>2. /\ \A j \in Kinds : Crossed(j) => Crossed(j)'
      /\ \A j \in Kinds : op'[j].state = "failed" => op[j].state = "failed"
  BY <1>1, FenceEffect DEF Crossed, CrossedStates, Started
<1>3. CASE Answer(r)
  BY <1>1, <1>2, <1>3, AnswerEffect, LeavesTheCall DEF Senders
<1>4. ASSUME NEW pc \in {"mark", "gate", "observe"}, Goes(r, pc) PROVE CallInv'
  <2>1. pc \in Positions /\ pc \notin Senders /\ pc # "apply"
    BY DEF Positions, Senders
  <2> QED
    BY <1>1, <1>2, <1>4, <2>1, GoesEffect, LeavesTheCall
<1>5. CASE Goes(r, "send") /\ op[k].state = "claimed" /\ op'[k].state = "remote_started"
  <2>1. "send" \in Positions
    BY DEF Positions
  <2>2. /\ req'[r].pc = "send" /\ req'[r].kind = k
        /\ \A q \in Requests : q # r => req'[q] = req[q]
    BY <1>5, <2>1, GoesEffect
  <2>3. /\ wire[k] = "none" /\ \A q \in Requests : ~Sending(q, k)
    BY <1>1, <1>5 DEF CallInv, FenceInv, Crossed, CrossedStates, Started, Sending
  <2>4. op'[k].state \in CrossedStates
    BY <1>5 DEF CrossedStates, Started
  <2>5. FenceInv'
    <3>1. \A q \in Requests : q # r => req'[q].kind # k \/ req'[q].pc \notin Senders
      BY <2>2, <2>3 DEF Sending
    <3>2. \A j \in Kinds : wire'[j] # "none" => Crossed(j)'
      BY <1>1, <1>2 DEF CallInv, FenceInv
    <3>3. \A q \in Requests : req'[q].pc \in Senders => op'[req'[q].kind].state \in CrossedStates
      BY <1>2, <2>2, <2>4, KindOf DEF CallInv, FenceInv, Crossed
    <3>4. \A q, p \in Requests :
            req'[q].pc \in Senders /\ req'[p].pc \in Senders /\ req'[q].kind = req'[p].kind => q = p
      BY <2>2, <3>1 DEF CallInv, FenceInv
    <3> QED
      BY <3>2, <3>3, <3>4 DEF FenceInv, Crossed
  <2>6. LandedInv'
    BY <1>1, <2>2, <2>3 DEF CallInv, LandedInv
  <2>7. ClosedInv'
    BY <1>1, <1>2, <1>5, <2>2 DEF CallInv, ClosedInv, Denied, Sending
  <2> QED
    BY <2>5, <2>6, <2>7 DEF CallInv
<1> QED
  BY <1>3, <1>4, <1>5, FenceMoves

LEMMA SendCall ==
    ASSUME TypeInv, CallInv, NEW r \in Requests, Send(r)
    PROVE  CallInv'
<1> DEFINE k == req[r].kind
<1>1. /\ UNCHANGED <<op, landed>> /\ k \in Kinds
      /\ req[r].pc = "send" /\ Sending(r, k)
  BY KindOf DEF Send, Sending, Senders
<1>2. /\ wire'[k] = "sent"
      /\ \A j \in Kinds : j # k => wire'[j] = wire[j]
  BY <1>1, SendEffect DEF TypeInv, Types
<1>3. /\ req'[r].pc = "await" /\ req'[r].kind = k
      /\ \A q \in Requests : q # r => req'[q] = req[q]
  BY SendEffect
<1>4. \A q \in Requests : q # r => ~Sending(q, k)
  BY <1>1 DEF CallInv, FenceInv, Sending
<1> HIDE DEF k
<1>5. FenceInv'
  <2>1. op[k].state \in CrossedStates
    BY <1>1 DEF CallInv, FenceInv, Crossed, Sending
  <2>2. \A j \in Kinds : wire'[j] # "none" => op'[j].state \in CrossedStates
    BY <1>1, <1>2, <2>1 DEF CallInv, FenceInv, Crossed
  <2>3. \A q \in Requests : req'[q].pc \in Senders => op'[req'[q].kind].state \in CrossedStates
    BY <1>1, <1>3, <2>1 DEF CallInv, FenceInv, Crossed
  <2>4. \A q, p \in Requests :
          req'[q].pc \in Senders /\ req'[p].pc \in Senders /\ req'[q].kind = req'[p].kind => q = p
    BY <1>3, <1>4 DEF CallInv, FenceInv, Sending
  <2> QED
    BY <2>2, <2>3, <2>4 DEF FenceInv, Crossed
<1>6. LandedInv'
  <2>1. landed[k] = 0
    BY <1>1 DEF CallInv, LandedInv, Effective, Sending
  <2>2. \A j \in Kinds : landed'[j] = IF wire'[j] \in Effective THEN 1 ELSE 0
    BY <1>1, <1>2, <2>1 DEF CallInv, LandedInv, Effective
  <2>3. \A q \in Requests : req'[q].pc = "send" => wire'[req'[q].kind] \in {"none", "locked"}
    <3>1. ASSUME NEW q \in Requests, req'[q].pc = "send"
          PROVE  wire'[req'[q].kind] \in {"none", "locked"}
      <4>1. q # r /\ req'[q] = req[q] /\ req[q].kind # k
        BY <1>3, <1>4, <3>1 DEF Sending, Senders
      <4> QED
        BY <1>2, <3>1, <4>1, KindOf DEF CallInv, LandedInv
    <3> QED
      BY <3>1
  <2> QED
    BY <2>2, <2>3 DEF LandedInv
<1>7. ClosedInv'
  <2>1. ASSUME NEW q \in Requests
        PROVE  /\ req'[q].pc = "record" /\ req'[q].obs.status = "failed" =>
                    Denied(req[q].kind)'
               /\ req'[q].pc = "apply" /\ req'[q].obs.status = "failed" => req'[q].obs.branch
    <3>1. CASE q = r
      BY <1>3, <3>1
    <3>2. CASE q # r
      <4>1. req'[q] = req[q] /\ (req[q].pc = "record" => req[q].kind # k)
        BY <1>3, <1>4, <3>2 DEF Sending, Senders
      <4> QED
        BY <1>2, <4>1, KindOf DEF CallInv, ClosedInv, Denied
    <3> QED
      BY <3>1, <3>2
  <2>2. ASSUME NEW j \in Kinds, op'[j].state = "failed"
        PROVE  Denied(j)' /\ \A q \in Requests : ~(req'[q].kind = j /\ req'[q].pc \in Senders)
    <3>1. op[j].state = "failed" /\ Denied(j) /\ \A q \in Requests : ~Sending(q, j)
      BY <1>1, <2>2 DEF CallInv, ClosedInv
    <3>2. j # k
      BY <1>1, <3>1
    <3> QED
      BY <1>2, <1>3, <3>1, <3>2 DEF Sending, Denied
  <2> QED
    BY <2>1, <2>2 DEF ClosedInv, Sending
<1> QED
  BY <1>5, <1>6, <1>7 DEF CallInv

\* A request stays within its call: it is asked again to send, or takes the
\* answer along.
LEMMA ReceiveCall ==
    ASSUME TypeInv, CallInv, NEW r \in Requests, Receive(r)
    PROVE  CallInv'
<1> DEFINE k == req[r].kind
<1>1. /\ UNCHANGED <<op, wire, landed>> /\ k \in Kinds
      /\ req[r].pc = "await" /\ Sending(r, k)
  BY KindOf, ReceiveMoves DEF Receive, Sending, Senders, external
<1>2. "send" \in Positions /\ "record" \in Positions
  BY DEF Positions
<1>3. /\ req'[r].pc \in {"send", "record"} /\ req'[r].kind = k
      /\ req'[r].pc = "send" => wire[k] = "locked"
      /\ req'[r].pc = "record" /\ req'[r].obs.status = "failed" => Denied(k)
      /\ \A q \in Requests : q # r => req'[q] = req[q]
  <2>1. CASE Goes(r, "send") /\ wire[k] = "locked"
    BY <1>2, <2>1, GoesEffect
  <2>2. ASSUME NEW o \in Observations, Observes(r, o, "record"),
               o.status = "failed" => Denied(k)
        PROVE  <1>3!:
    BY <1>2, <2>2, ObservesEffect
  <2> QED
    BY <2>1, <2>2, ReceiveMoves
<1> HIDE DEF k
<1>4. FenceInv'
  <2>1. \A q \in Requests : req'[q].pc \in Senders => op'[req'[q].kind].state \in CrossedStates
    BY <1>1, <1>3 DEF CallInv, FenceInv, Crossed, Sending
  <2>2. \A q, p \in Requests :
          req'[q].pc \in Senders /\ req'[p].pc \in Senders /\ req'[q].kind = req'[p].kind => q = p
    BY <1>1, <1>3 DEF CallInv, FenceInv, Sending
  <2> QED
    BY <1>1, <2>1, <2>2 DEF CallInv, FenceInv, Crossed
<1>5. LandedInv'
  BY <1>1, <1>3 DEF CallInv, LandedInv
<1>6. ClosedInv'
  <2>1. \A q \in Requests :
          /\ req'[q].pc = "record" /\ req'[q].obs.status = "failed" => Denied(req[q].kind)'
          /\ req'[q].pc = "apply" /\ req'[q].obs.status = "failed" => req'[q].obs.branch
    BY <1>1, <1>3 DEF CallInv, ClosedInv, Denied
  <2>2. ASSUME NEW j \in Kinds, op'[j].state = "failed"
        PROVE  Denied(j)' /\ \A q \in Requests : ~(req'[q].kind = j /\ req'[q].pc \in Senders)
    <3>1. op[j].state = "failed" /\ Denied(j) /\ \A q \in Requests : ~Sending(q, j)
      BY <1>1, <2>2 DEF CallInv, ClosedInv
    <3>2. j # k
      BY <1>1, <3>1
    <3> QED
      BY <1>1, <1>3, <3>1, <3>2 DEF Sending, Denied
  <2> QED
    BY <2>1, <2>2 DEF ClosedInv, Sending
<1> QED
  BY <1>4, <1>5, <1>6 DEF CallInv

LEMMA ObserveCall ==
    ASSUME TypeInv, CallInv, NEW r \in Requests, Observe(r)
    PROVE  CallInv'
<1>1. UNCHANGED <<op, wire, landed>>
  BY DEF Observe, external
<1>2. PICK o \in Observations : Observes(r, o, "apply") /\ (o.status = "failed" => o.branch)
  BY ObserveMoves
<1>3. "apply" \in Positions /\ "apply" \notin Senders
  BY DEF Positions, Senders
<1> QED
  BY <1>1, <1>2, <1>3, ObservesEffect, LeavesTheCall DEF Crossed

LEMMA ApplyCall ==
    ASSUME TypeInv, CallInv, NEW r \in Requests, Apply(r)
    PROVE  CallInv'
<1> DEFINE k == req[r].kind
           o == req[r].obs
<1>1. UNCHANGED <<wire, landed>> /\ (Goes(r, "observe") \/ Answer(r))
  BY DEF Apply, external
<1>2. /\ req'[r].pc \in {"observe", "idle"}
      /\ \A q \in Requests : q # r => req'[q] = req[q]
  BY <1>1, GoesEffect, AnswerEffect DEF Positions
<1>3. /\ \A j \in Kinds : Crossed(j) => Crossed(j)'
      /\ \A j \in Kinds : op'[j].state = "failed" =>
            op[j].state = "failed" \/ (Sending(r, j) /\ Denied(j))
  <2>1. CASE op' = op
    BY <2>1 DEF Crossed
  <2>2. CASE op' # op
    <3>1. /\ req[r].pc \in {"record", "apply"} /\ k \in Kinds
          /\ op'[k].state = TargetState(k, o)
          /\ \A j \in Kinds : j # k => op'[j] = op[j]
      BY <2>2, ApplyEffect
    <3>2. TargetState(k, o) \in CrossedStates
      BY DEF TargetState, CrossedStates, Started
    <3>3. TargetState(k, o) = "failed" => o.status = "failed" /\ ~o.branch
      BY DEF TargetState
    <3>4. TargetState(k, o) = "failed" => Sending(r, k) /\ Denied(k)
      BY <3>1, <3>3 DEF CallInv, ClosedInv, Sending, Senders
    <3> HIDE DEF k, o
    <3> QED
      BY <3>1, <3>2, <3>4 DEF Crossed
  <2> QED
    BY <2>1, <2>2
<1> QED
  BY <1>1, <1>2, <1>3, LeavesTheCall DEF Senders

LEMMA FailsCall ==
    ASSUME TypeInv, CallInv, NEW r \in Requests, Fails(r)
    PROVE  CallInv'
<1>1. UNCHANGED <<op, wire, landed>> /\ Answer(r)
  BY DEF Fails, external
<1> QED
  BY <1>1, AnswerEffect, LeavesTheCall DEF Crossed, Senders

\* Neon acts on a call that was sent, which no request holds ready to send.
LEMMA ProviderCall ==
    ASSUME TypeInv, CallInv, NEW k \in Kinds, Lands(k) \/ Refuses(k)
    PROVE  CallInv'
<1>1. UNCHANGED <<op, req>> /\ wire[k] = "sent"
  BY DEF Lands, Refuses
<1>2. /\ wire'[k] \in {"accepted", "errored", "locked", "refused"}
      /\ \A j \in Kinds : j # k => wire'[j] = wire[j]
      /\ landed'[k] = IF wire'[k] \in Effective THEN landed[k] + 1 ELSE landed[k]
      /\ \A j \in Kinds : j # k => landed'[j] = landed[j]
  BY DEF Lands, Refuses, TypeInv, Types, Effective
<1>3. FenceInv'
  BY <1>1, <1>2 DEF CallInv, FenceInv, Crossed
<1>4. LandedInv'
  BY <1>1, <1>2, KindOf DEF CallInv, LandedInv, Effective
<1>5. ClosedInv'
  <2>1. op[k].state # "failed"
    BY <1>1 DEF CallInv, ClosedInv, Denied
  <2>2. \A r \in Requests : req[r].pc = "record" /\ req[r].obs.status = "failed" => req[r].kind # k
    BY <1>1 DEF CallInv, ClosedInv, Denied
  <2> QED
    BY <1>1, <1>2, <2>1, <2>2, KindOf DEF CallInv, ClosedInv, Sending, Denied
<1> QED
  BY <1>3, <1>4, <1>5 DEF CallInv

\* A switch makes no provider call.
LEMMA SwitchCall ==
    ASSUME TypeInv, CallInv, NEW r \in Requests,
           ClaimGate(r) \/ Drain(r) \/ Target(r) \/ Commit(r) \/ Release(r) \/ GiveUp(r)
    PROVE  CallInv'
<1>1. UNCHANGED <<wire, landed>>
  BY DEF ClaimGate, Drain, Target, Commit, Release, GiveUp, external
<1>2. /\ \A k \in Kinds : Crossed(k) => Crossed(k)'
      /\ \A k \in Kinds : op'[k].state = "failed" => op[k].state = "failed"
  <2>1. CASE op' = op
    BY <2>1 DEF Crossed
  <2>2. CASE Commit(r) /\ op' # op
    <3>1. /\ op'["switch"].state = "succeeded"
          /\ \A k \in Kinds : k # "switch" => op'[k] = op[k]
      BY <2>2, CommitEffect
    <3> QED
      BY <3>1 DEF Crossed, CrossedStates
  <2> QED
    BY <2>1, <2>2 DEF ClaimGate, Drain, Target, Release, GiveUp, rows
<1>3. CASE Answer(r)
  BY <1>1, <1>2, <1>3, AnswerEffect, LeavesTheCall DEF Senders
<1>4. ASSUME NEW pc \in SwitchSteps, Goes(r, pc) PROVE CallInv'
  <2>1. pc \in Positions /\ pc \notin Senders /\ pc # "apply"
    BY DEF SwitchSteps, Positions, Senders
  <2> QED
    BY <1>1, <1>2, <1>4, <2>1, GoesEffect, LeavesTheCall
<1>5. CASE GiveUp(r)
  <2> DEFINE o == Sees("conflict", TRUE, "needs_repair")
  <2>1. /\ o \in Observations /\ o.status = "conflict"
        /\ "apply" \in Positions /\ "apply" \notin Senders
    BY SeesType DEF Statuses, AccessStates, Positions, Senders
  <2>2. Observes(r, o, "apply")
    BY <1>5 DEF GiveUp
  <2> HIDE DEF o
  <2>3. /\ req'[r].pc = "apply" /\ req'[r].obs = o
        /\ \A q \in Requests : q # r => req'[q] = req[q]
    BY <2>1, <2>2, ObservesEffect
  <2> QED
    BY <1>1, <1>2, <2>1, <2>3, LeavesTheCall
<1>6. Answer(r) \/ (\E pc \in SwitchSteps : Goes(r, pc)) \/ GiveUp(r)
  BY ClaimGateEffect, CommitEffect DEF Drain, Target, Release, SwitchSteps
<1> QED
  BY <1>3, <1>4, <1>5, <1>6

LEMMA NextCall ==
    ASSUME TypeInv, CallInv, [Next]_vars
    PROVE  CallInv'
<1>1. CASE UNCHANGED vars
  BY <1>1, RowsMove DEF vars, Crossed
<1>2. ASSUME NEW m \in Members, NEW k \in Kinds, NEW c \in Connections,
             \/ Plan(m, k) \/ Approve(m, k) \/ Reject(m, k) \/ PlanExpires(k) \/ StartIsOverdue(k)
             \/ Bootstrap(m) \/ Import(m) \/ LosesAuthority(m) \/ IntegrationChanges \/ Discover
             \/ EditConnection(c) \/ IssueLease(c) \/ LeaseEnds(c) \/ GateGoesStale
      PROVE  CallInv'
  BY <1>2, WorkspaceCall
<1>3. ASSUME NEW r \in Requests, NEW m \in Members, NEW k \in Kinds, Begin(r, m, k)
      PROVE  CallInv'
  BY <1>3, BeginCall
<1>4. ASSUME NEW r \in Requests, Proceed(r) \/ Fails(r)
      PROVE  CallInv'
  BY <1>4, FenceCall, SendCall, ReceiveCall, ObserveCall, ApplyCall, FailsCall, SwitchCall DEF Proceed
<1>5. ASSUME NEW k \in {"create", "delete"}, Lands(k) \/ Refuses(k)
      PROVE  CallInv'
  BY <1>5, ProviderCall DEF Kinds
<1>6. CASE Settles
  <2>1. UNCHANGED <<req, wire, landed, op>>
    BY <1>6 DEF Settles
  <2> QED
    BY <2>1, RowsMove DEF Crossed
<1>7. "moving" \in Connections /\ Members # {} /\ "create" \in Kinds
  BY MembersAssumption DEF Connections, Kinds
<1> QED
  BY <1>1, <1>2, <1>3, <1>4, <1>5, <1>6, <1>7 DEF Next

LEMMA CallInvariant == Spec => []CallInv
<1>1. Init => CallInv
  BY InitCall
<1>2. TypeInv /\ CallInv /\ [Next]_vars => CallInv'
  BY NextCall
<1> QED
  BY <1>1, <1>2, TypeInvariant, PTL DEF Spec

\* The remote-start fence of markProviderOperationRemoteStarted: however many
\* requests execute, retry or take over an operation, and wherever they die,
\* the provider carries out its create or delete at most once.
THEOREM MutatesOnce == Spec => []OneProviderMutation
<1>1. CallInv => OneProviderMutation
  BY DEF CallInv, LandedInv, OneProviderMutation
<1> QED
  BY <1>1, CallInvariant, PTL

\* An operation that applyProviderOperationReconciliation recorded as failed, or
\* that was cancelled, has no call under way and no request about to make one; a
\* cancelled operation, and a create that failed, changed nothing at the provider.
THEOREM ClosedUntouched == Spec => []ClosedMeansUntouched
<1>1. TypeInv /\ CallInv => ClosedMeansUntouched
  <2> SUFFICES ASSUME TypeInv, CallInv PROVE ClosedMeansUntouched
    OBVIOUS
  <2>1. ASSUME NEW k \in Kinds, op[k].state = "failed"
        PROVE  /\ wire[k] # "sent" /\ \A r \in Requests : ~(req[r].kind = k /\ req[r].pc = "send")
               /\ k = "create" => landed[k] = 0
    BY <2>1 DEF CallInv, LandedInv, ClosedInv, Effective, Denied, Sending, Senders
  <2>2. ASSUME NEW k \in Kinds, op[k].state = "cancelled"
        PROVE  /\ wire[k] # "sent" /\ \A r \in Requests : ~(req[r].kind = k /\ req[r].pc = "send")
               /\ landed[k] = 0
    <3>1. ~Crossed(k)
      BY <2>2 DEF Crossed, CrossedStates, Started
    <3> QED
      BY <3>1 DEF CallInv, FenceInv, LandedInv, Effective, Senders
  <2>3. "create" \in Kinds
    BY DEF Kinds
  <2> QED
    BY <2>1, <2>2, <2>3 DEF ClosedMeansUntouched
<1> QED
  BY <1>1, TypeInvariant, CallInvariant, PTL

-----------------------------------------------------------------------------
(* Final outcomes, and managed access. *)

\* The branch is there and no temporary role copied with it can log in.
Fenced == side \notin {"absent", "creating", "broken"} /\ ~inherited

\* The branch of a create appears only when its call lands, is reported as
\* fenced only when it is, and is bootstrapped only behind its fence.
AccessInv ==
    /\ op["create"].access \in {"bootstrap_required", "ready"} => Fenced
    /\ op["create"].access = "ready" => op["create"].fence
    /\ \A r \in Requests :
          req[r].kind = "create" /\ req[r].obs.access = "bootstrap_required" => Fenced
    /\ Creates /\ landed["create"] = 0 => side = "absent"
    /\ ~Creates => op["create"].state = "succeeded" /\ wire["create"] = "none"
    /\ ~Creates => \A r \in Requests : ~Sending(r, "create")
    /\ op["delete"].state # "none" => side # "absent"

\* The row of a finished operation.
FinalRow(k) ==
    op[k].state \in Terminal =>
        /\ op'[k].state = op[k].state
        /\ op[k].access = "ready" => op'[k].access = "ready"

LEMMA ApplyFinal ==
    ASSUME TypeInv, AccessInv, NEW r \in Requests, Apply(r), NEW k \in Kinds
    PROVE  FinalRow(k)
<1>1. CASE op' = op \/ k # req[r].kind
  BY <1>1, ApplyEffect DEF FinalRow
<1>2. CASE op' # op /\ k = req[r].kind
  <2> DEFINE o == req[r].obs
  <2>1. /\ op[k].state \in Started \/ (NeedsFence(k) /\ o.status = "ready")
        /\ op'[k].state = TargetState(k, o)
    BY <1>2, ApplyEffect
  <2>2. CASE op[k].state \in Started
    BY <2>2 DEF FinalRow, Started, Terminal
  <2>3. CASE NeedsFence(k) /\ o.status = "ready"
    <3>1. TargetState(k, o) = "succeeded"
      BY <2>3 DEF TargetState
    <3>2. k = "create" /\ op[k].state = "succeeded" /\ ~op[k].fence
      BY <2>3 DEF NeedsFence
    <3>3. op[k].access # "ready"
      BY <3>2 DEF AccessInv
    <3> QED
      BY <2>1, <3>1, <3>2, <3>3 DEF FinalRow
  <2> QED
    BY <2>1, <2>2, <2>3
<1> QED
  BY <1>1, <1>2

LEMMA NextFinal ==
    ASSUME TypeInv, AccessInv, [Next]_vars, NEW k \in Kinds
    PROVE  FinalRow(k)
<1>1. CASE op' = op
  BY <1>1 DEF FinalRow
<1>2. ASSUME NEW m \in Members, NEW j \in Kinds, Plan(m, j) \/ Approve(m, j) \/ Reject(m, j)
      PROVE  FinalRow(k)
  BY <1>2, PlanEffect, ApproveEffect, RejectEffect DEF FinalRow, Terminal
<1>3. ASSUME NEW j \in Kinds, PlanExpires(j) \/ StartIsOverdue(j)
      PROVE  FinalRow(k)
  BY <1>3, DeadlineEffect DEF FinalRow
<1>4. ASSUME NEW m \in Members, Bootstrap(m)
      PROVE  FinalRow(k)
  BY <1>4, BootstrapEffect DEF FinalRow
<1>5. ASSUME NEW r \in Requests, CancelExpired(r) \/ Claim(r) \/ MarkRemoteStarted(r)
      PROVE  FinalRow(k)
  BY <1>5, FenceEffect, KindOf DEF FinalRow, Terminal
<1>6. ASSUME NEW r \in Requests, Commit(r)
      PROVE  FinalRow(k)
  <2>1. CASE op' = op
    BY <1>1, <2>1
  <2>2. CASE op' # op
    <3>1. op["switch"].state \in Started /\ \A j \in Kinds : j # "switch" => op'[j] = op[j]
      BY <1>6, <2>2, CommitEffect DEF Committable
    <3> QED
      BY <3>1 DEF FinalRow, Started, Terminal
  <2> QED
    BY <2>1, <2>2
<1> QED
  BY <1>1, <1>2, <1>3, <1>4, <1>5, <1>6, ApplyFinal
  DEF Next, vars, Begin, Proceed, Send, Receive, Observe, ClaimGate, Drain, Target, Release, GiveUp,
      Fails, Lands, Refuses, Settles, GateGoesStale, Import, LosesAuthority, IntegrationChanges,
      Discover, EditConnection, IssueLease, LeaseEnds, rows

LEMMA InitAccess == ASSUME Init PROVE AccessInv
<1>1. \A r \in Requests : req[r].pc = "idle" /\ req[r].obs.access = "unavailable"
  BY NoRequestType DEF Init
<1>2. wire["create"] = "none" /\ landed["create"] = 0 /\ op["delete"] = NoOperation
  BY DEF Init, Kinds
<1>3. CASE Creates
  BY <1>1, <1>2, <1>3 DEF Init, Kinds, AccessInv, NoOperation, Sending, Senders
<1>4. CASE ~Creates
  <2>1. op["create"] = EarlierCreate /\ side = "ready"
    BY <1>4 DEF Init, Kinds
  <2>2. CASE "legacy" \in scenario.with
    BY <1>1, <1>2, <1>4, <2>1, <2>2 DEF AccessInv, EarlierCreate, NoOperation, Sending, Senders
  <2>3. CASE "legacy" \notin scenario.with
    <3>1. inherited = FALSE
      BY <2>3 DEF Init
    <3> QED
      BY <1>1, <1>2, <1>4, <2>1, <2>3, <3>1
      DEF AccessInv, EarlierCreate, NoOperation, Sending, Senders, Fenced
  <2> QED
    BY <2>2, <2>3
<1> QED
  BY <1>3, <1>4

\* A step that leaves the provider alone keeps the fence when what it reports
\* and records was behind the fence, and calls nothing.
LEMMA AccessKept ==
    ASSUME AccessInv, UNCHANGED <<scenario, side, inherited, wire, landed>>,
           op'["create"].access \in {"bootstrap_required", "ready"} => Fenced,
           op'["create"].access = "ready" => op'["create"].fence,
           op["create"].state = "succeeded" => op'["create"].state = "succeeded",
           op'["delete"].state # "none" => side # "absent",
           \A r \in Requests :
              req'[r].kind = "create" /\ req'[r].obs.access = "bootstrap_required" => Fenced,
           \A r \in Requests : Sending(r, "create")' =>
              op["create"].state # "succeeded" \/ \E q \in Requests : Sending(q, "create")
    PROVE  AccessInv'
<1>1. Fenced' = Fenced /\ Creates' = Creates
  BY DEF Fenced, Creates
<1> QED
  BY <1>1 DEF AccessInv

\* The same when a single request moves and no row does.
LEMMA RequestKeeps ==
    ASSUME TypeInv, AccessInv, NEW r \in Requests,
           UNCHANGED <<scenario, op, side, inherited, landed, wire>>,
           \A q \in Requests : q # r => req'[q] = req[q],
           req'[r].kind = "create" /\ req'[r].obs.access = "bootstrap_required" => Fenced,
           Sending(r, "create")' => Sending(r, "create")
    PROVE  AccessInv'
<1>1. \A q \in Requests : Sending(q, "create")' => Sending(q, "create")
  BY DEF Sending
<1> QED
  BY <1>1, AccessKept DEF AccessInv

LEMMA WorkspaceAccess ==
    ASSUME TypeInv, AccessInv, NEW m \in Members, NEW k \in Kinds, NEW c \in Connections,
           \/ Plan(m, k) \/ Approve(m, k) \/ Reject(m, k) \/ PlanExpires(k) \/ StartIsOverdue(k)
           \/ Bootstrap(m) \/ Import(m) \/ LosesAuthority(m) \/ IntegrationChanges \/ Discover
           \/ EditConnection(c) \/ IssueLease(c) \/ LeaseEnds(c) \/ GateGoesStale
    PROVE  AccessInv'
<1>1. UNCHANGED <<req, scenario, side, inherited, wire, landed>>
  BY DEF Plan, Approve, Reject, PlanExpires, StartIsOverdue, Bootstrap, Import, LosesAuthority,
         IntegrationChanges, Discover, EditConnection, IssueLease, LeaseEnds, GateGoesStale, rows,
         external
<1>2. \A r \in Requests : Sending(r, "create")' => Sending(r, "create")
  BY <1>1 DEF Sending
<1>3. \A r \in Requests :
         req'[r].kind = "create" /\ req'[r].obs.access = "bootstrap_required" => Fenced
  BY <1>1 DEF AccessInv
<1>4. "create" \in Kinds /\ "delete" \in Kinds
  BY DEF Kinds
<1>5. CASE Plan(m, k)
  <2>1. k = "delete" => side # "absent"
    BY <1>5, PlanEffect DEF PlanHolds, DeletePlanHolds
  <2>4. \A j \in Kinds : j # k => op'[j] = op[j]
    BY <1>5, PlanEffect
  <2>2. /\ op'["create"].access \in {"bootstrap_required", "ready"} => Fenced
        /\ op'["create"].access = "ready" => op'["create"].fence
        /\ op["create"].state = "succeeded" => op'["create"].state = "succeeded"
    <3>1. CASE k = "create"
      BY <1>5, <3>1, PlanEffect
    <3>2. CASE k # "create"
      <4>1. op'["create"] = op["create"]
        BY <1>4, <2>4, <3>2
      <4> QED
        BY <4>1 DEF AccessInv
    <3> QED
      BY <3>1, <3>2
  <2>3. op'["delete"].state # "none" => side # "absent"
    <3>1. op'["delete"] = op["delete"] \/ k = "delete"
      BY <1>4, <2>4
    <3> QED
      BY <2>1, <3>1 DEF AccessInv
  <2> QED
    BY <1>1, <1>2, <1>3, <2>2, <2>3, AccessKept
<1>6. CASE Approve(m, k)
  BY <1>1, <1>2, <1>3, <1>4, <1>6, ApproveEffect, AccessKept DEF AccessInv
<1>7. CASE Reject(m, k)
  BY <1>1, <1>2, <1>3, <1>4, <1>7, RejectEffect, AccessKept DEF AccessInv
<1>8. CASE PlanExpires(k) \/ StartIsOverdue(k)
  BY <1>1, <1>2, <1>3, <1>4, <1>8, DeadlineEffect, AccessKept DEF AccessInv
<1>9. CASE Bootstrap(m)
  BY <1>1, <1>2, <1>3, <1>4, <1>9, BootstrapEffect, AccessKept DEF AccessInv
<1>10. CASE op' = op
  BY <1>1, <1>2, <1>3, <1>10, AccessKept DEF AccessInv
<1> QED
  BY <1>5, <1>6, <1>7, <1>8, <1>9, <1>10
  DEF Import, LosesAuthority, IntegrationChanges, Discover, EditConnection, IssueLease, LeaseEnds,
      GateGoesStale

LEMMA FenceAccess ==
    ASSUME TypeInv, AccessInv, NEW r \in Requests,
           CancelExpired(r) \/ Claim(r) \/ MarkRemoteStarted(r)
    PROVE  AccessInv'
<1> DEFINE k == req[r].kind
<1>1. UNCHANGED <<scenario, side, inherited, wire, landed>> /\ k \in Kinds
  BY KindOf DEF CancelExpired, Claim, MarkRemoteStarted, external, rows
<1>2. /\ op'["create"].access = op["create"].access /\ op'["create"].fence = op["create"].fence
      /\ op["create"].state = "succeeded" => op'["create"].state = "succeeded"
      /\ op'["delete"].state # "none" => op["delete"].state # "none"
  BY <1>1, FenceEffect DEF Kinds
<1>3. CASE Answer(r)
  <2>1. \A q \in Requests : Sending(q, "create")' => Sending(q, "create")
    BY <1>3, AnswerEffect DEF Sending, Senders
  <2>2. \A q \in Requests :
           req'[q].kind = "create" /\ req'[q].obs.access = "bootstrap_required" => Fenced
    BY <1>3, AnswerEffect DEF AccessInv
  <2> QED
    BY <1>1, <1>2, <2>1, <2>2, AccessKept DEF AccessInv
<1>4. ASSUME NEW pc \in {"mark", "gate", "observe", "send"}, Goes(r, pc),
             pc = "send" => op[k].state = "claimed"
      PROVE  AccessInv'
  <2>1. pc \in Positions /\ (pc # "send" => pc \notin Senders)
    BY DEF Positions, Senders
  <2>2. \A q \in Requests : Sending(q, "create")' =>
           Sending(q, "create") \/ op["create"].state # "succeeded"
    BY <1>4, <2>1, GoesEffect DEF Sending
  <2>3. \A q \in Requests :
           req'[q].kind = "create" /\ req'[q].obs.access = "bootstrap_required" => Fenced
    BY <1>4, <2>1, GoesEffect DEF AccessInv
  <2> QED
    BY <1>1, <1>2, <2>2, <2>3, AccessKept DEF AccessInv
<1> QED
  BY <1>3, <1>4, FenceMoves

LEMMA RequestAccess ==
    ASSUME TypeInv, AccessInv, NEW r \in Requests,
           \/ \E m \in Members, k \in Kinds : Begin(r, m, k)
           \/ Receive(r) \/ Observe(r) \/ Fails(r)
    PROVE  AccessInv'
<1>1. UNCHANGED <<scenario, op, side, inherited, landed, wire>>
  BY DEF Begin, Receive, Observe, Fails, rows, external
<1>2. ASSUME NEW m \in Members, NEW k \in Kinds, Begin(r, m, k)
      PROVE  AccessInv'
  <2>1. ~Sending(r, "create")' /\ req'[r].obs.access = "unavailable"
    BY <1>2, BeginEffect, NoRequestType DEF Sending, Senders
  <2> QED
    BY <1>1, <1>2, <2>1, BeginEffect, RequestKeeps
<1>3. CASE Receive(r)
  <2>1. req[r].pc \in Senders /\ "send" \in Positions /\ "record" \in Positions
    BY <1>3, ReceiveMoves DEF Senders, Positions
  <2>2. CASE Goes(r, "send")
    <3>1. Sending(r, "create")' => Sending(r, "create")
      BY <2>1, <2>2, GoesEffect DEF Sending
    <3>2. req'[r].kind = "create" /\ req'[r].obs.access = "bootstrap_required" => Fenced
      BY <2>1, <2>2, GoesEffect DEF AccessInv
    <3> QED
      BY <1>1, <2>1, <2>2, <3>1, <3>2, GoesEffect, RequestKeeps
  <2>3. ASSUME NEW o \in Observations, Observes(r, o, "record"),
               o.access \in {"waiting_for_provider", "unavailable"}
        PROVE  AccessInv'
    <3>1. Sending(r, "create")' => Sending(r, "create")
      BY <2>1, <2>3, ObservesEffect DEF Sending
    <3> QED
      BY <1>1, <2>1, <2>3, <3>1, ObservesEffect, RequestKeeps
  <2> QED
    BY <1>3, <2>2, <2>3, ReceiveMoves
<1>4. CASE Observe(r)
  <2>1. PICK o \in Observations :
           /\ Observes(r, o, "apply")
           /\ req[r].kind = "create" /\ o.access = "bootstrap_required" => side = "ready" /\ ~inherited
    BY <1>4, ObserveMoves
  <2>2. "apply" \in Positions /\ "apply" \notin Senders
    BY DEF Positions, Senders
  <2>3. ~Sending(r, "create")'
    BY <2>1, <2>2, ObservesEffect DEF Sending
  <2>4. req'[r].kind = "create" /\ req'[r].obs.access = "bootstrap_required" => Fenced
    BY <2>1, <2>2, ObservesEffect DEF Fenced
  <2> QED
    BY <1>1, <2>1, <2>2, <2>3, <2>4, ObservesEffect, RequestKeeps
<1>5. CASE Fails(r)
  <2>1. Answer(r)
    BY <1>5 DEF Fails
  <2>2. ~Sending(r, "create")'
    BY <2>1, AnswerEffect DEF Sending, Senders
  <2> QED
    BY <1>1, <2>1, <2>2, AnswerEffect, RequestKeeps
<1> QED
  BY <1>2, <1>3, <1>4, <1>5

LEMMA SendAccess ==
    ASSUME TypeInv, AccessInv, NEW r \in Requests, Send(r)
    PROVE  AccessInv'
<1>1. UNCHANGED <<scenario, op, side, inherited, landed>> /\ Sending(r, req[r].kind)
  BY DEF Send, rows, Sending, Senders
<1>2. /\ req'[r].pc = "await" /\ req'[r].kind = req[r].kind /\ req'[r].obs = req[r].obs
      /\ \A q \in Requests : q # r => req'[q] = req[q]
  BY SendEffect
<1>3. ~Creates => wire'["create"] = wire["create"]
  BY <1>1, SendEffect DEF AccessInv, Sending, TypeInv, Types, Kinds
<1>4. Fenced' = Fenced /\ Creates' = Creates
  BY <1>1 DEF Fenced, Creates
<1>5. \A q \in Requests : Sending(q, "create")' => Sending(q, "create")
  BY <1>1, <1>2 DEF Sending
<1> QED
  BY <1>1, <1>2, <1>3, <1>4, <1>5 DEF AccessInv

\* A finished observation opens managed access only behind the fence, and takes
\* no bootstrap back.
LEMMA ApplyAccess ==
    ASSUME TypeInv, AccessInv, NEW r \in Requests, Apply(r)
    PROVE  AccessInv'
<1> DEFINE k == req[r].kind
           o == req[r].obs
<1>1. UNCHANGED <<scenario, side, inherited, wire, landed>>
  BY DEF Apply, external, rows
<1>2. /\ req'[r].pc \in {"observe", "idle"}
      /\ (req'[r].obs = o /\ req'[r].kind = k) \/ req'[r].obs.access = "unavailable"
      /\ \A q \in Requests : q # r => req'[q] = req[q]
  BY GoesEffect, AnswerEffect DEF Apply, Positions
<1>3. \A q \in Requests : Sending(q, "create")' => Sending(q, "create")
  BY <1>2 DEF Sending, Senders
<1>4. \A q \in Requests :
         req'[q].kind = "create" /\ req'[q].obs.access = "bootstrap_required" => Fenced
  BY <1>2 DEF AccessInv
<1>5. op["create"].state = "succeeded" => op'["create"].state = "succeeded"
  BY ApplyFinal DEF FinalRow, Terminal, Kinds
<1>6. o.access # "ready"
  BY DEF TypeInv, RequestInv, RequestOK
<1>7. op' = op \/ op'["create"] = op["create"] \/ (k = "create" /\ op'["create"].access = o.access)
  BY ApplyEffect DEF Kinds
<1>8. /\ op'["create"].access \in {"bootstrap_required", "ready"} => Fenced
      /\ op'["create"].access = "ready" => op'["create"].fence
  BY <1>6, <1>7 DEF AccessInv
<1>9. op'["delete"].state # "none" => side # "absent"
  <2>1. CASE op' = op \/ k # "delete"
    BY <2>1, ApplyEffect DEF AccessInv, Kinds
  <2>2. CASE op' # op /\ k = "delete"
    BY <2>2, ApplyEffect DEF AccessInv, Started, NeedsFence
  <2> QED
    BY <2>1, <2>2
<1> QED
  BY <1>1, <1>3, <1>4, <1>5, <1>8, <1>9, AccessKept

LEMMA SwitchAccess ==
    ASSUME TypeInv, AccessInv, NEW r \in Requests,
           ClaimGate(r) \/ Drain(r) \/ Target(r) \/ Commit(r) \/ Release(r) \/ GiveUp(r)
    PROVE  AccessInv'
<1>1. UNCHANGED <<scenario, side, inherited, wire, landed>>
  BY DEF ClaimGate, Drain, Target, Commit, Release, GiveUp, external, rows
<1>2. req[r].kind = "switch"
  BY DEF ClaimGate, Drain, Target, Commit, Release, GiveUp, TypeInv, RequestInv, RequestOK, SwitchSteps
<1>3. op'["create"] = op["create"] /\ op'["delete"] = op["delete"]
  <2>1. CASE Commit(r)
    BY <2>1, CommitEffect DEF Kinds
  <2> QED
    BY <2>1 DEF ClaimGate, Drain, Target, Release, GiveUp, rows
<1>4. \A q \in Requests : req'[q] = req[q] \/ req'[q].kind = "switch" \/ req'[q] = NoRequest
  <2>1. CASE Answer(r)
    BY <2>1, AnswerEffect
  <2>2. ASSUME NEW pc \in SwitchSteps, Goes(r, pc)
        PROVE  \A q \in Requests : req'[q] = req[q] \/ req'[q].kind = "switch"
    <3>1. pc \in Positions
      BY DEF SwitchSteps, Positions
    <3> QED
      BY <1>2, <2>2, <3>1, GoesEffect
  <2>3. CASE GiveUp(r)
    <3> DEFINE o == Sees("conflict", TRUE, "needs_repair")
    <3>1. o \in Observations /\ "apply" \in Positions
      BY SeesType DEF Statuses, AccessStates, Positions
    <3>2. Observes(r, o, "apply")
      BY <2>3 DEF GiveUp
    <3> HIDE DEF o
    <3> QED
      BY <1>2, <3>1, <3>2, ObservesEffect
  <2>4. Answer(r) \/ (\E pc \in SwitchSteps : Goes(r, pc)) \/ GiveUp(r)
    BY ClaimGateEffect, CommitEffect DEF Drain, Target, Release, SwitchSteps
  <2> QED
    BY <2>1, <2>2, <2>3, <2>4
<1>5. \A q \in Requests :
         req'[q].kind = "create" /\ req'[q].obs.access = "bootstrap_required" => Fenced
  BY <1>4, NoRequestType DEF AccessInv
<1>6. \A q \in Requests : Sending(q, "create")' => Sending(q, "create")
  BY <1>4, NoRequestType DEF Sending, Senders
<1> QED
  BY <1>1, <1>3, <1>5, <1>6, AccessKept DEF AccessInv

\* The branch is copied once, before it can be reported as fenced; deleting it
\* copies no role.
LEMMA ProviderAccess ==
    ASSUME TypeInv, CallInv, AccessInv, NEW k \in {"create", "delete"},
           Lands(k) \/ Refuses(k) \/ Settles
    PROVE  AccessInv'
<1>1. UNCHANGED <<scenario, op, req>> /\ Creates' = Creates
  BY DEF Lands, Refuses, Settles, rows, Creates
<1>2. \A q \in Requests : Sending(q, "create")' = Sending(q, "create")
  BY <1>1 DEF Sending
<1>3. CASE Lands("create")
  <2>1. /\ wire["create"] = "sent" /\ landed'["create"] = landed["create"] + 1
        /\ side' = "creating"
    BY <1>3 DEF Lands, TypeInv, Types, Kinds
  <2>2. Creates /\ landed["create"] = 0 /\ landed'["create"] = 1 /\ side = "absent"
    BY <2>1 DEF AccessInv, CallInv, LandedInv, Effective, Kinds
  <2>3. ~Fenced
    BY <2>2 DEF Fenced
  <2> QED
    BY <1>1, <1>2, <2>1, <2>2, <2>3 DEF AccessInv
<1>4. CASE Lands("delete")
  <2>1. /\ wire["delete"] = "sent" /\ landed'["create"] = landed["create"]
        /\ wire'["create"] = wire["create"]
        /\ side' = "deleting" /\ inherited' = inherited
    BY <1>4 DEF Lands, TypeInv, Types, Kinds
  <2>2. op["delete"].state # "none"
    BY <2>1 DEF CallInv, FenceInv, Crossed, CrossedStates, Started, Kinds
  <2>3. side # "absent" /\ (Fenced => Fenced')
    BY <2>1, <2>2 DEF AccessInv, Fenced
  <2> QED
    BY <1>1, <1>2, <2>1, <2>2, <2>3 DEF AccessInv
<1>5. CASE Refuses(k)
  <2>1. /\ UNCHANGED <<side, inherited, landed>> /\ Fenced' = Fenced
        /\ ~Creates => wire'["create"] = wire["create"]
    BY <1>5 DEF Refuses, TypeInv, Types, Kinds, Fenced, AccessInv
  <2> QED
    BY <1>1, <1>2, <2>1 DEF AccessInv
<1>6. CASE Settles
  <2>1. /\ UNCHANGED <<wire, inherited, landed>> /\ (Fenced => Fenced')
        /\ side # "absent" /\ side' # "absent"
    BY <1>6 DEF Settles, Fenced
  <2> QED
    BY <1>1, <1>2, <2>1 DEF AccessInv
<1> QED
  BY <1>3, <1>4, <1>5, <1>6

LEMMA NextAccess ==
    ASSUME TypeInv, CallInv, AccessInv, [Next]_vars
    PROVE  AccessInv'
<1>1. CASE UNCHANGED vars
  BY <1>1 DEF vars, AccessInv, Fenced, Creates, Sending
<1>2. ASSUME NEW m \in Members, NEW k \in Kinds, NEW c \in Connections,
             \/ Plan(m, k) \/ Approve(m, k) \/ Reject(m, k) \/ PlanExpires(k) \/ StartIsOverdue(k)
             \/ Bootstrap(m) \/ Import(m) \/ LosesAuthority(m) \/ IntegrationChanges \/ Discover
             \/ EditConnection(c) \/ IssueLease(c) \/ LeaseEnds(c) \/ GateGoesStale
      PROVE  AccessInv'
  BY <1>2, WorkspaceAccess
<1>3. ASSUME NEW r \in Requests, \E m \in Members, k \in Kinds : Begin(r, m, k)
      PROVE  AccessInv'
  BY <1>3, RequestAccess
<1>4. ASSUME NEW r \in Requests, Proceed(r) \/ Fails(r)
      PROVE  AccessInv'
  BY <1>4, FenceAccess, SendAccess, RequestAccess, ApplyAccess, SwitchAccess DEF Proceed
<1>5. ASSUME NEW k \in {"create", "delete"}, Lands(k) \/ Refuses(k) \/ Settles
      PROVE  AccessInv'
  BY <1>5, ProviderAccess
<1>6. "moving" \in Connections /\ Members # {} /\ "create" \in Kinds
  BY MembersAssumption DEF Connections, Kinds
<1> QED
  BY <1>1, <1>2, <1>3, <1>4, <1>5, <1>6 DEF Next

LEMMA AccessInvariant == Spec => []AccessInv
<1>1. Init => AccessInv
  BY InitAccess
<1>2. TypeInv /\ CallInv /\ AccessInv /\ [Next]_vars => AccessInv'
  BY NextAccess
<1> QED
  BY <1>1, <1>2, TypeInvariant, CallInvariant, PTL DEF Spec

\* retireInheritedNeonLeaseRoles before completeProviderOperationBootstrap: a
\* branch is opened to managed access, whatever recorded its create and whoever
\* reconciled it, only once no temporary role copied from the source can log in.
THEOREM AccessFenced == Spec => []ManagedAccessIsFenced
<1>1. AccessInv => ManagedAccessIsFenced
  BY DEF AccessInv, Fenced, ManagedAccessIsFenced
<1> QED
  BY <1>1, AccessInvariant, PTL

\* The candidate of applyProviderOperationReconciliation: no late observation,
\* retry or second request changes the state of a finished operation, and none
\* takes back managed access that was bootstrapped.
THEOREM FinalOutcome == Spec => TerminalIsFinal
<1>1. TypeInv /\ AccessInv /\ [Next]_vars =>
         [\A k \in Kinds : op[k].state \in Terminal =>
             /\ op'[k].state = op[k].state
             /\ op[k].access = "ready" => op'[k].access = "ready"]_vars
  BY NextFinal DEF FinalRow
<1> QED
  BY <1>1, TypeInvariant, AccessInvariant, PTL DEF Spec, TerminalIsFinal

-----------------------------------------------------------------------------
(* Leases and connections. *)

\* A lease is for the branch of an existing connection, and a connection is
\* imported for the side branch only.
LeaseInv ==
    /\ \A c \in Connections : Leased(c) => conn[c].exists /\ lease[c] = conn[c].branch
    /\ conn["imported"].exists => conn["imported"].branch = "side"

LEMMA InitLease == ASSUME Init PROVE LeaseInv
BY DEF Init, LeaseInv, Leased, Connections, NewConnection

\* Leases only end, and the connections stay where they point.
LEMMA LeasesStay ==
    ASSUME LeaseInv, SameConnections, \A c \in Connections : lease'[c] \in {lease[c], NoOne}
    PROVE  LeaseInv'
BY DEF LeaseInv, SameConnections, Leased, Connections

LEMMA CommitLease ==
    ASSUME TypeInv, LeaseInv, NEW r \in Requests, Commit(r)
    PROVE  LeaseInv'
<1>1. lease' = lease
  BY DEF Commit, rows
<1>2. CASE conn' = conn
  BY <1>1, <1>2, LeasesStay DEF SameConnections
<1>3. CASE conn' # conn
  <2>1. ~Leased("moving") /\ conn'["imported"] = conn["imported"]
    BY <1>3, CommitEffect DEF Committable, EmptyEpoch
  <2> QED
    BY <1>1, <2>1 DEF LeaseInv, Leased, Connections
<1> QED
  BY <1>2, <1>3

LEMMA NextLease ==
    ASSUME TypeInv, LeaseInv, [Next]_vars
    PROVE  LeaseInv'
<1>1. CASE UNCHANGED <<conn, lease>>
  BY <1>1 DEF LeaseInv, Leased
<1>2. ASSUME NEW m \in Members, Import(m)
      PROVE  LeaseInv'
  <2>1. ~conn["imported"].exists
    BY <1>2 DEF Import, On, LeaseInv, Connections
  <2>2. ~Leased("imported") /\ lease' = lease
    BY <1>2, <2>1 DEF Import, LeaseInv, Connections
  <2> QED
    BY <1>2, <2>2, ImportEffect DEF LeaseInv, Leased, Connections
<1>3. ASSUME NEW c \in Connections, EditConnection(c)
      PROVE  LeaseInv'
  BY <1>3, EditEffect, LeasesStay DEF EditConnection, rows
<1>4. ASSUME NEW c \in Connections, IssueLease(c)
      PROVE  LeaseInv'
  <2>1. /\ conn' = conn /\ conn[c].exists /\ lease'[c] = conn[c].branch
        /\ \A d \in Connections : d # c => lease'[d] = lease[d]
    BY <1>4 DEF IssueLease, TypeInv, Types
  <2> QED
    BY <2>1 DEF LeaseInv, Leased
<1>5. ASSUME NEW c \in Connections, LeaseEnds(c)
      PROVE  LeaseInv'
  BY <1>5, LeasesStay DEF LeaseEnds, SameConnections, TypeInv, Types
<1>6. CASE GateGoesStale
  BY <1>6, StaleEffect, LeasesStay DEF GateGoesStale, rows
<1>7. ASSUME NEW r \in Requests, ClaimGate(r)
      PROVE  LeaseInv'
  BY <1>7, ClaimGateEffect, LeasesStay DEF ClaimGate, rows
<1>8. ASSUME NEW r \in Requests, Drain(r)
      PROVE  LeaseInv'
  <2>1. conn' = conn /\ \A c \in Connections : lease'[c] \in {lease[c], NoOne}
    BY <1>8 DEF Drain, TypeInv, Types
  <2> QED
    BY <2>1, LeasesStay DEF SameConnections
<1>9. ASSUME NEW r \in Requests, Release(r) \/ GiveUp(r)
      PROVE  LeaseInv'
  BY <1>9, ReleaseEffect, LeasesStay DEF Release, GiveUp, rows
<1> QED
  BY <1>1, <1>2, <1>3, <1>4, <1>5, <1>6, <1>7, <1>8, <1>9, CommitLease
  DEF Next, vars, Plan, Approve, Reject, PlanExpires, StartIsOverdue, Begin, Proceed, CancelExpired,
      Claim, MarkRemoteStarted, Send, Receive, Observe, Apply, Target, Fails, Lands, Refuses, Settles,
      Bootstrap, LosesAuthority, IntegrationChanges, Discover, rows

LEMMA LeaseInvariant == Spec => []LeaseInv
<1>1. Init => LeaseInv
  BY InitLease
<1>2. TypeInv /\ LeaseInv /\ [Next]_vars => LeaseInv'
  BY NextLease
<1> QED
  BY <1>1, <1>2, TypeInvariant, PTL DEF Spec

\* completeNeonBranchSwitch moves a connection only over an empty lease epoch it
\* owns: an unrevoked credential lease is always for the branch its connection
\* points at, whichever requests race for the connection's gate.
THEOREM LeasesFollow == Spec => []LeasesFollowTheConnection
<1>1. LeaseInv => LeasesFollowTheConnection
  BY DEF LeaseInv, LeasesFollowTheConnection
<1> QED
  BY <1>1, LeaseInvariant, PTL

-----------------------------------------------------------------------------
(* A deleted branch. *)

\* A deletion that passed the fence found the branch unreferenced; nothing can
\* be imported for it afterwards; and its receipts and observations finish it
\* only when the provider answered the call with an error.
DeleteInv ==
    /\ op["delete"].state \notin {"succeeded", "needs_repair"}
    /\ \A r \in Requests : req[r].kind = "delete" /\ req[r].pc \in {"record", "apply"} =>
          req[r].obs.access = "unavailable" /\ (req[r].obs.branch \/ req[r].obs.status = "failed")
    /\ side \in {"deleting", "gone"} => wire["delete"] \in Effective
    /\ op["delete"].state \in Started => ~On("imported", "side")

\* What a request about to record or apply says of a deletion.
DeletesHonestly(r) ==
    req[r].kind = "delete" /\ req[r].pc \in {"record", "apply"} =>
        req[r].obs.access = "unavailable" /\ (req[r].obs.branch \/ req[r].obs.status = "failed")

LEMMA InitDelete == ASSUME Init PROVE DeleteInv
<1>1. \A r \in Requests : req[r].pc = "idle"
  BY NoRequestType DEF Init
<1>2. op["delete"] = NoOperation
  BY DEF Init, Kinds
<1>3. side \notin {"deleting", "gone"}
  BY DEF Init
<1> QED
  BY <1>1, <1>2, <1>3 DEF DeleteInv, NoOperation, Started

\* The imported connection exists and points where it did.
SameImported ==
    /\ conn'["imported"].exists = conn["imported"].exists
    /\ conn'["imported"].branch = conn["imported"].branch

\* A step that leaves the provider and the imported connection alone.
LEMMA DeleteKept ==
    ASSUME DeleteInv, UNCHANGED <<side, wire>>, SameImported,
           op'["delete"].state \notin {"succeeded", "needs_repair"},
           op'["delete"].state \in Started =>
              op["delete"].state \in Started \/ ~On("imported", "side"),
           \A r \in Requests : DeletesHonestly(r)'
    PROVE  DeleteInv'
<1>1. On("imported", "side")' => On("imported", "side")
  BY DEF SameImported, On
<1> QED
  BY <1>1 DEF DeleteInv, DeletesHonestly

\* The same for a step that touches no operation row.
LEMMA DeleteStays ==
    ASSUME DeleteInv, UNCHANGED <<side, wire, op>>, SameImported,
           \A r \in Requests : DeletesHonestly(r)'
    PROVE  DeleteInv'
BY DeleteKept DEF DeleteInv

\* The same for a step of one request.
LEMMA RequestDelete ==
    ASSUME DeleteInv, UNCHANGED <<side, wire, op>>, SameImported, NEW r \in Requests,
           \A q \in Requests : q # r => req'[q] = req[q],
           DeletesHonestly(r)'
    PROVE  DeleteInv'
<1>1. \A q \in Requests : DeletesHonestly(q)'
  BY DEF DeleteInv, DeletesHonestly
<1> QED
  BY <1>1, DeleteStays

LEMMA PlanningDelete ==
    ASSUME TypeInv, DeleteInv, NEW m \in Members, NEW k \in Kinds,
           \/ Plan(m, k) \/ Approve(m, k) \/ Reject(m, k) \/ PlanExpires(k) \/ StartIsOverdue(k)
           \/ Bootstrap(m)
    PROVE  DeleteInv'
<1>1. UNCHANGED <<req, side, wire, conn>>
  BY DEF Plan, Approve, Reject, PlanExpires, StartIsOverdue, Bootstrap, rows, external
<1>2. SameImported /\ \A r \in Requests : DeletesHonestly(r)'
  BY <1>1 DEF SameImported, DeleteInv, DeletesHonestly
<1>3. \A j \in Kinds : \/ op'[j].state = op[j].state
                       \/ op[j].state = "none" /\ op'[j].state = "awaiting_approval"
                       \/ /\ op[j].state = "awaiting_approval"
                          /\ op'[j].state \in {"approved", "cancelled"}
  BY PlanEffect, ApproveEffect, RejectEffect, DeadlineEffect, BootstrapEffect
<1>4. "delete" \in Kinds
  BY DEF Kinds
<1> QED
  BY <1>1, <1>2, <1>3, <1>4, DeleteKept DEF DeleteInv, Started

LEMMA WorkspaceDelete ==
    ASSUME TypeInv, LeaseInv, DeleteInv, NEW m \in Members, NEW c \in Connections,
           \/ Import(m) \/ LosesAuthority(m) \/ IntegrationChanges \/ Discover
           \/ EditConnection(c) \/ IssueLease(c) \/ LeaseEnds(c) \/ GateGoesStale
    PROVE  DeleteInv'
<1>1. UNCHANGED <<req, side, wire, op>>
  BY DEF Import, LosesAuthority, IntegrationChanges, Discover, EditConnection, IssueLease, LeaseEnds,
         GateGoesStale, rows, external
<1>2. \A r \in Requests : DeletesHonestly(r)'
  BY <1>1 DEF DeleteInv, DeletesHonestly
<1>3. CASE Import(m)
  <2>1. op["delete"].state \notin Started
    BY <1>3 DEF Import, ImportBlocked
  <2> QED
    BY <1>1, <1>2, <2>1 DEF DeleteInv, DeletesHonestly
<1>4. CASE SameImported
  BY <1>1, <1>2, <1>4, DeleteStays
<1>5. Import(m) \/ SameImported
  BY EditEffect, StaleEffect
  DEF SameImported, SameConnections, Connections, LosesAuthority, IntegrationChanges, Discover, IssueLease, LeaseEnds
<1> QED
  BY <1>3, <1>4, <1>5

LEMMA FenceDelete ==
    ASSUME TypeInv, DeleteInv, NEW r \in Requests,
           CancelExpired(r) \/ Claim(r) \/ MarkRemoteStarted(r)
    PROVE  DeleteInv'
<1> DEFINE k == req[r].kind
<1>1. UNCHANGED <<side, wire, conn>> /\ k \in Kinds
  BY KindOf DEF CancelExpired, Claim, MarkRemoteStarted, external, rows
<1>2. /\ req'[r].pc \notin {"record", "apply"}
      /\ \A q \in Requests : q # r => req'[q] = req[q]
  <2>1. ASSUME NEW pc \in {"mark", "gate", "observe", "send"}, Goes(r, pc)
        PROVE  /\ req'[r].pc \notin {"record", "apply"}
               /\ \A q \in Requests : q # r => req'[q] = req[q]
    <3>1. pc \in Positions
      BY DEF Positions
    <3> QED
      BY <2>1, <3>1, GoesEffect
  <2> QED
    BY <2>1, FenceMoves, AnswerEffect
<1>3. SameImported /\ \A q \in Requests : DeletesHonestly(q)'
  BY <1>1, <1>2 DEF SameImported, DeleteInv, DeletesHonestly
<1>4. \/ op'["delete"].state = op["delete"].state
      \/ op'["delete"].state \in {"claimed", "cancelled"}
      \/ op'["delete"].state = "remote_started" /\ Unreferenced
  BY <1>1, FenceEffect DEF Kinds
<1>5. Unreferenced => ~On("imported", "side")
  BY DEF Unreferenced, Connections
<1> QED
  BY <1>1, <1>3, <1>4, <1>5, DeleteKept DEF DeleteInv, Started

LEMMA RequestsDelete ==
    ASSUME TypeInv, DeleteInv, NEW r \in Requests,
           \/ \E m \in Members, k \in Kinds : Begin(r, m, k)
           \/ Receive(r) \/ Observe(r) \/ Fails(r)
    PROVE  DeleteInv'
<1>1. UNCHANGED <<op, side, wire>> /\ SameImported
  BY DEF Begin, Receive, Observe, Fails, rows, external, SameImported
<1>2. ASSUME NEW m \in Members, NEW k \in Kinds, Begin(r, m, k)
      PROVE  DeleteInv'
  <2>1. DeletesHonestly(r)'
    BY <1>2, BeginEffect DEF DeletesHonestly
  <2> QED
    BY <1>1, <1>2, <2>1, BeginEffect, RequestDelete
<1>3. CASE Receive(r)
  <2>1. "send" \in Positions /\ "record" \in Positions
    BY DEF Positions
  <2>2. CASE Goes(r, "send")
    <3>1. DeletesHonestly(r)'
      BY <2>1, <2>2, GoesEffect DEF DeletesHonestly
    <3> QED
      BY <1>1, <2>1, <2>2, <3>1, GoesEffect, RequestDelete
  <2>3. ASSUME NEW o \in Observations, Observes(r, o, "record"),
               req[r].kind = "delete" =>
                  o.access = "unavailable" /\ (o.branch \/ o.status = "failed")
        PROVE  DeleteInv'
    <3>1. DeletesHonestly(r)'
      BY <2>1, <2>3, ObservesEffect DEF DeletesHonestly
    <3> QED
      BY <1>1, <2>1, <2>3, <3>1, ObservesEffect, RequestDelete
  <2> QED
    BY <1>3, <2>2, <2>3, ReceiveMoves
<1>4. CASE Observe(r)
  <2>1. PICK o \in Observations : /\ Observes(r, o, "apply")
                                  /\ req[r].kind = "delete" => o.access = "unavailable" /\ o.branch
    BY <1>4, ObserveMoves
  <2>2. "apply" \in Positions
    BY DEF Positions
  <2>3. DeletesHonestly(r)'
    BY <2>1, <2>2, ObservesEffect DEF DeletesHonestly
  <2> QED
    BY <1>1, <2>1, <2>2, <2>3, ObservesEffect, RequestDelete
<1>5. CASE Fails(r)
  <2>1. Answer(r)
    BY <1>5 DEF Fails
  <2>2. DeletesHonestly(r)'
    BY <2>1, AnswerEffect DEF DeletesHonestly
  <2> QED
    BY <1>1, <2>1, <2>2, AnswerEffect, RequestDelete
<1> QED
  BY <1>2, <1>3, <1>4, <1>5

LEMMA SendDelete ==
    ASSUME TypeInv, CallInv, DeleteInv, NEW r \in Requests, Send(r)
    PROVE  DeleteInv'
<1>1. UNCHANGED <<op, side, conn>> /\ req[r].pc = "send"
  BY DEF Send, rows
<1>2. wire["delete"] \in Effective => wire'["delete"] \in Effective
  BY <1>1, SendEffect DEF CallInv, LandedInv, TypeInv, Types, Kinds, Effective
<1>3. /\ req'[r].pc = "await"
      /\ \A q \in Requests : q # r => req'[q] = req[q]
  BY SendEffect
<1>4. On("imported", "side")' = On("imported", "side")
  BY <1>1 DEF On
<1> QED
  BY <1>1, <1>2, <1>3, <1>4 DEF DeleteInv

\* The only observation of a deletion that is accepted is its denial.
LEMMA ApplyDelete ==
    ASSUME TypeInv, DeleteInv, NEW r \in Requests, Apply(r)
    PROVE  DeleteInv'
<1> DEFINE k == req[r].kind
           o == req[r].obs
<1>1. UNCHANGED <<side, wire, conn>> /\ SameImported
  BY DEF Apply, external, rows, SameImported
<1>2. /\ req'[r].pc \in {"observe", "idle"}
      /\ \A q \in Requests : q # r => req'[q] = req[q]
  BY GoesEffect, AnswerEffect DEF Apply, Positions
<1>3. \A q \in Requests : DeletesHonestly(q)'
  BY <1>2 DEF DeleteInv, DeletesHonestly
<1>4. CASE op' = op
  BY <1>1, <1>3, <1>4, DeleteStays
<1>5. CASE op' # op /\ k = "delete"
  <2>1. /\ op["delete"].state \in Started /\ ValidObservation(o)
        /\ op'["delete"].state = TargetState("delete", o)
    BY <1>5, ApplyEffect DEF NeedsFence, Kinds
  <2>2. o.access = "unavailable" /\ (o.branch \/ o.status = "failed")
    BY <1>5, ApplyEffect DEF DeleteInv
  <2>3. o.status = "failed" /\ ~o.branch
    BY <2>1, <2>2 DEF ValidObservation
  <2>4. TargetState("delete", o) = "failed"
    BY <2>3 DEF TargetState
  <2>5. op'["delete"].state = "failed"
    BY <2>1, <2>4
  <2> QED
    BY <1>1, <1>3, <2>1, <2>5, DeleteKept DEF Started
<1>6. CASE k # "delete"
  <2>1. op'["delete"] = op["delete"]
    BY <1>6, ApplyEffect, KindOf DEF Kinds
  <2> QED
    BY <1>1, <1>3, <2>1, DeleteKept DEF DeleteInv
<1> QED
  BY <1>4, <1>5, <1>6

\* A switch moves its own connection.
LEMMA SwitchDelete ==
    ASSUME TypeInv, DeleteInv, NEW r \in Requests,
           ClaimGate(r) \/ Drain(r) \/ Target(r) \/ Commit(r) \/ Release(r) \/ GiveUp(r)
    PROVE  DeleteInv'
<1>1. UNCHANGED <<side, wire>> /\ req[r].kind = "switch"
  BY DEF ClaimGate, Drain, Target, Commit, Release, GiveUp, external, rows, TypeInv, RequestInv,
         RequestOK, SwitchSteps
<1>2. \A q \in Requests : q # r => req'[q] = req[q]
  <2>1. ASSUME NEW pc \in SwitchSteps, Goes(r, pc)
        PROVE  \A q \in Requests : q # r => req'[q] = req[q]
    BY <2>1, GoesEffect DEF SwitchSteps, Positions
  <2>2. CASE GiveUp(r)
    <3> DEFINE o == Sees("conflict", TRUE, "needs_repair")
    <3>1. o \in Observations /\ "apply" \in Positions /\ Observes(r, o, "apply")
      BY <2>2, SeesType DEF Statuses, AccessStates, Positions, GiveUp
    <3> HIDE DEF o
    <3> QED
      BY <3>1, ObservesEffect
  <2>3. Answer(r) \/ (\E pc \in SwitchSteps : Goes(r, pc)) \/ GiveUp(r)
    BY ClaimGateEffect, CommitEffect DEF Drain, Target, Release, SwitchSteps
  <2> QED
    BY <2>1, <2>2, <2>3, AnswerEffect
<1>3. req'[r].kind = "switch" \/ req'[r].pc = "idle"
  <2>1. ASSUME NEW pc \in SwitchSteps, Goes(r, pc)
        PROVE  req'[r].kind = "switch"
    BY <1>1, <2>1, GoesEffect DEF SwitchSteps, Positions
  <2>2. CASE GiveUp(r)
    <3> DEFINE o == Sees("conflict", TRUE, "needs_repair")
    <3>1. o \in Observations /\ "apply" \in Positions /\ Observes(r, o, "apply")
      BY <2>2, SeesType DEF Statuses, AccessStates, Positions, GiveUp
    <3> HIDE DEF o
    <3> QED
      BY <1>1, <3>1, ObservesEffect
  <2>3. Answer(r) \/ (\E pc \in SwitchSteps : Goes(r, pc)) \/ GiveUp(r)
    BY ClaimGateEffect, CommitEffect DEF Drain, Target, Release, SwitchSteps
  <2> QED
    BY <2>1, <2>2, <2>3, AnswerEffect
<1>4. \A q \in Requests : DeletesHonestly(q)'
  BY <1>2, <1>3 DEF DeleteInv, DeletesHonestly
<1>5. op'["delete"] = op["delete"]
  <2>1. CASE Commit(r)
    BY <2>1, CommitEffect DEF Kinds
  <2>2. CASE ~Commit(r)
    BY <2>2 DEF ClaimGate, Drain, Target, Release, GiveUp
  <2> QED
    BY <2>1, <2>2
<1>6. SameImported
  BY ClaimGateEffect, CommitEffect, ReleaseEffect
  DEF ClaimGate, Drain, Target, Release, GiveUp, rows, SameConnections, SameImported, Connections
<1> QED
  BY <1>1, <1>4, <1>5, <1>6, DeleteKept DEF DeleteInv

LEMMA ProviderDelete ==
    ASSUME TypeInv, DeleteInv, NEW k \in {"create", "delete"}, Lands(k) \/ Refuses(k) \/ Settles
    PROVE  DeleteInv'
<1>1. UNCHANGED <<op, conn, req>>
  BY DEF Lands, Refuses, Settles, rows
<1>2. side' \in {"deleting", "gone"} => wire'["delete"] \in Effective
  BY DEF Lands, Refuses, Settles, TypeInv, Types, Kinds, DeleteInv, Effective
<1>3. On("imported", "side")' = On("imported", "side")
  BY <1>1 DEF On
<1> QED
  BY <1>1, <1>2, <1>3 DEF DeleteInv

LEMMA NextDelete ==
    ASSUME TypeInv, CallInv, LeaseInv, DeleteInv, [Next]_vars
    PROVE  DeleteInv'
<1>1. CASE UNCHANGED vars
  BY <1>1 DEF vars, DeleteInv, On
<1>2. ASSUME NEW m \in Members, NEW k \in Kinds, NEW c \in Connections,
             \/ Plan(m, k) \/ Approve(m, k) \/ Reject(m, k) \/ PlanExpires(k) \/ StartIsOverdue(k)
             \/ Bootstrap(m) \/ Import(m) \/ LosesAuthority(m) \/ IntegrationChanges \/ Discover
             \/ EditConnection(c) \/ IssueLease(c) \/ LeaseEnds(c) \/ GateGoesStale
      PROVE  DeleteInv'
  BY <1>2, PlanningDelete, WorkspaceDelete
<1>3. ASSUME NEW r \in Requests, \E m \in Members, k \in Kinds : Begin(r, m, k)
      PROVE  DeleteInv'
  BY <1>3, RequestsDelete
<1>4. ASSUME NEW r \in Requests, Proceed(r) \/ Fails(r)
      PROVE  DeleteInv'
  BY <1>4, FenceDelete, SendDelete, RequestsDelete, ApplyDelete, SwitchDelete DEF Proceed
<1>5. ASSUME NEW k \in {"create", "delete"}, Lands(k) \/ Refuses(k) \/ Settles
      PROVE  DeleteInv'
  BY <1>5, ProviderDelete
<1>6. "moving" \in Connections /\ Members # {} /\ "create" \in Kinds
  BY MembersAssumption DEF Connections, Kinds
<1> QED
  BY <1>1, <1>2, <1>3, <1>4, <1>5, <1>6 DEF Next

\* markProviderOperationRemoteStarted starts a deletion only of an unreferenced
\* branch and importScope blocks imports of it from then on: a branch whose
\* deletion reached the provider has no imported connection and no credential
\* lease of one, unless the deletion was answered with an error and recorded as
\* failed.
THEOREM DeletionExcludes == Spec => []DeletionExcludesImports
<1>1. Init => DeleteInv
  BY InitDelete
<1>2. TypeInv /\ CallInv /\ LeaseInv /\ DeleteInv /\ [Next]_vars => DeleteInv'
  BY NextDelete
<1>3. TypeInv /\ CallInv /\ LeaseInv /\ DeleteInv => DeletionExcludesImports
  <2> SUFFICES ASSUME TypeInv, CallInv, LeaseInv, DeleteInv, side \in {"deleting", "gone"},
                      op["delete"].state # "failed"
               PROVE  ~On("imported", "side") /\ lease["imported"] # "side"
    BY DEF DeletionExcludesImports
  <2>1. Crossed("delete")
    BY DEF DeleteInv, CallInv, FenceInv, Effective, Kinds
  <2>2. op["delete"].state \in Started
    BY <2>1 DEF DeleteInv, Crossed, CrossedStates
  <2>3. ~On("imported", "side")
    BY <2>2 DEF DeleteInv
  <2> QED
    BY <2>3 DEF LeaseInv, Leased, On, NoOne, Connections
<1> QED
  BY <1>1, <1>2, <1>3, TypeInvariant, CallInvariant, LeaseInvariant, PTL DEF Spec

=============================================================================
