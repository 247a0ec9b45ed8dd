------------------------- MODULE OperationRuntime -------------------------
(***************************************************************************)
(* The Operation Runtime of the desktop application: the SQLite repository *)
(* of operations with its append-only ledger and its approvals, the calls  *)
(* that plan, decide, claim, run and cancel an operation, the part of the  *)
(* Broker session registry that ties an Agent proposal to its session, and *)
(* the startup recovery that follows a crash.                              *)
(*                                                                         *)
(* Every call in flight is a task. One action is one SQLite transaction,   *)
(* one registry access or one read that is followed by an await: between   *)
(* two actions of a task any other task may act. The target database is    *)
(* outside the program; "commits" counts what an operation did to it.      *)
(***************************************************************************)
EXTENDS OperationStates, Naturals, Sequences, FiniteSets

CONSTANTS
    Ops,          \* idempotency keys, each naming at most one stored operation
    Callers,      \* concurrent calls into the runtime
    Consumer,     \* the task of bind_proposal_revocation
    Sessions,     \* Broker (Agent or Terminal) sessions
    Payloads,     \* canonical payloads, standing for their SHA-256
    Policies,     \* policy revisions
    KindOf,       \* the kind an operation is planned with
    SessionOf,    \* the session that proposes it, or None for the local user
    None,
    MaxRuntime,   \* bound on restarts
    MaxTracked,   \* MAX_TRACKED_PROPOSALS_PER_SESSION
    Manual        \* may the connection hold a manual transaction (begin)

ASSUME ConstantsAssumption ==
    /\ KindOf \in [Ops -> Kinds]
    /\ SessionOf \in [Ops -> Sessions \cup {None}]
    /\ Consumer \notin Callers
    /\ None \notin Ops \cup Sessions \cup Payloads \cup Policies
    /\ MaxRuntime \in Nat
    /\ MaxTracked \in Nat \ {0}
    /\ Manual \in BOOLEAN

VARIABLES
    ops,          \* table operations: the projection, "absent" before the insert
    ledger,       \* table operation_events: the states of an operation's events
    approvals,    \* table operation_approvals
    runtime,      \* OperationRuntime.runtime_id of the running process
    policy,       \* the current policy revision (settings, scope, binding)
    session,      \* BrokerSessionRegistry.sessions
    tracked,      \* BrokerSessionRegistry.proposals
    sink,         \* proposals handed to the revocation consumer
    task,         \* the calls in flight
    signal,       \* executor::cancel::REGISTRY: has the slot been signalled
    manual,       \* phase of the connection's manual transaction, "none" without
    staged,       \* writes that the open manual transaction holds uncommitted
    confirmed,    \* operations whose success receipt says "committed": true
    commits,      \* history: commits at the target, per operation
    claimLive     \* history: was the proposing session live at the last claim

Tasks == Callers \cup {Consumer}

db == <<ops, ledger, approvals>>
broker == <<session, tracked, sink>>
effects == <<manual, staged, confirmed, commits, claimLive>>
vars == <<db, runtime, policy, broker, task, signal, effects>>

PcBeforeClaim == {"claim_check", "claim_cancel", "claim_tx"}
PcAfterClaim == {"claim_recheck", "granted", "connect", "receipt", "receipt_retry"}
PcRun == PcBeforeClaim \cup PcAfterClaim
PcOther == {"idle", "plan_insert", "plan_dispose", "plan_track", "decide_policy",
            "decide_tx", "cleanup_read", "cleanup_cancel", "cancel_before"}

\* What a task carries: the operation, the payload it plans or the payload the
\* human reviewed, the policy revision it captured, whether the clock it read
\* was past the expiry, and the decision or execution result it will write.
TaskRecords ==
    [pc : PcRun \cup PcOther, op : Ops \cup {None}, payload : Payloads \cup {None},
     policy : Policies \cup {None}, late : BOOLEAN,
     choice : {"none", "approved", "rejected",
               "succeeded", "staged", "failed", "cancelled", "outcome_unknown"}]

IdleTask == [pc |-> "idle", op |-> None, payload |-> None, policy |-> None,
             late |-> FALSE, choice |-> "none"]

AbsentOp == [state |-> "absent", runtime |-> 0, payload |-> None,
             policy |-> None, due |-> FALSE]

StoredOps ==
    [state : States, runtime : 0..MaxRuntime, payload : Payloads,
     policy : Policies, due : BOOLEAN]

OpRecords == StoredOps \cup {AbsentOp}

\* A row of operation_approvals. "seen" is history: the hash the human reviewed.
ApprovalRows ==
    [payload : Payloads, policy : Policies, decision : {"approved", "rejected"},
     seen : Payloads]

SessionStates == {"unissued", "live", "expired", "gone"}

Init ==
    /\ ops = [o \in Ops |-> AbsentOp]
    /\ ledger = [o \in Ops |-> <<>>]
    /\ approvals = [o \in Ops |-> {}]
    /\ runtime = 0
    /\ policy \in Policies
    /\ session = [s \in Sessions |-> "unissued"]
    /\ tracked = [s \in Sessions |-> <<>>]
    /\ sink = {}
    /\ task = [t \in Tasks |-> IdleTask]
    /\ signal = [o \in Ops |-> FALSE]
    /\ manual = "none"
    /\ staged = {}
    /\ confirmed = {}
    /\ commits = [o \in Ops |-> 0]
    /\ claimLive = [o \in Ops |-> FALSE]

-----------------------------------------------------------------------------
(* Repository primitives.                                                  *)

EnsureRuntime(o) == ops[o].runtime = runtime

\* transition_tx: the projection and its event in one transaction
TransitionTx(o, target) ==
    /\ ops' = [ops EXCEPT ![o].state = target]
    /\ ledger' = [ledger EXCEPT ![o] = Append(@, target)]

CanTransition(o, target) ==
    EnsureRuntime(o) /\ EnsureTransition(ops[o].state, target)

\* transition: a caller whose transition is refused changes nothing
Finish(o, target) ==
    IF CanTransition(o, target)
      THEN TransitionTx(o, target)
      ELSE UNCHANGED <<ops, ledger>>

\* Is a cancellation handle of o held by a task (executor::cancel::register)?
Registered(S, o) == \E t \in S : task[t].op = o /\ task[t].pc \in PcRun

\* The task returns; dropping the last handle of a slot drops its signal.
Return(t) ==
    /\ task' = [task EXCEPT ![t] = IdleTask]
    /\ signal' = [o \in Ops |-> signal[o] /\ Registered(Tasks \ {t}, o)]

Goto(t, pc) ==
    /\ task' = [task EXCEPT ![t].pc = pc]
    /\ UNCHANGED signal

\* A new call by an idle task.
Call(t, pc, o, payload, choice) ==
    /\ task[t].pc = "idle"
    /\ task' = [task EXCEPT ![t] = [IdleTask EXCEPT !.pc = pc, !.op = o,
                                       !.payload = payload, !.choice = choice]]

\* BrokerSessionRegistry::is_live
IsLive(s) == session[s] = "live"

\* proposing_session_revoked
SessionRevoked(o) == SessionOf[o] # None /\ ~IsLive(SessionOf[o])

-----------------------------------------------------------------------------
(* Planning.                                                               *)

\* A proposal arrives: an Agent's request is authenticated against a live
\* session, a local one needs none.
PlanStart(t, o, p) ==
    /\ SessionOf[o] # None => IsLive(SessionOf[o])
    /\ Call(t, "plan_insert", o, p, "none")
    /\ UNCHANGED <<db, runtime, policy, broker, signal, effects>>

\* PreparedOperation::matches
Matches(o, p) ==
    ops[o].runtime = runtime /\ ops[o].payload = p /\ ops[o].policy = policy

\* After plan the Broker tracks an Agent proposal; a local caller is done.
AfterPlan(t, o) ==
    IF SessionOf[o] = None THEN Return(t) ELSE Goto(t, "plan_track")

\* insert_planned
PlanInsert(t) ==
    LET o == task[t].op
        p == task[t].payload
    IN  /\ task[t].pc = "plan_insert"
        /\ \/ /\ ops[o].state = "absent"
              /\ ops' = [ops EXCEPT ![o] =
                           [state |-> "planned", runtime |-> runtime, payload |-> p,
                            policy |-> policy, due |-> FALSE]]
              /\ ledger' = [ledger EXCEPT ![o] = <<"planned">>]
              /\ Goto(t, "plan_dispose")
           \/ /\ ops[o].state # "absent"
              /\ Matches(o, p)
              /\ IF ops[o].state = "planned"
                   THEN Goto(t, "plan_dispose")
                   ELSE AfterPlan(t, o)
              /\ UNCHANGED <<ops, ledger>>
           \/ /\ ops[o].state # "absent"
              /\ ~Matches(o, p)
              /\ Return(t)
              /\ UNCHANGED <<ops, ledger>>
        /\ UNCHANGED <<approvals, runtime, policy, broker, effects>>

\* The disposition a kind is planned with: mutations always need an approval.
Disposition(kind) ==
    IF MayMutateTarget(kind) THEN "pending_approval" ELSE "ready"

\* The second transaction of OperationRuntime::plan
PlanDispose(t) ==
    LET o == task[t].op
    IN  /\ task[t].pc = "plan_dispose"
        /\ Finish(o, Disposition(KindOf[o]))
        /\ IF CanTransition(o, Disposition(KindOf[o]))
             THEN AfterPlan(t, o)
             ELSE Return(t)
        /\ UNCHANGED <<approvals, runtime, policy, broker, effects>>

\* Mutant: the overflow is drained one push too late.
PushTracked_LateDrain(s, o) ==
    LET longer == Append(tracked[s], o)
    IN  IF Len(tracked[s]) > MaxTracked THEN Tail(longer) ELSE longer

\* track_proposal: Vec::push, then drain the overflow from the front
PushTracked(s, o) ==
    LET longer == Append(tracked[s], o)
    IN  IF Len(longer) > MaxTracked THEN Tail(longer) ELSE longer

\* Mutant: a proposal whose session is already gone is dropped.
PlanTrack_DropsOrphan(t) ==
    LET o == task[t].op
        s == SessionOf[o]
    IN  /\ task[t].pc = "plan_track"
        /\ tracked' = IF session[s] \in {"live", "expired"}
                        THEN [tracked EXCEPT ![s] = PushTracked(s, o)] ELSE tracked
        /\ Return(t)
        /\ UNCHANGED <<db, runtime, policy, session, sink, effects>>


PlanTrack(t) ==
    LET o == task[t].op
        s == SessionOf[o]
    IN  /\ task[t].pc = "plan_track"
        /\ IF session[s] \in {"live", "expired"}
             THEN /\ tracked' = [tracked EXCEPT ![s] = PushTracked(s, o)]
                  /\ UNCHANGED sink
             ELSE /\ sink' = sink \cup {o}
                  /\ UNCHANGED tracked
        /\ Return(t)
        /\ UNCHANGED <<db, runtime, policy, session, effects>>

-----------------------------------------------------------------------------
(* Exact approval and rejection.                                           *)

\* exact_request of an approval: read the record, ask for the proposing session
ApproveRead(t, o, h) ==
    /\ ops[o].state # "absent"
    /\ IF SessionRevoked(o)
         THEN Call(t, "cleanup_read", o, None, "none")
         ELSE Call(t, "decide_policy", o, h, "approved")
    /\ UNCHANGED <<db, runtime, policy, broker, signal, effects>>

\* exact_request of a rejection: neither session nor confirmation is needed
RejectRead(t, o, h) ==
    /\ ops[o].state # "absent"
    /\ Call(t, "decide_policy", o, h, "rejected")
    /\ UNCHANGED <<db, runtime, policy, broker, signal, effects>>

\* exact_request: capture the current policy; decide_exact: read the clock
CapturePolicy(t) ==
    /\ task[t].pc = "decide_policy"
    /\ task' = [task EXCEPT ![t].pc = "decide_tx", ![t].policy = policy,
                            ![t].late = ops[task[t].op].due]
    /\ UNCHANGED <<db, runtime, policy, broker, signal, effects>>

\* Mutant: the reviewed payload hash is not compared.
IsExactDecision_AnyPayload(o, reviewed, captured) ==
    /\ EnsureRuntime(o)
    /\ ops[o].state = "pending_approval"
    /\ ops[o].policy = captured

\* Mutant: a decision is accepted on a plan that was already decided.
IsExactDecision_Again(o, reviewed, captured) ==
    /\ EnsureRuntime(o)
    /\ ops[o].state \in {"pending_approval", "approved"}
    /\ ops[o].payload = reviewed
    /\ ops[o].policy = captured

\* decide_approval refuses anything but the exact reviewed, current plan
IsExactDecision(o, reviewed, captured) ==
    /\ EnsureRuntime(o)
    /\ ops[o].state = "pending_approval"
    /\ ops[o].payload = reviewed
    /\ ops[o].policy = captured

\* decide_approval: the approval row and the transition in one transaction
DecideApproval(t) ==
    LET o == task[t].op
        row == [payload |-> ops[o].payload, policy |-> ops[o].policy,
                decision |-> task[t].choice, seen |-> task[t].payload]
    IN  /\ task[t].pc = "decide_tx"
        /\ \/ /\ ~IsExactDecision(o, task[t].payload, task[t].policy)
              /\ UNCHANGED db
           \/ /\ IsExactDecision(o, task[t].payload, task[t].policy)
              /\ task[t].late
              /\ TransitionTx(o, "expired")
              /\ UNCHANGED approvals
           \/ /\ IsExactDecision(o, task[t].payload, task[t].policy)
              /\ ~task[t].late
              /\ approvals' = [approvals EXCEPT ![o] = @ \cup {row}]
              /\ TransitionTx(o, task[t].choice)
        /\ Return(t)
        /\ UNCHANGED <<runtime, policy, broker, effects>>

-----------------------------------------------------------------------------
(* Claim and execution.                                                    *)

\* run: the caller checks the stored plan against the current policy, and
\* registers a cancellation handle before it claims. An Agent read is run by
\* its session and checks the policy only after the claim.
RunStart(t, o) ==
    /\ ops[o].state # "absent"
    /\ KindOf[o] \in {"read", "write"}   \* jobs and provider actions run elsewhere
    /\ \/ ops[o].policy = policy
       \/ KindOf[o] = "read" /\ SessionOf[o] # None
    /\ Call(t, "claim_check", o, None, "none")
    /\ UNCHANGED <<db, runtime, policy, broker, signal, effects>>

\* OperationRuntime::claim before the transaction: read the record, check the
\* proposing session, read the clock
ClaimCheck(t) ==
    LET o == task[t].op
    IN  /\ task[t].pc = "claim_check"
        /\ \/ /\ SessionRevoked(o)
              /\ ops[o].state \in UnclaimedStates
              /\ Goto(t, "claim_cancel")
           \/ /\ SessionRevoked(o)
              /\ ops[o].state \notin UnclaimedStates
              /\ Return(t)
           \/ /\ ~SessionRevoked(o)
              /\ task' = [task EXCEPT ![t].pc = "claim_tx", ![t].late = ops[o].due]
              /\ UNCHANGED signal
        /\ UNCHANGED <<db, runtime, policy, broker, effects>>

\* claim found the session revoked and closes the proposal
ClaimCancel(t) ==
    /\ task[t].pc = "claim_cancel"
    /\ Finish(task[t].op, "cancelled")
    /\ Return(t)
    /\ UNCHANGED <<approvals, runtime, policy, broker, effects>>

\* Mutant: the claim does not exclude an operation that is already executing.
IsExecutable_NoCas(o) ==
    EnsureRuntime(o) /\ ops[o].state \in {"ready", "approved", "executing"}

\* claim_execution: a state it may execute from
IsExecutable(o) ==
    /\ EnsureRuntime(o)
    /\ ops[o].state \in {"ready", "approved"}
    /\ ~(ops[o].state = "ready" /\ MayMutateTarget(KindOf[o]))

HasExactApproval(o) ==
    \E a \in approvals[o] :
        a.payload = ops[o].payload /\ a.policy = ops[o].policy /\ a.decision = "approved"

\* claim_execution
ClaimTx(t) ==
    LET o == task[t].op
    IN  /\ task[t].pc = "claim_tx"
        /\ \/ /\ IsExecutable(o)
              /\ task[t].late
              /\ TransitionTx(o, "expired")
              /\ Return(t)
              /\ UNCHANGED claimLive
           \/ /\ IsExecutable(o)
              /\ ~task[t].late
              /\ ops[o].state = "approved" => HasExactApproval(o)
              /\ TransitionTx(o, "executing")
              /\ claimLive' = [claimLive EXCEPT ![o] = ~SessionRevoked(o)]
              /\ Goto(t, "claim_recheck")
           \/ /\ \/ ~IsExecutable(o)
                 \/ ~task[t].late /\ ops[o].state = "approved" /\ ~HasExactApproval(o)
              /\ Return(t)
              /\ UNCHANGED <<ops, ledger, claimLive>>
        /\ UNCHANGED <<approvals, runtime, policy, broker, manual, staged, confirmed, commits>>

\* Mutant: the grant is issued without the second session check.
ClaimRecheck_Once(t) ==
    /\ task[t].pc = "claim_recheck"
    /\ Goto(t, "granted")
    /\ UNCHANGED <<db, runtime, policy, broker, effects>>

\* Mutant: a claim of a revoked session is refused but not closed.
ClaimRecheck_LeavesOpen(t) ==
    /\ task[t].pc = "claim_recheck"
    /\ IF SessionRevoked(task[t].op) THEN Return(t) ELSE Goto(t, "granted")
    /\ UNCHANGED <<db, runtime, policy, broker, effects>>

\* The second session check of claim, then execute::issue
ClaimRecheck(t) ==
    LET o == task[t].op
    IN  /\ task[t].pc = "claim_recheck"
        /\ \/ /\ SessionRevoked(o)
              /\ Finish(o, "cancelled")
              /\ Return(t)
           \/ /\ ~SessionRevoked(o)
              /\ Goto(t, "granted")
              /\ UNCHANGED <<ops, ledger>>
        /\ UNCHANGED <<approvals, runtime, policy, broker, effects>>

\* The executor looks at its cancellation handle before it touches the target
CheckSignal(t) ==
    LET o == task[t].op
    IN  /\ task[t].pc = "granted"
        /\ IF signal[o]
             THEN Finish(o, "cancelled") /\ Return(t)
             ELSE Goto(t, "connect") /\ UNCHANGED <<ops, ledger>>
        /\ UNCHANGED <<approvals, runtime, policy, broker, effects>>

\* The audit pre-record, the scope and policy checks after a claim or the
\* connection may fail before the target is touched
FailBeforeTarget(t) ==
    /\ task[t].pc \in {"granted", "connect"}
    /\ Finish(task[t].op, "failed")
    /\ Return(t)
    /\ UNCHANGED <<approvals, runtime, policy, broker, effects>>

\* What executor::execute may report, and whether the target committed. A write
\* that is cancelled, times out or loses its commit acknowledgement is
\* unconfirmed.
Results(o) ==
    IF MayMutateTarget(KindOf[o])
      THEN {[choice |-> "succeeded", committed |-> 1],
            [choice |-> "failed", committed |-> 0],
            [choice |-> "outcome_unknown", committed |-> 0],
            [choice |-> "outcome_unknown", committed |-> 1]}
      ELSE {[choice |-> "succeeded", committed |-> 0],
            [choice |-> "failed", committed |-> 0]}
           \cup (IF signal[o] THEN {[choice |-> "cancelled", committed |-> 0]} ELSE {})

Report(t, choice) ==
    task' = [task EXCEPT ![t].pc = "receipt", ![t].choice = choice]

\* executor::execute with the claimed grant. DDL, an Agent read outside its
\* write target and an operation of another connection always run like this.
RunDirect(t) ==
    LET o == task[t].op
    IN  \E r \in Results(o) :
           /\ commits' = [commits EXCEPT ![o] = @ + r.committed]
           /\ Report(t, r.choice)
           /\ UNCHANGED <<manual, staged>>

\* The server discards what the manual transaction staged.
RollBack == manual' = "none" /\ staged' = {}

\* run_write and run_read: the statement runs inside the open manual transaction
RunManual(t) ==
    LET o == task[t].op
    IN  /\ manual # "none"
        /\ \/ /\ manual = "active"              \* staged, "committed": false
              /\ IF MayMutateTarget(KindOf[o])
                   THEN Report(t, "staged") /\ staged' = staged \cup {o}
                   ELSE Report(t, "succeeded") /\ UNCHANGED staged
              /\ UNCHANGED manual
           \/ /\ \E choice \in {"failed"} \cup (IF signal[o] THEN {"cancelled"} ELSE {}) :
                    Report(t, choice)           \* refused, alone rolled back, or
              /\ UNCHANGED <<manual, staged>>   \* cancelled while it was queued
           \/ /\ manual = "active"              \* its savepoint is lost
              /\ manual' = "failed"
              /\ Report(t, "failed")
              /\ UNCHANGED staged
           \/ /\ manual = "active"              \* abandoned, the connection closed
              /\ \E choice \in {"failed", "cancelled"} : Report(t, choice)
              /\ RollBack
        /\ UNCHANGED commits

Execute(t) ==
    /\ task[t].pc = "connect"
    /\ RunDirect(t) \/ RunManual(t)
    /\ UNCHANGED <<db, runtime, policy, broker, signal, confirmed, claimLive>>

\* Mutant: the receipt of a staged write says that it was committed.
WriteReceipt_SaysCommitted(t) ==
    LET o == task[t].op
        final == IF task[t].choice = "staged" THEN "succeeded" ELSE task[t].choice
    IN  /\ task[t].pc \in {"receipt", "receipt_retry"}
        /\ Finish(o, final)
        /\ confirmed' = IF /\ final = "succeeded" /\ MayMutateTarget(KindOf[o])
                           /\ CanTransition(o, final)
                          THEN confirmed \cup {o} ELSE confirmed
        /\ Return(t)
        /\ UNCHANGED <<approvals, runtime, policy, broker, manual, staged, commits, claimLive>>

\* The receipt of the execution: succeed, fail, confirm_cancelled or
\* mark_outcome_unknown
WriteReceipt(t) ==
    LET o == task[t].op
        choice == task[t].choice
    IN  /\ task[t].pc \in {"receipt", "receipt_retry"}
        /\ Finish(o, IF choice = "staged" THEN "succeeded" ELSE choice)
        /\ confirmed' = IF /\ choice = "succeeded" /\ MayMutateTarget(KindOf[o])
                           /\ CanTransition(o, choice)
                          THEN confirmed \cup {o} ELSE confirmed
        /\ Return(t)
        /\ UNCHANGED <<approvals, runtime, policy, broker, manual, staged, commits, claimLive>>

\* The store refuses the success receipt: the caller falls back
ReceiptFailed(t) ==
    /\ task[t].pc = "receipt"
    /\ task[t].choice \in {"succeeded", "staged"}
    /\ task' = [task EXCEPT ![t].pc = "receipt_retry",
                            ![t].choice = IF MayMutateTarget(KindOf[task[t].op])
                                            THEN "outcome_unknown" ELSE "failed"]
    /\ UNCHANGED <<db, runtime, policy, broker, signal, effects>>

-----------------------------------------------------------------------------
(* The user's manual transaction on the connection.                        *)

BeginManual ==
    /\ Manual
    /\ manual = "none"
    /\ manual' = "active"
    /\ UNCHANGED <<db, runtime, policy, broker, task, signal, staged, confirmed, commits, claimLive>>

\* commit: refused while a statement runs and in the failed phase. A COMMIT whose
\* acknowledgement is lost is this step or EndManual.
CommitManual ==
    /\ manual = "active"
    /\ commits' = [o \in Ops |-> commits[o] + (IF o \in staged THEN 1 ELSE 0)]
    /\ manual' = "none"
    /\ staged' = {}
    /\ UNCHANGED <<db, runtime, policy, broker, task, signal, confirmed, claimLive>>

\* rollback, end_session, revoke: the user, the expiry timer, a change of
\* authority or the exit of the application ends the transaction
EndManual ==
    /\ manual # "none"
    /\ RollBack
    /\ UNCHANGED <<db, runtime, policy, broker, task, signal, confirmed, commits, claimLive>>

-----------------------------------------------------------------------------
(* Cancellation.                                                           *)

\* cancel_query: the user signals a registered execution
CancelQuery(o) ==
    /\ Registered(Tasks, o)
    /\ signal' = [signal EXCEPT ![o] = TRUE]
    /\ UNCHANGED <<db, runtime, policy, broker, task, effects>>

\* cancel_terminal: a terminal operation is returned as it is, an executing one
\* is signalled, any other is cancelled in a second step
CancelRead(t, o) ==
    /\ SessionOf[o] # None
    /\ session[SessionOf[o]] # "unissued"   \* authenticated at an earlier moment
    /\ \/ /\ ops[o].state = "executing"
          /\ task[t].pc = "idle"
          /\ signal' = [signal EXCEPT ![o] = Registered(Tasks, o)]
          /\ UNCHANGED task
       \/ /\ ops[o].state \in UnclaimedStates
          /\ Call(t, "cancel_before", o, None, "none")
          /\ UNCHANGED signal
    /\ UNCHANGED <<db, runtime, policy, broker, effects>>

\* cancel_before_execution
CancelBefore(t) ==
    /\ task[t].pc = "cancel_before"
    /\ Finish(task[t].op, "cancelled")
    /\ Return(t)
    /\ UNCHANGED <<approvals, runtime, policy, broker, effects>>

\* The revocation consumer takes a proposal of a removed session
SinkTake ==
    \E o \in sink :
        /\ Call(Consumer, "cleanup_read", o, None, "none")
        /\ sink' = sink \ {o}
        /\ UNCHANGED <<db, runtime, policy, session, tracked, signal, effects>>

\* cancel_revoked_agent_proposals: read, skip what is executing or finished
CleanupRead(t) ==
    LET o == task[t].op
    IN  /\ task[t].pc = "cleanup_read"
        /\ IF ops[o].state \in UnclaimedStates
             THEN Goto(t, "cleanup_cancel")
             ELSE Return(t)
        /\ UNCHANGED <<db, runtime, policy, broker, effects>>

\* cancel_revoked_agent_proposals: cancel what was read as unclaimed
CleanupCancel(t) ==
    /\ task[t].pc = "cleanup_cancel"
    /\ Finish(task[t].op, "cancelled")
    /\ Return(t)
    /\ UNCHANGED <<approvals, runtime, policy, broker, effects>>

-----------------------------------------------------------------------------
(* The Broker session registry.                                            *)

IssueSession(s) ==
    /\ session[s] = "unissued"
    /\ session' = [session EXCEPT ![s] = "live"]
    /\ UNCHANGED <<db, runtime, policy, tracked, sink, task, signal, effects>>

\* expires_at passes while the entry is still in the map
SessionExpires(s) ==
    /\ session[s] = "live"
    /\ session' = [session EXCEPT ![s] = "expired"]
    /\ UNCHANGED <<db, runtime, policy, tracked, sink, task, signal, effects>>

\* drain_proposals of a removed session
Remove(s) ==
    /\ session' = [session EXCEPT ![s] = "gone"]
    /\ sink' = sink \cup {tracked[s][i] : i \in DOMAIN tracked[s]}
    /\ tracked' = [tracked EXCEPT ![s] = <<>>]
    /\ UNCHANGED <<db, runtime, policy, task, signal, effects>>

\* revoke, revoke_connection, revoke_all
RevokeSession(s) == session[s] \in {"live", "expired"} /\ Remove(s)

\* sweep_expired, and the remove_expired of a failed authentication
SweepExpired(s) == session[s] = "expired" /\ Remove(s)

-----------------------------------------------------------------------------
(* The environment: clock, policy, crash and restart.                      *)

\* The expiry of an unfinished operation passes; an export plan has none
ExpiryPasses(o) ==
    /\ ops[o].state \in UnclaimedStates
    /\ ~ops[o].due
    /\ KindOf[o] # "export"
    /\ ops' = [ops EXCEPT ![o].due = TRUE]
    /\ UNCHANGED <<ledger, approvals, runtime, policy, broker, task, signal, effects>>

PolicyChanges(p) ==
    /\ p # policy
    /\ policy' = p
    /\ UNCHANGED <<db, runtime, broker, task, signal, effects>>

\* recover_previous_runtimes, one row. The owner of the row does not change.
Recovered(o) ==
    IF ops[o].state = "absent"
      THEN "absent" ELSE RestartRecovery(KindOf[o], ops[o].state)

\* The process dies at any point and the next one recovers before it serves a
\* call. A commit that was on its way to the target may still land.
Restart ==
    /\ runtime < MaxRuntime
    /\ runtime' = runtime + 1
    /\ ops' = [o \in Ops |-> [ops[o] EXCEPT !.state = Recovered(o)]]
    /\ ledger' = [o \in Ops |-> IF Recovered(o) = ops[o].state THEN ledger[o]
                                 ELSE Append(ledger[o], Recovered(o))]
    /\ \E landed \in SUBSET {o \in Ops : MayMutateTarget(KindOf[o]) /\
                               \E t \in Tasks : task[t].op = o /\ task[t].pc = "connect"} :
          commits' = [o \in Ops |-> commits[o] + (IF o \in landed THEN 1 ELSE 0)]
    /\ session' = [s \in Sessions |-> IF session[s] = "unissued" THEN "unissued" ELSE "gone"]
    /\ tracked' = [s \in Sessions |-> <<>>]
    /\ sink' = {}
    /\ task' = [t \in Tasks |-> IdleTask]
    /\ signal' = [o \in Ops |-> FALSE]
    /\ RollBack
    /\ UNCHANGED <<approvals, policy, confirmed, claimLive>>

-----------------------------------------------------------------------------
TaskStep(t) ==
    \/ PlanInsert(t) \/ PlanDispose(t) \/ PlanTrack(t)
    \/ CapturePolicy(t) \/ DecideApproval(t)
    \/ ClaimCheck(t) \/ ClaimCancel(t) \/ ClaimTx(t) \/ ClaimRecheck(t)
    \/ CheckSignal(t) \/ FailBeforeTarget(t) \/ Execute(t)
    \/ WriteReceipt(t) \/ ReceiptFailed(t)
    \/ CancelBefore(t) \/ CleanupRead(t) \/ CleanupCancel(t)

NewCall(t) ==
    \E o \in Ops :
        \/ \E p \in Payloads : PlanStart(t, o, p)
        \/ \E h \in Payloads : ApproveRead(t, o, h)
        \/ \E h \in Payloads : RejectRead(t, o, h)
        \/ RunStart(t, o)
        \/ CancelRead(t, o)

Next ==
    \/ \E t \in Tasks : TaskStep(t)
    \/ \E t \in Callers : NewCall(t)
    \/ SinkTake
    \/ \E s \in Sessions :
          IssueSession(s) \/ SessionExpires(s) \/ RevokeSession(s) \/ SweepExpired(s)
    \/ \E o \in Ops : ExpiryPasses(o) \/ CancelQuery(o)
    \/ \E p \in Policies : PolicyChanges(p)
    \/ BeginManual \/ CommitManual \/ EndManual
    \/ Restart

Spec == Init /\ [][Next]_vars

\* A task that has claimed its operation finishes: every await of the executor
\* is bounded by QUERY_TIMEOUT, and the other calls only wait for SQLite. The
\* revocation consumer and its periodic sweep run as long as the process does.
Fairness ==
    /\ \A t \in Tasks : WF_vars(TaskStep(t))
    /\ WF_vars(SinkTake)
    /\ \A s \in Sessions : WF_vars(SweepExpired(s))

FairSpec == Spec /\ Fairness

-----------------------------------------------------------------------------
(* Properties.                                                             *)

\* Every variable has its type; a stored operation has a payload and a policy,
\* and a session never tracks more than MaxTracked proposals.
TypeOK ==
    /\ ops \in [Ops -> OpRecords]
    /\ ledger \in [Ops -> Seq(States)]
    /\ approvals \in [Ops -> SUBSET ApprovalRows]
    /\ runtime \in 0..MaxRuntime
    /\ policy \in Policies
    /\ session \in [Sessions -> SessionStates]
    /\ tracked \in [Sessions -> Seq(Ops)]
    /\ \A s \in Sessions : Len(tracked[s]) <= MaxTracked
    /\ sink \in SUBSET Ops
    /\ task \in [Tasks -> TaskRecords]
    /\ signal \in [Ops -> BOOLEAN]
    /\ manual \in {"none", "active", "failed"}
    /\ staged \in SUBSET Ops
    /\ confirmed \in SUBSET Ops
    /\ commits \in [Ops -> Nat]
    /\ claimLive \in [Ops -> BOOLEAN]

\* A human approved what runs: a mutating operation that was claimed, or that
\* has changed the target, has an approval row whose payload is the stored one,
\* is the one the human reviewed, and was decided under the plan's policy.
\* (decide_approval, claim_execution; insert_planned must not rebind the key.)
ExactlyApproved(o) ==
    \E a \in approvals[o] :
        /\ a.decision = "approved"
        /\ a.payload = ops[o].payload
        /\ a.seen = ops[o].payload
        /\ a.policy = ops[o].policy

MutationsAreApproved ==
    \A o \in Ops :
        MayMutateTarget(KindOf[o])
            /\ (ops[o].state \in {"executing", "succeeded"} \/ commits[o] > 0)
        => ExactlyApproved(o)

\* An operation changes the target at most once, over all tasks that race to
\* claim it, all re-plans of its key and all restarts, and at most one task
\* holds its execution grant. (the compare-and-swap of claim_execution,
\* restart_recovery)
AtMostOnce ==
    \A o \in Ops :
        /\ commits[o] <= 1
        /\ \A t, u \in Tasks :
              /\ task[t].op = o /\ task[t].pc \in PcAfterClaim
              /\ task[u].op = o /\ task[u].pc \in PcAfterClaim
              => t = u

\* The stored outcome does not lie about the target. A mutation whose success
\* receipt says that it was committed was; one recorded as failed, rejected or
\* expired was not, and no open manual transaction still holds it. A write that
\* is recorded as succeeded without "committed" was staged, and only the COMMIT
\* of the user decides it. (receipts of the executor, restart_recovery)
HonestOutcome ==
    \A o \in Ops :
        MayMutateTarget(KindOf[o]) =>
            /\ o \in confirmed => ops[o].state = "succeeded" /\ commits[o] = 1
            /\ ops[o].state \in {"failed", "rejected", "expired"} =>
                  commits[o] = 0 /\ o \notin staged

\* A revocation between the two session checks of claim never reaches the
\* target: an Agent proposal that was committed was claimed by a live session.
RevokedSessionsDoNotCommit ==
    \A o \in Ops : SessionOf[o] # None /\ commits[o] > 0 => claimLive[o]

\* After startup recovery nothing of an older process can be decided, claimed or
\* finished as if it were current: only an interrupted export or provider action
\* stays open, in executing, and waits for its checkpoint.
OldRuntimesAreClosed ==
    \A o \in Ops :
        ops[o].state # "absent" /\ ops[o].runtime # runtime =>
            \/ IsTerminal(ops[o].state)
            \/ ops[o].state = "executing" /\ KindOf[o] \in {"export", "provider"}

\* What was stored is never rewritten: an approval row stays, the payload and
\* the policy of a stored operation never change, and a finished operation stays
\* finished, whatever calls and restarts follow. (append-only tables, immutable
\* plan, terminal states)
StoredPlanIsImmutable ==
    [][\A o \in Ops :
          /\ approvals[o] \subseteq approvals'[o]
          /\ ops[o].state # "absent" =>
                ops'[o].payload = ops[o].payload /\ ops'[o].policy = ops[o].policy
          /\ IsTerminal(ops[o].state) => ops'[o].state = ops[o].state]_vars

\* The mutations of the runtime, seen as ApprovedOnce sees them.
Mutations == {o \in Ops : MayMutateTarget(KindOf[o])}

VerdictOf(o) ==
    IF approvals[o] = {} THEN "none"
    ELSE IF \E a \in approvals[o] : a.decision = "rejected" THEN "rejected"
    ELSE "approved"

EverClaimed(o) == \E i \in DOMAIN ledger[o] : ledger[o][i] = "executing"

Promise == INSTANCE ApprovedOnce WITH
    verdict <- [o \in Mutations |-> VerdictOf(o)],
    claimed <- [o \in Mutations |-> EverClaimed(o)],
    used <- [o \in Mutations |-> commits[o]]

\* The runtime, with its racing tasks and its restarts, implements the promise
\* of the exact-approval decision record: decided once, claimed once, and the
\* target changed at most once and only after an approved claim.
KeepsPromise == Promise!ASpec

\* cancel_before_execution and the confirmed cancellation of a write claim that
\* the target was not changed: "target rollback/stop confirmed: cancelled".
CancelledMeansNotCommitted ==
    \A o \in Ops : ops[o].state = "cancelled" => commits[o] = 0

\* An executing read or write never hangs: it ends, if need be by the recovery
\* of the next process. (every path of the executor writes a receipt)
ExecutionResolves ==
    \A o \in Ops : ops[o].state = "executing" ~> ops[o].state # "executing"

\* A session that expired or was revoked leaves no open proposal behind, even
\* when it ends between planning a proposal and tracking it, as long as the
\* proposal is among the MaxTracked latest of its session: track_proposal forgets
\* the older ones, which then close when they expire or at the next restart.
RevokedProposalsClose ==
    \A o \in Ops :
        (SessionOf[o] # None /\ SessionRevoked(o) /\ ops[o].state \in UnclaimedStates)
            ~> ops[o].state \notin UnclaimedStates
=============================================================================
