---------------------- MODULE OperationRuntimeProofs ----------------------
(***************************************************************************)
(* Theorems about OperationRuntime for any number of operations, callers,  *)
(* sessions, payloads, policies and restarts.                              *)
(***************************************************************************)
EXTENDS OperationRuntime, TLAPS

\* What a task carries at each of its steps: the operation it works on, the
\* payload it plans, the decision it will store, the session that tracks it.
TaskInv ==
    \A t \in Tasks :
        /\ task[t].pc # "idle" => task[t].op \in Ops
        /\ task[t].pc = "plan_insert" => task[t].payload \in Payloads
        /\ task[t].pc \in {"decide_policy", "decide_tx"} =>
              task[t].choice \in {"approved", "rejected"}
        /\ task[t].pc = "plan_track" => SessionOf[task[t].op] \in Sessions
        /\ task[t].pc \in {"receipt", "receipt_retry"} =>
              task[t].choice \in {"succeeded", "staged", "failed", "cancelled", "outcome_unknown"}

TypeInv == TypeOK /\ TaskInv

-----------------------------------------------------------------------------
(* Facts about the primitives.                                             *)

\* A legal transition starts and ends in a stored state.
LEMMA TransitionStates ==
    ASSUME NEW from, NEW to, EnsureTransition(from, to)
    PROVE  from \in States /\ to \in States /\ from # "absent"
BY DEF EnsureTransition, States, TerminalStates

\* Startup recovery leaves a terminal state, or an executing export or provider
\* action.
LEMMA RecoveryStates ==
    ASSUME NEW kind \in Kinds, NEW state \in States
    PROVE  /\ RestartRecovery(kind, state) \in States
           /\ \/ IsTerminal(RestartRecovery(kind, state))
              \/ /\ RestartRecovery(kind, state) = "executing"
                 /\ state = "executing"
                 /\ kind \in {"export", "provider"}
           /\ RestartRecovery(kind, state) # state =>
                EnsureTransition(state, RestartRecovery(kind, state))
           /\ RestartRecovery(kind, state) \in {"succeeded", "approved"} =>
                RestartRecovery(kind, state) = state
BY DEF RestartRecovery, IsTerminal, TerminalStates, States, Kinds, EnsureTransition

\* transition_tx changes the state of one stored operation and nothing else.
LEMMA TransitionTxEffect ==
    ASSUME TypeOK, NEW o \in Ops, NEW target \in States,
           ops[o].state # "absent", TransitionTx(o, target)
    PROVE  /\ ops' \in [Ops -> OpRecords]
           /\ ledger' \in [Ops -> Seq(States)]
           /\ ops'[o] \in StoredOps
           /\ ops'[o].state = target
           /\ ops'[o].runtime = ops[o].runtime
           /\ ops'[o].payload = ops[o].payload
           /\ ops'[o].policy = ops[o].policy
           /\ \A x \in Ops : x # o => ops'[x] = ops[x] /\ ledger'[x] = ledger[x]
<1>1. ops[o] \in StoredOps
  BY DEF TypeOK, OpRecords, AbsentOp
<1>2. ops'[o] = [ops[o] EXCEPT !.state = target]
  BY DEF TypeOK, TransitionTx
<1>3. ops'[o] \in StoredOps
  BY <1>1, <1>2 DEF StoredOps
<1>4. \A x \in Ops : x # o => ops'[x] = ops[x] /\ ledger'[x] = ledger[x]
  BY DEF TypeOK, TransitionTx
<1>5. ops' \in [Ops -> OpRecords]
  BY <1>3, <1>4 DEF TypeOK, TransitionTx, OpRecords
<1>6. ledger' \in [Ops -> Seq(States)]
  BY DEF TypeOK, TransitionTx
<1>7. /\ ops'[o].state = target
      /\ ops'[o].runtime = ops[o].runtime
      /\ ops'[o].payload = ops[o].payload
      /\ ops'[o].policy = ops[o].policy
  BY <1>1, <1>2 DEF StoredOps
<1> QED
  BY <1>3, <1>4, <1>5, <1>6, <1>7

\* A returning task becomes idle.
LEMMA ReturnEffect ==
    ASSUME TypeInv, NEW t \in Tasks, Return(t)
    PROVE  /\ task' \in [Tasks -> TaskRecords]
           /\ TaskInv'
           /\ signal' \in [Ops -> BOOLEAN]
           /\ task'[t] = IdleTask
           /\ \A u \in Tasks : u # t => task'[u] = task[u]
BY DEF TypeInv, TypeOK, TaskInv, Return, IdleTask, TaskRecords, PcRun, PcOther,
       PcBeforeClaim, PcAfterClaim, Registered

\* A task that goes on changes its step and nothing else.
LEMMA GotoEffect ==
    ASSUME TypeInv, NEW t \in Tasks, NEW pc \in PcRun \cup PcOther, Goto(t, pc)
    PROVE  /\ task' \in [Tasks -> TaskRecords]
           /\ signal' \in [Ops -> BOOLEAN]
           /\ task'[t].pc = pc
           /\ task'[t].op = task[t].op
           /\ task'[t].payload = task[t].payload
           /\ task'[t].choice = task[t].choice
           /\ \A u \in Tasks : u # t => task'[u] = task[u]
BY DEF TypeInv, TypeOK, Goto, TaskRecords

\* A new call names its operation, its payload and its choice.
LEMMA CallEffect ==
    ASSUME TypeInv, NEW t \in Tasks, NEW pc \in PcRun \cup PcOther, NEW o \in Ops,
           NEW payload \in Payloads \cup {None}, NEW choice \in {"none", "approved", "rejected"},
           Call(t, pc, o, payload, choice)
    PROVE  /\ task' \in [Tasks -> TaskRecords]
           /\ task[t].pc = "idle"
           /\ task'[t].pc = pc
           /\ task'[t].op = o
           /\ task'[t].payload = payload
           /\ task'[t].choice = choice
           /\ \A u \in Tasks : u # t => task'[u] = task[u]
BY DEF TypeInv, TypeOK, Call, TaskRecords, IdleTask

\* Whether the expiry has passed is known for every row.
LEMMA DueIsBoolean ==
    ASSUME TypeOK, NEW o \in Ops
    PROVE  ops[o].due \in BOOLEAN
<1>1. CASE ops[o] \in StoredOps
  BY <1>1 DEF StoredOps
<1>2. CASE ops[o] = AbsentOp
  BY <1>2 DEF AbsentOp
<1> QED
  BY <1>1, <1>2 DEF TypeOK, OpRecords

\* A new row is a stored operation.
LEMMA NewRow ==
    ASSUME TypeOK, NEW p \in Payloads
    PROVE  [state |-> "planned", runtime |-> runtime, payload |-> p,
            policy |-> policy, due |-> FALSE] \in StoredOps
BY DEF StoredOps, States, TypeOK

\* Tracking a proposal leaves a sequence of proposals.
LEMMA PushTrackedType ==
    ASSUME TypeOK, ConstantsAssumption, NEW s \in Sessions, NEW o \in Ops
    PROVE  PushTracked(s, o) \in Seq(Ops) /\ Len(PushTracked(s, o)) <= MaxTracked
<1> DEFINE longer == Append(tracked[s], o)
<1>1. tracked[s] \in Seq(Ops)
  BY DEF TypeOK
<1>2. longer \in Seq(Ops) /\ longer # <<>>
  BY <1>1
<1>3. /\ Tail(longer) \in Seq(Ops) /\ Len(Tail(longer)) = Len(tracked[s])
      /\ Len(longer) \in Nat /\ Len(tracked[s]) <= MaxTracked
  BY <1>1, <1>2 DEF TypeOK
<1>4. MaxTracked \in Nat
  BY DEF ConstantsAssumption
<1> HIDE DEF longer
<1>5. PushTracked(s, o) = IF Len(longer) > MaxTracked THEN Tail(longer) ELSE longer
  BY DEF PushTracked, longer
<1> QED
  BY <1>2, <1>3, <1>4, <1>5

\* A refused transition changes nothing, any other is a legal one of the
\* running process.
LEMMA FinishEffect ==
    ASSUME TypeOK, NEW o \in Ops, NEW target, Finish(o, target)
    PROVE  /\ ops' \in [Ops -> OpRecords]
           /\ ledger' \in [Ops -> Seq(States)]
           /\ \A x \in Ops : /\ ops'[x].runtime = ops[x].runtime
                              /\ ops'[x].payload = ops[x].payload
                              /\ ops'[x].policy = ops[x].policy
                              /\ x # o => ops'[x] = ops[x] /\ ledger'[x] = ledger[x]
           /\ \/ ops' = ops /\ ledger' = ledger
              \/ /\ CanTransition(o, target) /\ TransitionTx(o, target)
                 /\ target \in States /\ ops[o].state \in States
                 /\ ops[o].state # "absent"
                 /\ ops'[o].state = target
<1>1. CASE CanTransition(o, target)
  <2>1. TransitionTx(o, target)
    BY <1>1 DEF Finish
  <2>2. target \in States /\ ops[o].state \in States /\ ops[o].state # "absent"
    BY <1>1, TransitionStates DEF CanTransition
  <2> QED
    BY <1>1, <2>1, <2>2, TransitionTxEffect
<1>2. CASE ~CanTransition(o, target)
  <2>1. ops' = ops /\ ledger' = ledger
    BY <1>2 DEF Finish
  <2> QED
    BY <2>1 DEF TypeOK
<1> QED
  BY <1>1, <1>2

-----------------------------------------------------------------------------
(* Type correctness.                                                       *)

\* Writing a final state and returning, which ends most calls.
LEMMA FinishReturnType ==
    ASSUME TypeInv, NEW t \in Tasks, task[t].pc # "idle", NEW target,
           Finish(task[t].op, target), Return(t),
           UNCHANGED <<approvals, runtime, policy, broker, manual, staged, commits, claimLive>>,
           confirmed' \in SUBSET Ops
    PROVE  TypeInv'
<1>1. task[t].op \in Ops
  BY DEF TypeInv, TaskInv
<1>2. ops' \in [Ops -> OpRecords] /\ ledger' \in [Ops -> Seq(States)]
  BY <1>1, FinishEffect DEF TypeInv
<1>3. task' \in [Tasks -> TaskRecords] /\ TaskInv' /\ signal' \in [Ops -> BOOLEAN]
  BY ReturnEffect
<1> QED
  BY <1>2, <1>3 DEF TypeInv, TypeOK, broker

\* A call that ends with a final state and leaves the target alone.
LEMMA ClosingType ==
    ASSUME TypeInv, NEW t \in Tasks, task[t].pc # "idle", NEW target,
           Finish(task[t].op, target), Return(t),
           UNCHANGED <<approvals, runtime, policy, broker, effects>>
    PROVE  TypeInv'
<1>1. /\ UNCHANGED <<manual, staged, commits, claimLive>>
      /\ confirmed' \in SUBSET Ops
  BY DEF effects, TypeInv, TypeOK
<1> QED
  BY <1>1, FinishReturnType

\* The steps of planning keep the types.
LEMMA PlanType ==
    ASSUME TypeInv, ConstantsAssumption, NEW t \in Tasks,
           PlanInsert(t) \/ PlanDispose(t) \/ PlanTrack(t)
    PROVE  TypeInv'
<1> DEFINE o == task[t].op
<1>0. o \in Ops /\ KindOf[o] \in Kinds /\ SessionOf[o] \in Sessions \cup {None}
  BY DEF TypeInv, TaskInv, ConstantsAssumption, PlanInsert, PlanDispose, PlanTrack
<1>a. ASSUME AfterPlan(t, o)
      PROVE  task' \in [Tasks -> TaskRecords] /\ TaskInv' /\ signal' \in [Ops -> BOOLEAN]
  <2>1. CASE SessionOf[o] = None
    BY <1>a, <2>1, ReturnEffect DEF AfterPlan
  <2>2. CASE SessionOf[o] # None
    <3>1. Goto(t, "plan_track") /\ "plan_track" \in PcRun \cup PcOther
      BY <1>a, <2>2 DEF AfterPlan, PcOther
    <3> QED
      BY <3>1, <2>2, <1>0, GotoEffect DEF TypeInv, TaskInv
  <2> QED
    BY <2>1, <2>2
<1>b. ASSUME Goto(t, "plan_dispose")
      PROVE  task' \in [Tasks -> TaskRecords] /\ TaskInv' /\ signal' \in [Ops -> BOOLEAN]
  <2>1. "plan_dispose" \in PcRun \cup PcOther
    BY DEF PcOther
  <2> QED
    BY <1>b, <2>1, <1>0, GotoEffect DEF TypeInv, TaskInv
<1>1. CASE PlanInsert(t)
  <2>0. UNCHANGED <<approvals, runtime, policy, broker, effects>>
    BY <1>1 DEF PlanInsert
  <2>1. task' \in [Tasks -> TaskRecords] /\ TaskInv' /\ signal' \in [Ops -> BOOLEAN]
    BY <1>1, <1>a, <1>b, ReturnEffect DEF PlanInsert
  <2>2. ops' \in [Ops -> OpRecords] /\ ledger' \in [Ops -> Seq(States)]
    <3>1. CASE UNCHANGED <<ops, ledger>>
      BY <3>1 DEF TypeInv, TypeOK
    <3>2. CASE /\ ops' = [ops EXCEPT ![o] =
                           [state |-> "planned", runtime |-> runtime,
                            payload |-> task[t].payload, policy |-> policy, due |-> FALSE]]
               /\ ledger' = [ledger EXCEPT ![o] = <<"planned">>]
      <4>1. task[t].payload \in Payloads
        BY <1>1 DEF PlanInsert, TypeInv, TaskInv
      <4>2. "planned" \in States
        BY DEF States
      <4> DEFINE row == [state |-> "planned", runtime |-> runtime,
                         payload |-> task[t].payload, policy |-> policy, due |-> FALSE]
      <4>3. row \in OpRecords /\ ops' = [ops EXCEPT ![o] = row]
        BY <3>2, <4>1, NewRow DEF TypeInv, OpRecords
      <4>4. <<"planned">> \in Seq(States)
        BY <4>2
      <4> HIDE DEF row
      <4>5. ops' \in [Ops -> OpRecords]
        BY <4>3 DEF TypeInv, TypeOK
      <4>6. ledger' \in [Ops -> Seq(States)]
        BY <3>2, <4>4 DEF TypeInv, TypeOK
      <4> QED
        BY <4>5, <4>6
    <3> QED
      BY <1>1, <3>1, <3>2 DEF PlanInsert
  <2> QED
    BY <2>0, <2>1, <2>2 DEF TypeInv, TypeOK, broker, effects
<1>2. CASE PlanDispose(t)
  <2>1. task' \in [Tasks -> TaskRecords] /\ TaskInv' /\ signal' \in [Ops -> BOOLEAN]
    BY <1>2, <1>a, ReturnEffect DEF PlanDispose
  <2>2. ops' \in [Ops -> OpRecords] /\ ledger' \in [Ops -> Seq(States)]
    BY <1>2, <1>0, FinishEffect DEF PlanDispose, TypeInv
  <2> QED
    BY <1>2, <2>1, <2>2 DEF PlanDispose, TypeInv, TypeOK, broker, effects
<1>3. CASE PlanTrack(t)
  <2>1. SessionOf[o] \in Sessions
    BY <1>3 DEF PlanTrack, TypeInv, TaskInv
  <2>2. /\ PushTracked(SessionOf[o], o) \in Seq(Ops)
        /\ Len(PushTracked(SessionOf[o], o)) <= MaxTracked
    BY <1>0, <2>1, PushTrackedType DEF TypeInv
  <2>3. /\ tracked' \in [Sessions -> Seq(Ops)] /\ sink' \in SUBSET Ops
        /\ \A s \in Sessions : Len(tracked'[s]) <= MaxTracked
    <3>1. CASE session[SessionOf[o]] \in {"live", "expired"}
      <4>1. tracked' = [tracked EXCEPT ![SessionOf[o]] = PushTracked(SessionOf[o], o)]
        BY <1>3, <3>1 DEF PlanTrack
      <4>2. sink' = sink
        BY <1>3, <3>1 DEF PlanTrack
      <4> QED
        BY <2>1, <2>2, <4>1, <4>2 DEF TypeInv, TypeOK
    <3>2. CASE session[SessionOf[o]] \notin {"live", "expired"}
      <4>1. sink' = sink \cup {o} /\ tracked' = tracked
        BY <1>3, <3>2 DEF PlanTrack
      <4> QED
        BY <1>0, <4>1 DEF TypeInv, TypeOK
    <3> QED
      BY <3>1, <3>2
  <2>4. task' \in [Tasks -> TaskRecords] /\ TaskInv' /\ signal' \in [Ops -> BOOLEAN]
    BY <1>3, ReturnEffect DEF PlanTrack
  <2> QED
    BY <1>3, <2>3, <2>4 DEF PlanTrack, TypeInv, TypeOK, db, effects
<1> QED
  BY <1>1, <1>2, <1>3

\* The steps of a decision keep the types.
LEMMA DecideType ==
    ASSUME TypeInv, NEW t \in Tasks, CapturePolicy(t) \/ DecideApproval(t)
    PROVE  TypeInv'
<1> DEFINE o == task[t].op
<1>0. o \in Ops /\ task[t].choice \in {"approved", "rejected"}
  BY DEF TypeInv, TaskInv, CapturePolicy, DecideApproval
<1>1. CASE CapturePolicy(t)
  <2>1. task' \in [Tasks -> TaskRecords] /\ TaskInv'
    <3>1. ops[o].due \in BOOLEAN
      BY <1>0, DueIsBoolean DEF TypeInv
    <3>2. "decide_tx" \in PcRun \cup PcOther
      BY DEF PcOther
    <3> DEFINE r == [task[t] EXCEPT !.pc = "decide_tx", !.policy = policy, !.late = ops[o].due]
    <3>3. /\ r \in TaskRecords
          /\ r.pc = "decide_tx" /\ r.op = o /\ r.choice = task[t].choice
      BY <3>1, <3>2 DEF TypeInv, TypeOK, TaskRecords
    <3>4. task' = [task EXCEPT ![t] = r]
      BY <1>1 DEF CapturePolicy
    <3> HIDE DEF r
    <3> QED
      BY <1>0, <3>3, <3>4 DEF TypeInv, TypeOK, TaskInv
  <2> QED
    BY <1>1, <2>1 DEF CapturePolicy, TypeInv, TypeOK, db, broker, effects
<1>2. CASE DecideApproval(t)
  <2>0. ASSUME IsExactDecision(o, task[t].payload, task[t].policy)
        PROVE  /\ ops[o].state # "absent"
               /\ ops[o] \in StoredOps
               /\ task[t].payload \in Payloads
    BY <2>0, <1>0 DEF IsExactDecision, TypeInv, TypeOK, OpRecords, AbsentOp, StoredOps
  <2>1. task' \in [Tasks -> TaskRecords] /\ TaskInv' /\ signal' \in [Ops -> BOOLEAN]
    BY <1>2, ReturnEffect DEF DecideApproval
  <2>2. ops' \in [Ops -> OpRecords] /\ ledger' \in [Ops -> Seq(States)]
    <3>1. "expired" \in States /\ task[t].choice \in States
      BY <1>0 DEF States, TerminalStates
    <3>2. CASE UNCHANGED db
      BY <3>2 DEF db, TypeInv, TypeOK
    <3>3. CASE TransitionTx(o, "expired") /\ ops[o].state # "absent"
      BY <3>1, <3>3, <1>0, TransitionTxEffect DEF TypeInv
    <3>4. CASE TransitionTx(o, task[t].choice) /\ ops[o].state # "absent"
      BY <3>1, <3>4, <1>0, TransitionTxEffect DEF TypeInv
    <3> QED
      BY <1>2, <2>0, <3>2, <3>3, <3>4 DEF DecideApproval
  <2>3. approvals' \in [Ops -> SUBSET ApprovalRows]
    <3> DEFINE row == [payload |-> ops[o].payload, policy |-> ops[o].policy,
                       decision |-> task[t].choice, seen |-> task[t].payload]
    <3>1. CASE approvals' = approvals
      BY <3>1 DEF TypeInv, TypeOK
    <3>2. CASE /\ approvals' = [approvals EXCEPT ![o] = @ \cup {row}]
               /\ IsExactDecision(o, task[t].payload, task[t].policy)
      <4>1. row \in ApprovalRows
        BY <1>0, <2>0, <3>2 DEF ApprovalRows, StoredOps
      <4> HIDE DEF row
      <4> QED
        BY <1>0, <3>2, <4>1 DEF TypeInv, TypeOK
    <3> QED
      BY <1>2, <3>1, <3>2 DEF DecideApproval, db
  <2> QED
    BY <1>2, <2>1, <2>2, <2>3 DEF DecideApproval, TypeInv, TypeOK, broker, effects
<1> QED
  BY <1>1, <1>2

\* The steps of a claim keep the types.
LEMMA ClaimType ==
    ASSUME TypeInv, NEW t \in Tasks,
           ClaimCheck(t) \/ ClaimCancel(t) \/ ClaimTx(t) \/ ClaimRecheck(t)
    PROVE  TypeInv'
<1> DEFINE o == task[t].op
<1>0. o \in Ops /\ task[t].pc # "idle"
  BY DEF TypeInv, TaskInv, ClaimCheck, ClaimCancel, ClaimTx, ClaimRecheck
<1>a. ASSUME NEW pc \in {"claim_cancel", "claim_recheck", "granted"}, Goto(t, pc)
      PROVE  task' \in [Tasks -> TaskRecords] /\ TaskInv' /\ signal' \in [Ops -> BOOLEAN]
  <2>1. pc \in PcRun \cup PcOther
    BY DEF PcRun, PcBeforeClaim, PcAfterClaim
  <2> QED
    BY <1>a, <2>1, <1>0, GotoEffect DEF TypeInv, TaskInv
<1>1. CASE ClaimCheck(t)
  <2>1. task' \in [Tasks -> TaskRecords] /\ TaskInv' /\ signal' \in [Ops -> BOOLEAN]
    <3>1. CASE Goto(t, "claim_cancel")
      BY <3>1, <1>a
    <3>2. CASE Return(t)
      BY <3>2, ReturnEffect
    <3>3. CASE /\ task' = [task EXCEPT ![t].pc = "claim_tx", ![t].late = ops[o].due]
               /\ UNCHANGED signal
      <4>1. ops[o].due \in BOOLEAN
        BY <1>0, DueIsBoolean DEF TypeInv
      <4>2. "claim_tx" \in PcRun \cup PcOther
        BY DEF PcRun, PcBeforeClaim
      <4> DEFINE r == [task[t] EXCEPT !.pc = "claim_tx", !.late = ops[o].due]
      <4>3. r \in TaskRecords /\ r.pc = "claim_tx" /\ r.op = o
        BY <4>1, <4>2 DEF TypeInv, TypeOK, TaskRecords
      <4>4. task' = [task EXCEPT ![t] = r]
        BY <3>3
      <4> HIDE DEF r
      <4> QED
        BY <1>0, <3>3, <4>3, <4>4 DEF TypeInv, TypeOK, TaskInv
    <3> QED
      BY <1>1, <3>1, <3>2, <3>3 DEF ClaimCheck
  <2> QED
    BY <1>1, <2>1 DEF ClaimCheck, TypeInv, TypeOK, db, broker, effects
<1>2. CASE ClaimCancel(t)
  BY <1>2, <1>0, ClosingType DEF ClaimCancel
<1>3. CASE ClaimTx(t)
  <2>1. task' \in [Tasks -> TaskRecords] /\ TaskInv' /\ signal' \in [Ops -> BOOLEAN]
    BY <1>3, <1>a, ReturnEffect DEF ClaimTx
  <2>2. ops' \in [Ops -> OpRecords] /\ ledger' \in [Ops -> Seq(States)]
    <3>1. "expired" \in States /\ "executing" \in States
      BY DEF States, TerminalStates
    <3>2. IsExecutable(o) => ops[o].state # "absent"
      BY DEF IsExecutable
    <3>3. CASE UNCHANGED <<ops, ledger>>
      BY <3>3 DEF TypeInv, TypeOK
    <3>4. CASE IsExecutable(o) /\ TransitionTx(o, "expired")
      BY <3>1, <3>2, <3>4, <1>0, TransitionTxEffect DEF TypeInv
    <3>5. CASE IsExecutable(o) /\ TransitionTx(o, "executing")
      BY <3>1, <3>2, <3>5, <1>0, TransitionTxEffect DEF TypeInv
    <3> QED
      BY <1>3, <3>3, <3>4, <3>5 DEF ClaimTx
  <2>3. claimLive' \in [Ops -> BOOLEAN]
    BY <1>3 DEF ClaimTx, TypeInv, TypeOK
  <2> QED
    BY <1>3, <2>1, <2>2, <2>3 DEF ClaimTx, TypeInv, TypeOK, broker
<1>4. CASE ClaimRecheck(t)
  <2>1. CASE Finish(o, "cancelled") /\ Return(t)
    BY <1>4, <2>1, <1>0, ClosingType DEF ClaimRecheck
  <2>2. CASE Goto(t, "granted") /\ UNCHANGED <<ops, ledger>>
    BY <1>4, <2>2, <1>a DEF ClaimRecheck, TypeInv, TypeOK, broker, effects
  <2> QED
    BY <1>4, <2>1, <2>2 DEF ClaimRecheck
<1> QED
  BY <1>1, <1>2, <1>3, <1>4

\* The steps of an execution keep the types.
LEMMA ExecuteType ==
    ASSUME TypeInv, NEW t \in Tasks,
           \/ CheckSignal(t) \/ FailBeforeTarget(t) \/ Execute(t)
           \/ WriteReceipt(t) \/ ReceiptFailed(t)
    PROVE  TypeInv'
<1> DEFINE o == task[t].op
<1>0. o \in Ops /\ task[t].pc # "idle"
  BY DEF TypeInv, TaskInv, CheckSignal, FailBeforeTarget, Execute, WriteReceipt,
         ReceiptFailed
<1>a. ASSUME NEW pc \in {"receipt", "receipt_retry"},
             NEW choice \in {"succeeded", "staged", "failed", "cancelled", "outcome_unknown"},
             task' = [task EXCEPT ![t].pc = pc, ![t].choice = choice]
      PROVE  task' \in [Tasks -> TaskRecords] /\ TaskInv'
  <2>1. pc \in PcRun \cup PcOther
    BY DEF PcRun, PcAfterClaim
  <2> DEFINE r == [task[t] EXCEPT !.pc = pc, !.choice = choice]
  <2>2. r \in TaskRecords /\ r.pc = pc /\ r.op = o /\ r.choice = choice
    BY <2>1 DEF TypeInv, TypeOK, TaskRecords
  <2>3. task' = [task EXCEPT ![t] = r]
    BY <1>a
  <2> HIDE DEF r
  <2> QED
    BY <1>0, <2>2, <2>3 DEF TypeInv, TypeOK, TaskInv
<1>1. CASE CheckSignal(t)
  <2>1. CASE Finish(o, "cancelled") /\ Return(t)
    BY <1>1, <2>1, <1>0, ClosingType DEF CheckSignal
  <2>2. CASE Goto(t, "connect") /\ UNCHANGED <<ops, ledger>>
    <3>1. "connect" \in PcRun \cup PcOther
      BY DEF PcRun, PcAfterClaim
    <3>2. task' \in [Tasks -> TaskRecords] /\ TaskInv' /\ signal' \in [Ops -> BOOLEAN]
      BY <2>2, <3>1, <1>0, GotoEffect DEF TypeInv, TaskInv
    <3> QED
      BY <1>1, <2>2, <3>2 DEF CheckSignal, TypeInv, TypeOK, broker, effects
  <2> QED
    BY <1>1, <2>1, <2>2 DEF CheckSignal
<1>2. CASE FailBeforeTarget(t)
  BY <1>2, <1>0, ClosingType DEF FailBeforeTarget
<1>3. CASE Execute(t)
  <2>1. CASE RunDirect(t)
    <3>1. PICK r \in Results(o) :
              /\ commits' = [commits EXCEPT ![o] = @ + r.committed]
              /\ Report(t, r.choice)
      BY <2>1 DEF RunDirect
    <3>2. /\ r.committed \in Nat
          /\ r.choice \in {"succeeded", "failed", "cancelled", "outcome_unknown"}
      BY DEF Results
    <3>3. commits' \in [Ops -> Nat]
      BY <1>0, <3>1, <3>2 DEF TypeInv, TypeOK
    <3>4. task' \in [Tasks -> TaskRecords] /\ TaskInv'
      BY <3>1, <3>2, <1>a DEF Report
    <3> QED
      BY <1>3, <2>1, <3>3, <3>4 DEF Execute, RunDirect, TypeInv, TypeOK, db, broker
  <2>2. CASE RunManual(t)
    <3>1. PICK choice \in {"succeeded", "staged", "failed", "cancelled"} : Report(t, choice)
      BY <2>2 DEF RunManual
    <3>2. task' \in [Tasks -> TaskRecords] /\ TaskInv'
      BY <3>1, <1>a DEF Report
    <3>3. manual' \in {"none", "active", "failed"} /\ staged' \in SUBSET Ops
      BY <1>0, <2>2 DEF RunManual, RollBack, TypeInv, TypeOK
    <3> QED
      BY <1>3, <2>2, <3>2, <3>3 DEF Execute, RunManual, TypeInv, TypeOK, db, broker
  <2> QED
    BY <1>3, <2>1, <2>2 DEF Execute
<1>4. CASE WriteReceipt(t)
  <2>1. confirmed' \in SUBSET Ops
    BY <1>0, <1>4 DEF WriteReceipt, TypeInv, TypeOK
  <2> QED
    BY <1>4, <1>0, <2>1, FinishReturnType DEF WriteReceipt
<1>5. CASE ReceiptFailed(t)
  <2>1. task' \in [Tasks -> TaskRecords] /\ TaskInv'
    BY <1>5, <1>a DEF ReceiptFailed
  <2> QED
    BY <1>5, <2>1 DEF ReceiptFailed, TypeInv, TypeOK, db, broker, effects
<1> QED
  BY <1>1, <1>2, <1>3, <1>4, <1>5

\* The steps of a cancellation keep the types.
LEMMA CancelType ==
    ASSUME TypeInv, NEW t \in Tasks, CancelBefore(t) \/ CleanupRead(t) \/ CleanupCancel(t)
    PROVE  TypeInv'
<1>0. task[t].op \in Ops /\ task[t].pc # "idle"
  BY DEF TypeInv, TaskInv, CancelBefore, CleanupRead, CleanupCancel
<1>1. CASE CancelBefore(t)
  BY <1>1, <1>0, ClosingType DEF CancelBefore
<1>2. CASE CleanupCancel(t)
  BY <1>2, <1>0, ClosingType DEF CleanupCancel
<1>3. CASE CleanupRead(t)
  <2>1. "cleanup_cancel" \in PcRun \cup PcOther
    BY DEF PcOther
  <2>2. task' \in [Tasks -> TaskRecords] /\ TaskInv' /\ signal' \in [Ops -> BOOLEAN]
    BY <1>0, <1>3, <2>1, GotoEffect, ReturnEffect DEF CleanupRead, TypeInv, TaskInv
  <2> QED
    BY <1>3, <2>2 DEF CleanupRead, TypeInv, TypeOK, db, broker, effects
<1> QED
  BY <1>1, <1>2, <1>3

\* A new call keeps the types.
LEMMA NewCallType ==
    ASSUME TypeInv, NEW t \in Callers, NewCall(t)
    PROVE  TypeInv'
<1>0. t \in Tasks
  BY DEF Tasks
<1>1. PICK o \in Ops :
          \/ \E p \in Payloads : PlanStart(t, o, p)
          \/ \E h \in Payloads : ApproveRead(t, o, h)
          \/ \E h \in Payloads : RejectRead(t, o, h)
          \/ RunStart(t, o)
          \/ CancelRead(t, o)
  BY DEF NewCall
<1>a. ASSUME NEW pc \in {"plan_insert", "cleanup_read", "decide_policy", "claim_check",
                         "cancel_before"},
             NEW payload \in Payloads \cup {None},
             NEW choice \in {"none", "approved", "rejected"},
             Call(t, pc, o, payload, choice),
             pc = "plan_insert" => payload \in Payloads,
             pc = "decide_policy" => choice # "none",
             UNCHANGED <<db, runtime, policy, broker, effects>>,
             signal' \in [Ops -> BOOLEAN]
      PROVE  TypeInv'
  <2>1. pc \in PcRun \cup PcOther
    BY DEF PcRun, PcBeforeClaim, PcOther
  <2>2. task' \in [Tasks -> TaskRecords] /\ TaskInv'
    BY <1>0, <1>a, <2>1, CallEffect DEF TypeInv, TaskInv
  <2> QED
    BY <1>a, <2>2 DEF TypeInv, TypeOK, db, broker, effects
<1>b. signal \in [Ops -> BOOLEAN]
  BY DEF TypeInv, TypeOK
<1>2. CASE \E p \in Payloads : PlanStart(t, o, p)
  BY <1>2, <1>a, <1>b DEF PlanStart
<1>3. CASE \E h \in Payloads : ApproveRead(t, o, h)
  <2>1. PICK h \in Payloads : ApproveRead(t, o, h)
    BY <1>3
  <2>2. CASE Call(t, "cleanup_read", o, None, "none")
    BY <2>1, <2>2, <1>a, <1>b DEF ApproveRead
  <2>3. CASE Call(t, "decide_policy", o, h, "approved")
    BY <2>1, <2>3, <1>a, <1>b DEF ApproveRead
  <2> QED
    BY <2>1, <2>2, <2>3 DEF ApproveRead
<1>4. CASE \E h \in Payloads : RejectRead(t, o, h)
  BY <1>4, <1>a, <1>b DEF RejectRead
<1>5. CASE RunStart(t, o)
  BY <1>5, <1>a, <1>b DEF RunStart
<1>6. CASE CancelRead(t, o)
  <2>1. CASE Call(t, "cancel_before", o, None, "none") /\ UNCHANGED signal
    BY <1>6, <2>1, <1>a, <1>b DEF CancelRead
  <2>2. CASE UNCHANGED task /\ signal' = [signal EXCEPT ![o] = Registered(Tasks, o)]
    <3>1. Registered(Tasks, o) \in BOOLEAN
      BY DEF Registered
    <3>2. signal' \in [Ops -> BOOLEAN]
      BY <2>2, <3>1, <1>b
    <3> QED
      BY <1>6, <2>2, <3>2 DEF CancelRead, TypeInv, TypeOK, TaskInv, db, broker, effects
  <2> QED
    BY <1>6, <2>1, <2>2 DEF CancelRead
<1> QED
  BY <1>1, <1>2, <1>3, <1>4, <1>5, <1>6

\* The revocation consumer, the session registry and the clock keep the types.
LEMMA EnvironmentType ==
    ASSUME TypeInv, ConstantsAssumption,
           \/ SinkTake
           \/ \E s \in Sessions :
                 IssueSession(s) \/ SessionExpires(s) \/ RevokeSession(s) \/ SweepExpired(s)
           \/ \E o \in Ops : ExpiryPasses(o) \/ CancelQuery(o)
           \/ \E p \in Policies : PolicyChanges(p)
           \/ BeginManual \/ CommitManual \/ EndManual
    PROVE  TypeInv'
<1>1. CASE SinkTake
  <2>1. PICK o \in sink : /\ Call(Consumer, "cleanup_read", o, None, "none")
                          /\ sink' = sink \ {o}
    BY <1>1 DEF SinkTake
  <2>2. o \in Ops /\ Consumer \in Tasks /\ "cleanup_read" \in PcRun \cup PcOther
    BY DEF TypeInv, TypeOK, Tasks, PcOther
  <2>3. task' \in [Tasks -> TaskRecords] /\ TaskInv'
    BY <2>1, <2>2, CallEffect DEF TypeInv, TaskInv
  <2> QED
    BY <1>1, <2>1, <2>3 DEF SinkTake, TypeInv, TypeOK, db, effects
<1>2. ASSUME NEW s \in Sessions, IssueSession(s) \/ SessionExpires(s)
      PROVE  TypeInv'
  <2>1. session' \in [Sessions -> SessionStates]
    BY <1>2 DEF IssueSession, SessionExpires, SessionStates, TypeInv, TypeOK
  <2> QED
    BY <1>2, <2>1 DEF IssueSession, SessionExpires, TypeInv, TypeOK, TaskInv, db, effects
<1>3. ASSUME NEW s \in Sessions, RevokeSession(s) \/ SweepExpired(s)
      PROVE  TypeInv'
  <2>0. Remove(s)
    BY <1>3 DEF RevokeSession, SweepExpired
  <2>1. session' \in [Sessions -> SessionStates]
    BY <2>0 DEF Remove, SessionStates, TypeInv, TypeOK
  <2>2. \A i \in DOMAIN tracked[s] : tracked[s][i] \in Ops
    BY DEF TypeInv, TypeOK
  <2>3. sink' \in SUBSET Ops
    BY <2>0, <2>2 DEF Remove, TypeInv, TypeOK
  <2>4. /\ tracked' \in [Sessions -> Seq(Ops)]
        /\ \A x \in Sessions : Len(tracked'[x]) <= MaxTracked
    <3>1. /\ Len(<<>>) <= MaxTracked /\ <<>> \in Seq(Ops)
      BY DEF ConstantsAssumption
    <3> QED
      BY <2>0, <3>1 DEF Remove, TypeInv, TypeOK
  <2> QED
    BY <2>0, <2>1, <2>3, <2>4 DEF Remove, TypeInv, TypeOK, TaskInv, db, effects
<1>4. ASSUME NEW o \in Ops, ExpiryPasses(o)
      PROVE  TypeInv'
  <2>1. ops[o] \in StoredOps
    BY <1>4 DEF ExpiryPasses, UnclaimedStates, TypeInv, TypeOK, OpRecords, AbsentOp
  <2> DEFINE row == [ops[o] EXCEPT !.due = TRUE]
  <2>2. row \in OpRecords
    BY <2>1 DEF StoredOps, OpRecords
  <2>3. ops' = [ops EXCEPT ![o] = row]
    BY <1>4 DEF ExpiryPasses
  <2> HIDE DEF row
  <2>4. ops' \in [Ops -> OpRecords]
    BY <2>2, <2>3 DEF TypeInv, TypeOK
  <2> QED
    BY <1>4, <2>4 DEF ExpiryPasses, TypeInv, TypeOK, TaskInv, broker, effects
<1>5. ASSUME NEW o \in Ops, CancelQuery(o)
      PROVE  TypeInv'
  BY <1>5 DEF CancelQuery, TypeInv, TypeOK, TaskInv, db, broker, effects
<1>6. ASSUME NEW p \in Policies, PolicyChanges(p)
      PROVE  TypeInv'
  BY <1>6 DEF PolicyChanges, TypeInv, TypeOK, TaskInv, db, broker, effects
<1>7. CASE BeginManual
  BY <1>7 DEF BeginManual, TypeInv, TypeOK, TaskInv, db, broker
<1>8. CASE CommitManual
  <2>1. commits' \in [Ops -> Nat]
    BY <1>8 DEF CommitManual, TypeInv, TypeOK
  <2> QED
    BY <1>8, <2>1 DEF CommitManual, TypeInv, TypeOK, TaskInv, db, broker
<1>9. CASE EndManual
  BY <1>9 DEF EndManual, RollBack, TypeInv, TypeOK, TaskInv, db, broker
<1> QED
  BY <1>1, <1>2, <1>3, <1>4, <1>5, <1>6, <1>7, <1>8, <1>9

\* Startup recovery keeps the types.
LEMMA RestartType ==
    ASSUME TypeInv, ConstantsAssumption, Restart
    PROVE  TypeInv'
<1>1. runtime' \in 0..MaxRuntime
  BY DEF Restart, TypeInv, TypeOK, ConstantsAssumption
<1>2. ASSUME NEW o \in Ops
      PROVE  /\ [ops[o] EXCEPT !.state = Recovered(o)] \in OpRecords
             /\ Recovered(o) # ops[o].state => Recovered(o) \in States
  <2>1. CASE ops[o] = AbsentOp
    <3>1. Recovered(o) = "absent" /\ ops[o].state = "absent"
      BY <2>1 DEF Recovered, AbsentOp
    <3>2. [AbsentOp EXCEPT !.state = "absent"] = AbsentOp
      <4>1. AbsentOp = [x \in {"state", "runtime", "payload", "policy", "due"} |-> AbsentOp[x]]
        BY DEF AbsentOp
      <4>2. AbsentOp.state = "absent"
        BY DEF AbsentOp
      <4> HIDE DEF AbsentOp
      <4> QED
        BY <4>1, <4>2
    <3> QED
      BY <2>1, <3>1, <3>2 DEF OpRecords
  <2>2. CASE ops[o] \in StoredOps
    <3>1. ops[o].state \in States /\ ops[o].state # "absent" /\ KindOf[o] \in Kinds
      BY <2>2 DEF StoredOps, States, TerminalStates, ConstantsAssumption
    <3>2. Recovered(o) \in States
      BY <3>1, RecoveryStates DEF Recovered
    <3> QED
      BY <2>2, <3>2 DEF StoredOps, OpRecords
  <2> QED
    BY <2>1, <2>2 DEF TypeInv, TypeOK, OpRecords
<1>3. ops' \in [Ops -> OpRecords]
  BY <1>2 DEF Restart
<1>4. ledger' \in [Ops -> Seq(States)]
  <2>1. ASSUME NEW o \in Ops
        PROVE  ledger'[o] \in Seq(States)
    <3>1. ledger[o] \in Seq(States)
      BY DEF TypeInv, TypeOK
    <3>2. ledger'[o] = IF Recovered(o) = ops[o].state THEN ledger[o]
                       ELSE Append(ledger[o], Recovered(o))
      BY DEF Restart
    <3>3. CASE Recovered(o) = ops[o].state
      BY <3>1, <3>2, <3>3
    <3>4. CASE Recovered(o) # ops[o].state
      <4>1. Recovered(o) \in States
        BY <1>2, <3>4
      <4> HIDE DEF Recovered
      <4> QED
        BY <3>1, <3>2, <3>4, <4>1
    <3> QED
      BY <3>3, <3>4
  <2> QED
    BY <2>1 DEF Restart
<1>5. commits' \in [Ops -> Nat]
  <2>1. PICK landed : commits' = [o \in Ops |-> commits[o] + (IF o \in landed THEN 1 ELSE 0)]
    BY DEF Restart
  <2> QED
    BY <2>1 DEF TypeInv, TypeOK
<1>6. /\ session' \in [Sessions -> SessionStates]
      /\ tracked' \in [Sessions -> Seq(Ops)]
      /\ \A s \in Sessions : Len(tracked'[s]) <= MaxTracked
      /\ sink' \in SUBSET Ops
      /\ signal' \in [Ops -> BOOLEAN]
      /\ manual' \in {"none", "active", "failed"} /\ staged' \in SUBSET Ops
  BY DEF Restart, RollBack, SessionStates, TypeInv, TypeOK, ConstantsAssumption
<1>7. task' \in [Tasks -> TaskRecords] /\ TaskInv'
  BY DEF Restart, TaskInv, IdleTask, TaskRecords, PcRun, PcOther
<1> QED
  BY <1>1, <1>3, <1>4, <1>5, <1>6, <1>7 DEF Restart, TypeInv, TypeOK

\* The initial state has its types.
LEMMA InitType ==
    ASSUME ConstantsAssumption, Init
    PROVE  TypeInv
<1>1. AbsentOp \in OpRecords
  BY DEF OpRecords
<1>2. IdleTask \in TaskRecords /\ IdleTask.pc = "idle"
  BY DEF IdleTask, TaskRecords, PcRun, PcOther
<1>3. TaskInv
  BY <1>2 DEF Init, TaskInv
<1>4. ops \in [Ops -> OpRecords] /\ task \in [Tasks -> TaskRecords]
  BY <1>1, <1>2 DEF Init
<1>5. /\ ledger \in [Ops -> Seq(States)]
      /\ approvals \in [Ops -> SUBSET ApprovalRows]
      /\ tracked \in [Sessions -> Seq(Ops)]
      /\ \A s \in Sessions : Len(tracked[s]) <= MaxTracked
      /\ commits \in [Ops -> Nat]
      /\ manual \in {"none", "active", "failed"}
      /\ staged \in SUBSET Ops /\ confirmed \in SUBSET Ops
  BY DEF Init, ConstantsAssumption
<1>6. /\ signal \in [Ops -> BOOLEAN]
      /\ claimLive \in [Ops -> BOOLEAN]
      /\ session \in [Sessions -> SessionStates]
      /\ sink \in SUBSET Ops
  BY DEF Init, SessionStates
<1>7. runtime \in 0..MaxRuntime /\ policy \in Policies
  BY DEF Init, ConstantsAssumption
<1> QED
  BY <1>3, <1>4, <1>5, <1>6, <1>7 DEF TypeInv, TypeOK

\* Every step keeps the types.
LEMMA NextType ==
    ASSUME TypeInv, ConstantsAssumption, [Next]_vars
    PROVE  TypeInv'
<1>1. ASSUME NEW t \in Tasks, TaskStep(t)
      PROVE  TypeInv'
  BY <1>1, PlanType, DecideType, ClaimType, ExecuteType, CancelType DEF TaskStep
<1>2. CASE UNCHANGED vars
  BY <1>2 DEF vars, db, broker, effects, TypeInv, TypeOK, TaskInv
<1> QED
  BY <1>1, <1>2, NewCallType, EnvironmentType, RestartType DEF Next

\* Every variable has its type in every reachable state, for any number of
\* operations, callers, sessions and restarts; a task at each of its steps
\* carries what the next one reads.
THEOREM TypeCorrect == Spec => [](TypeOK /\ TaskInv)
<1>1. Init => TypeInv
  BY InitType, ConstantsAssumption
<1>2. TypeInv /\ [Next]_vars => TypeInv'
  BY NextType, ConstantsAssumption
<1> QED
  BY <1>1, <1>2, PTL DEF Spec, TypeInv
=============================================================================
