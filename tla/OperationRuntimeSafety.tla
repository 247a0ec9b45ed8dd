---------------------- MODULE OperationRuntimeSafety ----------------------
(***************************************************************************)
(* The safety theorems of OperationRuntime. Most actions are harmless in   *)
(* the same way: they move operations along legal transitions of their own *)
(* process and issue no execution grant. PlainStep says what they have in  *)
(* common; the claim, the execution and the restart are treated one by one.*)
(***************************************************************************)
EXTENDS OperationRuntimeProofs

\* The steps of a task that holds an execution grant it has not used yet.
PcFresh == {"claim_recheck", "granted", "connect"}

Open(o) == ops[o].state \in UnclaimedStates \cup {"absent"}

\* A grant belongs to an operation that has left the open states; no two tasks
\* hold a grant of the same operation; the target is untouched, and nothing is
\* staged, while a grant is fresh and while the operation is open; what a manual
\* transaction still holds has not been committed.
GrantInv ==
    /\ \A t \in Tasks : task[t].pc \in PcAfterClaim => ~Open(task[t].op)
    /\ \A t, u \in Tasks :
          /\ task[t].pc \in PcAfterClaim
          /\ task[u].pc \in PcAfterClaim
          /\ task[t].op = task[u].op
          => t = u
    /\ \A t \in Tasks :
          task[t].pc \in PcFresh => commits[task[t].op] = 0 /\ task[t].op \notin staged
    /\ \A o \in Ops : Open(o) => commits[o] = 0
    /\ \A o \in Ops : commits[o] <= 1
    /\ \A o \in staged : ~Open(o) /\ commits[o] = 0 /\ MayMutateTarget(KindOf[o])

\* An operation that is approved, was claimed, holds a grant, is staged or has
\* changed the target.
Trusted(o) ==
    \/ ops[o].state \in {"approved", "executing", "succeeded"}
    \/ commits[o] > 0
    \/ o \in staged
    \/ \E t \in Tasks : task[t].op = o /\ task[t].pc \in PcAfterClaim

ApprovalInv ==
    \A o \in Ops : MayMutateTarget(KindOf[o]) /\ Trusted(o) => ExactlyApproved(o)

SafetyInv == GrantInv /\ ApprovalInv /\ OldRuntimesAreClosed

-----------------------------------------------------------------------------
(* Plain steps.                                                            *)

SamePlan(o) ==
    /\ ops'[o].runtime = ops[o].runtime
    /\ ops'[o].payload = ops[o].payload
    /\ ops'[o].policy = ops[o].policy

Kept(o) == ops'[o].state = ops[o].state /\ SamePlan(o)

Created(o) ==
    ops[o].state = "absent" /\ ops'[o].state = "planned" /\ ops'[o].runtime = runtime

Moved(o) ==
    /\ EnsureTransition(ops[o].state, ops'[o].state)
    /\ ops[o].runtime = runtime
    /\ SamePlan(o)
    /\ ops'[o].state # "executing"
    /\ ops'[o].state = "approved" => ExactlyApproved(o)'

PlainOps == \A o \in Ops : Kept(o) \/ Created(o) \/ Moved(o)

PlainTasks ==
    \A t \in Tasks :
        task'[t].pc \in PcAfterClaim =>
            /\ task[t].pc \in PcAfterClaim
            /\ task'[t].op = task[t].op
            /\ task'[t].pc \in PcFresh => task[t].pc \in PcFresh

PlainRest ==
    /\ runtime' = runtime
    /\ commits' = commits
    /\ staged' = staged
    /\ \A o \in Ops : approvals[o] \subseteq approvals'[o]

PlainStep == PlainOps /\ PlainTasks /\ PlainRest

\* A call that touches no operation is plain.
LEMMA UnchangedPlain ==
    ASSUME UNCHANGED ops
    PROVE  PlainOps
BY DEF PlainOps, Kept, SamePlan

\* A legal transition of one operation of the running process is plain, unless
\* it claims the operation.
LEMMA TransitionPlain ==
    ASSUME TypeOK, NEW o \in Ops, NEW target \in States, ops[o].state # "absent",
           EnsureTransition(ops[o].state, target), ops[o].runtime = runtime,
           TransitionTx(o, target), target # "executing",
           target = "approved" => ExactlyApproved(o)'
    PROVE  PlainOps
<1>1. Moved(o)
  BY TransitionTxEffect DEF Moved, SamePlan
<1>2. \A x \in Ops : x # o => Kept(x)
  BY TransitionTxEffect DEF Kept, SamePlan
<1> QED
  BY <1>1, <1>2 DEF PlainOps

\* Writing a final state is plain, and so is being refused.
LEMMA FinishPlain ==
    ASSUME TypeOK, NEW o \in Ops, NEW target, target \notin {"approved", "executing"},
           Finish(o, target)
    PROVE  PlainOps
<1>1. CASE CanTransition(o, target)
  <2>1. TransitionTx(o, target)
    BY <1>1 DEF Finish
  <2>2. target \in States /\ ops[o].state # "absent"
    BY <1>1, TransitionStates DEF CanTransition
  <2> QED
    BY <1>1, <2>1, <2>2, TransitionPlain DEF CanTransition, EnsureRuntime
<1>2. CASE ~CanTransition(o, target)
  BY <1>2, UnchangedPlain DEF Finish
<1> QED
  BY <1>1, <1>2

\* A returning task gives up its grant.
LEMMA ReturnPlain ==
    ASSUME TypeInv, NEW t \in Tasks, Return(t)
    PROVE  PlainTasks
<1>1. IdleTask.pc \notin PcAfterClaim
  BY DEF IdleTask, PcAfterClaim
<1> QED
  BY <1>1, ReturnEffect DEF PlainTasks

\* A task that goes on to a step outside of the execution, or from one fresh
\* step to the next, issues no grant.
LEMMA GotoPlain ==
    ASSUME TypeInv, NEW t \in Tasks, NEW pc \in PcRun \cup PcOther, Goto(t, pc),
           pc \notin PcAfterClaim \/ task[t].pc \in PcFresh
    PROVE  PlainTasks
<1>1. PcFresh \subseteq PcAfterClaim
  BY DEF PcFresh, PcAfterClaim
<1> QED
  BY <1>1, GotoEffect DEF PlainTasks

\* A new call holds no grant.
LEMMA CallPlain ==
    ASSUME TypeInv, NEW t \in Tasks, NEW pc \in PcRun \cup PcOther, NEW o \in Ops,
           NEW payload \in Payloads \cup {None}, NEW choice \in {"none", "approved", "rejected"},
           Call(t, pc, o, payload, choice), pc \notin PcAfterClaim
    PROVE  PlainTasks
BY CallEffect DEF PlainTasks

\* Writing a final state and returning is a plain step.
LEMMA FinishReturnPlain ==
    ASSUME TypeInv, NEW t \in Tasks, task[t].pc # "idle", NEW target,
           target \notin {"approved", "executing"},
           Finish(task[t].op, target), Return(t),
           UNCHANGED <<approvals, runtime, staged, commits>>
    PROVE  PlainStep
<1>1. task[t].op \in Ops
  BY DEF TypeInv, TaskInv
<1>2. PlainOps
  BY <1>1, FinishPlain DEF TypeInv
<1>3. PlainTasks
  BY ReturnPlain
<1> QED
  BY <1>2, <1>3 DEF PlainStep, PlainRest

\* Planning is plain: a key is bound once, and a new plan is never claimed.
LEMMA PlanPlain ==
    ASSUME TypeInv, NEW t \in Tasks, PlanInsert(t) \/ PlanDispose(t) \/ PlanTrack(t)
    PROVE  PlainStep
<1> DEFINE o == task[t].op
<1>0. o \in Ops
  BY DEF TypeInv, TaskInv, PlanInsert, PlanDispose, PlanTrack
<1>a. ASSUME NEW pc \in {"plan_dispose", "plan_track"}, Goto(t, pc)
      PROVE  PlainTasks
  <2>1. pc \in PcRun \cup PcOther /\ pc \notin PcAfterClaim
    BY DEF PcOther, PcAfterClaim
  <2> QED
    BY <1>a, <2>1, GotoPlain
<1>b. AfterPlan(t, o) => PlainTasks
  BY <1>a, ReturnPlain DEF AfterPlan
<1>1. CASE PlanInsert(t)
  <2>1. PlainTasks
    BY <1>1, <1>a, <1>b, ReturnPlain DEF PlanInsert
  <2>2. PlainOps
    <3>1. CASE UNCHANGED ops
      BY <3>1, UnchangedPlain
    <3>2. CASE /\ ops[o].state = "absent"
               /\ ops' = [ops EXCEPT ![o] =
                           [state |-> "planned", runtime |-> runtime,
                            payload |-> task[t].payload, policy |-> policy, due |-> FALSE]]
      <4>1. ops'[o].state = "planned" /\ ops'[o].runtime = runtime
        BY <3>2, <1>0 DEF TypeInv, TypeOK
      <4>2. Created(o)
        BY <3>2, <4>1 DEF Created
      <4>3. \A x \in Ops : x # o => Kept(x)
        BY <3>2 DEF TypeInv, TypeOK, Kept, SamePlan
      <4> QED
        BY <4>2, <4>3 DEF PlainOps
    <3> QED
      BY <1>1, <3>1, <3>2 DEF PlanInsert
  <2> QED
    BY <1>1, <2>1, <2>2 DEF PlanInsert, PlainStep, PlainRest, effects
<1>2. CASE PlanDispose(t)
  <2>1. PlainTasks
    BY <1>2, <1>b, ReturnPlain DEF PlanDispose
  <2>2. Disposition(KindOf[o]) \notin {"approved", "executing"}
    BY DEF Disposition
  <2>3. PlainOps
    BY <1>2, <1>0, <2>2, FinishPlain DEF PlanDispose, TypeInv
  <2> QED
    BY <1>2, <2>1, <2>3 DEF PlanDispose, PlainStep, PlainRest, effects
<1>3. CASE PlanTrack(t)
  BY <1>3, ReturnPlain, UnchangedPlain DEF PlanTrack, PlainStep, PlainRest, db, effects
<1> QED
  BY <1>1, <1>2, <1>3

\* A decision is plain: an approval is stored with the payload that the human
\* reviewed and the policy of the plan.
LEMMA DecidePlain ==
    ASSUME TypeInv, NEW t \in Tasks, CapturePolicy(t) \/ DecideApproval(t)
    PROVE  PlainStep
<1>a. task[t].op \in Ops /\ task[t].choice \in {"approved", "rejected"}
  BY DEF TypeInv, TaskInv, CapturePolicy, DecideApproval
<1>0. PICK o \in Ops : o = task[t].op /\ task[t].choice \in {"approved", "rejected"}
  BY <1>a
<1>1. CASE CapturePolicy(t)
  <2>1. /\ \A u \in Tasks : u # t => task'[u] = task[u]
        /\ task'[t].pc = "decide_tx"
    BY <1>1 DEF CapturePolicy, TypeInv, TypeOK, TaskRecords
  <2>2. PlainTasks
    BY <2>1 DEF PlainTasks, PcAfterClaim
  <2> QED
    BY <1>1, <2>2, UnchangedPlain DEF CapturePolicy, PlainStep, PlainRest, db, effects
<1>2. CASE DecideApproval(t)
  <2> DEFINE row == [payload |-> ops[o].payload, policy |-> ops[o].policy,
                     decision |-> task[t].choice, seen |-> task[t].payload]
  <2>1. PlainTasks
    BY <1>2, ReturnPlain DEF DecideApproval
  <2>2. CASE UNCHANGED db
    BY <1>2, <2>1, <2>2, UnchangedPlain
       DEF DecideApproval, PlainStep, PlainRest, db, effects
  <2>a. ASSUME IsExactDecision(o, task[t].payload, task[t].policy)
        PROVE  /\ ops[o].state = "pending_approval"
               /\ ops[o].runtime = runtime
               /\ ops[o].payload = task[t].payload
    BY <2>a DEF IsExactDecision, EnsureRuntime
  <2>3. CASE /\ IsExactDecision(o, task[t].payload, task[t].policy)
             /\ TransitionTx(o, "expired")
             /\ UNCHANGED approvals
    <3>1. "expired" \in States /\ EnsureTransition("pending_approval", "expired")
      BY DEF States, TerminalStates, EnsureTransition
    <3>2. PlainOps
      BY <1>0, <2>a, <2>3, <3>1, TransitionPlain DEF TypeInv
    <3> QED
      BY <1>2, <2>1, <2>3, <3>2 DEF DecideApproval, PlainStep, PlainRest, effects
  <2>4. CASE /\ IsExactDecision(o, task[t].payload, task[t].policy)
             /\ approvals' = [approvals EXCEPT ![o] = @ \cup {row}]
             /\ TransitionTx(o, task[t].choice)
    <3>1. /\ task[t].choice \in States
          /\ EnsureTransition("pending_approval", task[t].choice)
          /\ task[t].choice # "executing"
      BY <1>0 DEF States, TerminalStates, EnsureTransition
    <3>2. ops'[o].payload = ops[o].payload /\ ops'[o].policy = ops[o].policy
      BY <1>0, <2>a, <2>4, <3>1, TransitionTxEffect DEF TypeInv
    <3>3. row \in approvals'[o] /\ \A x \in Ops : approvals[x] \subseteq approvals'[x]
      BY <1>0, <2>4 DEF TypeInv, TypeOK
    <3>4. task[t].choice = "approved" => ExactlyApproved(o)'
      BY <2>a, <2>4, <3>2, <3>3 DEF ExactlyApproved
    <3>5. PlainOps
      BY <1>0, <2>a, <2>4, <3>1, <3>4, TransitionPlain DEF TypeInv
    <3> QED
      BY <1>2, <2>1, <3>3, <3>5 DEF DecideApproval, PlainStep, PlainRest, effects
  <2> QED
    BY <1>0, <1>2, <2>2, <2>3, <2>4 DEF DecideApproval
<1> QED
  BY <1>1, <1>2

\* The steps around a claim are plain, and so is a claim that is refused.
LEMMA ClaimPlain ==
    ASSUME TypeInv, NEW t \in Tasks,
           \/ ClaimCheck(t) \/ ClaimCancel(t) \/ ClaimRecheck(t)
           \/ ClaimTx(t) /\ Return(t)
    PROVE  PlainStep
<1> DEFINE o == task[t].op
<1>0. o \in Ops /\ task[t].pc # "idle"
  BY DEF TypeInv, TaskInv, ClaimCheck, ClaimCancel, ClaimTx, ClaimRecheck
<1>1. CASE ClaimCheck(t)
  <2>1. PlainTasks
    <3>1. CASE Goto(t, "claim_cancel")
      BY <3>1, GotoPlain DEF PcRun, PcBeforeClaim, PcAfterClaim
    <3>2. CASE Return(t)
      BY <3>2, ReturnPlain
    <3>3. CASE task' = [task EXCEPT ![t].pc = "claim_tx", ![t].late = ops[o].due]
      <4>1. /\ \A u \in Tasks : u # t => task'[u] = task[u]
            /\ task'[t].pc = "claim_tx"
        BY <3>3 DEF TypeInv, TypeOK, TaskRecords
      <4> QED
        BY <4>1 DEF PlainTasks, PcAfterClaim
    <3> QED
      BY <1>1, <3>1, <3>2, <3>3 DEF ClaimCheck
  <2> QED
    BY <1>1, <2>1, UnchangedPlain DEF ClaimCheck, PlainStep, PlainRest, db, effects
<1>2. CASE ClaimCancel(t)
  BY <1>0, <1>2, FinishReturnPlain DEF ClaimCancel, effects
<1>3. CASE ClaimRecheck(t)
  <2>1. CASE Finish(o, "cancelled") /\ Return(t)
    <3>1. UNCHANGED <<approvals, runtime, staged, commits>>
      BY <1>3 DEF ClaimRecheck, effects
    <3> QED
      BY <1>0, <2>1, <3>1, FinishReturnPlain
  <2>2. CASE Goto(t, "granted") /\ UNCHANGED <<ops, ledger>>
    <3>1. "granted" \in PcRun \cup PcOther /\ task[t].pc \in PcFresh
      BY <1>3 DEF ClaimRecheck, PcRun, PcAfterClaim, PcFresh
    <3>2. PlainTasks
      BY <2>2, <3>1, GotoPlain
    <3> QED
      BY <1>3, <2>2, <3>2, UnchangedPlain DEF ClaimRecheck, PlainStep, PlainRest, effects
  <2> QED
    BY <1>3, <2>1, <2>2 DEF ClaimRecheck
<1>4. CASE ClaimTx(t) /\ Return(t)
  <2>1. PlainTasks
    BY <1>4, ReturnPlain
  <2>2. ~Goto(t, "claim_recheck")
    <3>1. task'[t].pc = "idle"
      BY <1>4, ReturnEffect DEF IdleTask
    <3>2. Goto(t, "claim_recheck") => task'[t].pc = "claim_recheck"
      BY DEF Goto, TypeInv, TypeOK, TaskRecords
    <3> QED
      BY <3>1, <3>2
  <2>3. CASE UNCHANGED <<ops, ledger>>
    BY <1>4, <2>1, <2>3, UnchangedPlain DEF ClaimTx, PlainStep, PlainRest
  <2>4. CASE IsExecutable(o) /\ TransitionTx(o, "expired")
    <3>1. /\ "expired" \in States
          /\ ops[o].state # "absent"
          /\ EnsureTransition(ops[o].state, "expired")
          /\ ops[o].runtime = runtime
      BY <2>4 DEF IsExecutable, EnsureRuntime, States, TerminalStates, EnsureTransition
    <3>2. PlainOps
      BY <1>0, <2>4, <3>1, TransitionPlain DEF TypeInv
    <3> QED
      BY <1>4, <2>1, <3>2 DEF ClaimTx, PlainStep, PlainRest
  <2> QED
    BY <1>4, <2>2, <2>3, <2>4 DEF ClaimTx
<1> QED
  BY <1>1, <1>2, <1>3, <1>4

\* The steps before and after the execution are plain, and so are those of a
\* cancellation.
LEMMA ReceiptPlain ==
    ASSUME TypeInv, NEW t \in Tasks,
           \/ CheckSignal(t) \/ FailBeforeTarget(t) \/ WriteReceipt(t) \/ ReceiptFailed(t)
           \/ CancelBefore(t) \/ CleanupRead(t) \/ CleanupCancel(t)
    PROVE  PlainStep
<1> DEFINE o == task[t].op
<1>0. o \in Ops /\ task[t].pc # "idle"
  BY DEF TypeInv, TaskInv, CheckSignal, FailBeforeTarget, WriteReceipt, ReceiptFailed,
         CancelBefore, CleanupRead, CleanupCancel
<1>1. CASE CheckSignal(t)
  <2>1. CASE Finish(o, "cancelled") /\ Return(t)
    BY <1>0, <1>1, <2>1, FinishReturnPlain DEF CheckSignal, effects
  <2>2. CASE Goto(t, "connect") /\ UNCHANGED <<ops, ledger>>
    <3>1. "connect" \in PcRun \cup PcOther /\ task[t].pc \in PcFresh
      BY <1>1 DEF CheckSignal, PcRun, PcAfterClaim, PcFresh
    <3>2. PlainTasks
      BY <2>2, <3>1, GotoPlain
    <3> QED
      BY <1>1, <2>2, <3>2, UnchangedPlain DEF CheckSignal, PlainStep, PlainRest, effects
  <2> QED
    BY <1>1, <2>1, <2>2 DEF CheckSignal
<1>2. CASE FailBeforeTarget(t)
  BY <1>0, <1>2, FinishReturnPlain DEF FailBeforeTarget, effects
<1>3. CASE WriteReceipt(t)
  <2> DEFINE target == IF task[t].choice = "staged" THEN "succeeded" ELSE task[t].choice
  <2>1. target \notin {"approved", "executing"}
    BY <1>3 DEF WriteReceipt, TypeInv, TaskInv
  <2>2. Finish(o, target) /\ Return(t) /\ UNCHANGED <<approvals, runtime, staged, commits>>
    BY <1>3 DEF WriteReceipt
  <2> HIDE DEF target
  <2> QED
    BY <1>0, <2>1, <2>2, FinishReturnPlain
<1>4. CASE ReceiptFailed(t)
  <2>1. /\ \A u \in Tasks : u # t => task'[u] = task[u]
        /\ task'[t].pc = "receipt_retry"
        /\ task'[t].op = o
        /\ task[t].pc = "receipt"
    BY <1>4 DEF ReceiptFailed, TypeInv, TypeOK, TaskRecords
  <2>2. PlainTasks
    BY <2>1 DEF PlainTasks, PcAfterClaim, PcFresh
  <2> QED
    BY <1>4, <2>2, UnchangedPlain DEF ReceiptFailed, PlainStep, PlainRest, db, effects
<1>5. CASE CancelBefore(t)
  <2>1. /\ Finish(o, "cancelled")
        /\ Return(t)
        /\ UNCHANGED <<approvals, runtime, staged, commits>>
    BY <1>5 DEF CancelBefore, effects
  <2> QED
    BY <1>0, <2>1, FinishReturnPlain
<1>6. CASE CleanupCancel(t)
  <2>1. /\ Finish(o, "cancelled")
        /\ Return(t)
        /\ UNCHANGED <<approvals, runtime, staged, commits>>
    BY <1>6 DEF CleanupCancel, effects
  <2> QED
    BY <1>0, <2>1, FinishReturnPlain
<1>7. CASE CleanupRead(t)
  <2>1. "cleanup_cancel" \in PcRun \cup PcOther /\ "cleanup_cancel" \notin PcAfterClaim
    BY DEF PcOther, PcAfterClaim
  <2>2. PlainTasks
    BY <1>7, <2>1, GotoPlain, ReturnPlain DEF CleanupRead
  <2> QED
    BY <1>7, <2>2, UnchangedPlain DEF CleanupRead, PlainStep, PlainRest, db, effects
<1> QED
  BY <1>1, <1>2, <1>3, <1>4, <1>5, <1>6, <1>7

\* New calls, the revocation consumer, the session registry, the clock and the
\* policy are plain.
LEMMA EnvironmentPlain ==
    ASSUME TypeInv,
           \/ \E t \in Callers : NewCall(t)
           \/ SinkTake
           \/ \E s \in Sessions :
                 IssueSession(s) \/ SessionExpires(s) \/ RevokeSession(s) \/ SweepExpired(s)
           \/ \E o \in Ops : ExpiryPasses(o) \/ CancelQuery(o)
           \/ \E p \in Policies : PolicyChanges(p)
           \/ UNCHANGED vars
    PROVE  PlainStep
<1>a. UNCHANGED task => PlainTasks
  BY DEF PlainTasks
<1>b. ASSUME NEW pc \in {"plan_insert", "cleanup_read", "decide_policy", "claim_check",
                         "cancel_before"}
      PROVE  pc \in PcRun \cup PcOther /\ pc \notin PcAfterClaim
  BY DEF PcRun, PcBeforeClaim, PcOther, PcAfterClaim
<1>1. ASSUME NEW t \in Callers, NEW o \in Ops, NEW h \in Payloads,
             \/ PlanStart(t, o, h) \/ ApproveRead(t, o, h) \/ RejectRead(t, o, h)
             \/ RunStart(t, o) \/ CancelRead(t, o)
      PROVE  PlainStep
  <2>0. t \in Tasks
    BY DEF Tasks
  <2>1. PlainTasks
    <3>1. CASE PlanStart(t, o, h)
      BY <3>1, <2>0, <1>b, CallPlain DEF PlanStart
    <3>2. CASE ApproveRead(t, o, h)
      BY <3>2, <2>0, <1>b, CallPlain DEF ApproveRead
    <3>3. CASE RejectRead(t, o, h)
      BY <3>3, <2>0, <1>b, CallPlain DEF RejectRead
    <3>4. CASE RunStart(t, o)
      BY <3>4, <2>0, <1>b, CallPlain DEF RunStart
    <3>5. CASE CancelRead(t, o)
      BY <3>5, <2>0, <1>a, <1>b, CallPlain DEF CancelRead
    <3> QED
      BY <1>1, <3>1, <3>2, <3>3, <3>4, <3>5
  <2>2. UNCHANGED <<db, runtime, effects>>
    BY <1>1 DEF PlanStart, ApproveRead, RejectRead, RunStart, CancelRead
  <2> QED
    BY <2>1, <2>2, UnchangedPlain DEF PlainStep, PlainRest, db, effects
<1>2. CASE SinkTake
  <2>1. PICK o \in sink : Call(Consumer, "cleanup_read", o, None, "none")
    BY <1>2 DEF SinkTake
  <2>2. o \in Ops /\ Consumer \in Tasks
    BY DEF TypeInv, TypeOK, Tasks
  <2>3. PlainTasks
    BY <2>1, <2>2, <1>b, CallPlain
  <2> QED
    BY <1>2, <2>3, UnchangedPlain DEF SinkTake, PlainStep, PlainRest, db, effects
<1>3. ASSUME NEW s \in Sessions,
             IssueSession(s) \/ SessionExpires(s) \/ RevokeSession(s) \/ SweepExpired(s)
      PROVE  PlainStep
  BY <1>3, <1>a, UnchangedPlain DEF IssueSession, SessionExpires, RevokeSession,
     SweepExpired, Remove, PlainStep, PlainRest, db, effects
<1>4. ASSUME NEW o \in Ops, ExpiryPasses(o)
      PROVE  PlainStep
  <2>1. ops[o] \in StoredOps
    BY <1>4 DEF ExpiryPasses, UnclaimedStates, TypeInv, TypeOK, OpRecords, AbsentOp
  <2>2. Kept(o)
    <3>1. ops'[o] = [ops[o] EXCEPT !.due = TRUE]
      BY <1>4 DEF ExpiryPasses, TypeInv, TypeOK
    <3> QED
      BY <2>1, <3>1 DEF StoredOps, Kept, SamePlan
  <2>3. \A x \in Ops : x # o => Kept(x)
    BY <1>4 DEF ExpiryPasses, TypeInv, TypeOK, Kept, SamePlan
  <2>4. PlainOps
    BY <2>2, <2>3 DEF PlainOps
  <2> QED
    BY <1>4, <2>4, <1>a DEF ExpiryPasses, PlainStep, PlainRest, effects
<1>5. ASSUME NEW o \in Ops, CancelQuery(o)
      PROVE  PlainStep
  BY <1>5, <1>a, UnchangedPlain DEF CancelQuery, PlainStep, PlainRest, db, effects
<1>6. ASSUME NEW p \in Policies, PolicyChanges(p)
      PROVE  PlainStep
  BY <1>6, <1>a, UnchangedPlain DEF PolicyChanges, PlainStep, PlainRest, db, effects
<1>7. CASE UNCHANGED vars
  BY <1>7, <1>a, UnchangedPlain DEF vars, PlainStep, PlainRest, db, effects
<1>8. ASSUME NEW t \in Callers, NewCall(t)
      PROVE  PlainStep
  <2>1. Payloads # {} => PlainStep
    BY <1>1, <1>8 DEF NewCall
  <2>2. PICK o \in Ops :
            \/ \E p \in Payloads : PlanStart(t, o, p) \/ ApproveRead(t, o, p)
                                      \/ RejectRead(t, o, p)
            \/ RunStart(t, o) \/ CancelRead(t, o)
    BY <1>8 DEF NewCall
  <2>3. RunStart(t, o) \/ CancelRead(t, o) => Payloads # {}
    <3>1. RunStart(t, o) \/ CancelRead(t, o) => ops[o].state # "absent"
      BY DEF RunStart, CancelRead, UnclaimedStates
    <3> QED
      BY <3>1 DEF TypeInv, TypeOK, OpRecords, StoredOps, AbsentOp
  <2> QED
    BY <2>1, <2>2, <2>3
<1> QED
  BY <1>2, <1>3, <1>4, <1>5, <1>6, <1>7, <1>8

\* A step of the user's manual transaction commits what was staged, once, or
\* drops it.
ManualStep ==
    /\ UNCHANGED <<db, runtime, policy, broker, task, confirmed, claimLive>>
    /\ staged' \subseteq staged
    /\ \A o \in Ops :
          \/ commits'[o] = commits[o]
          \/ o \in staged /\ o \notin staged' /\ commits'[o] = commits[o] + 1

LEMMA ManualEffect ==
    ASSUME TypeInv, BeginManual \/ CommitManual \/ EndManual
    PROVE  ManualStep
<1>1. CASE BeginManual
  BY <1>1 DEF BeginManual, ManualStep
<1>2. CASE CommitManual
  BY <1>2 DEF CommitManual, ManualStep, TypeInv, TypeOK
<1>3. CASE EndManual
  BY <1>3 DEF EndManual, RollBack, ManualStep
<1> QED
  BY <1>1, <1>2, <1>3

\* What an execution does: its task has used its grant, and the write of that
\* grant is committed, staged or not done, as the result it will report says.
ExecutedAs(t, o) ==
    /\ o = task[t].op
    /\ task[t].pc = "connect"
    /\ task'[t].pc = "receipt" /\ task'[t].op = o
    /\ task'[t].payload = task[t].payload /\ task'[t].policy = task[t].policy
    /\ task'[t].choice \in {"succeeded", "staged", "failed", "cancelled", "outcome_unknown"}
    /\ \A u \in Tasks : u # t => task'[u] = task[u]
    /\ commits'[o] = commits[o] \/ commits'[o] = commits[o] + 1
    /\ \A x \in Ops : x # o => commits'[x] = commits[x]
    /\ staged' \subseteq staged \cup {o}
    /\ o \in staged' /\ o \notin staged => commits'[o] = commits[o]
    /\ o \in staged' /\ o \notin staged => MayMutateTarget(KindOf[o])
    /\ commits'[o] # commits[o] => MayMutateTarget(KindOf[o])
    /\ MayMutateTarget(KindOf[o]) =>
          /\ task'[t].choice = "succeeded" => commits'[o] = commits[o] + 1
          /\ task'[t].choice = "failed" =>
                commits'[o] = commits[o] /\ (o \in staged' => o \in staged)
    /\ UNCHANGED <<db, runtime, policy, broker, confirmed, claimLive>>

LEMMA ReportEffect ==
    ASSUME TypeInv, NEW t \in Tasks, NEW choice, Report(t, choice)
    PROVE  /\ task'[t].pc = "receipt" /\ task'[t].op = task[t].op
           /\ task'[t].payload = task[t].payload /\ task'[t].policy = task[t].policy
           /\ task'[t].choice = choice
           /\ \A u \in Tasks : u # t => task'[u] = task[u]
BY DEF Report, TypeInv, TypeOK, TaskRecords

LEMMA ExecuteEffect ==
    ASSUME TypeInv, NEW t \in Tasks, Execute(t)
    PROVE  \E o \in Ops : ExecutedAs(t, o)
<1>0. task[t].op \in Ops /\ task[t].pc = "connect"
  BY DEF TypeInv, TaskInv, Execute
<1>1. PICK o \in Ops : o = task[t].op
  BY <1>0
<1>2. UNCHANGED <<db, runtime, policy, broker, confirmed, claimLive>>
  BY DEF Execute
<1>3. commits \in [Ops -> Nat]
  BY DEF TypeInv, TypeOK
<1>4. CASE RunDirect(t)
  <2>1. PICK r \in Results(o) :
            /\ commits' = [commits EXCEPT ![o] = @ + r.committed]
            /\ Report(t, r.choice)
            /\ UNCHANGED <<manual, staged>>
    BY <1>1, <1>4 DEF RunDirect
  <2>2. /\ r.committed \in {0, 1}
        /\ r.choice \in {"succeeded", "staged", "failed", "cancelled", "outcome_unknown"}
        /\ r.committed = 1 => MayMutateTarget(KindOf[o])
        /\ MayMutateTarget(KindOf[o]) =>
              /\ r.choice = "succeeded" => r.committed = 1
              /\ r.choice = "failed" => r.committed = 0
    BY DEF Results
  <2>3. /\ commits'[o] = commits[o] + r.committed
        /\ \A x \in Ops : x # o => commits'[x] = commits[x]
    BY <1>3, <2>1
  <2>4. commits[o] \in Nat
    BY <1>3
  <2>5. /\ task'[t].pc = "receipt" /\ task'[t].op = o
        /\ task'[t].payload = task[t].payload /\ task'[t].policy = task[t].policy
        /\ task'[t].choice = r.choice
        /\ \A u \in Tasks : u # t => task'[u] = task[u]
    BY <1>1, <2>1, ReportEffect
  <2>6. staged' = staged
    BY <2>1
  <2>7. r.committed = 0 \/ r.committed = 1
    BY <2>2
  <2>8. CASE r.committed = 0
    BY <1>0, <1>1, <1>2, <2>2, <2>3, <2>4, <2>5, <2>6, <2>8 DEF ExecutedAs
  <2>9. CASE r.committed = 1
    BY <1>0, <1>1, <1>2, <2>2, <2>3, <2>4, <2>5, <2>6, <2>9 DEF ExecutedAs
  <2> QED
    BY <2>7, <2>8, <2>9
<1>5. CASE RunManual(t)
  <2>1. /\ commits' = commits
        /\ staged' \subseteq staged \cup {o}
        /\ o \in staged' /\ o \notin staged =>
              MayMutateTarget(KindOf[o]) /\ Report(t, "staged")
    BY <1>1, <1>5 DEF RunManual, RollBack
  <2>2. \/ Report(t, "staged")
        \/ Report(t, "succeeded") /\ ~MayMutateTarget(KindOf[o])
        \/ Report(t, "failed")
        \/ Report(t, "cancelled")
    BY <1>1, <1>5 DEF RunManual
  <2> QED
    BY <1>0, <1>1, <1>2, <2>1, <2>2, ReportEffect DEF ExecutedAs
<1> QED
  BY <1>1, <1>4, <1>5 DEF Execute

\* Every step of Next is plain, or it is a successful claim, an execution, a step
\* of the user's manual transaction or a restart.
LEMMA StepShapes ==
    ASSUME TypeInv, [Next]_vars
    PROVE  \/ PlainStep
           \/ \E t \in Tasks : ClaimTx(t) /\ ~Return(t)
           \/ \E t \in Tasks : Execute(t)
           \/ ManualStep
           \/ Restart
<1>1. ASSUME NEW t \in Tasks, TaskStep(t)
      PROVE  PlainStep \/ (ClaimTx(t) /\ ~Return(t)) \/ Execute(t)
  BY <1>1, PlanPlain, DecidePlain, ClaimPlain, ReceiptPlain DEF TaskStep
<1> QED
  BY <1>1, EnvironmentPlain, ManualEffect DEF Next

-----------------------------------------------------------------------------
(* Preservation of the safety invariant.                                   *)

\* An operation that has left the open states never returns to them.
LEMMA PlainStaysClaimed ==
    ASSUME TypeInv, PlainStep, NEW o \in Ops
    PROVE  /\ Open(o)' => Open(o)
           /\ ops'[o].state \in {"executing", "succeeded"} =>
                 ops[o].state \in {"executing", "succeeded"}
<1>1. Kept(o) \/ Created(o) \/ Moved(o)
  BY DEF PlainStep, PlainOps
<1>2. CASE Kept(o)
  BY <1>2 DEF Kept, Open
<1>3. CASE Created(o)
  BY <1>3 DEF Created, Open
<1>4. CASE Moved(o)
  BY <1>4 DEF Moved, Open, EnsureTransition, UnclaimedStates
<1> QED
  BY <1>1, <1>2, <1>3, <1>4

\* A plain step keeps grants unique and the target untouched.
LEMMA PlainGrants ==
    ASSUME TypeInv, GrantInv, PlainStep
    PROVE  GrantInv'
<1>1. commits' = commits /\ staged' = staged
  BY DEF PlainStep, PlainRest
<1>2. \A t \in Tasks : task[t].pc \in PcAfterClaim => task[t].op \in Ops
  BY DEF TypeInv, TaskInv, PcAfterClaim
<1>3. PcFresh \subseteq PcAfterClaim
  BY DEF PcFresh, PcAfterClaim
<1>4. \A o \in Ops : Open(o)' => Open(o)
  BY PlainStaysClaimed
<1>5. ASSUME NEW t \in Tasks, task'[t].pc \in PcAfterClaim
      PROVE  ~Open(task[t].op)'
  <2>1. PICK o \in Ops : o = task[t].op /\ task'[t].op = o
    BY <1>2, <1>5 DEF PlainStep, PlainTasks
  <2>2. ~Open(o)
    BY <1>5, <2>1 DEF PlainStep, PlainTasks, GrantInv
  <2>3. ~Open(o)'
    BY <1>4, <2>2
  <2> QED
    BY <2>1, <2>3 DEF Open
<1>6. ASSUME NEW t \in Tasks, NEW u \in Tasks,
             task'[t].pc \in PcAfterClaim, task'[u].pc \in PcAfterClaim,
             task'[t].op = task'[u].op
      PROVE  t = u
  BY <1>6 DEF PlainStep, PlainTasks, GrantInv
<1>7. ASSUME NEW t \in Tasks, task'[t].pc \in PcFresh
      PROVE  commits'[task'[t].op] = 0 /\ task'[t].op \notin staged'
  BY <1>1, <1>3, <1>7 DEF PlainStep, PlainTasks, GrantInv
<1>8. \A o \in Ops : (Open(o)' => commits'[o] = 0) /\ commits'[o] <= 1
  BY <1>1, <1>4 DEF GrantInv
<1>9. \A o \in staged' : ~Open(o)' /\ commits'[o] = 0 /\ MayMutateTarget(KindOf[o])
  BY <1>1, <1>4 DEF GrantInv, TypeInv, TypeOK
<1> QED
  BY <1>5, <1>6, <1>7, <1>8, <1>9 DEF GrantInv

\* A plain step keeps trusted mutations exactly approved.
LEMMA PlainApprovals ==
    ASSUME TypeInv, GrantInv, ApprovalInv, PlainStep
    PROVE  ApprovalInv'
<1> SUFFICES ASSUME NEW o \in Ops, MayMutateTarget(KindOf[o]), Trusted(o)'
             PROVE  ExactlyApproved(o)'
  BY DEF ApprovalInv
<1>0. commits' = commits /\ staged' = staged /\ approvals[o] \subseteq approvals'[o]
  BY DEF PlainStep, PlainRest
<1>1. CASE Moved(o) /\ ops'[o].state = "approved"
  BY <1>1 DEF Moved
<1>2. CASE Trusted(o) /\ SamePlan(o)
  <2>1. ExactlyApproved(o)
    BY <1>2 DEF ApprovalInv
  <2> QED
    BY <1>0, <1>2, <2>1 DEF ExactlyApproved, SamePlan
<1>3. Trusted(o) \/ ops'[o].state = "approved"
  <2>1. CASE ops'[o].state \in {"executing", "succeeded"}
    BY <2>1, PlainStaysClaimed DEF Trusted
  <2>2. CASE commits'[o] > 0 \/ o \in staged'
    BY <1>0, <2>2 DEF Trusted
  <2>3. CASE \E t \in Tasks : task'[t].op = o /\ task'[t].pc \in PcAfterClaim
    BY <2>3 DEF Trusted, PlainStep, PlainTasks
  <2> QED
    BY <2>1, <2>2, <2>3 DEF Trusted
<1>4. Kept(o) \/ Created(o) \/ Moved(o)
  BY DEF PlainStep, PlainOps
<1>5. CASE Created(o)
  <2>1. ~Trusted(o)
    <3>1. Open(o) /\ ops[o].state = "absent"
      BY <1>5 DEF Created, Open
    <3>2. commits[o] = 0 /\ o \notin staged
      BY <3>1 DEF GrantInv
    <3>3. \A t \in Tasks : task[t].pc \in PcAfterClaim => task[t].op # o
      BY <3>1 DEF GrantInv
    <3> QED
      BY <3>1, <3>2, <3>3 DEF Trusted
  <2> QED
    BY <1>3, <1>5, <2>1 DEF Created
<1>6. CASE Kept(o)
  BY <1>2, <1>3, <1>6 DEF Kept, Trusted
<1>7. CASE Moved(o)
  BY <1>1, <1>2, <1>3, <1>7 DEF Moved
<1> QED
  BY <1>4, <1>5, <1>6, <1>7

\* A plain step of the running process leaves the operations of older ones
\* alone.
LEMMA PlainOldRuntimes ==
    ASSUME OldRuntimesAreClosed, PlainStep
    PROVE  OldRuntimesAreClosed'
<1>1. runtime' = runtime
  BY DEF PlainStep, PlainRest
<1> SUFFICES ASSUME NEW o \in Ops, ops'[o].state # "absent", ops'[o].runtime # runtime
             PROVE  \/ IsTerminal(ops'[o].state)
                    \/ ops'[o].state = "executing" /\ KindOf[o] \in {"export", "provider"}
  BY <1>1 DEF OldRuntimesAreClosed
<1>2. Kept(o)
  BY DEF PlainStep, PlainOps, Created, Moved, SamePlan
<1> QED
  BY <1>2 DEF Kept, SamePlan, OldRuntimesAreClosed

\* A successful claim: its transaction moves an executable operation of the
\* running process to executing, and only its task gets the grant.
LEMMA ClaimEffect ==
    ASSUME TypeInv, NEW t \in Tasks, ClaimTx(t), ~Return(t)
    PROVE  \E o \in Ops :
              /\ task[t].op = o /\ task'[t].op = o
              /\ task'[t].pc = "claim_recheck"
              /\ \A u \in Tasks : u # t => task'[u] = task[u]
              /\ IsExecutable(o)
              /\ ops'[o].state = "executing" /\ SamePlan(o)
              /\ \A x \in Ops : x # o => ops'[x] = ops[x]
              /\ approvals' = approvals /\ commits' = commits /\ runtime' = runtime
              /\ staged' = staged
<1>1. task[t].op \in Ops
  BY DEF TypeInv, TaskInv, ClaimTx
<1>2. PICK o \in Ops : o = task[t].op
  BY <1>1
<1>3. IsExecutable(o) /\ TransitionTx(o, "executing") /\ Goto(t, "claim_recheck")
  BY <1>2 DEF ClaimTx
<1>4. "executing" \in States /\ "claim_recheck" \in PcRun \cup PcOther
  BY DEF States, PcRun, PcAfterClaim
<1>5. ops[o].state # "absent"
  BY <1>3 DEF IsExecutable
<1>6. /\ ops'[o].state = "executing" /\ SamePlan(o)
      /\ \A x \in Ops : x # o => ops'[x] = ops[x]
  BY <1>3, <1>4, <1>5, TransitionTxEffect DEF TypeInv, SamePlan
<1>7. /\ task'[t].op = o /\ task'[t].pc = "claim_recheck"
      /\ \A u \in Tasks : u # t => task'[u] = task[u]
  BY <1>2, <1>3, <1>4, GotoEffect
<1>8. approvals' = approvals /\ commits' = commits /\ runtime' = runtime /\ staged' = staged
  BY DEF ClaimTx
<1> QED
  BY <1>2, <1>3, <1>6, <1>7, <1>8

\* A successful claim keeps the safety invariant: an executable operation has
\* no grant and no commit yet, and an executable mutation is approved.
LEMMA ClaimSafe ==
    ASSUME TypeInv, SafetyInv, NEW t \in Tasks, ClaimTx(t), ~Return(t)
    PROVE  SafetyInv'
<1>1. PICK o \in Ops :
          /\ task[t].op = o /\ task'[t].op = o
          /\ task'[t].pc = "claim_recheck"
          /\ \A u \in Tasks : u # t => task'[u] = task[u]
          /\ IsExecutable(o)
          /\ ops'[o].state = "executing" /\ SamePlan(o)
          /\ \A x \in Ops : x # o => ops'[x] = ops[x]
          /\ approvals' = approvals /\ commits' = commits /\ runtime' = runtime
          /\ staged' = staged
  BY ClaimEffect
<1>2. Open(o) /\ commits[o] = 0 /\ o \notin staged /\ ops[o].runtime = runtime
  BY <1>1 DEF IsExecutable, EnsureRuntime, Open, UnclaimedStates, SafetyInv, GrantInv
<1>3. \A u \in Tasks : task[u].pc \in PcAfterClaim => task[u].op # o /\ u # t
  BY <1>1, <1>2 DEF SafetyInv, GrantInv
<1>4. \A u \in Tasks : task[u].pc \in PcAfterClaim => task[u].op \in Ops
  BY DEF TypeInv, TaskInv, PcAfterClaim
<1>5. PcFresh \subseteq PcAfterClaim /\ "claim_recheck" \in PcAfterClaim
  BY DEF PcFresh, PcAfterClaim
<1>6. GrantInv'
  <2>1. \A u \in Tasks : task'[u].pc \in PcAfterClaim => ~Open(task[u].op)'
    <3>1. ASSUME NEW u \in Tasks, task'[u].pc \in PcAfterClaim
          PROVE  ops'[task'[u].op].state \notin UnclaimedStates \cup {"absent"}
      BY <1>1, <1>3, <1>4, <3>1 DEF SafetyInv, GrantInv, Open, UnclaimedStates
    <3> QED
      BY <3>1 DEF Open
  <2>2. \A u, v \in Tasks :
           /\ task'[u].pc \in PcAfterClaim
           /\ task'[v].pc \in PcAfterClaim
           /\ task'[u].op = task'[v].op
           => u = v
    BY <1>1, <1>3 DEF SafetyInv, GrantInv
  <2>3. \A u \in Tasks :
           task'[u].pc \in PcFresh => commits'[task'[u].op] = 0 /\ task'[u].op \notin staged'
    BY <1>1, <1>2 DEF SafetyInv, GrantInv
  <2>4. \A x \in Ops : (Open(x)' => commits'[x] = 0) /\ commits'[x] <= 1
    BY <1>1, <1>2 DEF SafetyInv, GrantInv, Open
  <2>5. \A x \in staged' : ~Open(x)' /\ commits'[x] = 0 /\ MayMutateTarget(KindOf[x])
    BY <1>1, <1>2 DEF SafetyInv, GrantInv, Open, TypeInv, TypeOK
  <2> QED
    BY <2>1, <2>2, <2>3, <2>4, <2>5 DEF GrantInv
<1>7. ApprovalInv'
  <2> SUFFICES ASSUME NEW x \in Ops, MayMutateTarget(KindOf[x]), Trusted(x)'
               PROVE  ExactlyApproved(x)'
    BY DEF ApprovalInv
  <2>1. CASE x = o
    <3>1. ops[o].state = "approved"
      BY <1>1, <2>1 DEF IsExecutable
    <3>2. ExactlyApproved(o)
      BY <2>1, <3>1 DEF SafetyInv, ApprovalInv, Trusted
    <3> QED
      BY <1>1, <2>1, <3>2 DEF ExactlyApproved, SamePlan
  <2>2. CASE x # o
    <3>1. Trusted(x)
      BY <1>1, <2>2 DEF Trusted
    <3>2. ExactlyApproved(x)
      BY <3>1 DEF SafetyInv, ApprovalInv
    <3> QED
      BY <1>1, <2>2, <3>2 DEF ExactlyApproved
  <2> QED
    BY <2>1, <2>2
<1>8. OldRuntimesAreClosed'
  BY <1>1, <1>2 DEF SafetyInv, OldRuntimesAreClosed, SamePlan
<1> QED
  BY <1>6, <1>7, <1>8 DEF SafetyInv

\* An execution uses up a fresh grant: it commits at most once, and its task is
\* no longer fresh.
LEMMA ExecuteSafe ==
    ASSUME TypeInv, SafetyInv, NEW t \in Tasks, Execute(t)
    PROVE  SafetyInv'
<1>1. PICK o \in Ops : ExecutedAs(t, o)
  BY ExecuteEffect
<1>0. o = task[t].op /\ task[t].pc = "connect"
  BY <1>1 DEF ExecutedAs
<1>4. /\ task'[t].pc = "receipt" /\ task'[t].op = o
      /\ \A u \in Tasks : u # t => task'[u] = task[u]
  BY <1>1 DEF ExecutedAs
<1>5. ops' = ops /\ approvals' = approvals /\ runtime' = runtime
  BY <1>1 DEF ExecutedAs, db
<1>6. /\ "connect" \in PcFresh /\ "connect" \in PcAfterClaim
      /\ "receipt" \notin PcFresh /\ PcFresh \subseteq PcAfterClaim
  BY DEF PcFresh, PcAfterClaim
<1>7. /\ ~Open(o)
      /\ commits[o] = 0 /\ o \notin staged
      /\ \A u \in Tasks : task[u].pc \in PcAfterClaim /\ u # t => task[u].op # o
  BY <1>0, <1>6 DEF SafetyInv, GrantInv
<1>8. commits'[o] \in {0, 1} /\ \A x \in Ops : x # o => commits'[x] = commits[x]
  BY <1>1, <1>7 DEF ExecutedAs
<1>13. /\ staged' \subseteq staged \cup {o}
       /\ o \in staged' => commits'[o] = 0 /\ MayMutateTarget(KindOf[o])
  BY <1>1, <1>7 DEF ExecutedAs
<1>9. \A u \in Tasks : task[u].pc \in PcAfterClaim => task[u].op \in Ops
  BY DEF TypeInv, TaskInv, PcAfterClaim
<1>10. GrantInv'
  <2>1. ASSUME NEW u \in Tasks, task'[u].pc \in PcAfterClaim
        PROVE  ops'[task'[u].op].state \notin UnclaimedStates \cup {"absent"}
    BY <1>4, <1>5, <1>7, <2>1 DEF SafetyInv, GrantInv, Open
  <2>2. \A u, v \in Tasks :
           /\ task'[u].pc \in PcAfterClaim
           /\ task'[v].pc \in PcAfterClaim
           /\ task'[u].op = task'[v].op
           => u = v
    BY <1>4, <1>7 DEF SafetyInv, GrantInv
  <2>3. ASSUME NEW u \in Tasks, task'[u].pc \in PcFresh
        PROVE  commits'[task'[u].op] = 0 /\ task'[u].op \notin staged'
    <3>1. u # t /\ task'[u] = task[u]
      BY <1>4, <1>6, <2>3
    <3>2. task[u].op \in Ops /\ task[u].op # o
      BY <1>6, <1>7, <1>9, <2>3, <3>1
    <3> QED
      BY <1>8, <1>13, <2>3, <3>1, <3>2 DEF SafetyInv, GrantInv
  <2>4. \A x \in Ops : (Open(x)' => commits'[x] = 0) /\ commits'[x] <= 1
    <3>1. \A x \in Ops : Open(x)' <=> Open(x)
      BY <1>5 DEF Open
    <3> QED
      BY <1>7, <1>8, <3>1 DEF SafetyInv, GrantInv
  <2>5. \A x \in staged' : ~Open(x)' /\ commits'[x] = 0 /\ MayMutateTarget(KindOf[x])
    <3>1. \A x \in staged : x \in Ops /\ (Open(x)' <=> Open(x))
      BY <1>5 DEF Open, TypeInv, TypeOK
    <3>2. ~Open(o)'
      BY <1>5, <1>7 DEF Open
    <3> QED
      BY <1>7, <1>8, <1>13, <3>1, <3>2 DEF SafetyInv, GrantInv
  <2> QED
    BY <2>1, <2>2, <2>3, <2>4, <2>5 DEF GrantInv, Open
<1>11. ApprovalInv'
  <2> SUFFICES ASSUME NEW x \in Ops, MayMutateTarget(KindOf[x]), Trusted(x)'
               PROVE  ExactlyApproved(x)'
    BY DEF ApprovalInv
  <2>1. Trusted(x)
    <3>1. CASE x = o
      BY <1>0, <1>6, <3>1 DEF Trusted
    <3>2. CASE x # o
      BY <1>4, <1>5, <1>8, <1>13, <3>2 DEF Trusted
    <3> QED
      BY <3>1, <3>2
  <2>2. ExactlyApproved(x)
    BY <2>1 DEF SafetyInv, ApprovalInv
  <2> QED
    BY <1>5, <2>2 DEF ExactlyApproved
<1>12. OldRuntimesAreClosed'
  BY <1>5 DEF SafetyInv, OldRuntimesAreClosed
<1> QED
  BY <1>10, <1>11, <1>12 DEF SafetyInv

\* The end of the user's manual transaction commits only what was staged, and
\* what was staged had no commit and is approved.
LEMMA ManualSafe ==
    ASSUME TypeInv, SafetyInv, ManualStep
    PROVE  SafetyInv'
<1>1. /\ ops' = ops /\ approvals' = approvals /\ runtime' = runtime /\ task' = task
      /\ staged' \subseteq staged
  BY DEF ManualStep, db
<1>2. ASSUME NEW o \in Ops
      PROVE  /\ Open(o)' <=> Open(o)
             /\ ExactlyApproved(o)' <=> ExactlyApproved(o)
  BY <1>1 DEF Open, ExactlyApproved
<1>3. ASSUME NEW o \in Ops
      PROVE  /\ commits'[o] <= 1
             /\ o \notin staged => commits'[o] = commits[o]
             /\ o \in staged' => commits'[o] = 0
  BY <1>1 DEF ManualStep, SafetyInv, GrantInv
<1>4. staged \subseteq Ops /\ \A t \in Tasks : task[t].pc \in PcFresh => task[t].op \in Ops
  BY DEF TypeInv, TypeOK, TaskInv, PcFresh
<1>5. GrantInv'
  <2>1. \A t \in Tasks : task'[t].pc \in PcAfterClaim => ~Open(task[t].op)'
    BY <1>1 DEF SafetyInv, GrantInv, Open
  <2>2. \A t, u \in Tasks :
           /\ task'[t].pc \in PcAfterClaim
           /\ task'[u].pc \in PcAfterClaim
           /\ task'[t].op = task'[u].op
           => t = u
    BY <1>1 DEF SafetyInv, GrantInv
  <2>3. \A t \in Tasks :
           task'[t].pc \in PcFresh => commits'[task'[t].op] = 0 /\ task'[t].op \notin staged'
    BY <1>1, <1>3, <1>4 DEF SafetyInv, GrantInv
  <2>4. \A o \in Ops : (Open(o)' => commits'[o] = 0) /\ commits'[o] <= 1
    BY <1>2, <1>3 DEF SafetyInv, GrantInv
  <2>5. \A o \in staged' : ~Open(o)' /\ commits'[o] = 0 /\ MayMutateTarget(KindOf[o])
    BY <1>1, <1>2, <1>3, <1>4 DEF SafetyInv, GrantInv
  <2> QED
    BY <1>1, <2>1, <2>2, <2>3, <2>4, <2>5 DEF GrantInv
<1>6. ApprovalInv'
  <2> SUFFICES ASSUME NEW o \in Ops, MayMutateTarget(KindOf[o]), Trusted(o)'
               PROVE  ExactlyApproved(o)'
    BY DEF ApprovalInv
  <2>1. Trusted(o)
    BY <1>1, <1>3 DEF Trusted
  <2> QED
    BY <1>2, <2>1 DEF SafetyInv, ApprovalInv
<1>7. OldRuntimesAreClosed'
  BY <1>1 DEF SafetyInv, OldRuntimesAreClosed
<1> QED
  BY <1>5, <1>6, <1>7 DEF SafetyInv

\* What the recovery of the next process does to a row.
LEMMA RestartEffect ==
    ASSUME TypeInv, ConstantsAssumption, Restart, NEW o \in Ops
    PROVE  /\ SamePlan(o)
           /\ ops[o].state = "absent" => ops'[o].state = "absent"
           /\ ops[o].state # "absent" =>
                 /\ \/ IsTerminal(ops'[o].state)
                    \/ /\ ops'[o].state = "executing" /\ ops[o].state = "executing"
                       /\ KindOf[o] \in {"export", "provider"}
                 /\ ops'[o].state \in {"succeeded", "approved"} => ops'[o].state = ops[o].state
                 /\ IsTerminal(ops[o].state) => ops'[o].state = ops[o].state
<1>1. ops'[o] = [ops[o] EXCEPT !.state = Recovered(o)]
  BY DEF Restart
<1>2. ops'[o].state = Recovered(o) /\ SamePlan(o)
  <2>1. CASE ops[o] \in StoredOps
    BY <1>1, <2>1 DEF StoredOps, SamePlan
  <2>2. CASE ops[o] = AbsentOp
    BY <1>1, <2>2 DEF AbsentOp, SamePlan
  <2> QED
    BY <2>1, <2>2 DEF TypeInv, TypeOK, OpRecords
<1>3. CASE ops[o].state = "absent"
  BY <1>2, <1>3 DEF Recovered
<1>4. CASE ops[o].state # "absent"
  <2>1. ops[o].state \in States /\ KindOf[o] \in Kinds
    BY <1>4 DEF TypeInv, TypeOK, OpRecords, StoredOps, AbsentOp, ConstantsAssumption
  <2>2. ops'[o].state = RestartRecovery(KindOf[o], ops[o].state)
    BY <1>2, <1>4 DEF Recovered
  <2>3. IsTerminal(ops[o].state) => ops'[o].state = ops[o].state
    BY <2>2 DEF RestartRecovery, IsTerminal, TerminalStates
  <2> QED
    BY <1>2, <1>4, <2>1, <2>2, <2>3, RecoveryStates
<1> QED
  BY <1>3, <1>4

\* A restart keeps the safety invariant: all grants are gone, a commit that lands
\* late is that of a fresh grant, and recovery closes what was open.
LEMMA RestartSafe ==
    ASSUME TypeInv, ConstantsAssumption, SafetyInv, Restart
    PROVE  SafetyInv'
<1>1. \A t \in Tasks : task'[t].pc \notin PcAfterClaim /\ task'[t].pc \notin PcFresh
  BY DEF Restart, IdleTask, PcAfterClaim, PcFresh
<1>2. PICK landed \in SUBSET {o \in Ops : MayMutateTarget(KindOf[o]) /\
                \E t \in Tasks : task[t].op = o /\ task[t].pc = "connect"} :
          commits' = [o \in Ops |-> commits[o] + (IF o \in landed THEN 1 ELSE 0)]
  BY DEF Restart
<1>3. approvals' = approvals /\ staged' = {}
  BY DEF Restart, RollBack
<1>4. ASSUME NEW o \in landed
      PROVE  /\ o \in Ops /\ commits[o] = 0 /\ ~Open(o)
             /\ \E t \in Tasks : task[t].op = o /\ task[t].pc \in PcAfterClaim
  <2>1. PICK t \in Tasks : task[t].op = o /\ task[t].pc = "connect"
    BY <1>2, <1>4
  <2>2. "connect" \in PcFresh /\ "connect" \in PcAfterClaim
    BY DEF PcFresh, PcAfterClaim
  <2> QED
    BY <1>2, <1>4, <2>1, <2>2 DEF SafetyInv, GrantInv
<1>5. ASSUME NEW o \in Ops
      PROVE  /\ commits'[o] <= 1
             /\ commits'[o] > 0 => o \in landed \/ commits[o] > 0
             /\ o \notin landed => commits'[o] = commits[o]
  BY <1>2, <1>4 DEF TypeInv, TypeOK, SafetyInv, GrantInv
<1>6. ASSUME NEW o \in Ops, Open(o)'
      PROVE  commits'[o] = 0
  <2>1. ops[o].state = "absent"
    BY <1>6, RestartEffect DEF Open, UnclaimedStates, IsTerminal, TerminalStates
  <2>2. Open(o)
    BY <2>1 DEF Open
  <2> QED
    BY <1>4, <1>5, <2>2 DEF SafetyInv, GrantInv
<1>7. GrantInv'
  BY <1>1, <1>3, <1>5, <1>6 DEF GrantInv
<1>8. ApprovalInv'
  <2> SUFFICES ASSUME NEW o \in Ops, MayMutateTarget(KindOf[o]), Trusted(o)'
               PROVE  ExactlyApproved(o)'
    BY DEF ApprovalInv
  <2>1. Trusted(o)
    <3>1. CASE commits'[o] > 0
      BY <1>4, <1>5, <3>1 DEF Trusted
    <3>2. CASE ops'[o].state \in {"approved", "executing", "succeeded"}
      BY <3>2, RestartEffect DEF Trusted, IsTerminal, TerminalStates
    <3> QED
      BY <1>1, <1>3, <3>1, <3>2 DEF Trusted
  <2>2. ExactlyApproved(o)
    BY <2>1 DEF SafetyInv, ApprovalInv
  <2> QED
    BY <1>3, <2>2, RestartEffect DEF ExactlyApproved, SamePlan
<1>9. OldRuntimesAreClosed'
  BY RestartEffect DEF OldRuntimesAreClosed
<1> QED
  BY <1>7, <1>8, <1>9 DEF SafetyInv

\* The initial state is safe.
LEMMA InitSafe ==
    ASSUME Init
    PROVE  SafetyInv
<1>1. \A t \in Tasks : task[t].pc \notin PcAfterClaim /\ task[t].pc \notin PcFresh
  BY DEF Init, IdleTask, PcAfterClaim, PcFresh
<1>2. staged = {} /\ \A o \in Ops : ops[o].state = "absent" /\ commits[o] = 0
  BY DEF Init, AbsentOp
<1>3. GrantInv
  BY <1>1, <1>2 DEF GrantInv
<1>4. ApprovalInv
  BY <1>1, <1>2 DEF ApprovalInv, Trusted
<1>5. OldRuntimesAreClosed
  BY <1>2 DEF OldRuntimesAreClosed
<1> QED
  BY <1>3, <1>4, <1>5 DEF SafetyInv

\* Every step is safe.
LEMMA NextSafe ==
    ASSUME TypeInv, ConstantsAssumption, SafetyInv, [Next]_vars
    PROVE  SafetyInv'
<1>1. CASE PlainStep
  BY <1>1, PlainGrants, PlainApprovals, PlainOldRuntimes DEF SafetyInv
<1> QED
  BY <1>1, StepShapes, ClaimSafe, ExecuteSafe, ManualSafe, RestartSafe

-----------------------------------------------------------------------------
(* The theorems.                                                           *)

\* The safety invariant holds in every reachable state.
LEMMA Safety == Spec => [](TypeInv /\ SafetyInv)
<1>1. Init => TypeInv /\ SafetyInv
  BY InitType, InitSafe, ConstantsAssumption
<1>2. TypeInv /\ SafetyInv /\ [Next]_vars => (TypeInv /\ SafetyInv)'
  BY NextType, NextSafe, ConstantsAssumption
<1> QED
  BY <1>1, <1>2, PTL DEF Spec

\* An operation changes the target at most once and at most one task holds its
\* execution grant, however many callers race for the claim (claim_execution),
\* however often its key is planned again and the process restarts.
THEOREM ExecutedAtMostOnce == Spec => []AtMostOnce
<1>1. TypeInv /\ SafetyInv => AtMostOnce
  BY DEF SafetyInv, GrantInv, AtMostOnce
<1> QED
  BY <1>1, Safety, PTL

\* No mutation is claimed, succeeds or changes the target without the approval
\* of exactly the payload the human reviewed, under the policy of the plan
\* (decide_approval, claim_execution).
THEOREM OnlyExactApprovalsExecute == Spec => []MutationsAreApproved
<1>1. SafetyInv => MutationsAreApproved
  BY DEF SafetyInv, ApprovalInv, MutationsAreApproved, Trusted
<1> QED
  BY <1>1, Safety, PTL

\* Nothing of an older process stays open after its recovery but interrupted
\* exports and provider actions (restart_recovery, recover_previous_runtimes).
THEOREM RecoveryClosesOldRuntimes == Spec => []OldRuntimesAreClosed
<1>1. SafetyInv => OldRuntimesAreClosed
  BY DEF SafetyInv
<1> QED
  BY <1>1, Safety, PTL

\* Approval rows, the payload and the policy of a stored plan and terminal
\* states are never rewritten, by any call of any task or by recovery.
THEOREM StoredPlansStay == Spec => StoredPlanIsImmutable
<1> DEFINE Immutable(o) ==
        /\ approvals[o] \subseteq approvals'[o]
        /\ ops[o].state # "absent" =>
              ops'[o].payload = ops[o].payload /\ ops'[o].policy = ops[o].policy
        /\ IsTerminal(ops[o].state) => ops'[o].state = ops[o].state
<1>1. ASSUME TypeInv, SafetyInv, [Next]_vars, NEW o \in Ops
      PROVE  Immutable(o)
  <2>1. CASE PlainStep
    <3>1. approvals[o] \subseteq approvals'[o]
      BY <2>1 DEF PlainStep, PlainRest
    <3>2. Kept(o) \/ Created(o) \/ Moved(o)
      BY <2>1 DEF PlainStep, PlainOps
    <3>3. Moved(o) => ~IsTerminal(ops[o].state)
      BY DEF Moved, EnsureTransition, IsTerminal, TerminalStates
    <3>4. Created(o) => ~IsTerminal(ops[o].state)
      BY DEF Created, IsTerminal, TerminalStates
    <3> QED
      BY <3>1, <3>2, <3>3, <3>4 DEF Kept, Created, Moved, SamePlan
  <2>2. ASSUME NEW t \in Tasks, ClaimTx(t), ~Return(t)
        PROVE  Immutable(o)
    <3>1. PICK c \in Ops :
              /\ IsExecutable(c)
              /\ SamePlan(c)
              /\ \A x \in Ops : x # c => ops'[x] = ops[x]
              /\ approvals' = approvals
      BY <1>1, <2>2, ClaimEffect
    <3>2. ~IsTerminal(ops[c].state)
      BY <3>1 DEF IsExecutable, IsTerminal, TerminalStates
    <3> QED
      BY <3>1, <3>2 DEF SamePlan
  <2>3. ASSUME NEW t \in Tasks, Execute(t)
        PROVE  Immutable(o)
    BY <2>3 DEF Execute, db
  <2>4. CASE Restart
    <3>1. approvals' = approvals
      BY <2>4 DEF Restart
    <3>2. IsTerminal(ops[o].state) => ops[o].state # "absent"
      BY DEF IsTerminal, TerminalStates
    <3> QED
      BY <1>1, <2>4, <3>1, <3>2, RestartEffect, ConstantsAssumption DEF SamePlan
  <2>5. CASE ManualStep
    BY <2>5 DEF ManualStep, db
  <2> QED
    BY <1>1, <2>1, <2>2, <2>3, <2>4, <2>5, StepShapes
<1>2. TypeInv /\ SafetyInv /\ [Next]_vars => \A o \in Ops : Immutable(o)
  BY <1>1
<1>3. TypeInv /\ SafetyInv /\ [Next]_vars =>
        [\A o \in Ops :
          /\ approvals[o] \subseteq approvals'[o]
          /\ ops[o].state # "absent" =>
                ops'[o].payload = ops[o].payload /\ ops'[o].policy = ops[o].policy
          /\ IsTerminal(ops[o].state) => ops'[o].state = ops[o].state]_vars
  BY <1>2
<1> QED
  BY <1>3, Safety, PTL DEF Spec, StoredPlanIsImmutable

-----------------------------------------------------------------------------
(* Outcomes, sessions and the ledger. The other properties say who wrote a *)
(* final state, for which session and how often an operation was claimed,  *)
(* which PlainStep leaves open: LiveStep, QuietOps and QuietTasks add it.  *)

PcReceipts == {"receipt", "receipt_retry"}

\* The steps of a task whose claim has passed the second session check.
PcChecked == {"granted", "connect", "receipt", "receipt_retry"}

\* The proposing session was issued; it has ended. A session is issued once and
\* never comes back.
Issued(o) == SessionOf[o] # None => session[SessionOf[o]] # "unissued"

Ended(o) == SessionOf[o] # None /\ session[SessionOf[o]] \in {"expired", "gone"}

\* A row is inserted by the call that planned it.
NewRowsPlanned ==
    \A o \in Ops : ops[o].state = "absent" =>
        ops'[o].state = "absent" \/ \E t \in Tasks : task[t].pc = "plan_insert" /\ task[t].op = o

SessionsGoOn ==
    \A o \in Ops : (Issued(o) => Issued(o)') /\ (Ended(o) => Ended(o)')

\* Only a live session plans, and only a grant of a live session goes on.
TasksLive ==
    \A t \in Tasks :
        /\ task'[t].pc = "plan_insert" => task'[t] = task[t] \/ Issued(task'[t].op)
        /\ task'[t].pc = "claim_recheck" => task[t].pc = "claim_recheck"
        /\ task'[t].pc \in PcChecked => task[t].pc \in PcChecked \/ ~SessionRevoked(task[t].op)

\* The ledger gains no claim.
SameClaims == \A o \in Ops : EverClaimed(o)' <=> EverClaimed(o)

LiveStep ==
    NewRowsPlanned /\ SessionsGoOn /\ TasksLive /\ SameClaims /\ claimLive' = claimLive

\* Nobody finishes an execution, but for a cancellation, and nobody rewrites the
\* result of one.
QuietOps ==
    \A o \in Ops : ops[o].state = "executing" => ops'[o].state \in {"executing", "cancelled"}

QuietTasks ==
    \A t \in Tasks : task'[t].pc \in PcReceipts => task'[t] = task[t]

ClaimsAreClosed == \A o \in Ops : EverClaimed(o) => ~Open(o)

\* An event is a claim or it is not: appending it adds nothing else.
LEMMA AppendClaims ==
    ASSUME NEW s \in Seq(States), NEW x \in States
    PROVE  (\E i \in DOMAIN Append(s, x) : Append(s, x)[i] = "executing")
             <=> ((\E i \in DOMAIN s : s[i] = "executing") \/ x = "executing")
<1>1. /\ DOMAIN s = 1..Len(s) /\ Len(s) \in Nat
      /\ DOMAIN Append(s, x) = 1..(Len(s) + 1)
      /\ Append(s, x)[Len(s) + 1] = x
      /\ \A i \in 1..Len(s) : Append(s, x)[i] = s[i]
  OBVIOUS
<1>2. ASSUME NEW i \in DOMAIN Append(s, x), Append(s, x)[i] = "executing"
      PROVE  (\E j \in DOMAIN s : s[j] = "executing") \/ x = "executing"
  <2>1. CASE i = Len(s) + 1
    BY <1>1, <1>2, <2>1
  <2>2. CASE i # Len(s) + 1
    <3>1. i \in 1..Len(s)
      BY <1>1, <2>2
    <3> QED
      BY <1>1, <1>2, <3>1
  <2> QED
    BY <2>1, <2>2
<1>3. ASSUME NEW i \in DOMAIN s, s[i] = "executing"
      PROVE  \E j \in DOMAIN Append(s, x) : Append(s, x)[j] = "executing"
  <2>1. i \in DOMAIN Append(s, x)
    BY <1>1
  <2> QED
    BY <1>1, <1>3, <2>1
<1>4. Len(s) + 1 \in DOMAIN Append(s, x)
  BY <1>1
<1> QED
  BY <1>1, <1>2, <1>3, <1>4

\* transition_tx records a claim exactly when it makes one.
LEMMA TransitionClaims ==
    ASSUME TypeOK, NEW o \in Ops, NEW target \in States, TransitionTx(o, target)
    PROVE  /\ EverClaimed(o)' <=> (EverClaimed(o) \/ target = "executing")
           /\ \A x \in Ops : x # o => (EverClaimed(x)' <=> EverClaimed(x))
<1>1. ledger[o] \in Seq(States) /\ ledger'[o] = Append(ledger[o], target)
  BY DEF TypeOK, TransitionTx
<1>2. \A x \in Ops : x # o => ledger'[x] = ledger[x]
  BY DEF TypeOK, TransitionTx
<1>3. EverClaimed(o)' <=> \E i \in DOMAIN ledger'[o] : ledger'[o][i] = "executing"
  BY DEF EverClaimed
<1>4. EverClaimed(o)' <=> (EverClaimed(o) \/ target = "executing")
  BY <1>1, <1>3, AppendClaims DEF EverClaimed
<1> QED
  BY <1>2, <1>4 DEF EverClaimed

\* A call that writes nothing to the store.
LEMMA StoreUnchanged ==
    ASSUME UNCHANGED <<ops, ledger>>
    PROVE  NewRowsPlanned /\ SameClaims /\ QuietOps
BY DEF NewRowsPlanned, SameClaims, EverClaimed, QuietOps

\* A legal transition that is not a claim inserts no row and records no claim.
LEMMA TransitionLive ==
    ASSUME TypeOK, NEW o \in Ops, NEW target \in States, ops[o].state # "absent",
           TransitionTx(o, target), target # "executing"
    PROVE  /\ NewRowsPlanned /\ SameClaims
           /\ ops[o].state # "executing" \/ target = "cancelled" => QuietOps
<1>1. ops'[o].state = target /\ \A x \in Ops : x # o => ops'[x] = ops[x]
  BY TransitionTxEffect
<1>2. NewRowsPlanned
  BY <1>1 DEF NewRowsPlanned
<1>3. SameClaims
  BY TransitionClaims DEF SameClaims
<1> QED
  BY <1>1, <1>2, <1>3 DEF QuietOps

\* Writing a final state, or being refused. Only a receipt ends an execution
\* other than by a cancellation.
LEMMA FinishLive ==
    ASSUME TypeOK, NEW o \in Ops, NEW target, target # "executing", Finish(o, target)
    PROVE  /\ NewRowsPlanned /\ SameClaims
           /\ target \notin {"succeeded", "failed", "outcome_unknown"} => QuietOps
<1>1. CASE CanTransition(o, target)
  <2>1. TransitionTx(o, target)
    BY <1>1 DEF Finish
  <2>2. target \in States /\ ops[o].state # "absent"
    BY <1>1, TransitionStates DEF CanTransition
  <2>3. ops[o].state = "executing" =>
            target \in {"succeeded", "failed", "cancelled", "outcome_unknown"}
    BY <1>1 DEF CanTransition, EnsureTransition
  <2> QED
    BY <2>1, <2>2, <2>3, TransitionLive
<1>2. CASE ~CanTransition(o, target)
  BY <1>2, StoreUnchanged DEF Finish
<1> QED
  BY <1>1, <1>2

\* A returning task.
LEMMA ReturnLive ==
    ASSUME TypeInv, NEW t \in Tasks, Return(t)
    PROVE  TasksLive /\ QuietTasks
<1>1. IdleTask.pc \notin PcChecked \cup PcReceipts \cup {"plan_insert", "claim_recheck"}
  BY DEF IdleTask, PcChecked, PcReceipts
<1> QED
  BY <1>1, ReturnEffect DEF TasksLive, QuietTasks

\* A task that goes on outside of the execution, or on from a grant that was
\* checked or is being checked.
LEMMA GotoLive ==
    ASSUME TypeInv, NEW t \in Tasks, NEW pc \in PcRun \cup PcOther, Goto(t, pc),
           pc \notin PcReceipts \cup {"plan_insert", "claim_recheck"},
           pc \in PcChecked => task[t].pc \in PcChecked \/ ~SessionRevoked(task[t].op)
    PROVE  TasksLive /\ QuietTasks
BY GotoEffect DEF TasksLive, QuietTasks

\* A new call.
LEMMA CallLive ==
    ASSUME TypeInv, NEW t \in Tasks, NEW pc \in PcRun \cup PcOther, NEW o \in Ops,
           NEW payload \in Payloads \cup {None}, NEW choice \in {"none", "approved", "rejected"},
           Call(t, pc, o, payload, choice), pc \notin PcAfterClaim,
           pc = "plan_insert" => Issued(o)
    PROVE  TasksLive /\ QuietTasks
<1>1. PcChecked \subseteq PcAfterClaim /\ PcReceipts \subseteq PcAfterClaim
        /\ "claim_recheck" \in PcAfterClaim
  BY DEF PcChecked, PcReceipts, PcAfterClaim
<1>2. /\ task'[t].pc = pc /\ task'[t].op = o
      /\ \A u \in Tasks : u # t => task'[u] = task[u]
  BY CallEffect
<1> QED
  BY <1>1, <1>2 DEF TasksLive, QuietTasks

\* Sessions that the step leaves alone.
LEMMA SessionsUnchanged ==
    ASSUME UNCHANGED session
    PROVE  SessionsGoOn
BY DEF SessionsGoOn, Issued, Ended

\* The steps of planning.
LEMMA PlanLive ==
    ASSUME TypeInv, ClaimsAreClosed, NEW t \in Tasks,
           PlanInsert(t) \/ PlanDispose(t) \/ PlanTrack(t)
    PROVE  LiveStep /\ QuietOps /\ QuietTasks
<1>0. task[t].op \in Ops
  BY DEF TypeInv, TaskInv, PlanInsert, PlanDispose, PlanTrack
<1>00. PICK o \in Ops : o = task[t].op
  BY <1>0
<1>a. ASSUME NEW pc \in {"plan_dispose", "plan_track"}, Goto(t, pc)
      PROVE  TasksLive /\ QuietTasks
  <2>1. /\ pc \in PcRun \cup PcOther /\ pc \notin PcChecked
        /\ pc \notin PcReceipts \cup {"plan_insert", "claim_recheck"}
    BY DEF PcOther, PcChecked, PcReceipts
  <2> QED
    BY <1>a, <2>1, GotoLive
<1>b. AfterPlan(t, o) => TasksLive /\ QuietTasks
  BY <1>a, ReturnLive DEF AfterPlan
<1>1. CASE PlanInsert(t)
  <2>1. TasksLive /\ QuietTasks
    BY <1>1, <1>00, <1>a, <1>b, ReturnLive DEF PlanInsert
  <2>2. NewRowsPlanned /\ SameClaims /\ QuietOps
    <3>1. CASE UNCHANGED <<ops, ledger>>
      BY <3>1, StoreUnchanged
    <3>2. CASE /\ ops[o].state = "absent"
               /\ ops' = [ops EXCEPT ![o] =
                           [state |-> "planned", runtime |-> runtime,
                            payload |-> task[t].payload, policy |-> policy, due |-> FALSE]]
               /\ ledger' = [ledger EXCEPT ![o] = <<"planned">>]
      <4>1. \A x \in Ops : x # o => ops'[x] = ops[x] /\ ledger'[x] = ledger[x]
        BY <3>2 DEF TypeInv, TypeOK
      <4>2. task[t].pc = "plan_insert"
        BY <1>1 DEF PlanInsert
      <4>3. ledger'[o] = <<"planned">>
        BY <3>2 DEF TypeInv, TypeOK
      <4>4. ~EverClaimed(o)'
        BY <4>3 DEF EverClaimed
      <4>5. ~EverClaimed(o)
        BY <3>2 DEF ClaimsAreClosed, Open
      <4>6. SameClaims
        BY <4>1, <4>4, <4>5 DEF SameClaims, EverClaimed
      <4>7. NewRowsPlanned
        BY <1>00, <4>1, <4>2 DEF NewRowsPlanned
      <4>8. QuietOps
        BY <3>2, <4>1 DEF QuietOps
      <4> QED
        BY <4>6, <4>7, <4>8
    <3> QED
      BY <1>00, <1>1, <3>1, <3>2 DEF PlanInsert
  <2> QED
    BY <1>1, <2>1, <2>2, SessionsUnchanged DEF PlanInsert, LiveStep, broker, effects
<1>2. CASE PlanDispose(t)
  <2>1. TasksLive /\ QuietTasks
    BY <1>2, <1>00, <1>b, ReturnLive DEF PlanDispose
  <2>2. Disposition(KindOf[o]) \notin {"executing", "succeeded", "failed", "outcome_unknown"}
    BY DEF Disposition
  <2>3. NewRowsPlanned /\ SameClaims /\ QuietOps
    BY <1>2, <1>00, <2>2, FinishLive DEF PlanDispose, TypeInv
  <2> QED
    BY <1>2, <2>1, <2>3, SessionsUnchanged DEF PlanDispose, LiveStep, broker, effects
<1>3. CASE PlanTrack(t)
  <2>1. UNCHANGED <<ops, ledger>> /\ UNCHANGED session /\ claimLive' = claimLive
    BY <1>3 DEF PlanTrack, db, effects
  <2>2. TasksLive /\ QuietTasks
    BY <1>3, ReturnLive DEF PlanTrack
  <2> QED
    BY <2>1, <2>2, StoreUnchanged, SessionsUnchanged DEF LiveStep
<1> QED
  BY <1>1, <1>2, <1>3

\* The steps of a decision.
LEMMA DecideLive ==
    ASSUME TypeInv, NEW t \in Tasks, CapturePolicy(t) \/ DecideApproval(t)
    PROVE  LiveStep /\ QuietOps /\ QuietTasks
<1>a. task[t].op \in Ops /\ task[t].choice \in {"approved", "rejected"}
  BY DEF TypeInv, TaskInv, CapturePolicy, DecideApproval
<1>0. PICK o \in Ops : o = task[t].op
  BY <1>a
<1>1. CASE CapturePolicy(t)
  <2>1. /\ \A u \in Tasks : u # t => task'[u] = task[u]
        /\ task'[t].pc = "decide_tx"
    BY <1>1 DEF CapturePolicy, TypeInv, TypeOK, TaskRecords
  <2>2. TasksLive /\ QuietTasks
    BY <2>1 DEF TasksLive, QuietTasks, PcChecked, PcReceipts
  <2>3. UNCHANGED <<ops, ledger>> /\ UNCHANGED session /\ claimLive' = claimLive
    BY <1>1 DEF CapturePolicy, db, broker, effects
  <2> QED
    BY <2>2, <2>3, StoreUnchanged, SessionsUnchanged DEF LiveStep
<1>2. CASE DecideApproval(t)
  <2>1. TasksLive /\ QuietTasks
    BY <1>2, ReturnLive DEF DecideApproval
  <2>2. UNCHANGED session /\ claimLive' = claimLive
    BY <1>2 DEF DecideApproval, broker, effects
  <2>3. NewRowsPlanned /\ SameClaims /\ QuietOps
    <3>1. CASE UNCHANGED db
      BY <3>1, StoreUnchanged DEF db
    <3>2. ASSUME NEW target \in {"expired", "approved", "rejected"},
                 IsExactDecision(o, task[t].payload, task[t].policy), TransitionTx(o, target)
          PROVE  NewRowsPlanned /\ SameClaims /\ QuietOps
      <4>1. ops[o].state = "pending_approval"
        BY <3>2 DEF IsExactDecision
      <4>2. target \in States /\ target # "executing"
        BY DEF States, TerminalStates
      <4> QED
        BY <3>2, <4>1, <4>2, TransitionLive DEF TypeInv
    <3> QED
      BY <1>0, <1>a, <1>2, <3>1, <3>2 DEF DecideApproval
  <2> QED
    BY <2>1, <2>2, <2>3, SessionsUnchanged DEF LiveStep
<1> QED
  BY <1>1, <1>2

\* Writing a final state and returning.
LEMMA FinishReturnLive ==
    ASSUME TypeInv, NEW t \in Tasks, task[t].pc # "idle", NEW target,
           target # "executing", Finish(task[t].op, target), Return(t),
           UNCHANGED <<broker, claimLive>>
    PROVE  /\ LiveStep /\ QuietTasks
           /\ target \notin {"succeeded", "failed", "outcome_unknown"} => QuietOps
<1>1. task[t].op \in Ops
  BY DEF TypeInv, TaskInv
<1>2. /\ NewRowsPlanned /\ SameClaims
      /\ target \notin {"succeeded", "failed", "outcome_unknown"} => QuietOps
  BY <1>1, FinishLive DEF TypeInv
<1>3. TasksLive /\ QuietTasks
  BY ReturnLive
<1> QED
  BY <1>2, <1>3, SessionsUnchanged DEF LiveStep, broker, effects

\* A cancellation ends no execution other than as cancelled.
LEMMA CancelReturnLive ==
    ASSUME TypeInv, NEW t \in Tasks, task[t].pc # "idle",
           Finish(task[t].op, "cancelled"), Return(t), UNCHANGED <<broker, effects>>
    PROVE  LiveStep /\ QuietOps /\ QuietTasks
<1>1. "cancelled" \notin {"executing", "succeeded", "failed", "outcome_unknown"}
  OBVIOUS
<1> QED
  BY <1>1, FinishReturnLive DEF effects

\* The steps around a claim, and a claim that is refused.
LEMMA ClaimStepsLive ==
    ASSUME TypeInv, NEW t \in Tasks,
           \/ ClaimCheck(t) \/ ClaimCancel(t) \/ ClaimRecheck(t)
           \/ ClaimTx(t) /\ Return(t)
    PROVE  LiveStep /\ QuietOps /\ QuietTasks
<1>a. task[t].op \in Ops /\ task[t].pc # "idle"
  BY DEF TypeInv, TaskInv, ClaimCheck, ClaimCancel, ClaimTx, ClaimRecheck
<1>0. PICK o \in Ops : o = task[t].op
  BY <1>a
<1>1. CASE ClaimCheck(t)
  <2>1. TasksLive /\ QuietTasks
    <3>1. CASE Goto(t, "claim_cancel")
      <4>1. /\ "claim_cancel" \in PcRun \cup PcOther /\ "claim_cancel" \notin PcChecked
            /\ "claim_cancel" \notin PcReceipts \cup {"plan_insert", "claim_recheck"}
        BY DEF PcRun, PcBeforeClaim, PcChecked, PcReceipts
      <4> QED
        BY <3>1, <4>1, GotoLive
    <3>2. CASE Return(t)
      BY <3>2, ReturnLive
    <3>3. CASE task' = [task EXCEPT ![t].pc = "claim_tx", ![t].late = ops[o].due]
      <4>1. /\ \A u \in Tasks : u # t => task'[u] = task[u]
            /\ task'[t].pc = "claim_tx"
        BY <3>3 DEF TypeInv, TypeOK, TaskRecords
      <4> QED
        BY <4>1 DEF TasksLive, QuietTasks, PcChecked, PcReceipts
    <3> QED
      BY <1>0, <1>1, <3>1, <3>2, <3>3 DEF ClaimCheck
  <2>2. UNCHANGED <<ops, ledger>> /\ UNCHANGED session /\ claimLive' = claimLive
    BY <1>1 DEF ClaimCheck, db, broker, effects
  <2> QED
    BY <2>1, <2>2, StoreUnchanged, SessionsUnchanged DEF LiveStep
<1>2. CASE ClaimCancel(t)
  BY <1>a, <1>2, CancelReturnLive DEF ClaimCancel
<1>3. CASE ClaimRecheck(t)
  <2>1. CASE Finish(task[t].op, "cancelled") /\ Return(t)
    BY <1>a, <1>3, <2>1, CancelReturnLive DEF ClaimRecheck
  <2>2. CASE ~SessionRevoked(task[t].op) /\ Goto(t, "granted") /\ UNCHANGED <<ops, ledger>>
    <3>1. /\ "granted" \in PcRun \cup PcOther
          /\ "granted" \notin PcReceipts \cup {"plan_insert", "claim_recheck"}
      BY DEF PcRun, PcAfterClaim, PcReceipts
    <3>2. TasksLive /\ QuietTasks
      BY <2>2, <3>1, GotoLive
    <3>3. UNCHANGED session /\ claimLive' = claimLive
      BY <1>3 DEF ClaimRecheck, broker, effects
    <3> QED
      BY <2>2, <3>2, <3>3, StoreUnchanged, SessionsUnchanged DEF LiveStep
  <2> QED
    BY <1>3, <2>1, <2>2 DEF ClaimRecheck
<1>4. CASE ClaimTx(t) /\ Return(t)
  <2>1. TasksLive /\ QuietTasks
    BY <1>4, ReturnLive
  <2>2. ~Goto(t, "claim_recheck")
    <3>1. task'[t].pc = "idle"
      BY <1>4, ReturnEffect DEF IdleTask
    <3>2. Goto(t, "claim_recheck") => task'[t].pc = "claim_recheck"
      BY DEF Goto, TypeInv, TypeOK, TaskRecords
    <3> QED
      BY <3>1, <3>2
  <2>3. UNCHANGED session /\ claimLive' = claimLive
    BY <1>4, <2>2 DEF ClaimTx, broker
  <2>4. CASE UNCHANGED <<ops, ledger>>
    BY <2>1, <2>3, <2>4, StoreUnchanged, SessionsUnchanged DEF LiveStep
  <2>5. CASE IsExecutable(o) /\ TransitionTx(o, "expired")
    <3>1. /\ "expired" \in States
          /\ ops[o].state # "absent" /\ ops[o].state # "executing"
      BY <2>5 DEF IsExecutable, States, TerminalStates
    <3>2. NewRowsPlanned /\ SameClaims /\ QuietOps
      BY <2>5, <3>1, TransitionLive DEF TypeInv
    <3> QED
      BY <2>1, <2>3, <3>2, SessionsUnchanged DEF LiveStep
  <2> QED
    BY <1>0, <1>4, <2>2, <2>4, <2>5 DEF ClaimTx
<1> QED
  BY <1>1, <1>2, <1>3, <1>4

\* The steps before and after the execution, and those of a cancellation. Only
\* the receipts and a failure before the target end an execution.
LEMMA ReceiptLive ==
    ASSUME TypeInv, NEW t \in Tasks,
           \/ CheckSignal(t) \/ FailBeforeTarget(t) \/ WriteReceipt(t) \/ ReceiptFailed(t)
           \/ CancelBefore(t) \/ CleanupRead(t) \/ CleanupCancel(t)
    PROVE  /\ LiveStep
           /\ \/ QuietOps /\ QuietTasks
              \/ FailBeforeTarget(t) \/ WriteReceipt(t) \/ ReceiptFailed(t)
<1>0. task[t].op \in Ops /\ task[t].pc # "idle"
  BY DEF TypeInv, TaskInv, CheckSignal, FailBeforeTarget, WriteReceipt, ReceiptFailed,
         CancelBefore, CleanupRead, CleanupCancel
<1>1. CASE CheckSignal(t)
  <2>1. CASE Finish(task[t].op, "cancelled") /\ Return(t)
    BY <1>0, <1>1, <2>1, CancelReturnLive DEF CheckSignal
  <2>2. CASE Goto(t, "connect") /\ UNCHANGED <<ops, ledger>>
    <3>1. /\ "connect" \in PcRun \cup PcOther /\ task[t].pc \in PcChecked
          /\ "connect" \notin PcReceipts \cup {"plan_insert", "claim_recheck"}
      BY <1>1 DEF CheckSignal, PcRun, PcAfterClaim, PcChecked, PcReceipts
    <3>2. TasksLive /\ QuietTasks
      BY <2>2, <3>1, GotoLive
    <3>3. UNCHANGED session /\ claimLive' = claimLive
      BY <1>1 DEF CheckSignal, broker, effects
    <3> QED
      BY <2>2, <3>2, <3>3, StoreUnchanged, SessionsUnchanged DEF LiveStep
  <2> QED
    BY <1>1, <2>1, <2>2 DEF CheckSignal
<1>2. CASE FailBeforeTarget(t)
  BY <1>0, <1>2, FinishReturnLive DEF FailBeforeTarget, effects
<1>3. CASE WriteReceipt(t)
  <2> DEFINE target == IF task[t].choice = "staged" THEN "succeeded" ELSE task[t].choice
  <2>1. target # "executing"
    BY <1>3 DEF WriteReceipt, TypeInv, TaskInv
  <2>2. Finish(task[t].op, target) /\ Return(t) /\ UNCHANGED <<broker, claimLive>>
    BY <1>3 DEF WriteReceipt
  <2> HIDE DEF target
  <2> QED
    BY <1>0, <1>3, <2>1, <2>2, FinishReturnLive
<1>4. CASE ReceiptFailed(t)
  <2>1. /\ \A u \in Tasks : u # t => task'[u] = task[u]
        /\ task'[t].pc = "receipt_retry"
        /\ task[t].pc = "receipt"
    BY <1>4 DEF ReceiptFailed, TypeInv, TypeOK, TaskRecords
  <2>2. TasksLive
    BY <2>1 DEF TasksLive, PcChecked
  <2>3. UNCHANGED <<ops, ledger>> /\ UNCHANGED session /\ claimLive' = claimLive
    BY <1>4 DEF ReceiptFailed, db, broker, effects
  <2> QED
    BY <1>4, <2>2, <2>3, StoreUnchanged, SessionsUnchanged DEF LiveStep
<1>5. CASE CancelBefore(t)
  BY <1>0, <1>5, CancelReturnLive DEF CancelBefore
<1>6. CASE CleanupCancel(t)
  BY <1>0, <1>6, CancelReturnLive DEF CleanupCancel
<1>7. CASE CleanupRead(t)
  <2>1. /\ "cleanup_cancel" \in PcRun \cup PcOther /\ "cleanup_cancel" \notin PcChecked
        /\ "cleanup_cancel" \notin PcReceipts \cup {"plan_insert", "claim_recheck"}
    BY DEF PcOther, PcChecked, PcReceipts
  <2>2. TasksLive /\ QuietTasks
    BY <1>7, <2>1, GotoLive, ReturnLive DEF CleanupRead
  <2>3. UNCHANGED <<ops, ledger>> /\ UNCHANGED session /\ claimLive' = claimLive
    BY <1>7 DEF CleanupRead, db, broker, effects
  <2> QED
    BY <2>2, <2>3, StoreUnchanged, SessionsUnchanged DEF LiveStep
<1> QED
  BY <1>1, <1>2, <1>3, <1>4, <1>5, <1>6, <1>7

\* New calls, the revocation consumer, the session registry, the clock and the
\* policy.
LEMMA EnvironmentLive ==
    ASSUME TypeInv, ConstantsAssumption,
           \/ \E t \in Callers : NewCall(t)
           \/ SinkTake
           \/ \E s \in Sessions :
                 IssueSession(s) \/ SessionExpires(s) \/ RevokeSession(s) \/ SweepExpired(s)
           \/ \E o \in Ops : ExpiryPasses(o) \/ CancelQuery(o)
           \/ \E p \in Policies : PolicyChanges(p)
           \/ UNCHANGED vars
    PROVE  LiveStep /\ QuietOps /\ QuietTasks
<1>a. UNCHANGED task => TasksLive /\ QuietTasks
  BY DEF TasksLive, QuietTasks
<1>b. ASSUME NEW pc \in {"cleanup_read", "decide_policy", "claim_check", "cancel_before"}
      PROVE  /\ pc \in PcRun \cup PcOther /\ pc \notin PcAfterClaim /\ pc # "plan_insert"
  BY DEF PcRun, PcBeforeClaim, PcOther, PcAfterClaim
<1>c. ASSUME NEW t \in Tasks, NEW o \in Ops, NEW h \in Payloads \cup {None},
             NEW pc \in {"cleanup_read", "decide_policy", "claim_check", "cancel_before"},
             NEW choice \in {"none", "approved", "rejected"}, Call(t, pc, o, h, choice)
      PROVE  TasksLive /\ QuietTasks
  BY <1>b, <1>c, CallLive
<1>d. ASSUME UNCHANGED <<ops, ledger, session, claimLive>>, TasksLive, QuietTasks
      PROVE  LiveStep /\ QuietOps /\ QuietTasks
  BY <1>d, StoreUnchanged, SessionsUnchanged DEF LiveStep
<1>1. ASSUME NEW t \in Callers, NEW o \in Ops, NEW h \in Payloads,
             PlanStart(t, o, h) \/ ApproveRead(t, o, h) \/ RejectRead(t, o, h)
      PROVE  LiveStep /\ QuietOps /\ QuietTasks
  <2>0. t \in Tasks
    BY DEF Tasks
  <2>1. CASE PlanStart(t, o, h)
    <3>1. Call(t, "plan_insert", o, h, "none") /\ Issued(o)
      BY <2>1 DEF PlanStart, IsLive, Issued
    <3>2. "plan_insert" \in PcRun \cup PcOther /\ "plan_insert" \notin PcAfterClaim
      BY DEF PcOther, PcAfterClaim
    <3>3. TasksLive /\ QuietTasks
      BY <2>0, <3>1, <3>2, CallLive
    <3> QED
      BY <1>d, <2>1, <3>3 DEF PlanStart, db, broker, effects
  <2>2. CASE ApproveRead(t, o, h)
    <3>1. TasksLive /\ QuietTasks
      BY <1>c, <2>0, <2>2 DEF ApproveRead
    <3> QED
      BY <1>d, <2>2, <3>1 DEF ApproveRead, db, broker, effects
  <2>3. CASE RejectRead(t, o, h)
    <3>1. TasksLive /\ QuietTasks
      BY <1>c, <2>0, <2>3 DEF RejectRead
    <3> QED
      BY <1>d, <2>3, <3>1 DEF RejectRead, db, broker, effects
  <2> QED
    BY <1>1, <2>1, <2>2, <2>3
<1>2. ASSUME NEW t \in Callers, NEW o \in Ops, RunStart(t, o) \/ CancelRead(t, o)
      PROVE  LiveStep /\ QuietOps /\ QuietTasks
  <2>0. t \in Tasks
    BY DEF Tasks
  <2>1. TasksLive /\ QuietTasks
    BY <1>2, <1>a, <1>c, <2>0 DEF RunStart, CancelRead
  <2> QED
    BY <1>2, <1>d, <2>1 DEF RunStart, CancelRead, db, broker, effects
<1>3. CASE SinkTake
  <2>1. PICK o \in sink : Call(Consumer, "cleanup_read", o, None, "none")
    BY <1>3 DEF SinkTake
  <2>2. o \in Ops /\ Consumer \in Tasks
    BY DEF TypeInv, TypeOK, Tasks
  <2>3. TasksLive /\ QuietTasks
    BY <2>1, <2>2, <1>c
  <2> QED
    BY <1>3, <1>d, <2>3 DEF SinkTake, db, effects
<1>4. ASSUME NEW s \in Sessions,
             IssueSession(s) \/ SessionExpires(s) \/ RevokeSession(s) \/ SweepExpired(s)
      PROVE  LiveStep /\ QuietOps /\ QuietTasks
  <2>1. UNCHANGED <<ops, ledger, task, claimLive>>
    BY <1>4 DEF IssueSession, SessionExpires, RevokeSession, SweepExpired, Remove, db, effects
  <2>2. \A x \in Sessions : x # s => session'[x] = session[x]
    BY <1>4 DEF IssueSession, SessionExpires, RevokeSession, SweepExpired, Remove,
       TypeInv, TypeOK
  <2>3. /\ session'[s] \in {"live", "expired", "gone"}
        /\ session[s] \in {"expired", "gone"} => session'[s] \in {"expired", "gone"}
    BY <1>4 DEF IssueSession, SessionExpires, RevokeSession, SweepExpired, Remove,
       TypeInv, TypeOK, SessionStates
  <2>4. \A o \in Ops : SessionOf[o] # None => SessionOf[o] \in Sessions
    BY DEF ConstantsAssumption
  <2>5. SessionsGoOn
    BY <2>2, <2>3, <2>4 DEF SessionsGoOn, Issued, Ended
  <2> QED
    BY <1>a, <2>1, <2>5, StoreUnchanged DEF LiveStep
<1>5. ASSUME NEW o \in Ops, ExpiryPasses(o)
      PROVE  LiveStep /\ QuietOps /\ QuietTasks
  <2>1. ops[o] \in StoredOps
    BY <1>5 DEF ExpiryPasses, UnclaimedStates, TypeInv, TypeOK, OpRecords, AbsentOp
  <2>2. \A x \in Ops : ops'[x].state = ops[x].state
    <3>1. ops'[o] = [ops[o] EXCEPT !.due = TRUE]
      BY <1>5 DEF ExpiryPasses, TypeInv, TypeOK
    <3>2. ops'[o].state = ops[o].state
      BY <2>1, <3>1 DEF StoredOps
    <3>3. \A x \in Ops : x # o => ops'[x] = ops[x]
      BY <1>5 DEF ExpiryPasses, TypeInv, TypeOK
    <3> QED
      BY <3>2, <3>3
  <2>3. UNCHANGED <<ledger, session, task, claimLive>>
    BY <1>5 DEF ExpiryPasses, broker, effects
  <2>4. NewRowsPlanned /\ QuietOps /\ SameClaims
    BY <2>2, <2>3 DEF NewRowsPlanned, QuietOps, SameClaims, EverClaimed
  <2> QED
    BY <1>a, <2>3, <2>4, SessionsUnchanged DEF LiveStep
<1>6. ASSUME UNCHANGED <<db, broker, task, effects>>
      PROVE  LiveStep /\ QuietOps /\ QuietTasks
  BY <1>6, <1>a, <1>d DEF db, broker, effects
<1>7. ASSUME NEW o \in Ops, CancelQuery(o)
      PROVE  LiveStep /\ QuietOps /\ QuietTasks
  BY <1>6, <1>7 DEF CancelQuery
<1>8. ASSUME NEW p \in Policies, PolicyChanges(p)
      PROVE  LiveStep /\ QuietOps /\ QuietTasks
  BY <1>6, <1>8 DEF PolicyChanges
<1>9. CASE UNCHANGED vars
  BY <1>6, <1>9 DEF vars
<1>10. ASSUME NEW t \in Callers, NewCall(t)
       PROVE  LiveStep /\ QuietOps /\ QuietTasks
  BY <1>1, <1>2, <1>10 DEF NewCall
<1> QED
  BY <1>3, <1>4, <1>5, <1>7, <1>8, <1>9, <1>10

\* Every step is a plain one that keeps the claims and the sessions, and ends an
\* execution only by a cancellation or by a receipt, or it is a successful
\* claim, an execution, a step of the manual transaction or a restart.
LEMMA LiveShapes ==
    ASSUME TypeInv, ConstantsAssumption, ClaimsAreClosed, [Next]_vars
    PROVE  \/ /\ PlainStep /\ LiveStep
              /\ \/ QuietOps /\ QuietTasks
                 \/ \E t \in Tasks : FailBeforeTarget(t) \/ WriteReceipt(t) \/ ReceiptFailed(t)
           \/ \E t \in Tasks : ClaimTx(t) /\ ~Return(t)
           \/ \E t \in Tasks : Execute(t)
           \/ ManualStep
           \/ Restart
<1>1. ASSUME NEW t \in Tasks, TaskStep(t)
      PROVE  \/ /\ PlainStep /\ LiveStep
                /\ \/ QuietOps /\ QuietTasks
                   \/ FailBeforeTarget(t) \/ WriteReceipt(t) \/ ReceiptFailed(t)
             \/ ClaimTx(t) /\ ~Return(t)
             \/ Execute(t)
  <2>1. CASE PlanInsert(t) \/ PlanDispose(t) \/ PlanTrack(t)
    BY <2>1, PlanPlain, PlanLive
  <2>2. CASE CapturePolicy(t) \/ DecideApproval(t)
    BY <2>2, DecidePlain, DecideLive
  <2>3. CASE ClaimCheck(t) \/ ClaimCancel(t) \/ ClaimRecheck(t) \/ ClaimTx(t)
    BY <2>3, ClaimPlain, ClaimStepsLive
  <2>4. CASE \/ CheckSignal(t) \/ FailBeforeTarget(t) \/ WriteReceipt(t) \/ ReceiptFailed(t)
             \/ CancelBefore(t) \/ CleanupRead(t) \/ CleanupCancel(t)
    BY <2>4, ReceiptPlain, ReceiptLive
  <2> QED
    BY <1>1, <2>1, <2>2, <2>3, <2>4 DEF TaskStep
<1> QED
  BY <1>1, EnvironmentPlain, EnvironmentLive, ManualEffect DEF Next

-----------------------------------------------------------------------------
(* The ledger records every claim.                                         *)

\* A claim in the ledger belongs to an operation that has left the open states,
\* and every grant, and what is staged, has its claim there.
ClaimInv ==
    /\ ClaimsAreClosed
    /\ \A o \in staged : EverClaimed(o)
    /\ \A t \in Tasks : task[t].pc \in PcAfterClaim => EverClaimed(task[t].op)

\* What a successful claim writes besides the row.
LEMMA ClaimRecords ==
    ASSUME TypeInv, NEW t \in Tasks, ClaimTx(t), ~Return(t)
    PROVE  /\ task[t].op \in Ops
           /\ EverClaimed(task[t].op)'
           /\ \A x \in Ops : x # task[t].op => (EverClaimed(x)' <=> EverClaimed(x))
           /\ claimLive' = [claimLive EXCEPT ![task[t].op] = ~SessionRevoked(task[t].op)]
           /\ session' = session
           /\ IsExecutable(task[t].op)
<1>1. task[t].op \in Ops
  BY DEF TypeInv, TaskInv, ClaimTx
<1>2. /\ IsExecutable(task[t].op)
      /\ TransitionTx(task[t].op, "executing")
      /\ claimLive' = [claimLive EXCEPT ![task[t].op] = ~SessionRevoked(task[t].op)]
      /\ session' = session
  BY DEF ClaimTx, broker
<1>3. "executing" \in States
  BY DEF States
<1>4. PICK o \in Ops : o = task[t].op
  BY <1>1
<1>5. EverClaimed(o)' /\ \A x \in Ops : x # o => (EverClaimed(x)' <=> EverClaimed(x))
  BY <1>2, <1>3, <1>4, TransitionClaims DEF TypeInv
<1>6. EverClaimed(task[t].op)'
  <2>1. PICK v \in Ops : v = task'[t].op /\ v = o
    BY <1>4, ClaimEffect
  <2> QED
    BY <1>5, <2>1 DEF EverClaimed
<1> QED
  BY <1>1, <1>2, <1>4, <1>5, <1>6

\* Recovery writes no claim.
LEMMA RestartClaims ==
    ASSUME TypeInv, ConstantsAssumption, Restart
    PROVE  SameClaims
<1> SUFFICES ASSUME NEW o \in Ops
             PROVE  EverClaimed(o)' <=> EverClaimed(o)
  BY DEF SameClaims
<1>1. ledger'[o] = IF Recovered(o) = ops[o].state THEN ledger[o]
                    ELSE Append(ledger[o], Recovered(o))
  BY DEF Restart
<1>2. CASE Recovered(o) = ops[o].state
  BY <1>1, <1>2 DEF EverClaimed
<1>3. CASE Recovered(o) # ops[o].state
  <2>1. ops[o].state # "absent"
    BY <1>3 DEF Recovered
  <2>2. ops[o].state \in States /\ KindOf[o] \in Kinds
    BY <2>1 DEF TypeInv, TypeOK, OpRecords, StoredOps, AbsentOp, ConstantsAssumption
  <2>3. Recovered(o) = RestartRecovery(KindOf[o], ops[o].state)
    BY <2>1 DEF Recovered
  <2>4. Recovered(o) \in States /\ Recovered(o) # "executing"
    BY <1>3, <2>2, <2>3, RecoveryStates DEF IsTerminal, TerminalStates
  <2>5. ledger[o] \in Seq(States) /\ ledger'[o] = Append(ledger[o], Recovered(o))
    BY <1>1, <1>3 DEF TypeInv, TypeOK
  <2> HIDE DEF Recovered
  <2> QED
    BY <2>4, <2>5, AppendClaims DEF EverClaimed
<1> QED
  BY <1>2, <1>3

\* Every step keeps the claims of the ledger.
LEMMA NextClaims ==
    ASSUME TypeInv, ConstantsAssumption, SafetyInv, ClaimInv, [Next]_vars
    PROVE  ClaimInv'
<1>a. \A t \in Tasks : task[t].pc \in PcAfterClaim => task[t].op \in Ops
  BY DEF TypeInv, TaskInv, PcAfterClaim
<1>b. ASSUME SameClaims, \A o \in Ops : Open(o)' => Open(o)
      PROVE  ClaimsAreClosed'
  BY <1>b DEF SameClaims, ClaimInv, ClaimsAreClosed
<1>c. ASSUME NEW t \in Tasks, NEW o \in Ops, task'[t].op = o, EverClaimed(o)'
      PROVE  EverClaimed(task[t].op)'
  BY <1>c DEF EverClaimed
<1>1. CASE PlainStep /\ LiveStep
  <2>1. ClaimsAreClosed'
    BY <1>1, <1>b, PlainStaysClaimed DEF LiveStep
  <2>2. ASSUME NEW t \in Tasks, task'[t].pc \in PcAfterClaim
        PROVE  EverClaimed(task[t].op)'
    <3>1. PICK o \in Ops : o = task[t].op /\ task'[t].op = o /\ task[t].pc \in PcAfterClaim
      BY <1>1, <1>a, <2>2 DEF PlainStep, PlainTasks
    <3>2. EverClaimed(o)'
      BY <1>1, <3>1 DEF LiveStep, SameClaims, ClaimInv
    <3> QED
      BY <1>c, <3>1, <3>2
  <2>3. \A o \in staged' : EverClaimed(o)'
    BY <1>1 DEF PlainStep, PlainRest, LiveStep, SameClaims, ClaimInv, TypeInv, TypeOK
  <2> QED
    BY <2>1, <2>2, <2>3 DEF ClaimInv
<1>2. ASSUME NEW t \in Tasks, ClaimTx(t), ~Return(t)
      PROVE  ClaimInv'
  <2>1. PICK o \in Ops :
            /\ task[t].op = o /\ task'[t].op = o
            /\ \A u \in Tasks : u # t => task'[u] = task[u]
            /\ ops'[o].state = "executing"
            /\ \A x \in Ops : x # o => ops'[x] = ops[x]
            /\ staged' = staged
    BY <1>2, ClaimEffect
  <2>2. /\ EverClaimed(o)'
        /\ \A x \in Ops : x # o => (EverClaimed(x)' <=> EverClaimed(x))
    <3>1. EverClaimed(task[t].op)'
      BY <1>2, ClaimRecords
    <3> QED
      BY <1>2, <2>1, <3>1, ClaimRecords DEF EverClaimed
  <2>3. ClaimsAreClosed'
    BY <2>1, <2>2 DEF ClaimInv, ClaimsAreClosed, Open, UnclaimedStates
  <2>4. ASSUME NEW u \in Tasks, task'[u].pc \in PcAfterClaim
        PROVE  EverClaimed(task[u].op)'
    <3>1. CASE u = t
      BY <1>c, <2>1, <2>2, <3>1
    <3>2. CASE u # t
      <4>1. PICK x \in Ops : x = task[u].op /\ task'[u].op = x
        BY <1>a, <2>1, <2>4, <3>2
      <4>2. EverClaimed(x)'
        BY <2>1, <2>2, <2>4, <3>2, <4>1 DEF ClaimInv
      <4> QED
        BY <1>c, <4>1, <4>2
    <3> QED
      BY <3>1, <3>2
  <2>5. \A x \in staged' : EverClaimed(x)'
    BY <2>1, <2>2 DEF ClaimInv, TypeInv, TypeOK
  <2> QED
    BY <2>3, <2>4, <2>5 DEF ClaimInv
<1>3. ASSUME NEW t \in Tasks, Execute(t)
      PROVE  ClaimInv'
  <2>0. PICK o \in Ops : ExecutedAs(t, o)
    BY <1>3, ExecuteEffect
  <2>1. UNCHANGED <<ops, ledger>>
    BY <2>0 DEF ExecutedAs, db
  <2>2. /\ task[t].pc \in PcAfterClaim
        /\ task'[t].op = task[t].op /\ o = task[t].op
        /\ staged' \subseteq staged \cup {o}
        /\ \A u \in Tasks : u # t => task'[u] = task[u]
    BY <2>0 DEF ExecutedAs, PcAfterClaim
  <2>3. \A u \in Tasks : task'[u].op = task[u].op /\
                           (task'[u].pc \in PcAfterClaim => task[u].pc \in PcAfterClaim)
    BY <2>2
  <2>4. \A x \in Ops : EverClaimed(x)' <=> EverClaimed(x)
    BY <2>1 DEF EverClaimed
  <2>5. \A x \in staged' : EverClaimed(x)'
    BY <2>2, <2>4 DEF ClaimInv, TypeInv, TypeOK
  <2>6. \A u \in Tasks : task'[u].pc \in PcAfterClaim => EverClaimed(task[u].op)'
    BY <2>1, <2>3 DEF ClaimInv, EverClaimed
  <2>7. ClaimsAreClosed'
    BY <2>1 DEF ClaimInv, ClaimsAreClosed, EverClaimed, Open
  <2> QED
    BY <2>5, <2>6, <2>7 DEF ClaimInv
<1>5. CASE ManualStep
  <2>1. UNCHANGED <<ops, ledger, task>> /\ staged' \subseteq staged
    BY <1>5 DEF ManualStep, db
  <2> QED
    BY <2>1 DEF ClaimInv, ClaimsAreClosed, EverClaimed, Open
<1>4. CASE Restart
  <2>0. staged' = {}
    BY <1>4 DEF Restart, RollBack
  <2>1. \A t \in Tasks : task'[t].pc \notin PcAfterClaim
    BY <1>4 DEF Restart, IdleTask, PcAfterClaim
  <2>2. \A o \in Ops : Open(o)' => Open(o)
    BY <1>4, RestartEffect DEF Open, UnclaimedStates, IsTerminal, TerminalStates
  <2> QED
    BY <1>4, <1>b, <2>0, <2>1, <2>2, RestartClaims DEF ClaimInv
<1> QED
  BY <1>1, <1>2, <1>3, <1>4, <1>5, LiveShapes DEF ClaimInv

-----------------------------------------------------------------------------
(* Honest outcomes.                                                        *)

\* While a task holds the grant nobody but a cancellation closes the operation;
\* the result that a task is about to write is true of the target; and so is
\* every result that was written.
HeldInv ==
    \A t \in Tasks : task[t].pc \in PcAfterClaim => ops[task[t].op].state \in {"executing", "cancelled"}

ResultInv ==
    \A t \in Tasks : task[t].pc \in PcReceipts /\ MayMutateTarget(KindOf[task[t].op]) =>
        /\ task[t].choice = "succeeded" => commits[task[t].op] = 1
        /\ task[t].choice = "failed" => commits[task[t].op] = 0 /\ task[t].op \notin staged

OutcomeInv == HeldInv /\ ResultInv /\ HonestOutcome

\* What HonestOutcome says of one mutation.
Honest(o) ==
    /\ o \in confirmed => ops[o].state = "succeeded" /\ commits[o] = 1
    /\ ops[o].state \in {"failed", "rejected", "expired"} => commits[o] = 0 /\ o \notin staged

\* Only a receipt says that its operation was committed.
LEMMA ConfirmedShapes ==
    ASSUME [Next]_vars
    PROVE  confirmed' = confirmed \/ \E t \in Tasks : WriteReceipt(t)
<1>1. ASSUME NEW t \in Tasks, TaskStep(t), ~WriteReceipt(t)
      PROVE  confirmed' = confirmed
  BY <1>1 DEF TaskStep, PlanInsert, PlanDispose, PlanTrack, CapturePolicy, DecideApproval,
     ClaimCheck, ClaimCancel, ClaimTx, ClaimRecheck, CheckSignal, FailBeforeTarget, Execute,
     ReceiptFailed, CancelBefore, CleanupRead, CleanupCancel, effects
<1>2. ASSUME NEW t \in Callers, NewCall(t)
      PROVE  confirmed' = confirmed
  BY <1>2 DEF NewCall, PlanStart, ApproveRead, RejectRead, RunStart, CancelRead, effects
<1>3. CASE SinkTake \/ BeginManual \/ CommitManual \/ EndManual \/ Restart \/ UNCHANGED vars
  BY <1>3 DEF SinkTake, BeginManual, CommitManual, EndManual, Restart, vars, effects
<1>4. ASSUME NEW s \in Sessions,
             IssueSession(s) \/ SessionExpires(s) \/ RevokeSession(s) \/ SweepExpired(s)
      PROVE  confirmed' = confirmed
  BY <1>4 DEF IssueSession, SessionExpires, RevokeSession, SweepExpired, Remove, effects
<1>5. ASSUME NEW o \in Ops, ExpiryPasses(o) \/ CancelQuery(o)
      PROVE  confirmed' = confirmed
  BY <1>5 DEF ExpiryPasses, CancelQuery, effects
<1>6. ASSUME NEW p \in Policies, PolicyChanges(p)
      PROVE  confirmed' = confirmed
  BY <1>6 DEF PolicyChanges, effects
<1> QED
  BY <1>1, <1>2, <1>3, <1>4, <1>5, <1>6 DEF Next

\* An open operation and one whose execution goes on stay honest when they are
\* closed without an execution.
LEMMA QuietOutcome ==
    ASSUME TypeInv, SafetyInv, OutcomeInv, PlainStep, QuietOps, QuietTasks,
           confirmed' = confirmed
    PROVE  OutcomeInv'
<1>a. \A t \in Tasks : task[t].pc \in PcAfterClaim => task[t].op \in Ops
  BY DEF TypeInv, TaskInv, PcAfterClaim
<1>b. commits' = commits /\ staged' = staged
  BY DEF PlainStep, PlainRest
<1>c. ASSUME NEW o \in Ops
      PROVE  \/ ops'[o].state = ops[o].state
             \/ Open(o)
             \/ ops[o].state = "executing" /\ ops'[o].state = "cancelled"
  <2>1. Kept(o) \/ Created(o) \/ Moved(o)
    BY DEF PlainStep, PlainOps
  <2>2. Moved(o) => Open(o) \/ ops[o].state = "executing"
    BY DEF Moved, EnsureTransition, Open, UnclaimedStates
  <2> QED
    BY <2>1, <2>2 DEF Kept, Created, Open, QuietOps
<1>d. ASSUME NEW o \in Ops, Open(o)
      PROVE  commits[o] = 0 /\ o \notin staged
  BY <1>d DEF SafetyInv, GrantInv
<1>1. HeldInv'
  <2> SUFFICES ASSUME NEW t \in Tasks, task'[t].pc \in PcAfterClaim
               PROVE  ops'[task'[t].op].state \in {"executing", "cancelled"}
    BY DEF HeldInv
  <2>1. PICK o \in Ops : o = task[t].op /\ task'[t].op = o /\ task[t].pc \in PcAfterClaim
    BY <1>a DEF PlainStep, PlainTasks
  <2>2. ops[o].state \in {"executing", "cancelled"}
    BY <2>1 DEF OutcomeInv, HeldInv
  <2> QED
    BY <1>c, <2>1, <2>2 DEF Open, UnclaimedStates
<1>2. ResultInv'
  <2>1. \A t \in Tasks : task'[t].pc \in PcReceipts => task'[t] = task[t]
    BY DEF QuietTasks
  <2> QED
    BY <1>b, <2>1 DEF OutcomeInv, ResultInv
<1>3. HonestOutcome'
  <2> SUFFICES ASSUME NEW o \in Ops, MayMutateTarget(KindOf[o])
               PROVE  Honest(o)'
    BY DEF HonestOutcome, Honest
  <2>0. Honest(o)
    BY DEF OutcomeInv, HonestOutcome, Honest
  <2>1. CASE ops'[o].state = ops[o].state
    BY <1>b, <2>0, <2>1 DEF Honest
  <2>2. CASE Open(o)
    BY <1>b, <1>d, <2>0, <2>2 DEF Honest, Open, UnclaimedStates
  <2>3. CASE ops[o].state = "executing" /\ ops'[o].state = "cancelled"
    BY <1>b, <2>0, <2>3 DEF Honest
  <2> QED
    BY <1>c, <2>1, <2>2, <2>3
<1> QED
  BY <1>1, <1>2, <1>3 DEF OutcomeInv

\* The holder of the grant ends the execution with a result that is true.
LEMMA FinishOutcome ==
    ASSUME TypeInv, SafetyInv, OutcomeInv, NEW t \in Tasks, task[t].pc \in PcAfterClaim,
           NEW target, Finish(task[t].op, target), Return(t),
           commits' = commits, staged' = staged,
           MayMutateTarget(KindOf[task[t].op]) /\ target = "failed" =>
              commits[task[t].op] = 0 /\ task[t].op \notin staged,
           \/ confirmed' = confirmed
           \/ /\ confirmed' = confirmed \cup {task[t].op}
              /\ MayMutateTarget(KindOf[task[t].op]) => commits[task[t].op] = 1
              /\ target = "succeeded" /\ CanTransition(task[t].op, target)
    PROVE  OutcomeInv'
<1>a. \A u \in Tasks : task[u].pc \in PcAfterClaim => task[u].op \in Ops
  BY DEF TypeInv, TaskInv, PcAfterClaim
<1>b. PICK o \in Ops : o = task[t].op
  BY <1>a
<1>c. /\ \A x \in Ops : x # o => ops'[x] = ops[x]
      /\ \/ ops' = ops
         \/ CanTransition(o, target) /\ ops'[o].state = target
      /\ CanTransition(o, target) => ops'[o].state = target
  <2>1. TypeOK /\ Finish(o, target)
    BY <1>b DEF TypeInv
  <2>3. CASE CanTransition(o, target)
    <3>1. TransitionTx(o, target) /\ ops[o].state # "absent" /\ target \in States
      BY <2>1, <2>3, TransitionStates DEF Finish, CanTransition
    <3> QED
      BY <2>1, <2>3, <3>1, TransitionTxEffect
  <2> QED
    BY <2>1, <2>3 DEF Finish
<1>d. /\ \A u \in Tasks : u # t => task'[u] = task[u]
      /\ task'[t].pc \notin PcAfterClaim /\ PcReceipts \subseteq PcAfterClaim
  <2>1. task'[t] = IdleTask /\ \A u \in Tasks : u # t => task'[u] = task[u]
    BY ReturnEffect
  <2> QED
    BY <2>1 DEF IdleTask, PcAfterClaim, PcReceipts
<1>e. \A u \in Tasks : u # t /\ task[u].pc \in PcAfterClaim => task[u].op # o
  BY <1>b DEF SafetyInv, GrantInv
<1>1. HeldInv'
  BY <1>a, <1>c, <1>d, <1>e DEF OutcomeInv, HeldInv
<1>2. ResultInv'
  BY <1>d DEF OutcomeInv, ResultInv
<1>3. HonestOutcome'
  <2> SUFFICES ASSUME NEW x \in Ops, MayMutateTarget(KindOf[x])
               PROVE  Honest(x)'
    BY DEF HonestOutcome, Honest
  <2>0. Honest(x) /\ ops[o].state \in {"executing", "cancelled"}
    BY <1>b DEF OutcomeInv, HonestOutcome, Honest, HeldInv
  <2>1. CASE x # o
    BY <1>b, <1>c, <2>0, <2>1 DEF Honest
  <2>2. CASE x = o /\ ~CanTransition(o, target)
    BY <1>b, <1>c, <2>0, <2>2 DEF Honest
  <2>3. CASE x = o /\ CanTransition(o, target)
    <3>1. target \in {"succeeded", "failed", "cancelled", "outcome_unknown"}
      BY <2>0, <2>3 DEF CanTransition, EnsureTransition
    <3>2. o \notin confirmed
      BY <2>0, <2>3 DEF Honest
    <3> QED
      BY <1>b, <1>c, <2>3, <3>1, <3>2 DEF Honest
  <2> QED
    BY <2>1, <2>2, <2>3
<1> QED
  BY <1>1, <1>2, <1>3 DEF OutcomeInv

\* The receipts, a failure before the target and the fallback of a receipt.
LEMMA ReceiptOutcome ==
    ASSUME TypeInv, SafetyInv, OutcomeInv, NEW t \in Tasks,
           FailBeforeTarget(t) \/ WriteReceipt(t) \/ ReceiptFailed(t)
    PROVE  OutcomeInv'
<1>1. CASE FailBeforeTarget(t)
  <2>1. task[t].pc \in PcAfterClaim /\ task[t].pc \in PcFresh
    BY <1>1 DEF FailBeforeTarget, PcAfterClaim, PcFresh
  <2>2. commits[task[t].op] = 0 /\ task[t].op \notin staged
    BY <2>1 DEF SafetyInv, GrantInv
  <2>3. /\ Finish(task[t].op, "failed") /\ Return(t)
        /\ UNCHANGED <<commits, staged, confirmed>>
    BY <1>1 DEF FailBeforeTarget, effects
  <2> QED
    BY <2>1, <2>2, <2>3, FinishOutcome
<1>2. CASE WriteReceipt(t)
  <2> DEFINE target == IF task[t].choice = "staged" THEN "succeeded" ELSE task[t].choice
  <2>1. task[t].pc \in PcAfterClaim /\ task[t].pc \in PcReceipts
    BY <1>2 DEF WriteReceipt, PcAfterClaim, PcReceipts
  <2>2. Finish(task[t].op, target) /\ Return(t) /\ UNCHANGED <<commits, staged>>
    BY <1>2 DEF WriteReceipt
  <2>3. MayMutateTarget(KindOf[task[t].op]) /\ target = "failed" =>
            commits[task[t].op] = 0 /\ task[t].op \notin staged
    BY <2>1 DEF OutcomeInv, ResultInv
  <2>4. \/ confirmed' = confirmed
        \/ /\ confirmed' = confirmed \cup {task[t].op}
           /\ MayMutateTarget(KindOf[task[t].op]) => commits[task[t].op] = 1
           /\ target = "succeeded" /\ CanTransition(task[t].op, target)
    <3>1. CASE /\ task[t].choice = "succeeded" /\ MayMutateTarget(KindOf[task[t].op])
               /\ CanTransition(task[t].op, task[t].choice)
      <4>1. confirmed' = confirmed \cup {task[t].op}
        BY <1>2, <3>1 DEF WriteReceipt
      <4>2. commits[task[t].op] = 1
        BY <2>1, <3>1 DEF OutcomeInv, ResultInv
      <4> QED
        BY <3>1, <4>1, <4>2
    <3> QED
      BY <1>2, <3>1 DEF WriteReceipt
  <2> HIDE DEF target
  <2> QED
    BY <2>1, <2>2, <2>3, <2>4, FinishOutcome
<1>3. CASE ReceiptFailed(t)
  <2>1. /\ \A u \in Tasks : u # t => task'[u] = task[u]
        /\ task'[t].pc = "receipt_retry" /\ task'[t].op = task[t].op
        /\ task[t].pc = "receipt"
        /\ MayMutateTarget(KindOf[task[t].op]) => task'[t].choice = "outcome_unknown"
    BY <1>3 DEF ReceiptFailed, TypeInv, TypeOK, TaskRecords
  <2>2. UNCHANGED <<ops, commits, staged, confirmed>>
    BY <1>3 DEF ReceiptFailed, db, effects
  <2>3. HeldInv'
    BY <2>1, <2>2 DEF OutcomeInv, HeldInv, PcAfterClaim
  <2>4. ResultInv'
    BY <2>1, <2>2 DEF OutcomeInv, ResultInv
  <2>5. HonestOutcome'
    BY <2>2 DEF OutcomeInv, HonestOutcome
  <2> QED
    BY <2>3, <2>4, <2>5 DEF OutcomeInv
<1> QED
  BY <1>1, <1>2, <1>3

\* A claim starts an execution of an operation that nobody holds.
LEMMA ClaimOutcome ==
    ASSUME TypeInv, SafetyInv, OutcomeInv, NEW t \in Tasks, ClaimTx(t), ~Return(t)
    PROVE  OutcomeInv'
<1>1. PICK o \in Ops :
          /\ task[t].op = o /\ task'[t].op = o
          /\ task'[t].pc = "claim_recheck"
          /\ \A u \in Tasks : u # t => task'[u] = task[u]
          /\ IsExecutable(o)
          /\ ops'[o].state = "executing"
          /\ \A x \in Ops : x # o => ops'[x] = ops[x]
          /\ commits' = commits /\ staged' = staged
  BY ClaimEffect
<1>a. confirmed' = confirmed
  BY DEF ClaimTx
<1>2. Open(o)
  BY <1>1 DEF IsExecutable, Open, UnclaimedStates
<1>3. \A u \in Tasks : task[u].pc \in PcAfterClaim => task[u].op \in Ops /\ task[u].op # o
  BY <1>2 DEF SafetyInv, GrantInv, TypeInv, TaskInv, PcAfterClaim
<1>4. "claim_recheck" \notin PcReceipts
  BY DEF PcReceipts
<1>5. HeldInv'
  BY <1>1, <1>3 DEF OutcomeInv, HeldInv
<1>6. ResultInv'
  BY <1>1, <1>4 DEF OutcomeInv, ResultInv
<1>7. HonestOutcome'
  <2>1. ASSUME NEW x \in Ops, MayMutateTarget(KindOf[x])
        PROVE  Honest(x)'
    <3>1. Honest(x)
      BY <2>1 DEF OutcomeInv, HonestOutcome, Honest
    <3>2. o \in confirmed /\ x = o => FALSE
      BY <1>1, <3>1 DEF Honest, IsExecutable
    <3> QED
      BY <1>1, <1>a, <3>1, <3>2 DEF Honest
  <2> QED
    BY <2>1 DEF HonestOutcome, Honest
<1> QED
  BY <1>5, <1>6, <1>7 DEF OutcomeInv

\* An execution reports what it did, or that it does not know.
LEMMA ExecuteOutcome ==
    ASSUME TypeInv, SafetyInv, OutcomeInv, NEW t \in Tasks, Execute(t)
    PROVE  OutcomeInv'
<1>1. PICK o \in Ops : ExecutedAs(t, o)
  BY ExecuteEffect
<1>0. o = task[t].op /\ task[t].pc = "connect"
  BY <1>1 DEF ExecutedAs
<1>4. /\ task'[t].pc = "receipt" /\ task'[t].op = o
      /\ \A u \in Tasks : u # t => task'[u] = task[u]
  BY <1>1 DEF ExecutedAs
<1>5. ops' = ops /\ confirmed' = confirmed
  BY <1>1 DEF ExecutedAs, db
<1>6. /\ "connect" \in PcFresh /\ "connect" \in PcAfterClaim /\ PcReceipts \subseteq PcAfterClaim
  BY DEF PcFresh, PcAfterClaim, PcReceipts
<1>7. /\ commits[o] = 0 /\ o \notin staged /\ ops[o].state \in {"executing", "cancelled"}
      /\ \A u \in Tasks : task[u].pc \in PcAfterClaim /\ u # t => task[u].op # o
  BY <1>0, <1>6 DEF SafetyInv, GrantInv, OutcomeInv, HeldInv
<1>3. MayMutateTarget(KindOf[o]) =>
          /\ task'[t].choice = "succeeded" => commits'[o] = 1
          /\ task'[t].choice = "failed" => commits'[o] = 0 /\ o \notin staged'
  BY <1>1, <1>7 DEF ExecutedAs
<1>8. \A x \in Ops : x # o => commits'[x] = commits[x] /\ (x \in staged' => x \in staged)
  BY <1>1 DEF ExecutedAs
<1>9. HeldInv'
  BY <1>0, <1>4, <1>5, <1>6 DEF OutcomeInv, HeldInv
<1>10. ResultInv'
  <2> SUFFICES ASSUME NEW u \in Tasks, task'[u].pc \in PcReceipts,
                      MayMutateTarget(KindOf[task'[u].op])
               PROVE  /\ task'[u].choice = "succeeded" => commits'[task'[u].op] = 1
                      /\ task'[u].choice = "failed" =>
                            commits'[task'[u].op] = 0 /\ task'[u].op \notin staged'
    BY DEF ResultInv
  <2>1. CASE u = t
    BY <1>3, <1>4, <2>1
  <2>2. CASE u # t
    <3>1. task'[u] = task[u] /\ task[u].op \in Ops /\ task[u].op # o
      BY <1>4, <1>6, <1>7, <2>2 DEF TypeInv, TaskInv, PcReceipts
    <3> QED
      BY <1>8, <3>1 DEF OutcomeInv, ResultInv
  <2> QED
    BY <2>1, <2>2
<1>11. HonestOutcome'
  <2>1. ASSUME NEW x \in Ops, MayMutateTarget(KindOf[x])
        PROVE  Honest(x)'
    <3>1. Honest(x)
      BY <2>1 DEF OutcomeInv, HonestOutcome, Honest
    <3>2. CASE x = o
      BY <1>5, <1>7, <3>1, <3>2 DEF Honest
    <3>3. CASE x # o
      BY <1>5, <1>8, <3>1, <3>3 DEF Honest
    <3> QED
      BY <3>2, <3>3
  <2> QED
    BY <2>1 DEF HonestOutcome, Honest
<1> QED
  BY <1>9, <1>10, <1>11 DEF OutcomeInv

\* The COMMIT of the manual transaction is that of operations that were staged:
\* none of them was reported as committed, failed, rejected or expired.
LEMMA ManualOutcome ==
    ASSUME TypeInv, SafetyInv, OutcomeInv, ManualStep
    PROVE  OutcomeInv'
<1>1. UNCHANGED <<ops, task, confirmed>> /\ staged' \subseteq staged
  BY DEF ManualStep, db
<1>2. ASSUME NEW o \in Ops
      PROVE  (o \notin staged => commits'[o] = commits[o]) /\ (o \in staged => commits[o] = 0)
  BY DEF ManualStep, SafetyInv, GrantInv
<1>3. \A t \in Tasks : task[t].pc \in PcReceipts => task[t].op \in Ops
  BY DEF TypeInv, TaskInv, PcReceipts
<1>4. HeldInv'
  BY <1>1 DEF OutcomeInv, HeldInv
<1>5. ResultInv'
  <2> SUFFICES ASSUME NEW t \in Tasks, task[t].pc \in PcReceipts,
                      MayMutateTarget(KindOf[task[t].op])
               PROVE  /\ task[t].choice = "succeeded" => commits'[task[t].op] = 1
                      /\ task[t].choice = "failed" =>
                            commits'[task[t].op] = 0 /\ task[t].op \notin staged'
    BY <1>1 DEF ResultInv
  <2>1. /\ task[t].choice = "succeeded" => commits[task[t].op] = 1
        /\ task[t].choice = "failed" => commits[task[t].op] = 0 /\ task[t].op \notin staged
    BY DEF OutcomeInv, ResultInv
  <2> QED
    BY <1>1, <1>2, <1>3, <2>1
<1>6. HonestOutcome'
  <2>1. ASSUME NEW o \in Ops, MayMutateTarget(KindOf[o])
        PROVE  Honest(o)'
    <3>1. Honest(o)
      BY <2>1 DEF OutcomeInv, HonestOutcome, Honest
    <3> QED
      BY <1>1, <1>2, <3>1 DEF Honest
  <2> QED
    BY <2>1 DEF HonestOutcome, Honest
<1> QED
  BY <1>4, <1>5, <1>6 DEF OutcomeInv

\* Recovery does not guess: an interrupted mutation is left as unknown.
LEMMA RestartOutcome ==
    ASSUME TypeInv, ConstantsAssumption, SafetyInv, OutcomeInv, Restart
    PROVE  OutcomeInv'
<1>1. \A t \in Tasks : task'[t].pc \notin PcAfterClaim /\ task'[t].pc \notin PcReceipts
  BY DEF Restart, IdleTask, PcAfterClaim, PcReceipts
<1>2. PICK landed \in SUBSET {o \in Ops : MayMutateTarget(KindOf[o]) /\
                \E t \in Tasks : task[t].op = o /\ task[t].pc = "connect"} :
          commits' = [o \in Ops |-> commits[o] + (IF o \in landed THEN 1 ELSE 0)]
  BY DEF Restart
<1>3. ASSUME NEW o \in landed
      PROVE  o \in Ops /\ ops[o].state \in {"executing", "cancelled"}
  <2>1. PICK t \in Tasks : task[t].op = o /\ task[t].pc = "connect"
    BY <1>2, <1>3
  <2> QED
    BY <1>2, <1>3, <2>1 DEF OutcomeInv, HeldInv, PcAfterClaim
<1>4. ASSUME NEW o \in Ops, o \notin landed
      PROVE  commits'[o] = commits[o]
  BY <1>2, <1>4 DEF TypeInv, TypeOK
<1>5. ASSUME NEW o \in Ops, MayMutateTarget(KindOf[o])
      PROVE  \/ ops'[o].state = ops[o].state
             \/ Open(o) /\ ops'[o].state = "expired"
             \/ ops[o].state = "executing" /\ ops'[o].state = "outcome_unknown"
  <2>1. ops'[o].state = Recovered(o)
    <3>1. ops'[o] = [ops[o] EXCEPT !.state = Recovered(o)]
      BY DEF Restart
    <3>2. CASE ops[o] \in StoredOps
      BY <3>1, <3>2 DEF StoredOps
    <3>3. CASE ops[o] = AbsentOp
      BY <3>1, <3>3 DEF AbsentOp
    <3> QED
      BY <3>2, <3>3 DEF TypeInv, TypeOK, OpRecords
  <2>2. CASE ops[o].state = "absent"
    BY <2>1, <2>2 DEF Recovered
  <2>3. CASE ops[o].state # "absent"
    <3>1. ops[o].state \in States
      BY <2>3 DEF TypeInv, TypeOK, OpRecords, StoredOps, AbsentOp
    <3>2. ops'[o].state = RestartRecovery(KindOf[o], ops[o].state)
      BY <2>1, <2>3 DEF Recovered
    <3> QED
      BY <1>5, <3>1, <3>2 DEF RestartRecovery, MayMutateTarget, IsTerminal, TerminalStates,
         States, Open, UnclaimedStates
  <2> QED
    BY <2>2, <2>3
<1>7. staged' = {} /\ confirmed' = confirmed
  BY DEF Restart, RollBack
<1>6. HonestOutcome'
  <2> SUFFICES ASSUME NEW o \in Ops, MayMutateTarget(KindOf[o])
               PROVE  Honest(o)'
    BY DEF HonestOutcome, Honest
  <2>0. Honest(o)
    BY DEF OutcomeInv, HonestOutcome, Honest
  <2>1. CASE o \in landed
    BY <1>3, <1>5, <1>7, <2>0, <2>1 DEF Honest, Open, UnclaimedStates
  <2>2. CASE o \notin landed
    <3>1. Open(o) => commits[o] = 0
      BY DEF SafetyInv, GrantInv
    <3> QED
      BY <1>4, <1>5, <1>7, <2>0, <2>2, <3>1 DEF Honest, Open, UnclaimedStates
  <2> QED
    BY <2>1, <2>2
<1> QED
  BY <1>1, <1>6 DEF OutcomeInv, HeldInv, ResultInv

\* Every step keeps the outcomes honest.
LEMMA NextOutcome ==
    ASSUME TypeInv, ConstantsAssumption, SafetyInv, ClaimInv, OutcomeInv, [Next]_vars
    PROVE  OutcomeInv'
<1>1. ASSUME NEW t \in Tasks, FailBeforeTarget(t) \/ WriteReceipt(t) \/ ReceiptFailed(t)
      PROVE  OutcomeInv'
  BY <1>1, ReceiptOutcome
<1>2. CASE confirmed' = confirmed
  BY <1>1, <1>2, LiveShapes, QuietOutcome, ClaimOutcome, ExecuteOutcome, ManualOutcome,
     RestartOutcome DEF ClaimInv
<1> QED
  BY <1>1, <1>2, ConfirmedShapes

-----------------------------------------------------------------------------
(* Live sessions.                                                          *)

\* A stored plan, and one on its way to the store, has a session that was
\* issued. A grant that passed the second check was claimed by a live session;
\* one that waits for it was, or its session has ended and the check will see it.
LiveInv ==
    /\ \A t \in Tasks : task[t].pc = "plan_insert" => Issued(task[t].op)
    /\ \A o \in Ops : ops[o].state # "absent" => Issued(o)
    /\ \A t \in Tasks : task[t].pc = "claim_recheck" => claimLive[task[t].op] \/ Ended(task[t].op)
    /\ \A t \in Tasks : task[t].pc \in PcChecked => claimLive[task[t].op]
    /\ \A o \in Ops : commits[o] > 0 \/ o \in staged => claimLive[o]

\* Where the operators of LiveInv look at the operation of a task.
LEMMA TaskOp ==
    ASSUME NEW t \in Tasks, NEW o \in Ops, task'[t].op = o
    PROVE  /\ Issued(task[t].op)' <=> Issued(o)'
           /\ Ended(task[t].op)' <=> Ended(o)'
BY DEF Issued, Ended

\* A plain step.
LEMMA PlainLive ==
    ASSUME TypeInv, ConstantsAssumption, LiveInv, TypeInv', PlainStep, LiveStep
    PROVE  LiveInv'
<1>a. \A t \in Tasks : task[t].pc # "idle" => task[t].op \in Ops
  BY DEF TypeInv, TaskInv
<1>b. \A t \in Tasks : task'[t].pc # "idle" => task'[t].op \in Ops
  BY DEF TypeInv, TaskInv
<1>c. PcChecked \subseteq PcAfterClaim /\ "claim_recheck" \in PcAfterClaim /\ "idle" \notin PcAfterClaim
  BY DEF PcChecked, PcAfterClaim
<1>d. /\ \A o \in Ops : (Issued(o) => Issued(o)') /\ (Ended(o) => Ended(o)')
      /\ claimLive' = claimLive /\ commits' = commits /\ staged' = staged
  BY DEF LiveStep, SessionsGoOn, PlainStep, PlainRest
<1>1. ASSUME NEW t \in Tasks, task'[t].pc = "plan_insert"
      PROVE  Issued(task[t].op)'
  <2>1. PICK o \in Ops : task'[t].op = o
    BY <1>b, <1>1
  <2>2. task'[t] = task[t] \/ Issued(task'[t].op)
    BY <1>1 DEF LiveStep, TasksLive
  <2>3. Issued(o)
    BY <1>1, <2>1, <2>2 DEF LiveInv
  <2> QED
    BY <1>d, <2>1, <2>3, TaskOp
<1>2. ASSUME NEW o \in Ops, ops'[o].state # "absent"
      PROVE  Issued(o)'
  <2>1. Issued(o)
    BY <1>2 DEF LiveInv, LiveStep, NewRowsPlanned
  <2> QED
    BY <1>d, <2>1
<1>3. ASSUME NEW t \in Tasks, task'[t].pc = "claim_recheck"
      PROVE  (claimLive[task[t].op] \/ Ended(task[t].op))'
  <2>1. /\ task[t].pc = "claim_recheck" /\ task'[t].op = task[t].op
    BY <1>3, <1>c DEF LiveStep, TasksLive, PlainStep, PlainTasks
  <2>2. PICK o \in Ops : task[t].op = o
    BY <1>a, <2>1
  <2>3. claimLive[o] \/ Ended(o)
    BY <2>1, <2>2 DEF LiveInv
  <2>4. claimLive'[task'[t].op] \/ Ended(o)'
    BY <1>d, <2>1, <2>2, <2>3
  <2> QED
    BY <2>1, <2>2, <2>4, TaskOp
<1>4. ASSUME NEW t \in Tasks, task'[t].pc \in PcChecked
      PROVE  claimLive'[task'[t].op]
  <2>1. task[t].pc \in PcAfterClaim /\ task'[t].op = task[t].op
    BY <1>4, <1>c DEF PlainStep, PlainTasks
  <2>2. task[t].pc \in PcChecked \/ ~SessionRevoked(task[t].op)
    BY <1>4 DEF LiveStep, TasksLive
  <2>3. CASE task[t].pc \in PcChecked
    BY <1>d, <2>1, <2>3 DEF LiveInv
  <2>4. CASE task[t].pc = "claim_recheck" /\ ~SessionRevoked(task[t].op)
    <3>1. ~Ended(task[t].op)
      BY <2>4 DEF Ended, SessionRevoked, IsLive
    <3> QED
      BY <1>d, <2>1, <2>4, <3>1 DEF LiveInv
  <2>5. task[t].pc \in PcChecked \/ task[t].pc = "claim_recheck"
    BY <2>1 DEF PcAfterClaim, PcChecked
  <2> QED
    BY <2>2, <2>3, <2>4, <2>5
<1>5. \A o \in Ops : commits'[o] > 0 \/ o \in staged' => claimLive'[o]
  BY <1>d DEF LiveInv
<1> QED
  BY <1>1, <1>2, <1>3, <1>4, <1>5 DEF LiveInv

\* Every step keeps the claims of live sessions.
LEMMA NextLive ==
    ASSUME TypeInv, ConstantsAssumption, SafetyInv, ClaimInv, LiveInv, TypeInv', [Next]_vars
    PROVE  LiveInv'
<1>a. \A t \in Tasks : task[t].pc # "idle" => task[t].op \in Ops
  BY DEF TypeInv, TaskInv
<1>1. ASSUME NEW t \in Tasks, ClaimTx(t), ~Return(t)
      PROVE  LiveInv'
  <2>1. PICK o \in Ops :
            /\ task[t].op = o /\ task'[t].op = o
            /\ task'[t].pc = "claim_recheck"
            /\ \A u \in Tasks : u # t => task'[u] = task[u]
            /\ IsExecutable(o)
            /\ ops'[o].state = "executing"
            /\ \A x \in Ops : x # o => ops'[x] = ops[x]
            /\ commits' = commits /\ staged' = staged
    BY <1>1, ClaimEffect
  <2>2. /\ claimLive' = [claimLive EXCEPT ![o] = ~SessionRevoked(o)]
        /\ session' = session
    BY <1>1, <2>1, ClaimRecords
  <2>3. Open(o) /\ commits[o] = 0 /\ o \notin staged /\ ops[o].state # "absent"
    BY <2>1 DEF IsExecutable, Open, UnclaimedStates, SafetyInv, GrantInv
  <2>4. \A u \in Tasks : task[u].pc \in PcAfterClaim => task[u].op # o
    BY <2>3 DEF SafetyInv, GrantInv
  <2>5. /\ claimLive'[o] = ~SessionRevoked(o)
        /\ \A x \in Ops : x # o => claimLive'[x] = claimLive[x]
    BY <2>2 DEF TypeInv, TypeOK
  <2>6. \A x : (Issued(x)' <=> Issued(x)) /\ (Ended(x)' <=> Ended(x))
    BY <2>2 DEF Issued, Ended
  <2>7. claimLive'[o] \/ Ended(o)
    <3>1. SessionOf[o] # None => session[SessionOf[o]] \in SessionStates \ {"unissued"}
      BY <2>3 DEF LiveInv, Issued, TypeInv, TypeOK, ConstantsAssumption
    <3> QED
      BY <2>5, <3>1 DEF SessionRevoked, IsLive, Ended, SessionStates
  <2>8. PcChecked \subseteq PcAfterClaim /\ "claim_recheck" \in PcAfterClaim
          /\ "claim_recheck" \notin PcChecked /\ "idle" \notin PcAfterClaim
    BY DEF PcChecked, PcAfterClaim
  <2>9. ASSUME NEW u \in Tasks, task'[u].pc = "plan_insert"
        PROVE  Issued(task[u].op)'
    <3>1. u # t /\ task'[u] = task[u]
      BY <2>1, <2>9
    <3>2. PICK x \in Ops : x = task[u].op
      BY <1>a, <2>9, <3>1
    <3> QED
      BY <2>6, <2>9, <3>1, <3>2, TaskOp DEF LiveInv
  <2>10. ASSUME NEW x \in Ops, ops'[x].state # "absent"
         PROVE  Issued(x)'
    BY <2>1, <2>3, <2>6, <2>10 DEF LiveInv
  <2>11. ASSUME NEW u \in Tasks, task'[u].pc = "claim_recheck"
         PROVE  (claimLive[task[u].op] \/ Ended(task[u].op))'
    <3>1. CASE u = t
      BY <2>1, <2>6, <2>7, <3>1, TaskOp
    <3>2. CASE u # t
      <4>1. task'[u] = task[u] /\ task[u].pc \in PcAfterClaim
        BY <2>1, <2>8, <2>11, <3>2
      <4>2. PICK x \in Ops : x = task[u].op /\ x # o
        BY <1>a, <2>4, <2>8, <4>1
      <4>3. claimLive'[x] \/ Ended(x)'
        BY <2>5, <2>6, <2>11, <4>1, <4>2 DEF LiveInv
      <4> QED
        BY <4>1, <4>2, <4>3, TaskOp
    <3> QED
      BY <3>1, <3>2
  <2>12. ASSUME NEW u \in Tasks, task'[u].pc \in PcChecked
         PROVE  claimLive'[task'[u].op]
    <3>1. u # t /\ task'[u] = task[u] /\ task[u].pc \in PcAfterClaim
      BY <2>1, <2>8, <2>12
    <3>2. task[u].op \in Ops /\ task[u].op # o
      BY <1>a, <2>4, <2>8, <3>1
    <3> QED
      BY <2>5, <2>12, <3>1, <3>2 DEF LiveInv
  <2>13. \A x \in Ops : commits'[x] > 0 \/ x \in staged' => claimLive'[x]
    BY <2>1, <2>3, <2>5 DEF LiveInv
  <2> QED
    BY <2>9, <2>10, <2>11, <2>12, <2>13 DEF LiveInv
<1>2. ASSUME NEW t \in Tasks, Execute(t)
      PROVE  LiveInv'
  <2>0. PICK o \in Ops : ExecutedAs(t, o)
    BY <1>2, ExecuteEffect
  <2>1. UNCHANGED <<ops, session, claimLive>>
    BY <2>0 DEF ExecutedAs, db, broker
  <2>2. /\ task[t].pc = "connect" /\ task'[t].pc = "receipt"
        /\ task'[t].op = task[t].op
        /\ \A u \in Tasks : u # t => task'[u] = task[u]
    BY <2>0 DEF ExecutedAs
  <2>3. \A x \in Ops : x # task[t].op =>
            commits'[x] = commits[x] /\ (x \in staged' => x \in staged)
    BY <2>0 DEF ExecutedAs
  <2>4. claimLive[task[t].op]
    BY <2>2 DEF LiveInv, PcChecked
  <2>5. \A x : (Issued(x)' <=> Issued(x)) /\ (Ended(x)' <=> Ended(x))
    BY <2>1 DEF Issued, Ended
  <2>6. \A x \in Ops : commits'[x] > 0 \/ x \in staged' => claimLive'[x]
    BY <2>1, <2>3, <2>4 DEF LiveInv
  <2>7. ASSUME NEW u \in Tasks, u # t
        PROVE  /\ Issued(task[u].op)' <=> Issued(task[u].op)
               /\ Ended(task[u].op)' <=> Ended(task[u].op)
    BY <2>1, <2>2, <2>7 DEF Issued, Ended
  <2>8. "connect" \in PcChecked
    BY DEF PcChecked
  <2>9. \A u \in Tasks : task'[u].pc = "plan_insert" => Issued(task[u].op)'
    BY <2>2, <2>7 DEF LiveInv
  <2>10. \A x \in Ops : ops'[x].state # "absent" => Issued(x)'
    BY <2>1, <2>5 DEF LiveInv
  <2>11. \A u \in Tasks : task'[u].pc = "claim_recheck" =>
                            (claimLive[task[u].op] \/ Ended(task[u].op))'
    BY <2>1, <2>2, <2>7 DEF LiveInv
  <2>12. \A u \in Tasks : task'[u].pc \in PcChecked => claimLive'[task'[u].op]
    BY <2>1, <2>2, <2>8 DEF LiveInv
  <2> QED
    BY <2>6, <2>9, <2>10, <2>11, <2>12 DEF LiveInv
<1>3. CASE Restart
  <2>1. \A t \in Tasks : task'[t].pc = "idle"
    BY <1>3 DEF Restart, IdleTask
  <2>2. "idle" \notin PcChecked
    BY DEF PcChecked
  <2>3. \A o \in Ops : Issued(o) => Issued(o)'
    BY <1>3 DEF Restart, Issued, ConstantsAssumption
  <2>4. \A o \in Ops : ops'[o].state # "absent" => Issued(o)'
    BY <1>3, <2>3, RestartEffect DEF LiveInv
  <2>5. PICK landed \in SUBSET {o \in Ops : MayMutateTarget(KindOf[o]) /\
                  \E t \in Tasks : task[t].op = o /\ task[t].pc = "connect"} :
            commits' = [o \in Ops |-> commits[o] + (IF o \in landed THEN 1 ELSE 0)]
    BY <1>3 DEF Restart
  <2>6. \A o \in landed : claimLive[o]
    BY <2>5 DEF LiveInv, PcChecked
  <2>7. \A o \in Ops : o \notin landed => commits'[o] = commits[o]
    BY <2>5 DEF TypeInv, TypeOK
  <2>8. claimLive' = claimLive
    BY <1>3 DEF Restart
  <2>10. staged' = {}
    BY <1>3 DEF Restart, RollBack
  <2>9. \A o \in Ops : commits'[o] > 0 \/ o \in staged' => claimLive'[o]
    BY <2>6, <2>7, <2>8, <2>10 DEF LiveInv
  <2> QED
    BY <2>1, <2>2, <2>4, <2>9 DEF LiveInv
<1>4. CASE ManualStep
  <2>1. UNCHANGED <<ops, session, task, claimLive>> /\ staged' \subseteq staged
    BY <1>4 DEF ManualStep, db, broker
  <2>2. \A o \in Ops : o \notin staged => commits'[o] = commits[o]
    BY <1>4 DEF ManualStep
  <2>3. \A o \in Ops : commits'[o] > 0 \/ o \in staged' => claimLive'[o]
    BY <2>1, <2>2 DEF LiveInv
  <2>4. /\ \A t \in Tasks : /\ Issued(task[t].op)' <=> Issued(task[t].op)
                            /\ Ended(task[t].op)' <=> Ended(task[t].op)
        /\ \A o \in Ops : Issued(o)' <=> Issued(o)
    BY <2>1 DEF Issued, Ended
  <2>5. \A t \in Tasks : task'[t].pc = "claim_recheck" =>
                            (claimLive[task[t].op] \/ Ended(task[t].op))'
    BY <2>1, <2>4 DEF LiveInv
  <2> QED
    BY <2>1, <2>3, <2>4, <2>5 DEF LiveInv
<1> QED
  BY <1>1, <1>2, <1>3, <1>4, LiveShapes, PlainLive DEF ClaimInv

-----------------------------------------------------------------------------
(* The promise of ApprovedOnce.                                            *)

\* An operation is decided once: an approval row closes the decision, and there
\* is one of them.
DecidedInv ==
    /\ \A o \in Ops : approvals[o] # {} =>
          ops[o].state \notin {"absent", "planned", "pending_approval"}
    /\ \A o \in Ops : \A a, b \in approvals[o] : a = b

\* An approval row is stored by the decision on a pending operation.
Decided(o) ==
    \E a \in ApprovalRows :
        /\ ops[o].state = "pending_approval"
        /\ ops'[o].state = a.decision
        /\ approvals' = [approvals EXCEPT ![o] = @ \cup {a}]

LEMMA ApprovalShapes ==
    ASSUME TypeInv, [Next]_vars
    PROVE  approvals' = approvals \/ \E o \in Ops : Decided(o)
<1>1. ASSUME NEW t \in Tasks, DecideApproval(t)
      PROVE  approvals' = approvals \/ \E o \in Ops : Decided(o)
  <2>1. task[t].op \in Ops /\ task[t].choice \in {"approved", "rejected"}
    BY <1>1 DEF TypeInv, TaskInv, DecideApproval
  <2>2. PICK o \in Ops : o = task[t].op
    BY <2>1
  <2> DEFINE row == [payload |-> ops[o].payload, policy |-> ops[o].policy,
                     decision |-> task[t].choice, seen |-> task[t].payload]
  <2>3. CASE /\ IsExactDecision(o, task[t].payload, task[t].policy)
             /\ approvals' = [approvals EXCEPT ![o] = @ \cup {row}]
             /\ TransitionTx(o, task[t].choice)
    <3>1. /\ ops[o].state = "pending_approval" /\ ops[o].payload = task[t].payload
      BY <2>3 DEF IsExactDecision
    <3>2. ops[o] \in StoredOps
      BY <3>1 DEF TypeInv, TypeOK, OpRecords, AbsentOp
    <3>3. row \in ApprovalRows /\ row.decision = task[t].choice
      BY <2>1, <3>1, <3>2 DEF ApprovalRows, StoredOps
    <3>4. task[t].choice \in States
      BY <2>1 DEF States, TerminalStates
    <3>5. ops'[o].state = task[t].choice
      BY <2>3, <3>1, <3>4, TransitionTxEffect DEF TypeInv
    <3> HIDE DEF row
    <3> QED
      BY <2>3, <3>1, <3>3, <3>5 DEF Decided
  <2> QED
    BY <1>1, <2>2, <2>3 DEF DecideApproval, db
<1>2. ASSUME NEW t \in Tasks, TaskStep(t), ~DecideApproval(t)
      PROVE  approvals' = approvals
  BY <1>2 DEF TaskStep, PlanInsert, PlanDispose, PlanTrack, CapturePolicy, ClaimCheck,
     ClaimCancel, ClaimTx, ClaimRecheck, CheckSignal, FailBeforeTarget, Execute,
     WriteReceipt, ReceiptFailed, CancelBefore, CleanupRead, CleanupCancel, db
<1>3. ASSUME NEW t \in Callers, NewCall(t)
      PROVE  approvals' = approvals
  BY <1>3 DEF NewCall, PlanStart, ApproveRead, RejectRead, RunStart, CancelRead, db
<1>4. CASE SinkTake \/ BeginManual \/ CommitManual \/ EndManual \/ Restart \/ UNCHANGED vars
  BY <1>4 DEF SinkTake, BeginManual, CommitManual, EndManual, Restart, vars, db
<1>5. ASSUME NEW s \in Sessions,
             IssueSession(s) \/ SessionExpires(s) \/ RevokeSession(s) \/ SweepExpired(s)
      PROVE  approvals' = approvals
  BY <1>5 DEF IssueSession, SessionExpires, RevokeSession, SweepExpired, Remove, db
<1>6. ASSUME NEW o \in Ops, ExpiryPasses(o) \/ CancelQuery(o)
      PROVE  approvals' = approvals
  BY <1>6 DEF ExpiryPasses, CancelQuery, db
<1>7. ASSUME NEW p \in Policies, PolicyChanges(p)
      PROVE  approvals' = approvals
  BY <1>7 DEF PolicyChanges, db
<1> QED
  BY <1>1, <1>2, <1>3, <1>4, <1>5, <1>6, <1>7 DEF Next

\* A decided operation is never undecided again.
LEMMA StaysDecided ==
    ASSUME TypeInv, ConstantsAssumption, [Next]_vars, NEW o \in Ops,
           ops[o].state \notin {"absent", "planned", "pending_approval"}
    PROVE  ops'[o].state \notin {"absent", "planned", "pending_approval"}
<1>1. CASE PlainStep
  <2>1. Kept(o) \/ Created(o) \/ Moved(o)
    BY <1>1 DEF PlainStep, PlainOps
  <2> QED
    BY <2>1 DEF Kept, Created, Moved, EnsureTransition
<1>2. ASSUME NEW t \in Tasks, ClaimTx(t), ~Return(t)
      PROVE  ops'[o].state \notin {"absent", "planned", "pending_approval"}
  <2>1. PICK c \in Ops : /\ ops'[c].state = "executing"
                         /\ \A x \in Ops : x # c => ops'[x] = ops[x]
    BY <1>2, ClaimEffect
  <2> QED
    BY <2>1
<1>3. ASSUME NEW t \in Tasks, Execute(t)
      PROVE  ops' = ops
  BY <1>3 DEF Execute, db
<1>4. CASE Restart
  BY <1>4, RestartEffect DEF IsTerminal, TerminalStates
<1>5. ManualStep => ops' = ops
  BY DEF ManualStep, db
<1> QED
  BY <1>1, <1>2, <1>3, <1>4, <1>5, StepShapes

\* Every step keeps the decisions.
LEMMA NextDecided ==
    ASSUME TypeInv, ConstantsAssumption, DecidedInv, [Next]_vars
    PROVE  DecidedInv'
<1>1. CASE approvals' = approvals
  BY <1>1, StaysDecided DEF DecidedInv
<1>2. ASSUME NEW o \in Ops, Decided(o)
      PROVE  DecidedInv'
  <2>1. PICK a \in ApprovalRows :
            /\ ops[o].state = "pending_approval"
            /\ ops'[o].state = a.decision
            /\ approvals' = [approvals EXCEPT ![o] = @ \cup {a}]
    BY <1>2 DEF Decided
  <2>2. approvals[o] = {}
    BY <2>1 DEF DecidedInv
  <2>3. approvals'[o] = {a} /\ \A x \in Ops : x # o => approvals'[x] = approvals[x]
    BY <2>1, <2>2 DEF TypeInv, TypeOK
  <2>4. a.decision \in {"approved", "rejected"}
    BY DEF ApprovalRows
  <2>5. \A x \in Ops : approvals'[x] # {} =>
            ops'[x].state \notin {"absent", "planned", "pending_approval"}
    BY <2>1, <2>3, <2>4, StaysDecided DEF DecidedInv
  <2>6. \A x \in Ops : \A b, c \in approvals'[x] : b = c
    BY <2>3 DEF DecidedInv
  <2> QED
    BY <2>5, <2>6 DEF DecidedInv
<1> QED
  BY <1>1, <1>2, ApprovalShapes

\* What the promise sees of a step that changes none of its three variables.
LEMMA PromiseStutters ==
    ASSUME approvals' = approvals, SameClaims, commits' = commits
    PROVE  UNCHANGED Promise!avars
<1>1. \A o \in Mutations : /\ VerdictOf(o)' = VerdictOf(o)
                           /\ EverClaimed(o)' = EverClaimed(o)
  BY DEF VerdictOf, SameClaims, Mutations, EverClaimed
<1> QED
  BY <1>1 DEF Promise!avars

\* A stored decision is the decision of the promise.
LEMMA PromiseDecides ==
    ASSUME TypeInv, DecidedInv, NEW o \in Ops, Decided(o), SameClaims, commits' = commits
    PROVE  [Promise!ANext]_(Promise!avars)
<1>1. PICK a \in ApprovalRows :
          /\ ops[o].state = "pending_approval"
          /\ approvals' = [approvals EXCEPT ![o] = @ \cup {a}]
  BY DEF Decided
<1>2. approvals[o] = {}
  BY <1>1 DEF DecidedInv
<1>3. approvals'[o] = {a} /\ \A x \in Ops : x # o => approvals'[x] = approvals[x]
  BY <1>1, <1>2 DEF TypeInv, TypeOK
<1>4. a.decision \in {"approved", "rejected"}
  BY DEF ApprovalRows
<1>5. VerdictOf(o) = "none" /\ VerdictOf(o)' = a.decision
  BY <1>2, <1>3, <1>4 DEF VerdictOf
<1>6. \A x \in Mutations : x # o => VerdictOf(x)' = VerdictOf(x)
  BY <1>3 DEF VerdictOf, Mutations
<1>7. \A x \in Mutations : EverClaimed(x)' = EverClaimed(x)
  BY DEF SameClaims, Mutations, EverClaimed
<1>8. CASE o \in Mutations
  <2>1. Promise!Decide(o, a.decision)
    BY <1>5, <1>6, <1>7, <1>8 DEF Promise!Decide
  <2> QED
    BY <1>4, <1>8, <2>1 DEF Promise!ANext
<1>9. CASE o \notin Mutations
  BY <1>6, <1>7, <1>9 DEF Promise!avars
<1> QED
  BY <1>8, <1>9

\* A successful claim of a mutation is the claim of the promise.
LEMMA PromiseClaims ==
    ASSUME TypeInv, SafetyInv, ClaimInv, DecidedInv, NEW t \in Tasks, ClaimTx(t), ~Return(t)
    PROVE  [Promise!ANext]_(Promise!avars)
<1>1. PICK o \in Ops :
          /\ task[t].op = o
          /\ IsExecutable(o)
          /\ approvals' = approvals /\ commits' = commits
  BY ClaimEffect
<1>2. /\ EverClaimed(o)' = TRUE
      /\ \A x \in Mutations : x # o => EverClaimed(x)' = EverClaimed(x)
  <2>1. EverClaimed(task[t].op)' /\ task'[t].op = task[t].op
    BY ClaimRecords, ClaimEffect
  <2>2. EverClaimed(o)'
    BY <1>1, <2>1 DEF EverClaimed
  <2>3. \A x \in Ops : x # o => (EverClaimed(x)' <=> EverClaimed(x))
    BY <1>1, ClaimRecords
  <2> QED
    BY <2>2, <2>3 DEF Mutations, EverClaimed
<1>3. \A x \in Mutations : VerdictOf(x)' = VerdictOf(x)
  BY <1>1 DEF VerdictOf
<1>4. EverClaimed(o) = FALSE
  <2>1. Open(o)
    BY <1>1 DEF IsExecutable, Open, UnclaimedStates
  <2> QED
    BY <2>1 DEF ClaimInv, ClaimsAreClosed, EverClaimed
<1>5. CASE o \in Mutations
  <2>1. MayMutateTarget(KindOf[o]) /\ ops[o].state = "approved"
    BY <1>1, <1>5 DEF Mutations, IsExecutable
  <2>2. PICK a \in approvals[o] : a.decision = "approved"
    BY <2>1 DEF SafetyInv, ApprovalInv, Trusted, ExactlyApproved
  <2>3. VerdictOf(o) = "approved"
    BY <2>2 DEF VerdictOf, DecidedInv
  <2>4. Promise!Claim(o)
    BY <1>1, <1>2, <1>3, <1>4, <1>5, <2>3 DEF Promise!Claim
  <2> QED
    BY <1>5, <2>4 DEF Promise!ANext
<1>6. CASE o \notin Mutations
  BY <1>1, <1>2, <1>3, <1>6 DEF Promise!avars
<1> QED
  BY <1>5, <1>6

\* Commits, those of an execution, of a manual transaction and those that land
\* after a crash, are uses of claimed mutations that were not used before.
LEMMA PromiseUses ==
    ASSUME approvals' = approvals, SameClaims, NEW S \in SUBSET Ops,
           \A o \in S : commits'[o] = 1 /\ commits[o] = 0 /\ EverClaimed(o),
           \A o \in Ops \ S : commits'[o] = commits[o]
    PROVE  [Promise!ANext]_(Promise!avars)
<1> DEFINE M == S \cap Mutations
<1>1. \A o \in Mutations : VerdictOf(o)' = VerdictOf(o) /\ EverClaimed(o)' = EverClaimed(o)
  BY DEF VerdictOf, SameClaims, Mutations, EverClaimed
<1>3. \A m \in Mutations : commits'[m] = IF m \in M THEN 1 ELSE commits[m]
  BY DEF Mutations
<1>4. M \in SUBSET Mutations
  OBVIOUS
<1>5. Promise!Use(M)
  BY <1>1, <1>3 DEF Promise!Use
<1> QED
  BY <1>4, <1>5 DEF Promise!ANext

\* A fresh grant has its claim in the ledger and an untouched target.
LEMMA FreshClaimed ==
    ASSUME SafetyInv, ClaimInv, NEW t \in Tasks, task[t].pc \in PcFresh, NEW o, o = task[t].op
    PROVE  EverClaimed(o) /\ commits[o] = 0
<1>1. task[t].pc \in PcAfterClaim
  BY DEF PcFresh, PcAfterClaim
<1> QED
  BY <1>1 DEF ClaimInv, SafetyInv, GrantInv, EverClaimed

\* Every step of the runtime is a step of the promise or none.
LEMMA PromiseStep ==
    ASSUME TypeInv, ConstantsAssumption, SafetyInv, ClaimInv, DecidedInv, [Next]_vars
    PROVE  [Promise!ANext]_(Promise!avars)
<1>1. CASE PlainStep /\ LiveStep
  <2>1. SameClaims /\ commits' = commits
    BY <1>1 DEF LiveStep, PlainStep, PlainRest
  <2> QED
    BY <2>1, ApprovalShapes, PromiseStutters, PromiseDecides
<1>2. ASSUME NEW t \in Tasks, Execute(t)
      PROVE  [Promise!ANext]_(Promise!avars)
  <2>1. PICK o \in Ops : ExecutedAs(t, o)
    BY <1>2, ExecuteEffect
  <2>2. approvals' = approvals /\ ledger' = ledger
    BY <2>1 DEF ExecutedAs, db
  <2>3. SameClaims
    BY <2>2 DEF SameClaims, EverClaimed
  <2>4. task[t].pc \in PcFresh /\ o = task[t].op
    BY <2>1 DEF ExecutedAs, PcFresh
  <2>5. EverClaimed(o) /\ commits[o] = 0
    BY <2>4, FreshClaimed
  <2>6. /\ commits'[o] = commits[o] \/ commits'[o] = 1
        /\ \A x \in Ops : x # o => commits'[x] = commits[x]
    BY <2>1, <2>5 DEF ExecutedAs
  <2>7. CASE commits'[o] = 1
    <3>1. \A x \in {o} : commits'[x] = 1 /\ commits[x] = 0 /\ EverClaimed(x)
      BY <2>5, <2>7 DEF EverClaimed
    <3>2. {o} \in SUBSET Ops /\ \A x \in Ops \ {o} : commits'[x] = commits[x]
      BY <2>6
    <3> QED
      BY <2>2, <2>3, <3>1, <3>2, PromiseUses
  <2>8. CASE commits'[o] = commits[o]
    <3>1. \A x \in {} : commits'[x] = 1 /\ commits[x] = 0 /\ EverClaimed(x)
      OBVIOUS
    <3>2. {} \in SUBSET Ops /\ \A x \in Ops \ {} : commits'[x] = commits[x]
      BY <2>6, <2>8
    <3> QED
      BY <2>2, <2>3, <3>1, <3>2, PromiseUses
  <2> QED
    BY <2>6, <2>7, <2>8
<1>3. CASE Restart
  <2>1. PICK landed \in SUBSET {o \in Ops : MayMutateTarget(KindOf[o]) /\
                  \E t \in Tasks : task[t].op = o /\ task[t].pc = "connect"} :
            commits' = [o \in Ops |-> commits[o] + (IF o \in landed THEN 1 ELSE 0)]
    BY <1>3 DEF Restart
  <2>2. approvals' = approvals /\ SameClaims /\ landed \in SUBSET Ops
    BY <1>3, <2>1, RestartClaims DEF Restart
  <2>3. ASSUME NEW o \in landed
        PROVE  commits'[o] = 1 /\ commits[o] = 0 /\ EverClaimed(o)
    <3>1. PICK t \in Tasks : task[t].op = o /\ task[t].pc = "connect"
      BY <2>1, <2>3
    <3>2. task[t].pc \in PcFresh /\ o \in Ops
      BY <2>2, <2>3, <3>1 DEF PcFresh
    <3>3. EverClaimed(o) /\ commits[o] = 0
      BY <3>1, <3>2, FreshClaimed
    <3> QED
      BY <2>1, <3>2, <3>3
  <2>4. \A o \in Ops \ landed : commits'[o] = commits[o]
    BY <2>1 DEF TypeInv, TypeOK
  <2>5. \A o \in landed : commits'[o] = 1 /\ commits[o] = 0 /\ EverClaimed(o)
    BY <2>3
  <2> HIDE <2>1
  <2> QED
    BY <2>2, <2>4, <2>5, PromiseUses
<1>4. CASE ManualStep
  <2>1. UNCHANGED <<approvals, ledger>>
    BY <1>4 DEF ManualStep, db
  <2>2. SameClaims
    BY <2>1 DEF SameClaims, EverClaimed
  <2>3. PICK S \in SUBSET Ops : S = {o \in Ops : commits'[o] # commits[o]}
    OBVIOUS
  <2>4. \A o \in S : commits'[o] = 1 /\ commits[o] = 0 /\ EverClaimed(o)
    BY <1>4, <2>3 DEF ManualStep, SafetyInv, GrantInv, ClaimInv
  <2>5. \A o \in Ops \ S : commits'[o] = commits[o]
    BY <2>3
  <2> HIDE <2>3
  <2> QED
    BY <2>1, <2>2, <2>4, <2>5, PromiseUses
<1> QED
  BY <1>1, <1>2, <1>3, <1>4, LiveShapes, PromiseClaims DEF ClaimInv

-----------------------------------------------------------------------------
(* The theorems about outcomes, sessions and the promise.                  *)

RecordInv == ClaimInv /\ OutcomeInv /\ LiveInv /\ DecidedInv

\* In the initial state there is no claim, no result and no decision.
LEMMA InitRecords ==
    ASSUME Init
    PROVE  RecordInv
<1>1. \A t \in Tasks : task[t].pc = "idle"
  BY DEF Init, IdleTask
<1>2. \A o \in Ops : /\ ops[o].state = "absent" /\ commits[o] = 0
                     /\ ledger[o] = <<>> /\ approvals[o] = {}
                     /\ o \notin staged /\ o \notin confirmed
  BY DEF Init, AbsentOp
<1>a. staged = {}
  BY DEF Init
<1>3. "idle" \notin PcAfterClaim /\ "idle" \notin PcReceipts /\ "idle" \notin PcChecked
  BY DEF PcAfterClaim, PcReceipts, PcChecked
<1>4. \A o \in Ops : ~EverClaimed(o)
  BY <1>2 DEF EverClaimed
<1>5. ClaimInv
  BY <1>1, <1>3, <1>4, <1>a DEF ClaimInv, ClaimsAreClosed
<1>6. OutcomeInv
  BY <1>1, <1>2, <1>3 DEF OutcomeInv, HeldInv, ResultInv, HonestOutcome
<1>7. LiveInv
  BY <1>1, <1>2, <1>3 DEF LiveInv
<1>8. DecidedInv
  BY <1>2 DEF DecidedInv
<1> QED
  BY <1>5, <1>6, <1>7, <1>8 DEF RecordInv

\* The invariants hold in every reachable state.
LEMMA Records == Spec => [](TypeInv /\ SafetyInv /\ RecordInv)
<1>1. Init => TypeInv /\ SafetyInv /\ RecordInv
  BY InitType, InitSafe, InitRecords, ConstantsAssumption
<1>2. TypeInv /\ SafetyInv /\ RecordInv /\ [Next]_vars => (TypeInv /\ SafetyInv /\ RecordInv)'
  BY NextType, NextSafe, NextClaims, NextOutcome, NextLive, NextDecided, ConstantsAssumption
     DEF RecordInv
<1> QED
  BY <1>1, <1>2, PTL DEF Spec

\* A mutation whose success receipt says that it was committed was, and one
\* stored as failed, rejected or expired was not and is not staged, whoever wrote
\* the state: the receipts of the executor (of a direct execution and of one
\* inside a manual transaction), their fallback, a decision, a late claim or
\* startup recovery; and whatever the manual transaction does afterwards.
THEOREM OutcomesAreHonest == Spec => []HonestOutcome
<1>1. RecordInv => HonestOutcome
  BY DEF RecordInv, OutcomeInv
<1> QED
  BY <1>1, Records, PTL

\* What an Agent proposal committed was claimed while its session was live: a
\* revocation that slips between the first session check and the claim is seen
\* by the second one (OperationRuntime::claim).
THEOREM OnlyLiveSessionsCommit == Spec => []RevokedSessionsDoNotCommit
<1>1. RecordInv => RevokedSessionsDoNotCommit
  BY DEF RecordInv, LiveInv, RevokedSessionsDoNotCommit
<1> QED
  BY <1>1, Records, PTL

\* The runtime implements ApprovedOnce: every reachable step is a decision, a
\* claim, a use or none of them, as the decision record promises.
THEOREM PromiseKept == Spec => KeepsPromise
<1>1. Init => Promise!AInit
  <2>1. ASSUME Init
        PROVE  \A o \in Mutations : /\ VerdictOf(o) = "none"
                                    /\ EverClaimed(o) = FALSE
                                    /\ commits[o] = 0
    BY <2>1 DEF Init, Mutations, VerdictOf, EverClaimed
  <2> QED
    BY <2>1 DEF Promise!AInit
<1>2. TypeInv /\ SafetyInv /\ RecordInv /\ [Next]_vars => [Promise!ANext]_(Promise!avars)
  BY PromiseStep, ConstantsAssumption DEF RecordInv
<1> QED
  BY <1>1, <1>2, Records, PTL DEF Spec, KeepsPromise, Promise!ASpec

=============================================================================
