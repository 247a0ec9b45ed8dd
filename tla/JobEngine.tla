----------------------------- MODULE JobEngine -----------------------------
(***************************************************************************)
(* The Durable Job Engine (src-tauri/src/features/jobs): import and export *)
(* jobs with their SQLite ledger, the start, pause and cancel calls, the   *)
(* worker that runs a job batch by batch, the completion that closes the   *)
(* job and its operation in two transactions, and the recovery at startup. *)
(*                                                                         *)
(* The operation of a job is the row the Operation Runtime keeps; only its *)
(* state and its owner matter here. A call, and the worker that a start    *)
(* call spawns, is one process of Callers. Between two of its steps any    *)
(* other process may act, and the application may crash.                   *)
(***************************************************************************)
EXTENDS OperationStates, Naturals, FiniteSets

CONSTANTS
    Jobs,
    Callers,
    None,
    Formats,       \* what a job may be: its kind, "import" or "export", and
                   \* whether its file format allows pause and resume
    MaxBatches,    \* batches in the source of a job
    MaxRuntime     \* bound on restarts

ASSUME JobConstantsAssumption ==
    /\ Formats \subseteq [kind : {"import", "export"}, resumable : BOOLEAN]
    /\ None \notin Callers \cup Jobs
    /\ MaxBatches \in Nat \ {0}
    /\ MaxRuntime \in Nat

VARIABLES
    job,       \* table jobs, with the existence of a row in job_checkpoints
    op,        \* the job's row in table operations
    running,   \* JobUseCases.running: whose cancellation token is in the map
    call,      \* the processes
    runtime,   \* the running application process
    phase,     \* the post-paint recovery gate
    todo,      \* records the recovery loop still has to visit
    closing,   \* paused exports whose operation the recovery still has to fail
    applied,   \* how often each batch was written to the target or partial file
    published, \* has the partial file of an export been renamed to its output
    retried    \* history: did the recovery of the previous process fail

rows == <<job, op>>
gate == <<runtime, phase, todo, closing>>
outside == <<applied, published>>
vars == <<rows, running, call, gate, outside, retried>>

Batches == 1..MaxBatches

JobKind == [j \in Jobs |-> job[j].format.kind]
Resumable == [j \in Jobs |-> job[j].format.resumable]

JobTerminal == {"cancelled", "succeeded", "failed"}
JobStates == {"queued", "running", "paused", "cancel_requested"} \cup JobTerminal

\* The process states in which the process is responsible for a started job.
StartPcs == {"start_claim_op", "start_undo", "undo_tx", "start_insert", "start_latest"}
WorkerPcs == {"worker_wait", "totals", "work", "batch", "progress", "final", "stop_outcome",
              "complete", "pause_lost", "close_op", "remove"}
FinishPcs == {"fc_job", "fc_op"}
OtherPcs == {"idle", "create_insert", "start_read_job", "start_read_op", "start_claim_job",
             "pause_token", "cancel_req", "cancel_tx", "cancel_token", "cancel_op"}

Calls ==
    [pc : StartPcs \cup WorkerPcs \cup FinishPcs \cup OtherPcs,
     job : Jobs \cup {None},
     snapJob : JobStates \cup {"absent", "none"},   \* the job state it read
     snapOp : States \cup {"absent", "none"},       \* the operation state it read
     stop : BOOLEAN,                                \* its CancellationToken
     worker : BOOLEAN,                              \* has it spawned a worker
     batch : 0..MaxBatches,                         \* the worker's rows_processed
     out : {"none", "succeeded", "paused", "cancelled", "failed", "outcome_unknown"}]

IdleCall == [pc |-> "idle", job |-> None, snapJob |-> "none", snapOp |-> "none",
             stop |-> FALSE, worker |-> FALSE, batch |-> 0, out |-> "none"]

Init ==
    /\ \E format \in [Jobs -> Formats] :
          job = [j \in Jobs |-> [state |-> "absent", pause |-> FALSE, rows |-> 0, ckpt |-> FALSE,
                                 format |-> format[j]]]
    /\ op = [j \in Jobs |-> [state |-> "absent", runtime |-> 0]]
    /\ running = [j \in Jobs |-> None]
    /\ call = [c \in Callers |-> IdleCall]
    /\ runtime = 0
    /\ phase = "up"
    /\ todo = {}
    /\ closing = {}
    /\ applied = [j \in Jobs |-> [b \in Batches |-> 0]]
    /\ published = [j \in Jobs |-> FALSE]
    /\ retried = FALSE

-----------------------------------------------------------------------------
(* Transactions on the two tables.                                         *)

\* Mutant: the pause request outlives the transition.
JobCas_KeepsPause(j, from, to) ==
    /\ job[j].state \in from
    /\ job' = [job EXCEPT ![j].state = to]

\* transition_job_state: compare-and-swap on the rule's source states
JobCas(j, from, to) ==
    /\ job[j].state \in from
    /\ job' = [job EXCEPT ![j].state = to, ![j].pause = FALSE]

JobKeeps(j, from) == job[j].state \notin from /\ UNCHANGED job

Executing == {"running", "cancel_requested"}

\* OperationRuntime::finish on the job's operation
CanMoveOp(j, target) ==
    op[j].runtime = runtime /\ EnsureTransition(op[j].state, target)

MoveOp(j, target) ==
    op' = IF CanMoveOp(j, target) THEN [op EXCEPT ![j].state = target] ELSE op

Goto(c, pc) == call' = [call EXCEPT ![c].pc = pc]
Return(c) == call' = [call EXCEPT ![c] = IdleCall]

\* A finished call returns, a finished worker leaves the running map.
End(c) == IF call[c].worker THEN Goto(c, "remove") ELSE Return(c)

\* A job command waits for the recovery gate.
Enter(c, j, pc) ==
    /\ phase = "up"
    /\ call[c].pc = "idle"
    /\ call' = [call EXCEPT ![c] = [IdleCall EXCEPT !.pc = pc, !.job = j]]

-----------------------------------------------------------------------------
(* create, and the decision on the exact import plan.                      *)

\* The operation is planned first, in transactions of its own.
CreatePlan(c, j) ==
    /\ op[j].state = "absent"
    /\ Enter(c, j, "create_insert")
    /\ op' = [op EXCEPT ![j] =
                [state |-> IF JobKind[j] = "import" THEN "pending_approval" ELSE "ready",
                 runtime |-> runtime]]
    /\ UNCHANGED <<job, running, gate, outside, retried>>

\* insert_job, or the cancellation of the plan when it fails
CreateInsert(c) ==
    LET j == call[c].job
    IN  /\ call[c].pc = "create_insert"
        /\ \/ job' = [job EXCEPT ![j].state = "queued"] /\ UNCHANGED op
           \/ MoveOp(j, "cancelled") /\ UNCHANGED job
        /\ Return(c)
        /\ UNCHANGED <<running, gate, outside, retried>>

\* decide_approval on the import plan
DecideImport(j, decision) ==
    /\ op[j].state = "pending_approval"
    /\ CanMoveOp(j, decision)
    /\ MoveOp(j, decision)
    /\ UNCHANGED <<job, running, call, gate, outside, retried>>

-----------------------------------------------------------------------------
(* start.                                                                  *)

\* The running map is looked at before anything is awaited.
StartCheck(c, j) ==
    /\ running[j] = None
    /\ job[j].state # "absent"
    /\ Enter(c, j, "start_read_job")
    /\ UNCHANGED <<rows, running, gate, outside, retried>>

StartReadJob(c) ==
    /\ call[c].pc = "start_read_job"
    /\ call' = [call EXCEPT ![c].pc = "start_read_op", ![c].snapJob = job[call[c].job].state]
    /\ UNCHANGED <<rows, running, gate, outside, retried>>

\* The batches written so far are exactly the recorded ones.
ExactPrefix(j) ==
    \A b \in Batches : applied[j][b] = (IF b <= job[j].rows THEN 1 ELSE 0)

\* validate_resume: a durable checkpoint, and for an export a partial file that
\* is still there and matches it; the target of an import cannot be inspected
ValidateResume(j) ==
    job[j].ckpt /\ (JobKind[j] = "export" => ExactPrefix(j) /\ ~published[j])

\* The operation is read, permission and import policy are checked again, and a
\* paused job must be resumable. Any check may refuse.
StartReadOp(c) ==
    LET j == call[c].job
    IN  /\ call[c].pc = "start_read_op"
        /\ \/ Return(c)
           \/ /\ op[j].state # "pending_approval"
              /\ call[c].snapJob = "paused" => Resumable[j] /\ ValidateResume(j)
              /\ call' = [call EXCEPT ![c].pc = "start_claim_job", ![c].snapOp = op[j].state]
        /\ UNCHANGED <<rows, running, gate, outside, retried>>

\* Mutant: claim_running also takes a job that runs.
StartClaimJob_NoCas(c) ==
    LET j == call[c].job
    IN  /\ call[c].pc = "start_claim_job"
        /\ \/ /\ JobCas(j, {"queued", "paused", "running"}, "running")
              /\ call' = [call EXCEPT ![c].pc = "start_claim_op", ![c].batch = job[j].rows]
           \/ JobKeeps(j, {"queued", "paused", "running"}) /\ Return(c)
        /\ UNCHANGED <<op, running, gate, outside, retried>>

\* claim_running
StartClaimJob(c) ==
    LET j == call[c].job
    IN  /\ call[c].pc = "start_claim_job"
        /\ \/ /\ JobCas(j, {"queued", "paused"}, "running")
              /\ call' = [call EXCEPT ![c].pc = "start_claim_op",
                                      ![c].batch = job[j].rows]
           \/ JobKeeps(j, {"queued", "paused"}) /\ Return(c)
        /\ UNCHANGED <<op, running, gate, outside, retried>>

\* Which claim the snapshots ask for, and whether the operation grants it
MayClaim(c, j) ==
    /\ call[c].snapOp \in {"ready", "approved"}
    /\ op[j].runtime = runtime /\ op[j].state \in {"ready", "approved"}

MayResume(c, j) ==
    /\ call[c].snapOp = "executing" /\ call[c].snapJob = "paused"
    /\ op[j].state = "executing"

\* OperationRuntime::claim, or resume_job_claim
StartClaimOp(c) ==
    LET j == call[c].job
    IN  /\ call[c].pc = "start_claim_op"
        /\ \/ /\ MayClaim(c, j)
              /\ op' = [op EXCEPT ![j].state = "executing"]
              /\ Goto(c, "start_insert")
           \/ /\ MayClaim(c, j) /\ JobKind[j] = "import"   \* the approval expired
              /\ op' = [op EXCEPT ![j].state = "expired"]
              /\ Goto(c, "start_undo")
           \/ /\ MayResume(c, j)
              /\ op' = [op EXCEPT ![j].runtime = runtime]
              /\ Goto(c, "start_insert")
           \/ /\ ~MayClaim(c, j) /\ ~MayResume(c, j)
              /\ Goto(c, "start_undo")
              /\ UNCHANGED op
        /\ UNCHANGED <<job, running, gate, outside, retried>>

\* The claim failed: look at the job again
StartUndo(c) ==
    /\ call[c].pc = "start_undo"
    /\ Goto(c, IF job[call[c].job].state = "cancel_requested" THEN "fc_job" ELSE "undo_tx")
    /\ UNCHANGED <<rows, running, gate, outside, retried>>

\* finish_pause or rollback_initial_start, chosen by the state start had read
UndoTarget(c) == IF call[c].snapJob = "paused" THEN "paused" ELSE "queued"

UndoTx(c) ==
    LET j == call[c].job
    IN  /\ call[c].pc = "undo_tx"
        /\ JobCas(j, {"running"}, UndoTarget(c)) \/ JobKeeps(j, {"running"})
        /\ Return(c)
        /\ UNCHANGED <<op, running, gate, outside, retried>>

\* running.insert
StartInsert(c) ==
    /\ call[c].pc = "start_insert"
    /\ running' = [running EXCEPT ![call[c].job] = c]
    /\ Goto(c, "start_latest")
    /\ UNCHANGED <<rows, gate, outside, retried>>

\* Mutant: a cancel that came before the worker makes start return.
StartLatest_Returns(c) ==
    LET j == call[c].job
    IN  /\ call[c].pc = "start_latest"
        /\ IF job[j].state = "cancel_requested"
             THEN /\ running' = [running EXCEPT ![j] = None]
                  /\ Return(c)
             ELSE /\ call' = [call EXCEPT ![c].pc = "worker_wait", ![c].worker = TRUE]
                  /\ UNCHANGED running
        /\ UNCHANGED <<rows, gate, outside, retried>>

\* start reads the job once more and spawns the worker
StartLatest(c) ==
    LET j == call[c].job
    IN  /\ call[c].pc = "start_latest"
        /\ IF job[j].state = "cancel_requested"
             THEN /\ running' = [running EXCEPT ![j] = None]
                  /\ Goto(c, "fc_job")
             ELSE /\ call' = [call EXCEPT ![c].pc = "worker_wait", ![c].worker = TRUE,
                                ![c].stop = @ \/ (job[j].state = "running" /\ job[j].pause)]
                  /\ UNCHANGED running
        /\ UNCHANGED <<rows, gate, outside, retried>>

\* finish_cancelled_without_worker: the job first, then its operation
FinishCancelledJob(c) ==
    LET j == call[c].job
    IN  /\ call[c].pc = "fc_job"
        /\ \/ JobCas(j, Executing, "cancelled") /\ Goto(c, "fc_op")
           \/ JobKeeps(j, Executing) /\ End(c)
        /\ UNCHANGED <<op, running, gate, outside, retried>>

FinishCancelledOp(c) ==
    /\ call[c].pc = "fc_op"
    /\ MoveOp(call[c].job, "cancelled")
    /\ End(c)
    /\ UNCHANGED <<job, running, gate, outside, retried>>

-----------------------------------------------------------------------------
(* The worker.                                                             *)

\* The worker waits for a permit. A token cancelled before that reads the job;
\* any other worker enters the run, which validates an existing checkpoint once
\* more. An export without rows opens a new partial file.
WorkerBegin(c) ==
    LET j == call[c].job
        fresh == JobKind[j] = "export" /\ call[c].batch = 0
    IN  /\ call[c].pc = "worker_wait"
        /\ \/ /\ call[c].stop /\ job[j].state = "cancel_requested"
              /\ call' = [call EXCEPT ![c].pc = "complete", ![c].out = "cancelled"]
              /\ UNCHANGED applied
           \/ /\ ~(call[c].stop /\ job[j].state = "cancel_requested")
              /\ job[j].ckpt => ValidateResume(j)
              /\ Goto(c, IF JobKind[j] = "export" THEN "totals" ELSE "work")
              /\ applied' = IF fresh THEN [applied EXCEPT ![j] = [b \in Batches |-> 0]]
                             ELSE applied
           \/ /\ ~(call[c].stop /\ job[j].state = "cancel_requested")
              /\ job[j].ckpt /\ ~ValidateResume(j)
              /\ call' = [call EXCEPT ![c].pc = "complete", ![c].out = "failed"]
              /\ UNCHANGED applied
        /\ UNCHANGED <<rows, running, gate, published, retried>>

\* A check before the first batch, a read, or a batch that is rolled back fails
WorkerError(c) ==
    /\ call[c].pc \in {"totals", "work", "batch"}
    /\ call' = [call EXCEPT ![c].pc = "complete", ![c].out = "failed"]
    /\ UNCHANGED <<rows, running, gate, outside, retried>>

\* update_totals: an export records its size, which only a running job accepts
WorkerTotals(c) ==
    /\ call[c].pc = "totals"
    /\ job[call[c].job].state = "running"
    /\ Goto(c, "work")
    /\ UNCHANGED <<rows, running, gate, outside, retried>>

\* The head of the loop: unless it is stopped the worker sends the next batch
WorkerNext(c) ==
    /\ call[c].pc = "work"
    /\ ~call[c].stop
    /\ call[c].batch < MaxBatches
    /\ Goto(c, "batch")
    /\ UNCHANGED <<rows, running, gate, outside, retried>>

Applied(j, b) == [applied EXCEPT ![j][b] = @ + 1]

\* Mutant: a lost acknowledgement of a stopped worker counts as a rollback.
WorkerBatch_LostAckIsStop(c) ==
    LET j == call[c].job
        b == call[c].batch + 1
    IN  /\ call[c].pc = "batch"
        /\ \/ Goto(c, "progress") /\ applied' = Applied(j, b)
           \/ /\ JobKind[j] = "import"
              /\ call' = [call EXCEPT ![c].pc = IF call[c].stop THEN "work" ELSE "complete",
                                      ![c].out = IF call[c].stop THEN "none" ELSE "outcome_unknown"]
              /\ applied' \in {applied, Applied(j, b)}
        /\ UNCHANGED <<rows, running, gate, published, retried>>

\* The batch reaches the target, but an import may lose the acknowledgement
WorkerBatch(c) ==
    LET j == call[c].job
        b == call[c].batch + 1
    IN  /\ call[c].pc = "batch"
        /\ \/ Goto(c, "progress") /\ applied' = Applied(j, b)
           \/ /\ JobKind[j] = "import"
              /\ call' = [call EXCEPT ![c].pc = "complete", ![c].out = "outcome_unknown"]
              /\ applied' \in {applied, Applied(j, b)}
        /\ UNCHANGED <<rows, running, gate, published, retried>>

\* Mutant: one batch too many is recorded.
RecordProgress_OneMore(j, n) ==
    /\ job[j].state \in Executing
    /\ job[j].rows <= n
    /\ job' = [job EXCEPT ![j].rows = n + 1, ![j].ckpt = @ \/ Resumable[j]]

\* Mutant: the checkpoint is written but not the progress of the job.
RecordProgress_KeepsRows(j, n) ==
    /\ job[j].state \in Executing
    /\ job' = [job EXCEPT ![j].ckpt = @ \/ Resumable[j]]

\* Mutant: progress puts the job into running whatever it was.
RecordProgress_AnyState(j, n) ==
    job' = [job EXCEPT ![j].rows = n, ![j].ckpt = @ \/ Resumable[j], ![j].state = "running"]

\* update_progress with the checkpoint of a resumable format
RecordProgress(j, n) ==
    /\ job[j].state \in Executing
    /\ job[j].rows <= n
    /\ job' = [job EXCEPT ![j].rows = n, ![j].ckpt = @ \/ Resumable[j]]

ProgressRefused(j, n) ==
    (job[j].state \notin Executing \/ job[j].rows > n) /\ UNCHANGED job

WorkerProgress(c) ==
    LET j == call[c].job
        n == call[c].batch + 1
    IN  /\ call[c].pc = "progress"
        /\ \/ /\ RecordProgress(j, n)
              /\ call' = [call EXCEPT ![c].pc = "work", ![c].batch = n]
           \/ /\ ProgressRefused(j, n)
              /\ call' = [call EXCEPT ![c].pc = "complete", ![c].out = "failed"]
        /\ UNCHANGED <<op, running, gate, outside, retried>>

\* checkpoint_export_stop, checkpoint_import_stop: the batch in hand was rolled
\* back, the progress so far is recorded
WorkerStop(c) ==
    LET j == call[c].job
    IN  /\ call[c].pc \in {"totals", "work", "batch"}
        /\ call[c].stop
        /\ \/ /\ RecordProgress(j, call[c].batch)
              /\ Goto(c, "stop_outcome")
           \/ /\ ProgressRefused(j, call[c].batch)
              /\ call' = [call EXCEPT ![c].pc = "complete", ![c].out = "failed"]
        /\ UNCHANGED <<op, running, gate, outside, retried>>

\* stop_outcome
StopOutcome(c) ==
    LET s == job[call[c].job].state
    IN  /\ call[c].pc = "stop_outcome"
        /\ call' = [call EXCEPT ![c].pc = "complete",
                      ![c].out = CASE s \in {"running", "paused"} -> "paused"
                                   [] s = "cancel_requested" -> "cancelled"
                                   [] OTHER -> "failed"]
        /\ UNCHANGED <<rows, running, gate, outside, retried>>

\* The source is exhausted; an export renames its partial file to the output
WorkerDone(c) ==
    LET j == call[c].job
    IN  /\ call[c].pc = "work"
        /\ call[c].batch = MaxBatches
        /\ IF JobKind[j] = "export"
             THEN Goto(c, "final") /\ published' = [published EXCEPT ![j] = TRUE]
             ELSE /\ call' = [call EXCEPT ![c].pc = "complete", ![c].out = "succeeded"]
                  /\ UNCHANGED published
        /\ UNCHANGED <<rows, running, gate, applied, retried>>

\* The final update_progress of an export must be accepted
WorkerFinal(c) ==
    /\ call[c].pc = "final"
    /\ call' = [call EXCEPT ![c].pc = "complete",
                  ![c].out = IF job[call[c].job].state \in Executing
                               THEN "succeeded" ELSE "failed"]
    /\ UNCHANGED <<rows, running, gate, outside, retried>>

\* The job state a worker outcome ends in
FinishState(out) == IF out = "outcome_unknown" THEN "failed" ELSE out

\* Mutant: the operation is closed before the job.
Complete_OpFirst(c) ==
    LET j == call[c].job
        out == call[c].out
    IN  /\ call[c].pc = "complete"
        /\ IF out = "paused" THEN UNCHANGED op ELSE MoveOp(j, out)
        /\ \/ /\ JobCas(j, {"running"}, FinishState(out))
              /\ out = "paused" /\ Goto(c, "remove")
           \/ /\ out # "paused" \/ job[j].state # "running"
              /\ Goto(c, IF out = "paused" THEN "pause_lost" ELSE "close_op")
              /\ UNCHANGED job
        /\ UNCHANGED <<running, gate, outside, retried>>

\* complete: the job row is finished first
Complete(c) ==
    LET j == call[c].job
        out == call[c].out
        from == IF out = "paused" THEN {"running"} ELSE Executing
    IN  /\ call[c].pc = "complete"
        /\ \/ /\ JobCas(j, from, FinishState(out))
              /\ Goto(c, IF out = "paused" THEN "remove" ELSE "close_op")
           \/ /\ JobKeeps(j, from)
              /\ Goto(c, IF out = "paused" THEN "pause_lost" ELSE "remove")
        /\ UNCHANGED <<op, running, gate, outside, retried>>

\* Mutant: a pause that lost against a cancellation is forgotten.
PauseLost_Ignored(c) ==
    /\ call[c].pc = "pause_lost"
    /\ Goto(c, "remove")
    /\ UNCHANGED <<rows, running, gate, outside, retried>>

\* complete: finish_pause was refused; a cancellation that won is finished here
PauseLost(c) ==
    /\ call[c].pc = "pause_lost"
    /\ Goto(c, IF job[call[c].job].state = "cancel_requested" THEN "fc_job" ELSE "remove")
    /\ UNCHANGED <<rows, running, gate, outside, retried>>

\* complete: then succeed, confirm_cancelled, fail or mark_outcome_unknown
CloseOp(c) ==
    /\ call[c].pc = "close_op"
    /\ MoveOp(call[c].job, call[c].out)
    /\ Goto(c, "remove")
    /\ UNCHANGED <<job, running, gate, outside, retried>>

\* running.remove, whoever's token is in the map
RemoveRunning(c) ==
    /\ call[c].pc = "remove"
    /\ running' = [running EXCEPT ![call[c].job] = None]
    /\ Return(c)
    /\ UNCHANGED <<rows, gate, outside, retried>>

-----------------------------------------------------------------------------
(* pause and cancel.                                                       *)

\* token.cancel of the token in the map, if there is one
CancelToken(c, j) ==
    call' = [d \in Callers |->
               IF d = c THEN IdleCall
               ELSE IF d = running[j] THEN [call[d] EXCEPT !.stop = TRUE] ELSE call[d]]

\* request_pause
PauseRequest(c, j) ==
    /\ Resumable[j]
    /\ job[j].state = "running" /\ ~job[j].pause
    /\ Enter(c, j, "pause_token")
    /\ job' = [job EXCEPT ![j].pause = TRUE]
    /\ UNCHANGED <<op, running, gate, outside, retried>>

PauseToken(c) ==
    /\ call[c].pc = "pause_token"
    /\ CancelToken(c, call[c].job)
    /\ UNCHANGED <<rows, running, gate, outside, retried>>

\* cancel reads the job; a finished or cancelling job is returned as it is
CancelRead(c, j) ==
    /\ job[j].state \in {"queued", "running", "paused"}
    /\ Enter(c, j, "cancel_req")
    /\ UNCHANGED <<rows, running, gate, outside, retried>>

\* request_cancel reads the job again and chooses the transition
CancelChoose(c) ==
    /\ call[c].pc = "cancel_req"
    /\ call' = [call EXCEPT ![c].pc = "cancel_tx", ![c].snapJob = job[call[c].job].state]
    /\ UNCHANGED <<rows, running, gate, outside, retried>>

\* request_cancel: RunningCancellationRequested or WaitingCancelled
CancelRequest(c) ==
    LET j == call[c].job
        wasRunning == call[c].snapJob = "running"
        from == IF wasRunning THEN {"running"} ELSE {"queued", "paused"}
        to == IF wasRunning THEN "cancel_requested" ELSE "cancelled"
    IN  /\ call[c].pc = "cancel_tx"
        /\ \/ /\ JobCas(j, from, to)
              /\ call' = [call EXCEPT ![c].pc = "cancel_token", ![c].snapJob = to]
           \/ JobKeeps(j, from) /\ Return(c)
        /\ UNCHANGED <<op, running, gate, outside, retried>>

\* cancel: signal the worker, or close the operation when there is none. The
\* state request_cancel returned decides whether the job is finished here too.
CancelSignal(c) ==
    LET j == call[c].job
    IN  /\ call[c].pc = "cancel_token"
        /\ IF running[j] # None
             THEN CancelToken(c, j)
             ELSE Goto(c, "cancel_op")
        /\ UNCHANGED <<rows, running, gate, outside, retried>>

CancelOp(c) ==
    LET j == call[c].job
    IN  /\ call[c].pc = "cancel_op"
        /\ MoveOp(j, "cancelled")
        /\ IF call[c].snapJob = "cancel_requested" THEN Goto(c, "fc_job") ELSE Return(c)
        /\ UNCHANGED <<job, running, gate, outside, retried>>
-----------------------------------------------------------------------------
(* Crash, restart and recovery.                                            *)

\* An import batch that was on its way when the process died may still land.
InFlight ==
    {c \in Callers : call[c].pc = "batch" /\ JobKind[call[c].job] = "import"}

Landed(S) ==
    [j \in Jobs |-> [b \in Batches |->
        applied[j][b] + Cardinality({c \in S : call[c].job = j /\ call[c].batch + 1 = b})]]

\* The next process recovers the operations before anything else runs
\* (AppState::new), and the jobs only after the window is painted.
Restart ==
    /\ runtime < MaxRuntime
    /\ runtime' = runtime + 1
    /\ op' = [j \in Jobs |->
                IF op[j].state = "absent" THEN op[j]
                ELSE [op[j] EXCEPT !.state = RestartRecovery(JobKind[j], op[j].state)]]
    /\ \E S \in SUBSET InFlight : applied' = Landed(S)
    /\ running' = [j \in Jobs |-> None]
    /\ call' = [c \in Callers |-> IdleCall]
    /\ phase' = "ledger"
    /\ todo' = {} /\ closing' = {}
    /\ retried' = (phase = "failed")
    /\ UNCHANGED <<job, published>>

\* What the UPDATE of ledger.recover_interrupted makes of an interrupted job
InterruptedState(j) ==
    IF JobKind[j] = "export" /\ Resumable[j] THEN "paused" ELSE "failed"

\* ledger.recover_interrupted; the loop that follows visits the exports that
\* cannot resume
RecoverLedger ==
    LET interrupted == {j \in Jobs : job[j].state \in Executing}
    IN  /\ phase = "ledger"
        /\ job' = [j \in Jobs |->
                     IF j \in interrupted
                       THEN [job[j] EXCEPT !.state = InterruptedState(j), !.pause = FALSE]
                       ELSE job[j]]
        /\ todo' = {j \in interrupted : JobKind[j] = "export" /\ ~Resumable[j]}
        /\ phase' = "exports"
        /\ UNCHANGED <<op, running, call, runtime, closing, outside, retried>>

\* An error in a loop ends the recovery, and the gate stays shut.
RecoveryFails ==
    phase' = "failed" /\ todo' = {} /\ closing' = {} /\ UNCHANGED rows

\* fail_interrupted_export: rebind the executing operation and fail it
FailInterruptedExport(j) == op' = [op EXCEPT ![j] = [state |-> "failed", runtime |-> runtime]]

RecoverExport(j) ==
    /\ phase = "exports" /\ j \in todo
    /\ IF op[j].state = "executing"
         THEN /\ FailInterruptedExport(j)
              /\ todo' = todo \ {j}
              /\ UNCHANGED <<job, phase, closing>>
         ELSE RecoveryFails
    /\ UNCHANGED <<running, call, runtime, outside, retried>>

\* rebind_pending_job: the open plan of a queued job under the new owner
RebindPending(j) ==
    IF op[j].state \in {"pending_approval", "ready", "approved"}
      THEN /\ op' = [op EXCEPT ![j].runtime = runtime]
           /\ todo' = todo \ {j}
           /\ UNCHANGED <<job, phase, closing>>
      ELSE RecoveryFails

\* A queued job follows its operation, or keeps its plan
RecoverQueued(j) ==
    /\ phase = "queued" /\ j \in todo
    /\ \/ /\ IsTerminal(op[j].state)
          /\ JobCas(j, {"queued"}, IF op[j].state \in {"rejected", "expired", "cancelled"}
                                    THEN "cancelled" ELSE "failed")
          /\ todo' = todo \ {j}
          /\ UNCHANGED <<op, phase, closing>>
       \/ ~IsTerminal(op[j].state) /\ RebindPending(j)
    /\ UNCHANGED <<running, call, runtime, outside, retried>>

\* A paused job keeps its executing operation only with a checkpoint
RecoverPaused(j) ==
    /\ phase = "paused" /\ j \in todo
    /\ todo' = todo \ {j}
    /\ IF op[j].state = "executing" /\ job[j].ckpt
         THEN /\ op' = [op EXCEPT ![j].runtime = runtime]   \* rebind_paused_job
              /\ UNCHANGED <<job, closing>>
         ELSE /\ JobCas(j, {"paused"}, "failed")             \* fail_paused
              /\ closing' = IF op[j].state = "executing" /\ JobKind[j] = "export"
                              THEN closing \cup {j} ELSE closing
              /\ UNCHANGED op
    /\ UNCHANGED <<phase, running, call, runtime, outside, retried>>

RecoverPausedOp(j) ==
    /\ phase = "paused" /\ j \in closing
    /\ FailInterruptedExport(j)
    /\ closing' = closing \ {j}
    /\ UNCHANGED <<job, phase, todo, running, call, runtime, outside, retried>>

\* The loops of recover_interrupted follow each other; then the gate opens
RecoverNextLoop ==
    /\ phase \in {"exports", "queued", "paused"} /\ todo = {} /\ closing = {}
    /\ phase' = CASE phase = "exports" -> "queued"
                  [] phase = "queued" -> "paused"
                  [] OTHER -> "up"
    /\ todo' = {j \in Jobs : job[j].state = phase'}
    /\ UNCHANGED <<rows, running, call, runtime, closing, outside, retried>>

-----------------------------------------------------------------------------
CallStep(c) ==
    \/ CreateInsert(c)
    \/ StartReadJob(c) \/ StartReadOp(c) \/ StartClaimJob(c) \/ StartClaimOp(c)
    \/ StartUndo(c) \/ UndoTx(c) \/ StartInsert(c) \/ StartLatest(c)
    \/ FinishCancelledJob(c) \/ FinishCancelledOp(c)
    \/ WorkerBegin(c) \/ WorkerError(c) \/ WorkerTotals(c) \/ WorkerNext(c) \/ WorkerBatch(c)
    \/ WorkerProgress(c)
    \/ WorkerStop(c) \/ StopOutcome(c) \/ WorkerDone(c) \/ WorkerFinal(c)
    \/ Complete(c) \/ PauseLost(c) \/ CloseOp(c) \/ RemoveRunning(c)
    \/ PauseToken(c) \/ CancelChoose(c) \/ CancelRequest(c) \/ CancelSignal(c) \/ CancelOp(c)

RecoveryStep ==
    \/ RecoverLedger \/ RecoverNextLoop
    \/ \E j \in Jobs :
          RecoverExport(j) \/ RecoverQueued(j) \/ RecoverPaused(j) \/ RecoverPausedOp(j)

Next ==
    \/ \E c \in Callers : CallStep(c)
    \/ \E c \in Callers, j \in Jobs :
          \/ CreatePlan(c, j) \/ StartCheck(c, j)
          \/ PauseRequest(c, j) \/ CancelRead(c, j)
    \/ \E j \in Jobs, d \in {"approved", "rejected"} : DecideImport(j, d)
    \/ RecoveryStep
    \/ Restart

Spec == Init /\ [][Next]_vars

\* A call and a worker always go on: batches are bounded by the query timeout,
\* and recovery runs without user input.
FairSpec ==
    /\ Spec
    /\ \A c \in Callers : WF_vars(CallStep(c))
    /\ WF_vars(RecoveryStep)

-----------------------------------------------------------------------------
(* Properties.                                                             *)

\* Every variable has its type.
TypeOK ==
    /\ job \in [Jobs -> [state : JobStates \cup {"absent"}, pause : BOOLEAN,
                         rows : 0..MaxBatches, ckpt : BOOLEAN, format : Formats]]
    /\ op \in [Jobs -> [state : States \cup {"absent"}, runtime : 0..MaxRuntime]]
    /\ running \in [Jobs -> Callers \cup {None}]
    /\ call \in [Callers -> Calls]
    /\ runtime \in 0..MaxRuntime
    /\ phase \in {"ledger", "exports", "queued", "paused", "up", "failed"}
    /\ todo \in SUBSET Jobs
    /\ closing \in SUBSET Jobs
    /\ applied \in [Jobs -> [Batches -> Nat]]
    /\ published \in [Jobs -> BOOLEAN]
    /\ retried \in BOOLEAN

\* No batch of an import reaches the target twice, whatever pauses, resumes,
\* racing starts, lost acknowledgements and restarts happen.
NoBatchTwice ==
    \A j \in Jobs : JobKind[j] = "import" => \A b \in Batches : applied[j][b] <= 1

\* A paused import can be resumed without looking at the target: the rows it
\* recorded are exactly the batches the target has.
PausedImportIsExact ==
    \A j \in Jobs : JobKind[j] = "import" /\ job[j].state = "paused" => ExactPrefix(j)

\* At most one worker writes for a job.
OneWorker ==
    \A c, d \in Callers :
        /\ call[c].pc \in {"work", "batch", "progress"}
        /\ call[d].pc \in {"work", "batch", "progress"}
        /\ call[c].job = call[d].job
        => c = d

\* The two-transaction completion keeps the two tables in step: an operation
\* that succeeded or failed has a job that did, and a job that succeeded has
\* written every batch, and published it if it is an export. (complete,
\* recover_interrupted, restart_recovery)
OperationFollowsJob ==
    \A j \in Jobs :
        /\ op[j].state = "succeeded" => job[j].state = "succeeded"
        /\ op[j].state = "failed" => job[j].state = "failed"
        /\ job[j].state = "succeeded" =>
              /\ \A b \in Batches : applied[j][b] = 1
              /\ JobKind[j] = "export" => published[j]

\* A job that is running or cancelling is in somebody's hands: a start that has
\* not handed it over, a worker, or a cancel that will finish it. Otherwise it
\* would stay so until the next restart. (the comments in start and complete
\* promise never to strand a workerless job)
Responsible(c, j) ==
    call[c].job = j /\ (call[c].pc \in StartPcs \cup WorkerPcs \cup FinishPcs
                         \/ call[c].pc \in {"cancel_token", "cancel_op"})

JobInHand(j) ==
    phase = "up" /\ job[j].state \in Executing => \E c \in Callers : Responsible(c, j)

\* A job that cannot pause is always in somebody's hands.
NoStrandedPlainJob == \A j \in Jobs : ~Resumable[j] => JobInHand(j)

\* "startup recovery failed; restart DopeDB before running Agent or Job work": a
\* recovery that failed does not fail again after the restart it asks for.
RestartRepairsRecovery == ~(phase = "failed" /\ retried)

\* Progress is never lost and a finished job stays finished: no interleaving of
\* calls, workers and recovery rewinds the recorded rows, drops a checkpoint or
\* reopens a terminal job.
ProgressIsMonotone ==
    [][\A j \in Jobs :
          /\ job'[j].rows >= job[j].rows
          /\ job[j].ckpt => job'[j].ckpt
          /\ job[j].state \in JobTerminal => job'[j].state = job[j].state]_vars

\* "Never strand the Job in cancel_requested without a worker": a cancellation of
\* a job that cannot pause, once accepted, ends the job in the same process. (start,
\* complete and cancel hand it to each other.)  A job that can pause has no such
\* promise: the token a cancel signals may be that of a worker that has paused,
\* while the start that reclaimed the job gives up.
CancelSettles ==
    \A j \in Jobs :
        ~Resumable[j] /\ job[j].state = "cancel_requested" ~> job[j].state \in JobTerminal

\* A pause request does not linger: the job pauses, ends or is cancelled.
PauseSettles ==
    \A j \in Jobs : job[j].pause ~> ~job[j].pause
=============================================================================
