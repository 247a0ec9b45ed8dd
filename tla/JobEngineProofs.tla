-------------------------- MODULE JobEngineProofs --------------------------
(***************************************************************************)
(* Proofs about the Durable Job Engine, for every set of jobs and calls,   *)
(* every number of batches and every number of restarts.                   *)
(*                                                                         *)
(* The argument follows one idea. The compare-and-swap of claim_running    *)
(* makes one call the owner of a job, and the job cannot be claimed again  *)
(* before that owner has given it up: what an owner has written, recorded  *)
(* and read can only be changed by itself.                                 *)
(***************************************************************************)
EXTENDS JobEngine, FiniteSetTheorems, TLAPS

-----------------------------------------------------------------------------
(* The inductive invariant.                                                *)

\* The process states in which a call owns its job: it has claimed the row and
\* has not yet put it back, finished it, or found it finished.
OwnerPcs == {"start_claim_op", "start_undo", "undo_tx", "start_insert", "start_latest",
             "worker_wait", "totals", "work", "batch", "progress", "final", "stop_outcome",
             "complete"}

Active(c, j) == call[c].pc # "idle" /\ call[c].job = j
Owns(c, j) == call[c].job = j /\ call[c].pc \in OwnerPcs

\* States from which a job leaves only towards its end, while the process lives.
Doomed == {"cancel_requested"} \cup JobTerminal

\* A call has what the step it is about to take needs.
ShapeOf(c) ==
    /\ call[c].pc # "idle" => call[c].job \in Jobs
    /\ call[c].pc \in {"batch", "progress"} => call[c].batch < MaxBatches
    /\ call[c].pc \in {"complete", "close_op"} => call[c].out # "none"
    /\ call[c].pc = "close_op" => call[c].out # "paused"
    /\ call[c].worker => call[c].pc \in WorkerPcs \cup FinishPcs
    /\ call[c].pc \in WorkerPcs => call[c].worker

ShapeInv == \A c \in Callers : ShapeOf(c)

\* While the gate is shut no call runs, and once the ledger is recovered no job
\* is left executing.
QuietInv ==
    /\ phase # "up" => \A c \in Callers : call[c].pc = "idle"
    /\ phase \in {"exports", "queued", "paused"} =>
          \A j \in Jobs : job[j].state \notin Executing

\* The row of a job appears once, after its plan and before any other call.
BirthInv ==
    /\ \A j \in Jobs : op[j].state = "absent" => job[j].state = "absent"
    /\ \A c \in Callers : \A j \in Jobs : Active(c, j) =>
          /\ call[c].pc = "create_insert" => job[j].state = "absent" /\ op[j].state # "absent"
          /\ call[c].pc # "create_insert" => job[j].state # "absent"
    /\ \A c, d \in Callers :
          call[c].pc = "create_insert" /\ call[d].pc = "create_insert"
             /\ call[c].job = call[d].job => c = d

\* A job has one owner at most, and an owned job can be neither claimed again
\* nor succeed without its owner.
OwnerInv ==
    /\ \A c \in Callers : \A j \in Jobs :
          Owns(c, j) => job[j].state \in {"running", "cancel_requested", "cancelled", "failed"}
    /\ \A c, d \in Callers : \A j \in Jobs : Owns(c, j) /\ Owns(d, j) => c = d

\* The batches up to n have been written once, the others not at all.
Written(j, n) == \A b \in Batches : applied[j][b] = (IF b <= n THEN 1 ELSE 0)

\* The steps of an owner before its worker has begun.
BeforePcs == {"start_claim_op", "start_undo", "undo_tx", "start_insert", "start_latest", "worker_wait"}

\* What the owner knows about the batches that have been written.
OwnerKnows(c, j) ==
    /\ call[c].pc # "complete" => call[c].batch = job[j].rows
    /\ call[c].pc \in BeforePcs =>
          /\ JobKind[j] = "import" => Written(j, call[c].batch)
          /\ ~Resumable[j] => call[c].batch = 0
    /\ call[c].pc \in {"totals", "work", "batch", "stop_outcome"} => Written(j, call[c].batch)
    /\ call[c].pc = "progress" => Written(j, call[c].batch + 1)
    /\ call[c].pc = "complete" /\ call[c].out = "paused" => Written(j, job[j].rows)
    /\ call[c].pc = "final" \/ (call[c].pc = "complete" /\ call[c].out = "succeeded") =>
          /\ \A b \in Batches : applied[j][b] = 1
          /\ JobKind[j] = "export" => published[j]

DataOf(j) ==
    /\ JobKind[j] = "import" =>
          /\ \A b \in Batches : applied[j][b] <= 1
          /\ job[j].state \in {"absent", "queued", "paused"} => Written(j, job[j].rows)
    /\ job[j].rows > 0 /\ Resumable[j] => job[j].ckpt
    /\ \A c \in Callers : Owns(c, j) => OwnerKnows(c, j)
    /\ job[j].state = "succeeded" =>
          /\ \A b \in Batches : applied[j][b] = 1
          /\ JobKind[j] = "export" => published[j]

\* The target of an import and the file of an export hold what the ledger and
\* the owner say they do.
DataInv == \A j \in Jobs : DataOf(j)

\* The operation of a job is closed after the job and the same way.
SettledOf(j) ==
    /\ op[j].state = "succeeded" => job[j].state = "succeeded"
    /\ op[j].state = "failed" => job[j].state = "failed"
    /\ \A c \in Callers : Active(c, j) /\ call[c].pc = "close_op" =>
          job[j].state = FinishState(call[c].out)
    /\ phase = "exports" /\ j \in todo => job[j].state = "failed"
    /\ j \in closing => job[j].state = "failed"

SettledInv == \A j \in Jobs : SettledOf(j)

\* What a call on a job that cannot pause may rely on.
PlainCall(c, j) ==
    /\ call[c].snapJob # "paused" /\ call[c].out # "paused"
    /\ call[c].pc \notin {"pause_token", "pause_lost"}
    /\ call[c].stop \/ call[c].pc \in {"cancel_token", "cancel_op", "fc_job", "stop_outcome"} =>
          job[j].state \in Doomed
    /\ call[c].pc \in {"close_op", "remove", "fc_op"} => job[j].state \in JobTerminal

PlainOf(j) == ~Resumable[j] =>
    /\ job[j].state # "paused" /\ ~job[j].pause
    /\ job[j].state \in {"absent", "queued"} => job[j].rows = 0
    /\ \A c \in Callers : Active(c, j) => PlainCall(c, j)

\* A job that cannot pause is run once: it never returns to the queue after its
\* worker was spawned, and only a cancellation stops that worker.
PlainInv == \A j \in Jobs : PlainOf(j)

\* The token in the map belongs to a call that will take it out.
TokenInv ==
    \A j \in Jobs : running[j] # None =>
        call[running[j]].job = j /\ (call[running[j]].pc = "start_latest" \/ call[running[j]].worker)

\* The call c will finish the executing job j or put it back.
Holds(c, j) ==
    /\ call[c].job = j
    /\ \/ call[c].pc \in (OwnerPcs \ {"undo_tx"}) \cup {"fc_job"}
       \/ call[c].pc = "undo_tx" /\ job[j].state = "running"
       \/ call[c].pc \in {"cancel_token", "cancel_op"} /\ call[c].snapJob = "cancel_requested"

HandOf(j) ==
    phase = "up" /\ ~Resumable[j] /\ job[j].state \in Executing => \E c \in Callers : Holds(c, j)

HandInv == \A j \in Jobs : HandOf(j)

JobInv ==
    /\ TypeOK /\ ShapeInv /\ QuietInv /\ BirthInv /\ OwnerInv
    /\ DataInv /\ SettledInv /\ PlainInv /\ TokenInv /\ HandInv

-----------------------------------------------------------------------------
(* Type correctness.                                                       *)

Pcs == StartPcs \cup WorkerPcs \cup FinishPcs \cup OtherPcs
JobRow == [state : JobStates \cup {"absent"}, pause : BOOLEAN,
           rows : 0..MaxBatches, ckpt : BOOLEAN, format : Formats]
OpRow == [state : States \cup {"absent"}, runtime : 0..MaxRuntime]

\* A finished call leaves a well-formed record.
LEMMA IdleCallType == IdleCall \in Calls
BY JobConstantsAssumption DEF IdleCall, Calls, OtherPcs

\* Moving to another step changes nothing else of a call.
LEMMA GotoType ==
    ASSUME TypeOK, NEW c \in Callers, NEW pc \in Pcs, Goto(c, pc)
    PROVE  /\ call' \in [Callers -> Calls]
           /\ call'[c] = [call[c] EXCEPT !.pc = pc]
           /\ \A d \in Callers : d # c => call'[d] = call[d]
<1>1. call[c] \in Calls /\ call = [d \in Callers |-> call[d]]
  BY DEF TypeOK
<1>2. call' = [call EXCEPT ![c] = [call[c] EXCEPT !.pc = pc]]
  BY DEF Goto
<1>3. [call[c] EXCEPT !.pc = pc] \in Calls
  BY <1>1 DEF Calls, Pcs
<1> QED
  BY <1>2, <1>3 DEF TypeOK

\* A call that returns forgets everything.
LEMMA ReturnType ==
    ASSUME TypeOK, NEW c \in Callers, Return(c)
    PROVE  /\ call' \in [Callers -> Calls]
           /\ call'[c] = IdleCall
           /\ \A d \in Callers : d # c => call'[d] = call[d]
BY IdleCallType DEF TypeOK, Return

\* A worker that ends leaves the map, another call returns.
LEMMA EndType ==
    ASSUME TypeOK, NEW c \in Callers, End(c)
    PROVE  /\ call' \in [Callers -> Calls]
           /\ call'[c] = IF call[c].worker THEN [call[c] EXCEPT !.pc = "remove"] ELSE IdleCall
           /\ \A d \in Callers : d # c => call'[d] = call[d]
BY GotoType, ReturnType DEF TypeOK, End, Pcs, WorkerPcs

\* A new call starts from scratch.
LEMMA EnterType ==
    ASSUME TypeOK, NEW c \in Callers, NEW j \in Jobs, NEW pc \in Pcs, Enter(c, j, pc)
    PROVE  /\ call' \in [Callers -> Calls]
           /\ phase = "up" /\ call[c].pc = "idle"
           /\ call'[c].pc = pc /\ call'[c].job = j
           /\ call'[c].snapJob = "none" /\ call'[c].out = "none"
           /\ ~call'[c].stop /\ ~call'[c].worker
           /\ \A d \in Callers : d # c => call'[d] = call[d]
<1>1. call' = [call EXCEPT ![c] = [IdleCall EXCEPT !.pc = pc, !.job = j]]
  BY DEF Enter
<1>2. [IdleCall EXCEPT !.pc = pc, !.job = j] \in Calls
  BY IdleCallType DEF Calls, Pcs
<1>3. PICK r \in Calls : call' = [call EXCEPT ![c] = r] /\ r = [IdleCall EXCEPT !.pc = pc, !.job = j]
  BY <1>1, <1>2
<1>4. /\ r.pc = pc /\ r.job = j /\ r.snapJob = "none" /\ r.out = "none"
      /\ r.stop = FALSE /\ r.worker = FALSE
  BY <1>3, IdleCallType DEF Calls, IdleCall
<1>5. /\ call' \in [Callers -> Calls] /\ call'[c] = r
      /\ \A d \in Callers : d # c => call'[d] = call[d]
  BY <1>3 DEF TypeOK
<1> QED
  BY <1>4, <1>5 DEF Enter

\* Cancelling a token touches the call it belongs to and nothing else.
LEMMA CancelTokenType ==
    ASSUME TypeOK, NEW c \in Callers, NEW j \in Jobs, CancelToken(c, j)
    PROVE  /\ call' \in [Callers -> Calls]
           /\ call'[c] = IdleCall
           /\ \A d \in Callers : d # c =>
                 call'[d] = IF d = running[j] THEN [call[d] EXCEPT !.stop = TRUE] ELSE call[d]
<1>1. ASSUME NEW d \in Callers PROVE [call[d] EXCEPT !.stop = TRUE] \in Calls
  <2>1. call[d] \in Calls
    BY DEF TypeOK
  <2> QED
    BY <2>1 DEF Calls
<1> DEFINE after(d) == IF d = c THEN IdleCall
                        ELSE IF d = running[j] THEN [call[d] EXCEPT !.stop = TRUE] ELSE call[d]
<1>2. \A d \in Callers : after(d) \in Calls
  BY <1>1, IdleCallType DEF TypeOK
<1>3. call' = [d \in Callers |-> after(d)]
  BY DEF CancelToken
<1>4. call' \in [Callers -> Calls] /\ \A d \in Callers : call'[d] = after(d)
  <2> HIDE DEF after
  <2> QED
    BY <1>2, <1>3
<1> QED
  BY <1>4

\* A compare-and-swap changes the state of one job and clears its pause request.
LEMMA JobCasType ==
    ASSUME TypeOK, NEW j \in Jobs, NEW from, NEW to \in JobStates, JobCas(j, from, to)
    PROVE  /\ job' \in [Jobs -> JobRow]
           /\ job[j].state \in from
           /\ job'[j] = [job[j] EXCEPT !.state = to, !.pause = FALSE]
           /\ \A k \in Jobs : k # j => job'[k] = job[k]
<1>1. job[j] \in JobRow /\ job \in [Jobs -> JobRow]
  BY DEF TypeOK, JobRow
<1>2. job' = [job EXCEPT ![j] = [job[j] EXCEPT !.state = to, !.pause = FALSE]]
  BY <1>1 DEF JobCas
<1>3. [job[j] EXCEPT !.state = to, !.pause = FALSE] \in JobRow
  BY <1>1 DEF JobRow
<1> QED
  BY <1>1, <1>2, <1>3 DEF JobCas

\* Recorded progress: the rows, and the checkpoint of a resumable format.
LEMMA RecordType ==
    ASSUME TypeOK, NEW j \in Jobs, NEW n \in 0..MaxBatches, RecordProgress(j, n)
    PROVE  /\ job' \in [Jobs -> JobRow]
           /\ job[j].state \in Executing /\ job[j].rows <= n
           /\ job'[j] = [job[j] EXCEPT !.rows = n, !.ckpt = job[j].ckpt \/ Resumable[j]]
           /\ \A k \in Jobs : k # j => job'[k] = job[k]
<1>1. Resumable[j] \in BOOLEAN
  BY JobConstantsAssumption DEF TypeOK, Resumable
<1>2. job[j] \in JobRow /\ job \in [Jobs -> JobRow]
  BY DEF TypeOK, JobRow
<1>3. job' = [job EXCEPT ![j] = [job[j] EXCEPT !.rows = n, !.ckpt = job[j].ckpt \/ Resumable[j]]]
  BY <1>2 DEF RecordProgress
<1>4. [job[j] EXCEPT !.rows = n, !.ckpt = job[j].ckpt \/ Resumable[j]] \in JobRow
  BY <1>1, <1>2 DEF JobRow
<1> QED
  BY <1>2, <1>3, <1>4 DEF RecordProgress

\* The state machine of an operation moves it between its states only.
LEMMA MoveOpType ==
    ASSUME TypeOK, NEW j \in Jobs, NEW target, MoveOp(j, target)
    PROVE  /\ op' \in [Jobs -> OpRow]
           /\ op'[j] = op[j] \/ (/\ EnsureTransition(op[j].state, target) /\ target \in States
                                 /\ op'[j] = [op[j] EXCEPT !.state = target])
           /\ \A k \in Jobs : k # j => op'[k] = op[k]
<1>1. CanMoveOp(j, target) => EnsureTransition(op[j].state, target) /\ target \in States
  BY DEF CanMoveOp, EnsureTransition, States, TerminalStates
<1> QED
  BY <1>1 DEF TypeOK, MoveOp, OpRow

\* A call record is replaced by another one.
LEMMA SetCallType ==
    ASSUME TypeOK, NEW c \in Callers, NEW r \in Calls, call' = [call EXCEPT ![c] = r]
    PROVE  /\ call' \in [Callers -> Calls]
           /\ call'[c] = r
           /\ \A d \in Callers : d # c => call'[d] = call[d]
BY DEF TypeOK

\* A worker that has its outcome goes on to complete.
LEMMA OutType ==
    ASSUME TypeOK, NEW c \in Callers,
           NEW out \in {"succeeded", "paused", "cancelled", "failed", "outcome_unknown"},
           call' = [call EXCEPT ![c].pc = "complete", ![c].out = out]
    PROVE  /\ call' \in [Callers -> Calls]
           /\ call'[c] = [call[c] EXCEPT !.pc = "complete", !.out = out]
           /\ \A d \in Callers : d # c => call'[d] = call[d]
<1>1. call[c] \in Calls
  BY DEF TypeOK
<1>2. call' = [call EXCEPT ![c] = [call[c] EXCEPT !.pc = "complete", !.out = out]]
  OBVIOUS
<1>3. [call[c] EXCEPT !.pc = "complete", !.out = out] \in Calls
  BY <1>1 DEF Calls, WorkerPcs
<1> QED
  BY <1>2, <1>3, SetCallType

\* A call reads the state of a job.
LEMMA SnapType ==
    ASSUME TypeOK, NEW c \in Callers, NEW pc \in Pcs, NEW s \in JobStates \cup {"absent"},
           call' = [call EXCEPT ![c].pc = pc, ![c].snapJob = s]
    PROVE  /\ call' \in [Callers -> Calls]
           /\ call'[c] = [call[c] EXCEPT !.pc = pc, !.snapJob = s]
           /\ \A d \in Callers : d # c => call'[d] = call[d]
<1>1. call[c] \in Calls
  BY DEF TypeOK
<1>2. call' = [call EXCEPT ![c] = [call[c] EXCEPT !.pc = pc, !.snapJob = s]]
  OBVIOUS
<1>3. [call[c] EXCEPT !.pc = pc, !.snapJob = s] \in Calls
  BY <1>1 DEF Calls, Pcs
<1> QED
  BY <1>2, <1>3, SetCallType

\* start_read_op reads the state of the operation.
LEMMA ReadOpType ==
    ASSUME TypeOK, NEW c \in Callers, NEW s \in States \cup {"absent"},
           call' = [call EXCEPT ![c].pc = "start_claim_job", ![c].snapOp = s]
    PROVE  /\ call' \in [Callers -> Calls]
           /\ call'[c] = [call[c] EXCEPT !.pc = "start_claim_job", !.snapOp = s]
           /\ \A d \in Callers : d # c => call'[d] = call[d]
<1>1. call[c] \in Calls
  BY DEF TypeOK
<1>2. call' = [call EXCEPT ![c] = [call[c] EXCEPT !.pc = "start_claim_job", !.snapOp = s]]
  OBVIOUS
<1>3. [call[c] EXCEPT !.pc = "start_claim_job", !.snapOp = s] \in Calls
  BY <1>1 DEF Calls, OtherPcs
<1> QED
  BY <1>2, <1>3, SetCallType

\* The worker's rows_processed moves.
LEMMA BatchType ==
    ASSUME TypeOK, NEW c \in Callers, NEW pc \in Pcs, NEW n \in 0..MaxBatches,
           call' = [call EXCEPT ![c].pc = pc, ![c].batch = n]
    PROVE  /\ call' \in [Callers -> Calls]
           /\ call'[c] = [call[c] EXCEPT !.pc = pc, !.batch = n]
           /\ \A d \in Callers : d # c => call'[d] = call[d]
<1>1. call[c] \in Calls
  BY DEF TypeOK
<1>2. call' = [call EXCEPT ![c] = [call[c] EXCEPT !.pc = pc, !.batch = n]]
  OBVIOUS
<1>3. [call[c] EXCEPT !.pc = pc, !.batch = n] \in Calls
  BY <1>1 DEF Calls, Pcs
<1> QED
  BY <1>2, <1>3, SetCallType

\* start spawns the worker.
LEMMA SpawnType ==
    ASSUME TypeOK, NEW c \in Callers, NEW p \in BOOLEAN,
           call' = [call EXCEPT ![c].pc = "worker_wait", ![c].worker = TRUE, ![c].stop = @ \/ p]
    PROVE  /\ call' \in [Callers -> Calls]
           /\ call'[c] = [call[c] EXCEPT !.pc = "worker_wait", !.worker = TRUE,
                                         !.stop = call[c].stop \/ p]
           /\ \A d \in Callers : d # c => call'[d] = call[d]
<1>1. call[c] \in Calls
  BY DEF TypeOK
<1>2. call' = [call EXCEPT ![c] = [call[c] EXCEPT !.pc = "worker_wait", !.worker = TRUE,
                                                  !.stop = call[c].stop \/ p]]
  OBVIOUS
<1>3. [call[c] EXCEPT !.pc = "worker_wait", !.worker = TRUE, !.stop = call[c].stop \/ p] \in Calls
  BY <1>1 DEF Calls, WorkerPcs
<1> QED
  BY <1>2, <1>3, SetCallType

\* A step of the call c changes this call, and at most sets the flag of the token
\* that it cancels.
CallFramed(c) ==
    /\ call' \in [Callers -> Calls]
    /\ \/ call'[c] = IdleCall
       \/ call'[c].job = call[c].job /\ call'[c].pc \notin {"idle", "create_insert"}
    /\ \A d \in Callers : d # c =>
          \/ call'[d] = call[d]
          \/ /\ call'[d] = [call[d] EXCEPT !.stop = TRUE]
             /\ running[call[c].job] = d /\ call[c].pc \in {"pause_token", "cancel_token"}

\* A step on the job j leaves the rows, the token and the output of the others.
JobFramed(j) ==
    /\ job' \in [Jobs -> JobRow] /\ job'[j].format = job[j].format
    /\ \A k \in Jobs : k # j => job'[k] = job[k]

OpFramed(j) == op' \in [Jobs -> OpRow] /\ \A k \in Jobs : k # j => op'[k] = op[k]

RunningFramed(j) ==
    running' \in [Jobs -> Callers \cup {None}] /\ \A k \in Jobs : k # j => running'[k] = running[k]

AppliedFramed(j) ==
    applied' \in [Jobs -> [Batches -> Nat]] /\ \A k \in Jobs : k # j => applied'[k] = applied[k]

PublishedFramed(j) ==
    published' \in [Jobs -> BOOLEAN] /\ \A k \in Jobs : k # j => published'[k] = published[k]

Framed(c, j) ==
    /\ CallFramed(c) /\ JobFramed(j) /\ OpFramed(j)
    /\ RunningFramed(j) /\ AppliedFramed(j) /\ PublishedFramed(j)

\* What a variable that does not change satisfies.
LEMMA Unchanged ==
    ASSUME TypeOK, NEW j \in Jobs
    PROVE  /\ UNCHANGED job => JobFramed(j)
           /\ UNCHANGED op => OpFramed(j)
           /\ UNCHANGED running => RunningFramed(j)
           /\ UNCHANGED outside => AppliedFramed(j) /\ PublishedFramed(j)
           /\ UNCHANGED rows => JobFramed(j) /\ OpFramed(j)
           /\ UNCHANGED published => PublishedFramed(j)
           /\ UNCHANGED applied => AppliedFramed(j)
BY DEF TypeOK, JobRow, OpRow, JobFramed, OpFramed, RunningFramed, AppliedFramed, PublishedFramed,
   outside, rows

\* The record of a call and its job.
LEMMA CallOf ==
    ASSUME TypeOK, ShapeInv, NEW c \in Callers, call[c].pc # "idle"
    PROVE  /\ call[c].job \in Jobs /\ call[c] \in Calls
           /\ job \in [Jobs -> JobRow] /\ job[call[c].job] \in JobRow
           /\ op \in [Jobs -> OpRow] /\ op[call[c].job] \in OpRow
BY DEF TypeOK, ShapeInv, ShapeOf, JobRow, OpRow

\* The ways in which a call moves on.
LEMMA GotoFramed ==
    ASSUME TypeOK, NEW c \in Callers, NEW pc \in Pcs \ {"idle", "create_insert"}, Goto(c, pc)
    PROVE  CallFramed(c)
<1>1. call[c] \in Calls
  BY DEF TypeOK
<1>0. call'[c] = [call[c] EXCEPT !.pc = pc]
  BY GotoType
<1>2. call'[c].job = call[c].job /\ call'[c].pc = pc
  BY <1>1, <1>0 DEF Calls
<1> QED
  BY <1>2, GotoType DEF CallFramed

\* A call that returns.
LEMMA ReturnFramed ==
    ASSUME TypeOK, NEW c \in Callers, Return(c)
    PROVE  CallFramed(c)
BY ReturnType DEF CallFramed

\* A call that ends, or the worker of one.
LEMMA EndFramed ==
    ASSUME TypeOK, NEW c \in Callers, End(c)
    PROVE  CallFramed(c)
BY ReturnFramed, GotoFramed DEF End, Pcs, WorkerPcs

\* A worker that has its outcome.
LEMMA OutFramed ==
    ASSUME TypeOK, NEW c \in Callers,
           NEW out \in {"succeeded", "paused", "cancelled", "failed", "outcome_unknown"},
           call' = [call EXCEPT ![c].pc = "complete", ![c].out = out]
    PROVE  CallFramed(c)
<1>1. call[c] \in Calls
  BY DEF TypeOK
<1>2. call'[c].job = call[c].job /\ call'[c].pc = "complete"
  BY <1>1, OutType DEF Calls
<1> QED
  BY <1>2, OutType DEF CallFramed

\* A call that reads the state of its job.
LEMMA SnapFramed ==
    ASSUME TypeOK, NEW c \in Callers, NEW pc \in Pcs \ {"idle", "create_insert"},
           NEW s \in JobStates \cup {"absent"},
           call' = [call EXCEPT ![c].pc = pc, ![c].snapJob = s]
    PROVE  CallFramed(c)
<1>1. call[c] \in Calls
  BY DEF TypeOK
<1>2. call'[c].job = call[c].job /\ call'[c].pc = pc
  BY <1>1, SnapType DEF Calls
<1> QED
  BY <1>2, SnapType DEF CallFramed

\* A call that takes over or advances the count of batches.
LEMMA BatchFramed ==
    ASSUME TypeOK, NEW c \in Callers, NEW pc \in Pcs \ {"idle", "create_insert"},
           NEW n \in 0..MaxBatches,
           call' = [call EXCEPT ![c].pc = pc, ![c].batch = n]
    PROVE  CallFramed(c)
<1>1. call[c] \in Calls
  BY DEF TypeOK
<1>2. call'[c].job = call[c].job /\ call'[c].pc = pc
  BY <1>1, BatchType DEF Calls
<1> QED
  BY <1>2, BatchType DEF CallFramed

\* A call that cancels the token of another one.
LEMMA TokenFramed ==
    ASSUME TypeOK, NEW c \in Callers, call[c].job \in Jobs,
           call[c].pc \in {"pause_token", "cancel_token"}, CancelToken(c, call[c].job)
    PROVE  CallFramed(c)
BY CancelTokenType DEF CallFramed

\* The transactions on the two tables.
LEMMA CasFramed ==
    ASSUME TypeOK, NEW j \in Jobs, NEW from, NEW to \in JobStates, JobCas(j, from, to)
    PROVE  JobFramed(j)
<1>1. job[j] \in JobRow
  BY DEF TypeOK, JobRow
<1>0. job'[j] = [job[j] EXCEPT !.state = to, !.pause = FALSE]
  BY JobCasType
<1>2. job'[j].format = job[j].format
  BY <1>1, <1>0 DEF JobRow
<1> QED
  BY <1>2, JobCasType DEF JobFramed

\* Progress is recorded in the row of one job.
LEMMA RecordFramed ==
    ASSUME TypeOK, NEW j \in Jobs, NEW n \in 0..MaxBatches, RecordProgress(j, n)
    PROVE  JobFramed(j)
<1>1. job[j] \in JobRow
  BY DEF TypeOK, JobRow
<1>0. job'[j] = [job[j] EXCEPT !.rows = n, !.ckpt = job[j].ckpt \/ Resumable[j]]
  BY RecordType
<1>2. job'[j].format = job[j].format
  BY <1>1, <1>0 DEF JobRow
<1> QED
  BY <1>2, RecordType DEF JobFramed

\* One operation moves.
LEMMA MoveFramed ==
    ASSUME TypeOK, NEW j \in Jobs, NEW target, MoveOp(j, target)
    PROVE  OpFramed(j)
BY MoveOpType DEF OpFramed

\* The steps of create and of start up to the spawn of the worker.
LEMMA StartFramed ==
    ASSUME TypeOK, ShapeInv, NEW c \in Callers, NEW j, j = call[c].job,
           \/ CreateInsert(c) \/ StartReadJob(c) \/ StartReadOp(c) \/ StartClaimJob(c)
           \/ StartClaimOp(c) \/ StartUndo(c) \/ UndoTx(c) \/ StartInsert(c) \/ StartLatest(c)
    PROVE  Framed(c, j)
<1>0. call[c].pc # "idle" /\ UNCHANGED outside
  BY DEF CreateInsert, StartReadJob, StartReadOp,
     StartClaimJob, StartClaimOp, StartUndo, UndoTx, StartInsert, StartLatest
<1> USE <1>0, CallOf, Unchanged DEF Framed
<1>1. CASE CreateInsert(c)
  <2>1. CallFramed(c) /\ UNCHANGED running
    BY <1>1, ReturnFramed DEF CreateInsert
  <2>2. CASE job' = [job EXCEPT ![j].state = "queued"] /\ UNCHANGED op
    <3>1. job' = [job EXCEPT ![j] = [job[j] EXCEPT !.state = "queued"]]
      BY <2>2
    <3>2. /\ [job[j] EXCEPT !.state = "queued"] \in JobRow
          /\ [job[j] EXCEPT !.state = "queued"].format = job[j].format
      BY DEF JobRow, JobStates
    <3>3. JobFramed(j)
      BY <3>1, <3>2 DEF JobFramed
    <3> QED
      BY <2>1, <2>2, <3>3
  <2>3. CASE MoveOp(j, "cancelled") /\ UNCHANGED job
    BY <2>1, <2>3, MoveFramed
  <2> QED
    BY <1>1, <2>2, <2>3 DEF CreateInsert
<1>2. CASE StartReadJob(c)
  <2>1. job[j].state \in JobStates \cup {"absent"} /\ "start_read_op" \in Pcs
    BY DEF JobRow, Pcs, OtherPcs
  <2>2. CallFramed(c)
    BY <1>2, <2>1, SnapFramed DEF StartReadJob
  <2> QED
    BY <1>2, <2>2 DEF StartReadJob
<1>3. CASE StartReadOp(c)
  <2>1. ASSUME call' = [call EXCEPT ![c].pc = "start_claim_job", ![c].snapOp = op[j].state]
        PROVE  CallFramed(c)
    <3>1. op[j].state \in States \cup {"absent"}
      BY DEF OpRow
    <3>2. /\ call'[c] = [call[c] EXCEPT !.pc = "start_claim_job", !.snapOp = op[j].state]
          /\ call' \in [Callers -> Calls]
          /\ \A d \in Callers : d # c => call'[d] = call[d]
      BY <3>1, <2>1, ReadOpType
    <3>3. call'[c].job = j /\ call'[c].pc = "start_claim_job"
      BY <3>2 DEF Calls
    <3> QED
      BY <3>2, <3>3 DEF CallFramed
  <2> QED
    BY <1>3, <2>1, ReturnFramed DEF StartReadOp
<1>4. CASE StartClaimJob(c)
  <2>1. ASSUME call' = [call EXCEPT ![c].pc = "start_claim_op", ![c].batch = job[j].rows]
        PROVE  CallFramed(c)
    <3>1. job[j].rows \in 0..MaxBatches /\ "start_claim_op" \in Pcs
      BY DEF JobRow, Pcs, StartPcs
    <3> QED
      BY <3>1, <2>1, BatchFramed
  <2>2. CallFramed(c)
    BY <1>4, <2>1, ReturnFramed DEF StartClaimJob
  <2>3. JobFramed(j)
    BY <1>4, CasFramed DEF StartClaimJob, JobStates, JobKeeps
  <2> QED
    BY <1>4, <2>2, <2>3 DEF StartClaimJob
<1>5. CASE StartClaimOp(c)
  <2>1. CallFramed(c)
    BY <1>5, GotoFramed DEF StartClaimOp, Pcs, StartPcs
  <2>2. runtime \in 0..MaxRuntime /\ "executing" \in States /\ "expired" \in States
    BY DEF TypeOK, States, TerminalStates
  <2>3. /\ [op[j] EXCEPT !.state = "executing"] \in OpRow
        /\ [op[j] EXCEPT !.state = "expired"] \in OpRow
        /\ [op[j] EXCEPT !.runtime = runtime] \in OpRow
    BY <2>2 DEF OpRow
  <2>4. \/ op' = [op EXCEPT ![j] = [op[j] EXCEPT !.state = "executing"]]
        \/ op' = [op EXCEPT ![j] = [op[j] EXCEPT !.state = "expired"]]
        \/ op' = [op EXCEPT ![j] = [op[j] EXCEPT !.runtime = runtime]]
        \/ op' = op
    BY <1>5 DEF StartClaimOp
  <2>5. OpFramed(j)
    BY <2>3, <2>4 DEF OpFramed
  <2> QED
    BY <1>5, <2>1, <2>5 DEF StartClaimOp
<1>6. CASE StartUndo(c)
  BY <1>6, GotoFramed DEF StartUndo, Pcs, FinishPcs, StartPcs
<1>7. CASE UndoTx(c)
  BY <1>7, CasFramed, ReturnFramed DEF UndoTx, UndoTarget, JobStates, JobKeeps
<1>8. CASE StartInsert(c)
  <2>1. RunningFramed(j)
    BY <1>8 DEF StartInsert, RunningFramed, TypeOK
  <2> QED
    BY <1>8, <2>1, GotoFramed DEF StartInsert, Pcs, StartPcs
<1>9. CASE StartLatest(c)
  <2>1. RunningFramed(j)
    <3>1. running' = [running EXCEPT ![j] = None] \/ running' = running
      BY <1>9 DEF StartLatest
    <3> QED
      BY <3>1 DEF RunningFramed, TypeOK
  <2>2. ASSUME NEW p \in BOOLEAN,
               call' = [call EXCEPT ![c].pc = "worker_wait", ![c].worker = TRUE, ![c].stop = @ \/ p]
        PROVE  CallFramed(c)
    <3>1. /\ call'[c] = [call[c] EXCEPT !.pc = "worker_wait", !.worker = TRUE,
                                        !.stop = call[c].stop \/ p]
          /\ call' \in [Callers -> Calls]
          /\ \A d \in Callers : d # c => call'[d] = call[d]
      BY <2>2, SpawnType
    <3>2. call'[c].job = j /\ call'[c].pc = "worker_wait"
      BY <3>1 DEF Calls
    <3> QED
      BY <3>1, <3>2 DEF CallFramed
  <2>3. (job[j].state = "running" /\ job[j].pause) \in BOOLEAN
    OBVIOUS
  <2>4. CallFramed(c)
    <3>1. CASE job[j].state = "cancel_requested"
      BY <1>9, <3>1, GotoFramed DEF StartLatest, Pcs, FinishPcs
    <3>2. CASE job[j].state # "cancel_requested"
      <4>1. call' = [call EXCEPT ![c].pc = "worker_wait", ![c].worker = TRUE,
                       ![c].stop = @ \/ (job[j].state = "running" /\ job[j].pause)]
        BY <1>9, <3>2 DEF StartLatest
      <4> QED
        BY <4>1, <2>2, <2>3
    <3> QED
      BY <3>1, <3>2
  <2> QED
    BY <1>9, <2>1, <2>4 DEF StartLatest
<1> QED
  BY <1>1, <1>2, <1>3, <1>4, <1>5, <1>6, <1>7, <1>8, <1>9

\* One more batch reaches the target.
LEMMA AppliedFrame ==
    ASSUME TypeOK, NEW j \in Jobs, NEW b \in Batches, applied' = Applied(j, b)
    PROVE  /\ AppliedFramed(j)
           /\ applied'[j][b] = applied[j][b] + 1
           /\ \A e \in Batches : e # b => applied'[j][e] = applied[j][e]
<1>1. applied' = [applied EXCEPT ![j] = [applied[j] EXCEPT ![b] = applied[j][b] + 1]]
  BY DEF Applied
<1>2. applied[j] \in [Batches -> Nat]
  BY DEF TypeOK
<1>3. [applied[j] EXCEPT ![b] = applied[j][b] + 1] \in [Batches -> Nat]
  BY <1>2
<1> QED
  BY <1>1, <1>2, <1>3 DEF AppliedFramed, TypeOK

\* The steps of a worker.
LEMMA WorkerFramed ==
    ASSUME TypeOK, ShapeInv, NEW c \in Callers, NEW j, j = call[c].job,
           \/ WorkerBegin(c) \/ WorkerError(c) \/ WorkerTotals(c) \/ WorkerNext(c) \/ WorkerBatch(c)
           \/ WorkerProgress(c) \/ WorkerStop(c) \/ StopOutcome(c) \/ WorkerDone(c) \/ WorkerFinal(c)
    PROVE  Framed(c, j)
<1>0. call[c].pc # "idle" /\ UNCHANGED <<op, running>>
  BY DEF WorkerBegin, WorkerError, WorkerTotals, WorkerNext, WorkerBatch, WorkerProgress,
     WorkerStop, StopOutcome, WorkerDone, WorkerFinal, rows
<1>a. {"complete", "totals", "work", "batch", "progress", "final", "stop_outcome"}
          \subseteq Pcs \ {"idle", "create_insert"}
  BY DEF Pcs, WorkerPcs
<1> USE <1>0, <1>a, CallOf, Unchanged DEF Framed
<1>1. CASE WorkerBegin(c)
  <2>1. CallFramed(c)
    BY <1>1, GotoFramed, OutFramed DEF WorkerBegin
  <2>2. \/ applied' = [applied EXCEPT ![j] = [b \in Batches |-> 0]]
        \/ applied' = applied
    BY <1>1 DEF WorkerBegin
  <2>3. AppliedFramed(j)
    <3>1. [b \in Batches |-> 0] \in [Batches -> Nat]
      OBVIOUS
    <3>2. ASSUME NEW z \in [Batches -> Nat], applied' = [applied EXCEPT ![j] = z]
          PROVE  AppliedFramed(j)
      BY <3>2 DEF AppliedFramed, TypeOK
    <3> QED
      BY <2>2, <3>1, <3>2
  <2> QED
    BY <1>1, <2>1, <2>3 DEF WorkerBegin
<1>2. CASE WorkerError(c)
  BY <1>2, OutFramed DEF WorkerError
<1>3. CASE WorkerTotals(c)
  BY <1>3, GotoFramed DEF WorkerTotals
<1>4. CASE WorkerNext(c)
  BY <1>4, GotoFramed DEF WorkerNext
<1>5. CASE WorkerBatch(c)
  <2>1. call[c].batch + 1 \in Batches
    BY <1>5, JobConstantsAssumption DEF WorkerBatch, ShapeInv, ShapeOf, Batches, Calls
  <2>2. applied' = Applied(j, call[c].batch + 1) \/ applied' = applied
    BY <1>5 DEF WorkerBatch
  <2>3. AppliedFramed(j)
    BY <2>1, <2>2, AppliedFrame
  <2>4. CallFramed(c)
    BY <1>5, GotoFramed, OutFramed DEF WorkerBatch
  <2> QED
    BY <1>5, <2>3, <2>4 DEF WorkerBatch
<1>6. CASE WorkerProgress(c)
  <2>1. call[c].batch + 1 \in 0..MaxBatches
    BY <1>6, JobConstantsAssumption DEF WorkerProgress, ShapeInv, ShapeOf, Calls
  <2>2. JobFramed(j)
    BY <1>6, <2>1, RecordFramed DEF WorkerProgress, ProgressRefused
  <2>3. CallFramed(c)
    BY <1>6, <2>1, BatchFramed, OutFramed DEF WorkerProgress
  <2> QED
    BY <1>6, <2>2, <2>3 DEF WorkerProgress
<1>7. CASE WorkerStop(c)
  <2>1. call[c].batch \in 0..MaxBatches
    BY DEF Calls
  <2>2. JobFramed(j)
    BY <1>7, <2>1, RecordFramed DEF WorkerStop, ProgressRefused
  <2>3. CallFramed(c)
    BY <1>7, GotoFramed, OutFramed DEF WorkerStop
  <2> QED
    BY <1>7, <2>2, <2>3 DEF WorkerStop
<1>8. CASE StopOutcome(c)
  <2>1. PICK o \in {"paused", "cancelled", "failed"} :
           call' = [call EXCEPT ![c].pc = "complete", ![c].out = o]
    BY <1>8 DEF StopOutcome
  <2>2. CallFramed(c)
    BY <2>1, OutFramed
  <2> QED
    BY <1>8, <2>2 DEF StopOutcome
<1>9. CASE WorkerDone(c)
  <2>1. CallFramed(c)
    BY <1>9, GotoFramed, OutFramed DEF WorkerDone
  <2>2. published' = [published EXCEPT ![j] = TRUE] \/ published' = published
    BY <1>9 DEF WorkerDone
  <2>3. PublishedFramed(j)
    BY <2>2 DEF PublishedFramed, TypeOK
  <2> QED
    BY <1>9, <2>1, <2>3 DEF WorkerDone
<1>10. CASE WorkerFinal(c)
  <2>1. PICK o \in {"succeeded", "failed"} :
           call' = [call EXCEPT ![c].pc = "complete", ![c].out = o]
    BY <1>10 DEF WorkerFinal
  <2>2. CallFramed(c)
    BY <2>1, OutFramed
  <2> QED
    BY <1>10, <2>2 DEF WorkerFinal
<1> QED
  BY <1>1, <1>2, <1>3, <1>4, <1>5, <1>6, <1>7, <1>8, <1>9, <1>10

\* The steps that finish a job, and those of pause and cancel.
LEMMA FinishFramed ==
    ASSUME TypeOK, ShapeInv, NEW c \in Callers, NEW j, j = call[c].job,
           \/ FinishCancelledJob(c) \/ FinishCancelledOp(c)
           \/ Complete(c) \/ PauseLost(c) \/ CloseOp(c) \/ RemoveRunning(c)
           \/ PauseToken(c) \/ CancelChoose(c) \/ CancelRequest(c) \/ CancelSignal(c) \/ CancelOp(c)
    PROVE  Framed(c, j)
<1>0. call[c].pc # "idle" /\ UNCHANGED outside
  BY DEF FinishCancelledJob, FinishCancelledOp, Complete, PauseLost, CloseOp, RemoveRunning,
     PauseToken, CancelChoose, CancelRequest, CancelSignal, CancelOp
<1>a. {"fc_job", "fc_op", "remove", "close_op", "pause_lost", "cancel_tx", "cancel_token", "cancel_op"}
          \subseteq Pcs \ {"idle", "create_insert"}
  BY DEF Pcs, WorkerPcs, FinishPcs, OtherPcs
<1>b. {"cancelled", "cancel_requested", "succeeded", "failed", "paused"} \subseteq JobStates
  BY DEF JobStates, JobTerminal
<1> USE <1>0, <1>a, <1>b, CallOf, Unchanged DEF Framed
<1>1. CASE FinishCancelledJob(c)
  <2>1. CallFramed(c)
    BY <1>1, GotoFramed, EndFramed DEF FinishCancelledJob
  <2> QED
    BY <1>1, <2>1, CasFramed DEF FinishCancelledJob, JobKeeps
<1>2. CASE FinishCancelledOp(c)
  BY <1>2, EndFramed, MoveFramed DEF FinishCancelledOp
<1>3. CASE Complete(c)
  <2>1. CallFramed(c)
    BY <1>3, GotoFramed DEF Complete
  <2>2. FinishState(call[c].out) \in JobStates
    BY <1>3 DEF Complete, FinishState, ShapeInv, ShapeOf, Calls
  <2>3. JobFramed(j)
    BY <1>3, <2>2, CasFramed DEF Complete, JobKeeps
  <2> QED
    BY <1>3, <2>1, <2>3 DEF Complete
<1>4. CASE PauseLost(c)
  BY <1>4, GotoFramed DEF PauseLost
<1>5. CASE CloseOp(c)
  BY <1>5, GotoFramed, MoveFramed DEF CloseOp
<1>6. CASE RemoveRunning(c)
  <2>1. RunningFramed(j)
    BY <1>6 DEF RemoveRunning, RunningFramed, TypeOK
  <2> QED
    BY <1>6, <2>1, ReturnFramed DEF RemoveRunning
<1>7. CASE PauseToken(c)
  BY <1>7, TokenFramed DEF PauseToken
<1>8. CASE CancelChoose(c)
  <2>1. job[j].state \in JobStates \cup {"absent"}
    BY DEF JobRow
  <2>2. CallFramed(c)
    BY <1>8, <2>1, SnapFramed DEF CancelChoose
  <2> QED
    BY <1>8, <2>2 DEF CancelChoose
<1>9. CASE CancelRequest(c)
  <2>1. CallFramed(c)
    BY <1>9, SnapFramed, ReturnFramed DEF CancelRequest
  <2>2. JobFramed(j)
    BY <1>9, CasFramed DEF CancelRequest, JobKeeps
  <2> QED
    BY <1>9, <2>1, <2>2 DEF CancelRequest
<1>10. CASE CancelSignal(c)
  BY <1>10, TokenFramed, GotoFramed DEF CancelSignal
<1>11. CASE CancelOp(c)
  <2>1. CallFramed(c)
    BY <1>11, GotoFramed, ReturnFramed DEF CancelOp
  <2> QED
    BY <1>11, <2>1, MoveFramed DEF CancelOp
<1> QED
  BY <1>1, <1>2, <1>3, <1>4, <1>5, <1>6, <1>7, <1>8, <1>9, <1>10, <1>11

\* A step of a call.
LEMMA CallStepFramed ==
    ASSUME TypeOK, ShapeInv, NEW c \in Callers, CallStep(c)
    PROVE  /\ call[c].pc # "idle" /\ call[c].job \in Jobs
           /\ Framed(c, call[c].job)
           /\ UNCHANGED <<gate, retried>>
<1>1. call[c].pc # "idle" /\ UNCHANGED <<gate, retried>>
  BY DEF CallStep, CreateInsert, StartReadJob, StartReadOp,
     StartClaimJob, StartClaimOp, StartUndo, UndoTx, StartInsert, StartLatest,
     WorkerBegin, WorkerError, WorkerTotals, WorkerNext, WorkerBatch, WorkerProgress,
     WorkerStop, StopOutcome, WorkerDone, WorkerFinal,
     FinishCancelledJob, FinishCancelledOp, Complete, PauseLost, CloseOp, RemoveRunning,
     PauseToken, CancelChoose, CancelRequest, CancelSignal, CancelOp
<1>2. call[c].job \in Jobs
  BY <1>1, CallOf
<1> QED
  BY <1>1, <1>2, StartFramed, WorkerFramed, FinishFramed DEF CallStep

\* A new call on the job j, which changes nothing but the row of this job.
Entered(c, j, pc) ==
    /\ phase = "up" /\ call[c].pc = "idle"
    /\ call' \in [Callers -> Calls]
    /\ call'[c].pc = pc /\ call'[c].job = j
    /\ call'[c].snapJob = "none" /\ call'[c].out = "none"
    /\ ~call'[c].stop /\ ~call'[c].worker
    /\ \A d \in Callers : d # c => call'[d] = call[d]
    /\ JobFramed(j) /\ OpFramed(j)
    /\ UNCHANGED <<running, gate, outside, retried>>

\* A call that begins, and leaves the variables it does not name.
LEMMA EnterFramed ==
    ASSUME TypeOK, NEW c \in Callers, NEW j \in Jobs,
           NEW pc \in {"create_insert", "start_read_job", "cancel_req", "pause_token"},
           Enter(c, j, pc), JobFramed(j), OpFramed(j),
           UNCHANGED <<running, gate, outside, retried>>
    PROVE  Entered(c, j, pc)
<1>1. pc \in Pcs
  BY DEF Pcs, OtherPcs
<1> QED
  BY <1>1, EnterType DEF Entered

\* The calls that begin.
LEMMA Entering ==
    ASSUME TypeOK, NEW c \in Callers, NEW j \in Jobs
    PROVE  /\ CreatePlan(c, j) =>
                 /\ Entered(c, j, "create_insert") /\ UNCHANGED job
                 /\ op[j].state = "absent" /\ op'[j].state \in {"pending_approval", "ready"}
           /\ StartCheck(c, j) =>
                 Entered(c, j, "start_read_job") /\ UNCHANGED rows /\ job[j].state # "absent"
           /\ CancelRead(c, j) =>
                 /\ Entered(c, j, "cancel_req") /\ UNCHANGED rows
                 /\ job[j].state \in {"queued", "running", "paused"}
           /\ PauseRequest(c, j) =>
                 /\ Entered(c, j, "pause_token") /\ UNCHANGED op
                 /\ Resumable[j] /\ job[j].state = "running"
                 /\ job'[j] = [job[j] EXCEPT !.pause = TRUE]
<1>2. /\ job[j] \in JobRow /\ job \in [Jobs -> JobRow]
      /\ op[j] \in OpRow /\ op \in [Jobs -> OpRow] /\ runtime \in 0..MaxRuntime
  BY DEF TypeOK, JobRow, OpRow
<1>3. ASSUME CreatePlan(c, j)
      PROVE  /\ Entered(c, j, "create_insert") /\ UNCHANGED job
             /\ op[j].state = "absent" /\ op'[j].state \in {"pending_approval", "ready"}
  <2>1. PICK s \in {"pending_approval", "ready"} :
           op' = [op EXCEPT ![j] = [state |-> s, runtime |-> runtime]]
    BY <1>3 DEF CreatePlan
  <2>2. [state |-> s, runtime |-> runtime] \in OpRow
    BY <1>2 DEF OpRow, States
  <2>3. OpFramed(j) /\ op'[j].state \in {"pending_approval", "ready"}
    BY <1>2, <2>1, <2>2 DEF OpFramed
  <2> QED
    BY <1>3, <2>3, EnterFramed, Unchanged DEF CreatePlan
<1>4. ASSUME StartCheck(c, j)
      PROVE  Entered(c, j, "start_read_job") /\ UNCHANGED rows /\ job[j].state # "absent"
  BY <1>4, EnterFramed, Unchanged DEF StartCheck, rows
<1>5. ASSUME CancelRead(c, j)
      PROVE  /\ Entered(c, j, "cancel_req") /\ UNCHANGED rows
             /\ job[j].state \in {"queued", "running", "paused"}
  BY <1>5, EnterFramed, Unchanged DEF CancelRead, rows
<1>6. ASSUME PauseRequest(c, j)
      PROVE  /\ Entered(c, j, "pause_token") /\ UNCHANGED op
             /\ Resumable[j] /\ job[j].state = "running"
             /\ job'[j] = [job[j] EXCEPT !.pause = TRUE]
  <2>1. job' = [job EXCEPT ![j] = [job[j] EXCEPT !.pause = TRUE]]
    BY <1>6, <1>2 DEF PauseRequest
  <2>2. /\ [job[j] EXCEPT !.pause = TRUE] \in JobRow
        /\ [job[j] EXCEPT !.pause = TRUE].format = job[j].format
    BY <1>2 DEF JobRow
  <2>3. JobFramed(j) /\ job'[j] = [job[j] EXCEPT !.pause = TRUE]
    BY <1>2, <2>1, <2>2 DEF JobFramed
  <2> QED
    BY <1>6, <2>3, EnterFramed, Unchanged DEF PauseRequest
<1> QED
  BY <1>3, <1>4, <1>5, <1>6

\* The decision on an import plan moves one operation.
LEMMA Deciding ==
    ASSUME TypeOK, NEW j \in Jobs, NEW d \in {"approved", "rejected"}, DecideImport(j, d)
    PROVE  /\ OpFramed(j) /\ UNCHANGED <<job, running, call, gate, outside, retried>>
           /\ op[j].state = "pending_approval" /\ op'[j].state = d
<1>1. op[j] \in OpRow /\ op \in [Jobs -> OpRow]
  BY DEF TypeOK, OpRow
<1>2. op' = [op EXCEPT ![j].state = d]
  BY DEF DecideImport, MoveOp
<1>3. op' = [op EXCEPT ![j] = [op[j] EXCEPT !.state = d]]
  BY <1>1, <1>2
<1>4. op'[j].state = d
  BY <1>1, <1>3 DEF OpRow
<1> QED
  BY <1>4, MoveFramed DEF DecideImport

\* Recovery touches the rows and its own lists; no call runs.
RecoveryFramed ==
    /\ job' \in [Jobs -> JobRow] /\ \A j \in Jobs : job'[j].format = job[j].format
    /\ op' \in [Jobs -> OpRow]
    /\ phase' \in {"ledger", "exports", "queued", "paused", "up", "failed"}
    /\ todo' \in SUBSET Jobs /\ closing' \in SUBSET Jobs
    /\ UNCHANGED <<running, call, runtime, outside, retried>>
    /\ phase # "up" /\ phase # "failed"

\* What a job looks like after the ledger was recovered.
LEMMA LedgerRow ==
    ASSUME TypeOK, RecoverLedger, NEW j \in Jobs
    PROVE  /\ job'[j] \in JobRow /\ job'[j].format = job[j].format
           /\ job'[j].rows = job[j].rows /\ job'[j].ckpt = job[j].ckpt
           /\ job[j].state \notin Executing => job'[j] = job[j]
           /\ job[j].state \in Executing =>
                 job'[j].state = InterruptedState(j) /\ ~job'[j].pause
<1>1. job[j] \in JobRow
  BY DEF TypeOK, JobRow
<1>2. job'[j] = IF job[j].state \in Executing
                  THEN [job[j] EXCEPT !.state = InterruptedState(j), !.pause = FALSE]
                  ELSE job[j]
  BY DEF RecoverLedger
<1>3. InterruptedState(j) \in {"paused", "failed"}
  BY DEF InterruptedState
<1>4. CASE job[j].state \in Executing
  <2>1. job'[j] = [job[j] EXCEPT !.state = InterruptedState(j), !.pause = FALSE]
    BY <1>2, <1>4
  <2> QED
    BY <1>1, <1>3, <1>4, <2>1 DEF JobRow, JobStates, JobTerminal
<1> QED
  BY <1>1, <1>2, <1>4

\* fail_interrupted_export leaves a failed operation.
LEMMA FailExportType ==
    ASSUME TypeOK, NEW j \in Jobs, FailInterruptedExport(j)
    PROVE  OpFramed(j) /\ op'[j].state = "failed"
<1>1. [state |-> "failed", runtime |-> runtime] \in OpRow
  BY DEF TypeOK, OpRow, States, TerminalStates
<1>2. op \in [Jobs -> OpRow]
  BY DEF TypeOK, OpRow
<1> QED
  BY <1>1, <1>2 DEF FailInterruptedExport, OpFramed

\* Giving an operation to the new process keeps its state.
LEMMA RebindType ==
    ASSUME TypeOK, NEW j \in Jobs, op' = [op EXCEPT ![j].runtime = runtime]
    PROVE  OpFramed(j) /\ op'[j].state = op[j].state
<1>1. op \in [Jobs -> OpRow] /\ op[j] \in OpRow /\ runtime \in 0..MaxRuntime
  BY DEF TypeOK, OpRow
<1>2. op' = [op EXCEPT ![j] = [op[j] EXCEPT !.runtime = runtime]]
  BY <1>1
<1>3. [op[j] EXCEPT !.runtime = runtime] \in OpRow /\ [op[j] EXCEPT !.runtime = runtime].state = op[j].state
  BY <1>1 DEF OpRow
<1> QED
  BY <1>1, <1>2, <1>3 DEF OpFramed

\* Every step of the recovery.
LEMMA RecoveryFrame ==
    ASSUME TypeOK, RecoveryStep
    PROVE  RecoveryFramed
<1>0. \A j \in Jobs : job[j] \in JobRow
  BY DEF TypeOK, JobRow
<1>1. CASE RecoverLedger
  <2>1. \A j \in Jobs : job'[j] \in JobRow /\ job'[j].format = job[j].format
    BY <1>1, LedgerRow
  <2>2. job' = [j \in Jobs |-> job'[j]]
    BY <1>1 DEF RecoverLedger
  <2>3. job' \in [Jobs -> JobRow]
    BY <2>1, <2>2
  <2> QED
    BY <1>1, <2>1, <2>3 DEF RecoverLedger, RecoveryFramed, TypeOK, OpRow
<1>2. CASE RecoverNextLoop
  <2>1. phase' \in {"queued", "paused", "up"}
    BY <1>2 DEF RecoverNextLoop
  <2>2. UNCHANGED <<job, op, closing>> /\ todo' \in SUBSET Jobs /\ phase \in {"exports", "queued", "paused"}
    BY <1>2 DEF RecoverNextLoop, rows
  <2>3. UNCHANGED <<running, call, runtime, outside, retried>>
    BY <1>2 DEF RecoverNextLoop
  <2> QED
    BY <2>1, <2>2, <2>3 DEF RecoveryFramed, TypeOK, JobRow, OpRow
<1>3. ASSUME NEW j \in Jobs,
             RecoverExport(j) \/ RecoverQueued(j) \/ RecoverPaused(j) \/ RecoverPausedOp(j)
      PROVE  RecoveryFramed
  <2>1. /\ phase \in {"exports", "queued", "paused"} /\ phase' \in {phase, "failed"}
        /\ todo' \in SUBSET todo
        /\ UNCHANGED <<running, call, runtime, outside, retried>>
    BY <1>3 DEF RecoverExport, RecoverQueued, RecoverPaused, RecoverPausedOp, RecoveryFails,
       RebindPending
  <2>2. closing' \in SUBSET Jobs
    BY <1>3 DEF RecoverExport, RecoverQueued, RecoverPaused, RecoverPausedOp, RecoveryFails,
       RebindPending, TypeOK
  <2>3. UNCHANGED op \/ FailInterruptedExport(j) \/ op' = [op EXCEPT ![j].runtime = runtime]
    BY <1>3 DEF RecoverExport, RecoverQueued, RecoverPaused, RecoverPausedOp, RecoveryFails,
       RebindPending, rows
  <2>4. UNCHANGED job \/ \E from : \E to \in {"cancelled", "failed"} : JobCas(j, from, to)
    BY <1>3 DEF RecoverExport, RecoverQueued, RecoverPaused, RecoverPausedOp, RecoveryFails,
       RebindPending, rows
  <2>5. OpFramed(j)
    BY <2>3, FailExportType, RebindType, Unchanged
  <2>6. JobFramed(j)
    BY <2>4, CasFramed, Unchanged DEF JobStates, JobTerminal
  <2>7. \A k \in Jobs : job'[k].format = job[k].format
    BY <2>6 DEF JobFramed
  <2> QED
    BY <2>1, <2>2, <2>5, <2>6, <2>7 DEF RecoveryFramed, OpFramed, JobFramed, TypeOK
<1> QED
  BY <1>1, <1>2, <1>3 DEF RecoveryStep

\* Of the batches that were on their way when the process died at most one
\* belongs to a job, the next one of its owner.
LEMMA Landing ==
    ASSUME TypeOK, OwnerInv, NEW S \in SUBSET InFlight, applied' = Landed(S), NEW j \in Jobs
    PROVE  /\ applied'[j] \in [Batches -> Nat]
           /\ \A b \in Batches :
                 \/ applied'[j][b] = applied[j][b]
                 \/ /\ applied'[j][b] = applied[j][b] + 1
                    /\ \E c \in Callers : /\ call[c].pc = "batch" /\ call[c].job = j
                                          /\ call[c].batch + 1 = b /\ JobKind[j] = "import"
<1> DEFINE L(b) == {c \in S : call[c].job = j /\ call[c].batch + 1 = b}
<1>1. applied'[j] = [b \in Batches |-> applied[j][b] + Cardinality(L(b))]
  BY DEF Landed
<1>2. applied[j] \in [Batches -> Nat]
  BY DEF TypeOK
<1>3. ASSUME NEW b \in Batches
      PROVE  \/ Cardinality(L(b)) = 0
             \/ /\ Cardinality(L(b)) = 1
                /\ \E c \in Callers : /\ call[c].pc = "batch" /\ call[c].job = j
                                      /\ call[c].batch + 1 = b /\ JobKind[j] = "import"
  <2>1. CASE L(b) = {}
    BY <2>1, FS_EmptySet
  <2>2. CASE L(b) # {}
    <3>1. PICK c : c \in L(b)
      BY <2>2
    <3>2. /\ c \in Callers /\ call[c].pc = "batch" /\ call[c].job = j
          /\ call[c].batch + 1 = b /\ JobKind[j] = "import"
      BY <3>1 DEF InFlight
    <3>3. \A d \in L(b) : d \in Callers /\ call[d].pc = "batch" /\ call[d].job = j
      BY DEF InFlight
    <3>4. \A d \in L(b) : d = c
      BY <3>2, <3>3 DEF OwnerInv, Owns, OwnerPcs
    <3>5. L(b) = {c}
      BY <3>1, <3>4
    <3> QED
      BY <3>2, <3>5, FS_Singleton
  <2> QED
    BY <2>1, <2>2
<1>4. \A b \in Batches : applied'[j][b] = applied[j][b] + Cardinality(L(b))
  BY <1>1
<1>5. \A b \in Batches : Cardinality(L(b)) \in Nat
  BY <1>3
<1>6. applied'[j] \in [Batches -> Nat]
  <2> HIDE DEF L
  <2> QED
    BY <1>1, <1>2, <1>5
<1> HIDE DEF L
<1> QED
  BY <1>2, <1>3, <1>4, <1>6

\* What the startup recovery of the Operation Runtime makes of a job's operation.
LEMMA RestartOp ==
    ASSUME TypeOK, Restart, NEW j \in Jobs
    PROVE  /\ op'[j] \in OpRow
           /\ op'[j].state = "absent" <=> op[j].state = "absent"
           /\ \A s \in {"succeeded", "failed"} : op'[j].state = s => op[j].state = s
<1>0. op[j] \in OpRow /\ job[j] \in JobRow
  BY DEF TypeOK, OpRow, JobRow
<1>1. JobKind[j] \in {"import", "export"}
  BY <1>0, JobConstantsAssumption DEF JobRow, JobKind
<1>2. op'[j] = IF op[j].state = "absent" THEN op[j]
               ELSE [op[j] EXCEPT !.state = RestartRecovery(JobKind[j], op[j].state)]
  BY DEF Restart
<1>3. CASE op[j].state = "absent"
  BY <1>0, <1>2, <1>3
<1>4. CASE op[j].state # "absent"
  <2>1. op[j].state \in States
    BY <1>0, <1>4 DEF OpRow
  <2>2. PICK s : s = RestartRecovery(JobKind[j], op[j].state)
    OBVIOUS
  <2>3. s \in States /\ \A t \in {"succeeded", "failed"} : s = t => op[j].state = t
    BY <1>1, <2>1, <2>2 DEF RestartRecovery, IsTerminal, States, TerminalStates
  <2>4. op'[j] = [op[j] EXCEPT !.state = s]
    BY <1>2, <1>4, <2>2
  <2>5. op'[j] \in OpRow /\ op'[j].state = s
    BY <1>0, <2>3, <2>4 DEF OpRow
  <2>6. s # "absent"
    BY <2>3 DEF States, TerminalStates
  <2> QED
    BY <1>4, <2>3, <2>5, <2>6
<1> QED
  BY <1>3, <1>4

\* After a restart every process has its type.
LEMMA RestartFrame ==
    ASSUME TypeOK, OwnerInv, Restart
    PROVE  /\ TypeOK'
           /\ \A c \in Callers : call'[c] = IdleCall
           /\ \A j \in Jobs : running'[j] = None
           /\ phase' = "ledger" /\ todo' = {} /\ closing' = {}
           /\ UNCHANGED <<job, published>>
<1>1. op' = [j \in Jobs |-> op'[j]] /\ \A j \in Jobs : op'[j] \in OpRow
  BY RestartOp DEF Restart
<1>2. op' \in [Jobs -> OpRow]
  BY <1>1
<1>3. PICK S \in SUBSET InFlight : applied' = Landed(S)
  BY DEF Restart
<1>4. applied' = [j \in Jobs |-> applied'[j]] /\ \A j \in Jobs : applied'[j] \in [Batches -> Nat]
  BY <1>3, Landing DEF Landed
<1>5. applied' \in [Jobs -> [Batches -> Nat]]
  BY <1>4
<1>6. runtime' \in 0..MaxRuntime
  BY JobConstantsAssumption DEF Restart, TypeOK
<1>7. call' \in [Callers -> Calls] /\ \A c \in Callers : call'[c] = IdleCall
  BY IdleCallType DEF Restart
<1>8. running' \in [Jobs -> Callers \cup {None}] /\ \A j \in Jobs : running'[j] = None
  BY DEF Restart
<1>9. /\ phase' = "ledger" /\ todo' = {} /\ closing' = {}
      /\ UNCHANGED <<job, published>> /\ retried' \in BOOLEAN
  BY DEF Restart
<1> QED
  BY <1>2, <1>5, <1>6, <1>7, <1>8, <1>9 DEF TypeOK, OpRow

\* The initial states have their type.
LEMMA InitType == Init => TypeOK
<1> SUFFICES ASSUME Init PROVE TypeOK
  OBVIOUS
<1>1. PICK format \in [Jobs -> Formats] :
         job = [j \in Jobs |-> [state |-> "absent", pause |-> FALSE, rows |-> 0, ckpt |-> FALSE,
                                format |-> format[j]]]
  BY DEF Init
<1>2. job \in [Jobs -> JobRow]
  BY <1>1, JobConstantsAssumption DEF JobRow
<1>3. op \in [Jobs -> OpRow]
  BY JobConstantsAssumption DEF Init, OpRow
<1>4. call \in [Callers -> Calls]
  BY IdleCallType DEF Init
<1>5. runtime = 0 /\ phase = "up" /\ todo = {} /\ closing = {} /\ retried = FALSE
  BY DEF Init
<1>9. runtime \in 0..MaxRuntime
  BY <1>5, JobConstantsAssumption
<1>7. running \in [Jobs -> Callers \cup {None}]
  BY DEF Init
<1>8. published \in [Jobs -> BOOLEAN]
  BY DEF Init
<1>6. applied \in [Jobs -> [Batches -> Nat]]
  BY DEF Init
<1> QED
  BY <1>2, <1>3, <1>4, <1>5, <1>6, <1>7, <1>8, <1>9 DEF TypeOK, JobRow, OpRow

\* Every step keeps the type of every variable.
LEMMA NextType ==
    ASSUME TypeOK, ShapeInv, OwnerInv, [Next]_vars
    PROVE  TypeOK'
<1>1. ASSUME NEW c \in Callers, CallStep(c) PROVE TypeOK'
  BY <1>1, CallStepFramed DEF Framed, CallFramed, JobFramed, OpFramed, RunningFramed, AppliedFramed,
     PublishedFramed, TypeOK, JobRow, OpRow, gate
<1>2. ASSUME NEW c \in Callers, NEW j \in Jobs,
             CreatePlan(c, j) \/ StartCheck(c, j) \/ PauseRequest(c, j) \/ CancelRead(c, j)
      PROVE  TypeOK'
  <2>1. \E pc : Entered(c, j, pc)
    BY <1>2, Entering
  <2> QED
    BY <2>1 DEF Entered, JobFramed, OpFramed, TypeOK, JobRow, OpRow, gate, outside
<1>3. ASSUME NEW j \in Jobs, NEW d \in {"approved", "rejected"}, DecideImport(j, d)
      PROVE  TypeOK'
  BY <1>3, Deciding DEF OpFramed, TypeOK, JobRow, OpRow, gate, outside
<1>4. CASE RecoveryStep
  BY <1>4, RecoveryFrame DEF RecoveryFramed, TypeOK, JobRow, OpRow, outside
<1>5. CASE Restart
  BY <1>5, RestartFrame
<1>6. CASE UNCHANGED vars
  BY <1>6 DEF TypeOK, vars, rows, gate, outside
<1> QED
  BY <1>1, <1>2, <1>3, <1>4, <1>5, <1>6 DEF Next

-----------------------------------------------------------------------------
(* Effects of a step, field by field.                                      *)

\* The call moves to pc with these values.
MovedTo(c, pc, snap, stop, worker, batch, out) ==
    /\ call'[c].pc = pc /\ call'[c].job = call[c].job
    /\ call'[c].snapJob = snap /\ call'[c].stop = stop /\ call'[c].worker = worker
    /\ call'[c].batch = batch /\ call'[c].out = out

Moved(c, pc) ==
    MovedTo(c, pc, call[c].snapJob, call[c].stop, call[c].worker, call[c].batch, call[c].out)
MovedOut(c, out) ==
    MovedTo(c, "complete", call[c].snapJob, call[c].stop, call[c].worker, call[c].batch, out)
MovedSnap(c, pc, snap) ==
    MovedTo(c, pc, snap, call[c].stop, call[c].worker, call[c].batch, call[c].out)
MovedBatch(c, pc, n) ==
    MovedTo(c, pc, call[c].snapJob, call[c].stop, call[c].worker, n, call[c].out)
Idled(c) ==
    /\ call'[c].pc = "idle" /\ call'[c].job = None /\ call'[c].out = "none"
    /\ ~call'[c].stop /\ ~call'[c].worker

\* The assignments to the record of a call, read field by field.
LEMMA Moves ==
    ASSUME TypeOK, NEW c \in Callers
    PROVE  /\ \A pc : Goto(c, pc) => Moved(c, pc)
           /\ \A out : call' = [call EXCEPT ![c].pc = "complete", ![c].out = out] => MovedOut(c, out)
           /\ \A pc, s : call' = [call EXCEPT ![c].pc = pc, ![c].snapJob = s] => MovedSnap(c, pc, s)
           /\ \A pc, n : call' = [call EXCEPT ![c].pc = pc, ![c].batch = n] => MovedBatch(c, pc, n)
           /\ \A s : call' = [call EXCEPT ![c].pc = "start_claim_job", ![c].snapOp = s] =>
                        Moved(c, "start_claim_job")
           /\ \A p : call' = [call EXCEPT ![c].pc = "worker_wait", ![c].worker = TRUE,
                                          ![c].stop = @ \/ p] =>
                        MovedTo(c, "worker_wait", call[c].snapJob, call[c].stop \/ p, TRUE,
                                call[c].batch, call[c].out)
<1>0. call[c] \in Calls
  BY DEF TypeOK
<1>1. ASSUME NEW pc, Goto(c, pc) PROVE Moved(c, pc)
  <2>1. call'[c] = [call[c] EXCEPT !.pc = pc]
    BY <1>1 DEF Goto, TypeOK
  <2> QED
    BY <1>0, <2>1 DEF Moved, MovedTo, Calls
<1>2. ASSUME NEW out, call' = [call EXCEPT ![c].pc = "complete", ![c].out = out]
      PROVE  MovedOut(c, out)
  <2>1. call'[c] = [call[c] EXCEPT !.pc = "complete", !.out = out]
    BY <1>2 DEF TypeOK
  <2> QED
    BY <1>0, <2>1 DEF MovedOut, MovedTo, Calls
<1>3. ASSUME NEW pc, NEW s, call' = [call EXCEPT ![c].pc = pc, ![c].snapJob = s]
      PROVE  MovedSnap(c, pc, s)
  <2>1. call'[c] = [call[c] EXCEPT !.pc = pc, !.snapJob = s]
    BY <1>3 DEF TypeOK
  <2> QED
    BY <1>0, <2>1 DEF MovedSnap, MovedTo, Calls
<1>4. ASSUME NEW pc, NEW n, call' = [call EXCEPT ![c].pc = pc, ![c].batch = n]
      PROVE  MovedBatch(c, pc, n)
  <2>1. call'[c] = [call[c] EXCEPT !.pc = pc, !.batch = n]
    BY <1>4 DEF TypeOK
  <2> QED
    BY <1>0, <2>1 DEF MovedBatch, MovedTo, Calls
<1>5. ASSUME NEW s, call' = [call EXCEPT ![c].pc = "start_claim_job", ![c].snapOp = s]
      PROVE  Moved(c, "start_claim_job")
  <2>1. call'[c] = [call[c] EXCEPT !.pc = "start_claim_job", !.snapOp = s]
    BY <1>5 DEF TypeOK
  <2> QED
    BY <1>0, <2>1 DEF Moved, MovedTo, Calls
<1>6. ASSUME NEW p, call' = [call EXCEPT ![c].pc = "worker_wait", ![c].worker = TRUE, ![c].stop = @ \/ p]
      PROVE  MovedTo(c, "worker_wait", call[c].snapJob, call[c].stop \/ p, TRUE,
                     call[c].batch, call[c].out)
  <2>1. call'[c] = [call[c] EXCEPT !.pc = "worker_wait", !.worker = TRUE, !.stop = call[c].stop \/ p]
    BY <1>6 DEF TypeOK
  <2> QED
    BY <1>0, <2>1 DEF MovedTo, Calls
<1> QED
  BY <1>1, <1>2, <1>3, <1>4, <1>5, <1>6

\* A call that returns or ends keeps nothing, and its worker leaves the map.
LEMMA Returns ==
    ASSUME TypeOK, NEW c \in Callers
    PROVE  /\ call'[c] = IdleCall => Idled(c)
           /\ Return(c) => Idled(c)
           /\ End(c) => IF call[c].worker THEN Moved(c, "remove") ELSE Idled(c)
           /\ \A j \in Jobs : CancelToken(c, j) => Idled(c)
<1>1. call'[c] = IdleCall => Idled(c)
  BY DEF IdleCall, Idled
<1> QED
  BY <1>1, Moves, ReturnType, CancelTokenType DEF End

\* What a compare-and-swap, a refusal and recorded progress do to the row of a job.
CasTo(j, to) ==
    /\ job'[j].state = to /\ ~job'[j].pause
    /\ job'[j].rows = job[j].rows /\ job'[j].ckpt = job[j].ckpt

\* The assignments to the row of a job, read field by field.
LEMMA RowEffects ==
    ASSUME TypeOK, NEW j \in Jobs
    PROVE  /\ \A from, to : JobCas(j, from, to) => job[j].state \in from /\ CasTo(j, to)
           /\ \A n : RecordProgress(j, n) =>
                 /\ job[j].state \in Executing /\ job[j].rows <= n
                 /\ job'[j].rows = n /\ job'[j].ckpt = (job[j].ckpt \/ Resumable[j])
                 /\ job'[j].state = job[j].state /\ job'[j].pause = job[j].pause
           /\ job' = [job EXCEPT ![j].state = "queued"] =>
                 /\ job'[j].state = "queued" /\ job'[j].pause = job[j].pause
                 /\ job'[j].rows = job[j].rows /\ job'[j].ckpt = job[j].ckpt
<1>0. job[j] \in JobRow /\ job \in [Jobs -> JobRow]
  BY DEF TypeOK, JobRow
<1>1. ASSUME NEW from, NEW to, JobCas(j, from, to)
      PROVE  job[j].state \in from /\ CasTo(j, to)
  <2>1. job'[j] = [job[j] EXCEPT !.state = to, !.pause = FALSE]
    BY <1>0, <1>1 DEF JobCas
  <2> QED
    BY <1>0, <1>1, <2>1 DEF JobCas, JobRow, CasTo
<1>2. ASSUME NEW n, RecordProgress(j, n)
      PROVE  /\ job[j].state \in Executing /\ job[j].rows <= n
             /\ job'[j].rows = n /\ job'[j].ckpt = (job[j].ckpt \/ Resumable[j])
             /\ job'[j].state = job[j].state /\ job'[j].pause = job[j].pause
  <2>1. job'[j] = [job[j] EXCEPT !.rows = n, !.ckpt = job[j].ckpt \/ Resumable[j]]
    BY <1>0, <1>2 DEF RecordProgress
  <2> QED
    BY <1>0, <1>2, <2>1 DEF RecordProgress, JobRow
<1>3. ASSUME job' = [job EXCEPT ![j].state = "queued"]
      PROVE  /\ job'[j].state = "queued" /\ job'[j].pause = job[j].pause
             /\ job'[j].rows = job[j].rows /\ job'[j].ckpt = job[j].ckpt
  <2>1. job'[j] = [job[j] EXCEPT !.state = "queued"]
    BY <1>0, <1>3
  <2> QED
    BY <1>0, <2>1 DEF JobRow
<1> QED
  BY <1>1, <1>2, <1>3

\* The loops of the recovery follow one job at a time.
LEMMA RecoverEffects ==
    ASSUME TypeOK, NEW j \in Jobs,
           RecoverExport(j) \/ RecoverQueued(j) \/ RecoverPaused(j) \/ RecoverPausedOp(j)
    PROVE  /\ JobFramed(j) /\ OpFramed(j)
           /\ phase \in {"exports", "queued", "paused"}
           /\ \/ UNCHANGED job
              \/ /\ job[j].state \in {"queued", "paused"}
                 /\ CasTo(j, "cancelled") \/ CasTo(j, "failed")
           /\ \/ op'[j].state = op[j].state
              \/ /\ op'[j].state = "failed" /\ UNCHANGED job
                 /\ (phase = "exports" /\ j \in todo) \/ j \in closing
<1>1. /\ UNCHANGED op \/ FailInterruptedExport(j) \/ op' = [op EXCEPT ![j].runtime = runtime]
      /\ phase \in {"exports", "queued", "paused"}
  BY DEF RecoverExport, RecoverQueued, RecoverPaused, RecoverPausedOp, RecoveryFails,
     RebindPending, rows
<1>2. FailInterruptedExport(j) \/ op'[j].state = op[j].state
  BY <1>1, RebindType
<1>3. \/ UNCHANGED job \/ JobCas(j, {"queued"}, "cancelled") \/ JobCas(j, {"queued"}, "failed")
      \/ JobCas(j, {"paused"}, "failed")
  BY DEF RecoverExport, RecoverQueued, RecoverPaused, RecoverPausedOp, RecoveryFails,
     RebindPending, rows
<1>4. ASSUME op'[j].state # op[j].state
      PROVE  UNCHANGED job /\ ((phase = "exports" /\ j \in todo) \/ j \in closing)
  <2>1. CASE RecoverQueued(j)
    BY <1>4, <2>1, RebindType DEF RecoverQueued, RebindPending, RecoveryFails, rows
  <2>2. CASE RecoverPaused(j)
    BY <1>4, <2>2, RebindType DEF RecoverPaused
  <2> QED
    BY <1>4, <2>1, <2>2 DEF RecoverExport, RecoverPausedOp, RecoveryFails, rows
<1>5. OpFramed(j) /\ (FailInterruptedExport(j) => op'[j].state = "failed")
  BY <1>1, FailExportType, RebindType, Unchanged
<1>6. {"cancelled", "failed"} \subseteq JobStates
  BY DEF JobStates, JobTerminal
<1>7. JobFramed(j)
  BY <1>3, <1>6, CasFramed, Unchanged
<1>8. \/ UNCHANGED job
      \/ job[j].state \in {"queued", "paused"} /\ (CasTo(j, "cancelled") \/ CasTo(j, "failed"))
  <2>1. \A from, to : JobCas(j, from, to) => job[j].state \in from /\ CasTo(j, to)
    BY RowEffects
  <2> QED
    BY <1>3, <2>1
<1> QED
  BY <1>1, <1>2, <1>4, <1>5, <1>7, <1>8

\* What a step of c leaves of another call: everything but the flag of its token.
Untouched(c, d) ==
    /\ call'[d].pc = call[d].pc /\ call'[d].job = call[d].job
    /\ call'[d].snapJob = call[d].snapJob /\ call'[d].worker = call[d].worker
    /\ call'[d].batch = call[d].batch /\ call'[d].out = call[d].out
    /\ \/ call'[d].stop = call[d].stop
       \/ running[call[c].job] = d /\ call[c].pc \in {"pause_token", "cancel_token"}

\* A step of a call leaves the other calls where they are.
LEMMA OthersUntouched ==
    ASSUME TypeOK, NEW c \in Callers, CallFramed(c), NEW d \in Callers, d # c
    PROVE  Untouched(c, d)
<1>0. call[d] \in Calls
  BY DEF TypeOK
<1>1. CASE call'[d] = call[d]
  BY <1>1 DEF Untouched
<1>2. CASE /\ call'[d] = [call[d] EXCEPT !.stop = TRUE]
           /\ running[call[c].job] = d /\ call[c].pc \in {"pause_token", "cancel_token"}
  BY <1>0, <1>2 DEF Untouched, Calls
<1> QED
  BY <1>1, <1>2 DEF CallFramed

\* The steps of create and start.
LEMMA StartEffects ==
    ASSUME TypeOK, NEW c \in Callers, NEW j \in Jobs, j = call[c].job
    PROVE  /\ CreateInsert(c) =>
                 /\ call[c].pc = "create_insert" /\ Idled(c)
                 /\ UNCHANGED job \/ (UNCHANGED op /\ job' = [job EXCEPT ![j].state = "queued"])
           /\ StartReadJob(c) =>
                 /\ call[c].pc = "start_read_job" /\ MovedSnap(c, "start_read_op", job[j].state)
                 /\ UNCHANGED <<job, op>>
           /\ StartReadOp(c) =>
                 /\ call[c].pc = "start_read_op" /\ (Idled(c) \/ Moved(c, "start_claim_job"))
                 /\ UNCHANGED <<job, op>>
           /\ StartClaimJob(c) =>
                 /\ call[c].pc = "start_claim_job" /\ UNCHANGED op
                 /\ \/ /\ job[j].state \in {"queued", "paused"} /\ CasTo(j, "running")
                       /\ MovedBatch(c, "start_claim_op", job[j].rows)
                    \/ UNCHANGED job /\ Idled(c)
           /\ StartClaimOp(c) =>
                 /\ call[c].pc = "start_claim_op" /\ UNCHANGED job
                 /\ Moved(c, "start_insert") \/ Moved(c, "start_undo")
           /\ StartUndo(c) =>
                 /\ call[c].pc = "start_undo" /\ UNCHANGED <<job, op>>
                 /\ IF job[j].state = "cancel_requested" THEN Moved(c, "fc_job") ELSE Moved(c, "undo_tx")
           /\ UndoTx(c) =>
                 /\ call[c].pc = "undo_tx" /\ UNCHANGED op /\ Idled(c)
                 /\ \/ job[j].state = "running" /\ CasTo(j, UndoTarget(c))
                    \/ job[j].state # "running" /\ UNCHANGED job
           /\ StartInsert(c) =>
                 /\ call[c].pc = "start_insert" /\ UNCHANGED <<job, op>> /\ Moved(c, "start_latest")
                 /\ running'[j] = c
           /\ StartLatest(c) =>
                 /\ call[c].pc = "start_latest" /\ UNCHANGED <<job, op>>
                 /\ \/ /\ job[j].state = "cancel_requested" /\ running'[j] = None
                       /\ Moved(c, "fc_job")
                    \/ /\ job[j].state # "cancel_requested" /\ UNCHANGED running
                       /\ MovedTo(c, "worker_wait", call[c].snapJob,
                                  call[c].stop \/ (job[j].state = "running" /\ job[j].pause), TRUE,
                                  call[c].batch, call[c].out)
<1>1. ASSUME CreateInsert(c)
      PROVE  /\ call[c].pc = "create_insert" /\ Idled(c)
             /\ UNCHANGED job \/ (UNCHANGED op /\ job' = [job EXCEPT ![j].state = "queued"])
  BY <1>1, Returns DEF CreateInsert
<1>2. ASSUME StartReadJob(c)
      PROVE  /\ call[c].pc = "start_read_job" /\ MovedSnap(c, "start_read_op", job[j].state)
             /\ UNCHANGED <<job, op>>
  BY <1>2, Moves DEF StartReadJob, rows
<1>3. ASSUME StartReadOp(c)
      PROVE  /\ call[c].pc = "start_read_op" /\ (Idled(c) \/ Moved(c, "start_claim_job"))
             /\ UNCHANGED <<job, op>>
  BY <1>3, Moves, Returns DEF StartReadOp, rows
<1>4. ASSUME StartClaimJob(c)
      PROVE  /\ call[c].pc = "start_claim_job" /\ UNCHANGED op
             /\ \/ /\ job[j].state \in {"queued", "paused"} /\ CasTo(j, "running")
                   /\ MovedBatch(c, "start_claim_op", job[j].rows)
                \/ UNCHANGED job /\ Idled(c)
  BY <1>4, Moves, Returns, RowEffects DEF StartClaimJob, JobKeeps
<1>5. ASSUME StartClaimOp(c)
      PROVE  /\ call[c].pc = "start_claim_op" /\ UNCHANGED job
             /\ Moved(c, "start_insert") \/ Moved(c, "start_undo")
  BY <1>5, Moves DEF StartClaimOp
<1>6. ASSUME StartUndo(c)
      PROVE  /\ call[c].pc = "start_undo" /\ UNCHANGED <<job, op>>
             /\ IF job[j].state = "cancel_requested" THEN Moved(c, "fc_job") ELSE Moved(c, "undo_tx")
  BY <1>6, Moves DEF StartUndo, rows
<1>7. ASSUME UndoTx(c)
      PROVE  /\ call[c].pc = "undo_tx" /\ UNCHANGED op /\ Idled(c)
             /\ \/ job[j].state = "running" /\ CasTo(j, UndoTarget(c))
                \/ job[j].state # "running" /\ UNCHANGED job
  BY <1>7, Returns, RowEffects DEF UndoTx, JobKeeps
<1>8. ASSUME StartInsert(c)
      PROVE  /\ call[c].pc = "start_insert" /\ UNCHANGED <<job, op>> /\ Moved(c, "start_latest")
             /\ running'[j] = c
  BY <1>8, Moves DEF StartInsert, rows, TypeOK
<1>9. ASSUME StartLatest(c)
      PROVE  /\ call[c].pc = "start_latest" /\ UNCHANGED <<job, op>>
             /\ \/ /\ job[j].state = "cancel_requested" /\ running'[j] = None
                   /\ Moved(c, "fc_job")
                \/ /\ job[j].state # "cancel_requested" /\ UNCHANGED running
                   /\ MovedTo(c, "worker_wait", call[c].snapJob,
                              call[c].stop \/ (job[j].state = "running" /\ job[j].pause), TRUE,
                              call[c].batch, call[c].out)
  <2>0. call[c].pc = "start_latest" /\ UNCHANGED <<job, op>>
    BY <1>9 DEF StartLatest, rows
  <2>1. CASE job[j].state = "cancel_requested"
    BY <1>9, <2>0, <2>1, Moves DEF StartLatest, TypeOK
  <2>2. CASE job[j].state # "cancel_requested"
    <3>1. /\ UNCHANGED running
          /\ call' = [call EXCEPT ![c].pc = "worker_wait", ![c].worker = TRUE,
                        ![c].stop = @ \/ (job[j].state = "running" /\ job[j].pause)]
      BY <1>9, <2>2 DEF StartLatest
    <3>2. MovedTo(c, "worker_wait", call[c].snapJob,
                  call[c].stop \/ (job[j].state = "running" /\ job[j].pause), TRUE,
                  call[c].batch, call[c].out)
      BY <3>1, Moves
    <3> QED
      BY <2>0, <2>2, <3>1, <3>2
  <2> QED
    BY <2>1, <2>2
<1> QED
  BY <1>1, <1>2, <1>3, <1>4, <1>5, <1>6, <1>7, <1>8, <1>9

\* The recorded progress of a job.
Recorded(j, n) ==
    /\ job[j].state \in Executing /\ job[j].rows <= n
    /\ job'[j].rows = n /\ job'[j].ckpt = (job[j].ckpt \/ Resumable[j])
    /\ job'[j].state = job[j].state /\ job'[j].pause = job[j].pause

\* The steps of the worker that do not write to the ledger.
LEMMA WorkerEffects ==
    ASSUME TypeOK, NEW c \in Callers, NEW j \in Jobs, j = call[c].job
    PROVE  /\ WorkerBegin(c) =>
                 /\ call[c].pc = "worker_wait" /\ UNCHANGED <<job, op>>
                 /\ \/ UNCHANGED applied /\ (MovedOut(c, "cancelled") \/ MovedOut(c, "failed"))
                    \/ /\ Moved(c, "totals") \/ Moved(c, "work")
                       /\ job[j].ckpt => ValidateResume(j)
                       /\ applied' = IF JobKind[j] = "export" /\ call[c].batch = 0
                                       THEN [applied EXCEPT ![j] = [b \in Batches |-> 0]] ELSE applied
           /\ WorkerError(c) =>
                 /\ call[c].pc \in {"totals", "work", "batch"} /\ UNCHANGED <<job, op, applied>>
                 /\ MovedOut(c, "failed")
           /\ WorkerTotals(c) =>
                 call[c].pc = "totals" /\ UNCHANGED <<job, op, applied>> /\ Moved(c, "work")
           /\ WorkerNext(c) =>
                 /\ call[c].pc = "work" /\ UNCHANGED <<job, op, applied>> /\ Moved(c, "batch")
                 /\ call[c].batch < MaxBatches
           /\ WorkerBatch(c) =>
                 /\ call[c].pc = "batch" /\ UNCHANGED <<job, op>>
                 /\ \/ Moved(c, "progress") /\ applied' = Applied(j, call[c].batch + 1)
                    \/ /\ MovedOut(c, "outcome_unknown")
                       /\ JobKind[j] = "import"
                       /\ UNCHANGED applied \/ applied' = Applied(j, call[c].batch + 1)
           /\ StopOutcome(c) =>
                 /\ call[c].pc = "stop_outcome" /\ UNCHANGED <<job, op, applied>>
                 /\ \/ MovedOut(c, "paused") /\ job[j].state \in {"running", "paused"}
                    \/ MovedOut(c, "cancelled") \/ MovedOut(c, "failed")
           /\ WorkerDone(c) =>
                 /\ call[c].pc = "work" /\ call[c].batch = MaxBatches /\ UNCHANGED <<job, op, applied>>
                 /\ \/ JobKind[j] = "export" /\ Moved(c, "final") /\ published'[j] = TRUE
                    \/ JobKind[j] # "export" /\ MovedOut(c, "succeeded")
           /\ WorkerFinal(c) =>
                 /\ call[c].pc = "final" /\ UNCHANGED <<job, op, applied>>
                 /\ MovedOut(c, "succeeded") \/ MovedOut(c, "failed")
<1>1. ASSUME WorkerBegin(c)
      PROVE  /\ call[c].pc = "worker_wait" /\ UNCHANGED <<job, op>>
             /\ \/ UNCHANGED applied /\ (MovedOut(c, "cancelled") \/ MovedOut(c, "failed"))
                \/ /\ Moved(c, "totals") \/ Moved(c, "work")
                   /\ job[j].ckpt => ValidateResume(j)
                   /\ applied' = IF JobKind[j] = "export" /\ call[c].batch = 0
                                   THEN [applied EXCEPT ![j] = [b \in Batches |-> 0]] ELSE applied
  <2>1. call[c].pc = "worker_wait" /\ UNCHANGED <<job, op>>
    BY <1>1 DEF WorkerBegin, rows
  <2>2. CASE UNCHANGED applied /\ \E o \in {"cancelled", "failed"} :
                                    call' = [call EXCEPT ![c].pc = "complete", ![c].out = o]
    BY <2>1, <2>2, Moves
  <2>3. CASE /\ job[j].ckpt => ValidateResume(j)
             /\ Goto(c, IF JobKind[j] = "export" THEN "totals" ELSE "work")
             /\ applied' = IF JobKind[j] = "export" /\ call[c].batch = 0
                             THEN [applied EXCEPT ![j] = [b \in Batches |-> 0]] ELSE applied
    <3>1. Moved(c, "totals") \/ Moved(c, "work")
      BY <2>3, Moves
    <3> QED
      BY <2>1, <2>3, <3>1
  <2> QED
    BY <1>1, <2>2, <2>3 DEF WorkerBegin
<1>2. ASSUME WorkerError(c)
      PROVE  /\ call[c].pc \in {"totals", "work", "batch"} /\ UNCHANGED <<job, op, applied>>
             /\ MovedOut(c, "failed")
  BY <1>2, Moves DEF WorkerError, rows, outside
<1>3. ASSUME WorkerTotals(c)
      PROVE  call[c].pc = "totals" /\ UNCHANGED <<job, op, applied>> /\ Moved(c, "work")
  BY <1>3, Moves DEF WorkerTotals, rows, outside
<1>4. ASSUME WorkerNext(c)
      PROVE  /\ call[c].pc = "work" /\ UNCHANGED <<job, op, applied>> /\ Moved(c, "batch")
             /\ call[c].batch < MaxBatches
  BY <1>4, Moves DEF WorkerNext, rows, outside
<1>5. ASSUME WorkerBatch(c)
      PROVE  /\ call[c].pc = "batch" /\ UNCHANGED <<job, op>>
             /\ \/ Moved(c, "progress") /\ applied' = Applied(j, call[c].batch + 1)
                \/ /\ MovedOut(c, "outcome_unknown")
                   /\ JobKind[j] = "import"
                   /\ UNCHANGED applied \/ applied' = Applied(j, call[c].batch + 1)
  BY <1>5, Moves DEF WorkerBatch, rows
<1>6. ASSUME StopOutcome(c)
      PROVE  /\ call[c].pc = "stop_outcome" /\ UNCHANGED <<job, op, applied>>
             /\ \/ MovedOut(c, "paused") /\ job[j].state \in {"running", "paused"}
                \/ MovedOut(c, "cancelled") \/ MovedOut(c, "failed")
  <2>1. call[c].pc = "stop_outcome" /\ UNCHANGED <<job, op, applied>>
    BY <1>6 DEF StopOutcome, rows, outside
  <2>2. \/ /\ call' = [call EXCEPT ![c].pc = "complete", ![c].out = "paused"]
           /\ job[j].state \in {"running", "paused"}
        \/ call' = [call EXCEPT ![c].pc = "complete", ![c].out = "cancelled"]
        \/ call' = [call EXCEPT ![c].pc = "complete", ![c].out = "failed"]
    BY <1>6 DEF StopOutcome
  <2> QED
    BY <2>1, <2>2, Moves
<1>7. ASSUME WorkerDone(c)
      PROVE  /\ call[c].pc = "work" /\ call[c].batch = MaxBatches /\ UNCHANGED <<job, op, applied>>
             /\ \/ JobKind[j] = "export" /\ Moved(c, "final") /\ published'[j] = TRUE
                \/ JobKind[j] # "export" /\ MovedOut(c, "succeeded")
  BY <1>7, Moves DEF WorkerDone, rows, TypeOK
<1>8. ASSUME WorkerFinal(c)
      PROVE  /\ call[c].pc = "final" /\ UNCHANGED <<job, op, applied>>
             /\ MovedOut(c, "succeeded") \/ MovedOut(c, "failed")
  <2>1. \/ call' = [call EXCEPT ![c].pc = "complete", ![c].out = "succeeded"]
        \/ call' = [call EXCEPT ![c].pc = "complete", ![c].out = "failed"]
    BY <1>8 DEF WorkerFinal
  <2> QED
    BY <1>8, <2>1, Moves DEF WorkerFinal, rows, outside
<1> QED
  BY <1>1, <1>2, <1>3, <1>4, <1>5, <1>6, <1>7, <1>8

\* The steps of the worker that record progress.
LEMMA ProgressEffects ==
    ASSUME TypeOK, NEW c \in Callers, NEW j \in Jobs, j = call[c].job
    PROVE  /\ WorkerProgress(c) =>
                 /\ call[c].pc = "progress" /\ UNCHANGED <<op, applied>>
                 /\ \/ Recorded(j, call[c].batch + 1) /\ MovedBatch(c, "work", call[c].batch + 1)
                    \/ UNCHANGED job /\ MovedOut(c, "failed")
           /\ WorkerStop(c) =>
                 /\ call[c].pc \in {"totals", "work", "batch"} /\ call[c].stop
                 /\ UNCHANGED <<op, applied>>
                 /\ \/ Recorded(j, call[c].batch) /\ Moved(c, "stop_outcome")
                    \/ UNCHANGED job /\ MovedOut(c, "failed")
<1>0. \A n : RecordProgress(j, n) => Recorded(j, n)
  BY RowEffects DEF Recorded
<1>1. ASSUME WorkerProgress(c)
      PROVE  /\ call[c].pc = "progress" /\ UNCHANGED <<op, applied>>
             /\ \/ Recorded(j, call[c].batch + 1) /\ MovedBatch(c, "work", call[c].batch + 1)
                \/ UNCHANGED job /\ MovedOut(c, "failed")
  BY <1>0, <1>1, Moves DEF WorkerProgress, ProgressRefused, outside
<1>2. ASSUME WorkerStop(c)
      PROVE  /\ call[c].pc \in {"totals", "work", "batch"} /\ call[c].stop
             /\ UNCHANGED <<op, applied>>
             /\ \/ Recorded(j, call[c].batch) /\ Moved(c, "stop_outcome")
                \/ UNCHANGED job /\ MovedOut(c, "failed")
  BY <1>0, <1>2, Moves DEF WorkerStop, ProgressRefused, outside
<1> QED
  BY <1>1, <1>2

\* The steps that finish a job and its operation.
LEMMA FinishEffects ==
    ASSUME TypeOK, NEW c \in Callers, NEW j \in Jobs, j = call[c].job
    PROVE  /\ FinishCancelledJob(c) =>
                 /\ call[c].pc = "fc_job" /\ UNCHANGED op
                 /\ \/ job[j].state \in Executing /\ CasTo(j, "cancelled") /\ Moved(c, "fc_op")
                    \/ /\ job[j].state \notin Executing /\ UNCHANGED job
                       /\ IF call[c].worker THEN Moved(c, "remove") ELSE Idled(c)
           /\ FinishCancelledOp(c) =>
                 /\ call[c].pc = "fc_op" /\ UNCHANGED job /\ MoveOp(j, "cancelled")
                 /\ IF call[c].worker THEN Moved(c, "remove") ELSE Idled(c)
           /\ Complete(c) =>
                 /\ call[c].pc = "complete" /\ UNCHANGED op
                 /\ \/ /\ call[c].out # "paused" /\ job[j].state \in Executing
                       /\ CasTo(j, FinishState(call[c].out)) /\ Moved(c, "close_op")
                    \/ /\ call[c].out = "paused" /\ job[j].state = "running"
                       /\ CasTo(j, "paused") /\ Moved(c, "remove")
                    \/ /\ call[c].out # "paused" /\ job[j].state \notin Executing
                       /\ UNCHANGED job /\ Moved(c, "remove")
                    \/ /\ call[c].out = "paused" /\ job[j].state # "running"
                       /\ UNCHANGED job /\ Moved(c, "pause_lost")
           /\ PauseLost(c) =>
                 /\ call[c].pc = "pause_lost" /\ UNCHANGED <<job, op>>
                 /\ IF job[j].state = "cancel_requested" THEN Moved(c, "fc_job") ELSE Moved(c, "remove")
           /\ CloseOp(c) =>
                 /\ call[c].pc = "close_op" /\ UNCHANGED job /\ MoveOp(j, call[c].out)
                 /\ Moved(c, "remove")
           /\ RemoveRunning(c) =>
                 /\ call[c].pc = "remove" /\ UNCHANGED <<job, op>> /\ Idled(c)
                 /\ running'[j] = None
<1>1. ASSUME FinishCancelledJob(c)
      PROVE  /\ call[c].pc = "fc_job" /\ UNCHANGED op
             /\ \/ job[j].state \in Executing /\ CasTo(j, "cancelled") /\ Moved(c, "fc_op")
                \/ /\ job[j].state \notin Executing /\ UNCHANGED job
                   /\ IF call[c].worker THEN Moved(c, "remove") ELSE Idled(c)
  BY <1>1, Moves, Returns, RowEffects DEF FinishCancelledJob, JobKeeps
<1>2. ASSUME FinishCancelledOp(c)
      PROVE  /\ call[c].pc = "fc_op" /\ UNCHANGED job /\ MoveOp(j, "cancelled")
             /\ IF call[c].worker THEN Moved(c, "remove") ELSE Idled(c)
  BY <1>2, Returns DEF FinishCancelledOp
<1>3. ASSUME Complete(c)
      PROVE  /\ call[c].pc = "complete" /\ UNCHANGED op
             /\ \/ /\ call[c].out # "paused" /\ job[j].state \in Executing
                   /\ CasTo(j, FinishState(call[c].out)) /\ Moved(c, "close_op")
                \/ /\ call[c].out = "paused" /\ job[j].state = "running"
                   /\ CasTo(j, "paused") /\ Moved(c, "remove")
                \/ /\ call[c].out # "paused" /\ job[j].state \notin Executing
                   /\ UNCHANGED job /\ Moved(c, "remove")
                \/ /\ call[c].out = "paused" /\ job[j].state # "running"
                   /\ UNCHANGED job /\ Moved(c, "pause_lost")
  <2>1. CASE call[c].out = "paused"
    <3>1. call[c].pc = "complete" /\ UNCHANGED op /\ FinishState("paused") = "paused"
      BY <1>3 DEF Complete, FinishState
    <3>2. \/ JobCas(j, {"running"}, "paused") /\ Goto(c, "remove")
          \/ job[j].state # "running" /\ UNCHANGED job /\ Goto(c, "pause_lost")
      BY <1>3, <2>1, <3>1 DEF Complete, JobKeeps
    <3>3. JobCas(j, {"running"}, "paused") => job[j].state \in {"running"} /\ CasTo(j, "paused")
      BY RowEffects
    <3>4. (Goto(c, "remove") => Moved(c, "remove")) /\ (Goto(c, "pause_lost") => Moved(c, "pause_lost"))
      BY Moves
    <3> QED
      BY <2>1, <3>1, <3>2, <3>3, <3>4
  <2>2. CASE call[c].out # "paused"
    BY <1>3, <2>2, Moves, RowEffects DEF Complete, JobKeeps
  <2> QED
    BY <2>1, <2>2
<1>4. ASSUME PauseLost(c)
      PROVE  /\ call[c].pc = "pause_lost" /\ UNCHANGED <<job, op>>
             /\ IF job[j].state = "cancel_requested" THEN Moved(c, "fc_job") ELSE Moved(c, "remove")
  BY <1>4, Moves DEF PauseLost, rows
<1>5. ASSUME CloseOp(c)
      PROVE  /\ call[c].pc = "close_op" /\ UNCHANGED job /\ MoveOp(j, call[c].out)
             /\ Moved(c, "remove")
  BY <1>5, Moves DEF CloseOp
<1>6. ASSUME RemoveRunning(c)
      PROVE  /\ call[c].pc = "remove" /\ UNCHANGED <<job, op>> /\ Idled(c)
             /\ running'[j] = None
  BY <1>6, Returns DEF RemoveRunning, rows, TypeOK
<1> QED
  BY <1>1, <1>2, <1>3, <1>4, <1>5, <1>6

\* The steps of pause and cancel.
LEMMA CancelEffects ==
    ASSUME TypeOK, NEW c \in Callers, NEW j \in Jobs, j = call[c].job
    PROVE  /\ PauseToken(c) =>
                 call[c].pc = "pause_token" /\ UNCHANGED <<job, op>> /\ Idled(c)
           /\ CancelChoose(c) =>
                 /\ call[c].pc = "cancel_req" /\ UNCHANGED <<job, op>>
                 /\ MovedSnap(c, "cancel_tx", job[j].state)
           /\ CancelRequest(c) =>
                 /\ call[c].pc = "cancel_tx" /\ UNCHANGED op
                 /\ \/ /\ job[j].state = "running" /\ CasTo(j, "cancel_requested")
                       /\ MovedSnap(c, "cancel_token", "cancel_requested")
                    \/ /\ job[j].state \in {"queued", "paused"} /\ CasTo(j, "cancelled")
                       /\ MovedSnap(c, "cancel_token", "cancelled")
                    \/ UNCHANGED job /\ Idled(c)
           /\ CancelSignal(c) =>
                 /\ call[c].pc = "cancel_token" /\ UNCHANGED <<job, op>>
                 /\ IF running[j] # None THEN Idled(c) ELSE Moved(c, "cancel_op")
           /\ CancelOp(c) =>
                 /\ call[c].pc = "cancel_op" /\ UNCHANGED job /\ MoveOp(j, "cancelled")
                 /\ IF call[c].snapJob = "cancel_requested" THEN Moved(c, "fc_job") ELSE Idled(c)
<1>1. ASSUME PauseToken(c)
      PROVE  call[c].pc = "pause_token" /\ UNCHANGED <<job, op>> /\ Idled(c)
  BY <1>1, Returns DEF PauseToken, rows
<1>2. ASSUME CancelChoose(c)
      PROVE  /\ call[c].pc = "cancel_req" /\ UNCHANGED <<job, op>>
             /\ MovedSnap(c, "cancel_tx", job[j].state)
  BY <1>2, Moves DEF CancelChoose, rows
<1>3. ASSUME CancelRequest(c)
      PROVE  /\ call[c].pc = "cancel_tx" /\ UNCHANGED op
             /\ \/ /\ job[j].state = "running" /\ CasTo(j, "cancel_requested")
                   /\ MovedSnap(c, "cancel_token", "cancel_requested")
                \/ /\ job[j].state \in {"queued", "paused"} /\ CasTo(j, "cancelled")
                   /\ MovedSnap(c, "cancel_token", "cancelled")
                \/ UNCHANGED job /\ Idled(c)
  <2>1. CASE call[c].snapJob = "running"
    <3>1. call[c].pc = "cancel_tx" /\ UNCHANGED op
      BY <1>3 DEF CancelRequest
    <3>2. \/ /\ JobCas(j, {"running"}, "cancel_requested")
             /\ call' = [call EXCEPT ![c].pc = "cancel_token", ![c].snapJob = "cancel_requested"]
          \/ UNCHANGED job /\ Return(c)
      BY <1>3, <2>1 DEF CancelRequest, JobKeeps
    <3>3. JobCas(j, {"running"}, "cancel_requested") =>
             job[j].state \in {"running"} /\ CasTo(j, "cancel_requested")
      BY RowEffects
    <3> QED
      BY <3>1, <3>2, <3>3, Moves, Returns
  <2>2. CASE call[c].snapJob # "running"
    <3>1. call[c].pc = "cancel_tx" /\ UNCHANGED op
      BY <1>3 DEF CancelRequest
    <3>2. \/ /\ JobCas(j, {"queued", "paused"}, "cancelled")
             /\ call' = [call EXCEPT ![c].pc = "cancel_token", ![c].snapJob = "cancelled"]
          \/ UNCHANGED job /\ Return(c)
      BY <1>3, <2>2 DEF CancelRequest, JobKeeps
    <3> QED
      BY <3>1, <3>2, Moves, Returns, RowEffects
  <2> QED
    BY <2>1, <2>2
<1>4. ASSUME CancelSignal(c)
      PROVE  /\ call[c].pc = "cancel_token" /\ UNCHANGED <<job, op>>
             /\ IF running[j] # None THEN Idled(c) ELSE Moved(c, "cancel_op")
  BY <1>4, Moves, Returns DEF CancelSignal, rows
<1>5. ASSUME CancelOp(c)
      PROVE  /\ call[c].pc = "cancel_op" /\ UNCHANGED job /\ MoveOp(j, "cancelled")
             /\ IF call[c].snapJob = "cancel_requested" THEN Moved(c, "fc_job") ELSE Idled(c)
  BY <1>5, Moves, Returns DEF CancelOp
<1> QED
  BY <1>1, <1>2, <1>3, <1>4, <1>5

-----------------------------------------------------------------------------
(* The shape of a call, and the quiet of the gate.                         *)

\* A step of a call leaves it ready for the next one.
LEMMA ShapeOfCaller ==
    ASSUME TypeOK, ShapeInv, NEW c \in Callers, CallStep(c)
    PROVE  ShapeOf(c)'
<1>0. ShapeOf(c) /\ call[c].pc # "idle" /\ call[c] \in Calls /\ call[c].job \in Jobs
  BY CallStepFramed DEF ShapeInv, TypeOK
<1>1. ASSUME Idled(c) PROVE ShapeOf(c)'
  BY <1>1 DEF Idled, ShapeOf, WorkerPcs, FinishPcs
<1>2. ASSUME NEW out, MovedOut(c, out), out # "none", call[c].pc \in WorkerPcs
      PROVE  ShapeOf(c)'
  BY <1>0, <1>2 DEF MovedOut, MovedTo, ShapeOf, WorkerPcs
<1> USE <1>0, <1>1 DEF Moved, MovedTo, ShapeOf
<1>3. CASE \/ CreateInsert(c) \/ StartReadJob(c) \/ StartReadOp(c) \/ StartClaimJob(c) \/ StartClaimOp(c)
  BY <1>3, StartEffects DEF MovedSnap, MovedBatch, WorkerPcs, FinishPcs
<1>4. CASE StartUndo(c) \/ UndoTx(c) \/ StartInsert(c) \/ StartLatest(c)
  BY <1>4, StartEffects DEF WorkerPcs, FinishPcs
<1>5. CASE WorkerBegin(c) \/ WorkerError(c) \/ WorkerTotals(c) \/ WorkerNext(c)
  BY <1>2, <1>5, WorkerEffects DEF WorkerPcs
<1>6. CASE WorkerBatch(c) \/ StopOutcome(c) \/ WorkerDone(c) \/ WorkerFinal(c)
  BY <1>2, <1>6, WorkerEffects DEF WorkerPcs
<1>7. CASE WorkerProgress(c) \/ WorkerStop(c)
  BY <1>2, <1>7, ProgressEffects DEF WorkerPcs, MovedBatch
<1>8. CASE \/ FinishCancelledJob(c) \/ FinishCancelledOp(c)
           \/ Complete(c) \/ PauseLost(c) \/ CloseOp(c) \/ RemoveRunning(c)
  BY <1>8, FinishEffects DEF WorkerPcs, FinishPcs
<1>9. CASE PauseToken(c) \/ CancelChoose(c) \/ CancelRequest(c) \/ CancelSignal(c) \/ CancelOp(c)
  BY <1>9, CancelEffects DEF MovedSnap, WorkerPcs, FinishPcs
<1> QED
  BY <1>3, <1>4, <1>5, <1>6, <1>7, <1>8, <1>9 DEF CallStep

\* A call that begins leaves the other calls alone.
LEMMA NextShape ==
    ASSUME TypeOK, ShapeInv, OwnerInv, [Next]_vars
    PROVE  ShapeInv'
<1>1. ASSUME NEW c \in Callers, CallStep(c) PROVE ShapeInv'
  <2>1. ShapeOf(c)'
    BY <1>1, ShapeOfCaller
  <2>2. ASSUME NEW d \in Callers, d # c PROVE ShapeOf(d)'
    <3>1. Untouched(c, d) /\ ShapeOf(d)
      BY <1>1, <2>2, CallStepFramed, OthersUntouched DEF Framed, ShapeInv
    <3> QED
      BY <3>1 DEF Untouched, ShapeOf
  <2> QED
    BY <2>1, <2>2 DEF ShapeInv
<1>2. ASSUME NEW c \in Callers, NEW j \in Jobs,
             CreatePlan(c, j) \/ StartCheck(c, j) \/ PauseRequest(c, j) \/ CancelRead(c, j)
      PROVE  ShapeInv'
  <2>1. PICK pc \in {"create_insert", "start_read_job", "cancel_req", "pause_token"} : Entered(c, j, pc)
    BY <1>2, Entering
  <2>2. ShapeOf(c)'
    BY <2>1 DEF Entered, ShapeOf, WorkerPcs, FinishPcs
  <2>3. ASSUME NEW d \in Callers, d # c PROVE ShapeOf(d)'
    BY <2>1, <2>3 DEF Entered, ShapeOf, ShapeInv
  <2> QED
    BY <2>2, <2>3 DEF ShapeInv
<1>3. CASE UNCHANGED call
  BY <1>3 DEF ShapeInv, ShapeOf
<1>4. ASSUME NEW j \in Jobs, NEW d \in {"approved", "rejected"}, DecideImport(j, d)
      PROVE  UNCHANGED call
  BY <1>4, Deciding
<1>5. RecoveryStep => UNCHANGED call
  BY RecoveryFrame DEF RecoveryFramed
<1>6. CASE Restart
  <2>1. \A c \in Callers : call'[c].pc = "idle" /\ ~call'[c].worker
    BY <1>6, RestartFrame DEF IdleCall
  <2> QED
    BY <2>1 DEF ShapeInv, ShapeOf, WorkerPcs
<1> QED
  BY <1>1, <1>2, <1>3, <1>4, <1>5, <1>6 DEF Next, vars

\* No call runs while the gate is shut.
LEMMA NextQuiet ==
    ASSUME TypeOK, ShapeInv, QuietInv, OwnerInv, [Next]_vars
    PROVE  QuietInv'
<1>1. ASSUME NEW c \in Callers, CallStep(c) PROVE QuietInv'
  <2>1. call[c].pc # "idle" /\ UNCHANGED phase
    BY <1>1, CallStepFramed DEF gate
  <2> QED
    BY <2>1 DEF QuietInv
<1>2. ASSUME NEW c \in Callers, NEW j \in Jobs,
             CreatePlan(c, j) \/ StartCheck(c, j) \/ PauseRequest(c, j) \/ CancelRead(c, j)
      PROVE  QuietInv'
  <2>1. phase = "up" /\ UNCHANGED phase
    BY <1>2, Entering DEF Entered, gate
  <2> QED
    BY <2>1 DEF QuietInv
<1>3. ASSUME NEW j \in Jobs, NEW d \in {"approved", "rejected"}, DecideImport(j, d)
      PROVE  QuietInv'
  BY <1>3, Deciding DEF gate, QuietInv
<1>4. CASE RecoveryStep
  <2>0. UNCHANGED call /\ \A c \in Callers : call[c].pc = "idle"
    BY <1>4, RecoveryFrame DEF RecoveryFramed, QuietInv
  <2>1. CASE RecoverLedger
    <3>1. \A j \in Jobs : job'[j].state \notin Executing
      BY <2>1, LedgerRow DEF InterruptedState, Executing
    <3> QED
      BY <2>0, <3>1 DEF QuietInv
  <2>2. CASE RecoverNextLoop
    BY <2>0, <2>2 DEF QuietInv, RecoverNextLoop, rows
  <2>3. ASSUME NEW j \in Jobs,
               RecoverExport(j) \/ RecoverQueued(j) \/ RecoverPaused(j) \/ RecoverPausedOp(j)
        PROVE  QuietInv'
    <3>2. phase \in {"exports", "queued", "paused"}
      BY <2>3, RecoverEffects
    <3>3. \A k \in Jobs : job'[k].state = job[k].state \/ job'[k].state \in {"cancelled", "failed"}
      BY <2>3, RecoverEffects DEF JobFramed, CasTo
    <3>4. \A k \in Jobs : job'[k].state \notin Executing
      BY <3>2, <3>3 DEF QuietInv, Executing
    <3> QED
      BY <2>0, <3>4 DEF QuietInv
  <2> QED
    BY <1>4, <2>1, <2>2, <2>3 DEF RecoveryStep
<1>5. CASE Restart
  <2>1. \A c \in Callers : call'[c].pc = "idle"
    BY <1>5, RestartFrame DEF IdleCall
  <2> QED
    BY <2>1, <1>5, RestartFrame DEF QuietInv
<1>6. CASE UNCHANGED vars
  BY <1>6 DEF QuietInv, vars, rows, gate
<1> QED
  BY <1>1, <1>2, <1>3, <1>4, <1>5, <1>6 DEF Next

-----------------------------------------------------------------------------
(* The transitions of a job and of its operation.                          *)

\* What a step of a call may do to the row of its job.
JobMoves(c, j) ==
    \/ job' = job
    \/ /\ call[c].pc = "create_insert" /\ job'[j].state = "queued" /\ job'[j].pause = job[j].pause
       /\ job'[j].rows = job[j].rows /\ job'[j].ckpt = job[j].ckpt
    \/ /\ call[c].pc = "start_claim_job" /\ job[j].state \in {"queued", "paused"}
       /\ CasTo(j, "running") /\ MovedBatch(c, "start_claim_op", job[j].rows)
    \/ /\ call[c].pc = "undo_tx" /\ job[j].state = "running" /\ CasTo(j, UndoTarget(c)) /\ Idled(c)
    \/ /\ call[c].pc = "fc_job" /\ job[j].state \in Executing /\ CasTo(j, "cancelled")
       /\ Moved(c, "fc_op")
    \/ /\ call[c].pc = "complete" /\ call[c].out # "paused" /\ job[j].state \in Executing
       /\ CasTo(j, FinishState(call[c].out)) /\ Moved(c, "close_op")
    \/ /\ call[c].pc = "complete" /\ call[c].out = "paused" /\ job[j].state = "running"
       /\ CasTo(j, "paused") /\ Moved(c, "remove")
    \/ /\ call[c].pc = "cancel_tx" /\ job[j].state = "running" /\ CasTo(j, "cancel_requested")
       /\ MovedSnap(c, "cancel_token", "cancel_requested")
    \/ /\ call[c].pc = "cancel_tx" /\ job[j].state \in {"queued", "paused"} /\ CasTo(j, "cancelled")
       /\ MovedSnap(c, "cancel_token", "cancelled")
    \/ /\ call[c].pc = "progress" /\ Recorded(j, call[c].batch + 1)
       /\ MovedBatch(c, "work", call[c].batch + 1)
    \/ /\ call[c].pc \in {"totals", "work", "batch"} /\ call[c].stop /\ Recorded(j, call[c].batch)
       /\ Moved(c, "stop_outcome")

\* Every step of a call does one of these things to the row of its job.
LEMMA JobSteps ==
    ASSUME TypeOK, NEW c \in Callers, NEW j \in Jobs, j = call[c].job, CallStep(c)
    PROVE  JobMoves(c, j)
<1>1. CASE CreateInsert(c)
  BY <1>1, StartEffects, RowEffects DEF JobMoves
<1>2. CASE StartClaimJob(c)
  BY <1>2, StartEffects DEF JobMoves
<1>3. CASE UndoTx(c)
  BY <1>3, StartEffects DEF JobMoves
<1>4. CASE StartReadJob(c) \/ StartReadOp(c) \/ StartClaimOp(c) \/ StartUndo(c) \/ StartInsert(c) \/ StartLatest(c)
  BY <1>4, StartEffects DEF JobMoves
<1>5. CASE \/ WorkerBegin(c) \/ WorkerError(c) \/ WorkerTotals(c) \/ WorkerNext(c) \/ WorkerBatch(c)
           \/ StopOutcome(c) \/ WorkerDone(c) \/ WorkerFinal(c)
  BY <1>5, WorkerEffects DEF JobMoves
<1>6. CASE WorkerProgress(c) \/ WorkerStop(c)
  BY <1>6, ProgressEffects DEF JobMoves
<1>7. CASE FinishCancelledJob(c) \/ Complete(c)
  BY <1>7, FinishEffects DEF JobMoves
<1>8. CASE FinishCancelledOp(c) \/ PauseLost(c) \/ CloseOp(c) \/ RemoveRunning(c)
  BY <1>8, FinishEffects DEF JobMoves
<1>9. CASE PauseToken(c) \/ CancelChoose(c) \/ CancelRequest(c) \/ CancelSignal(c) \/ CancelOp(c)
  BY <1>9, CancelEffects DEF JobMoves
<1> QED
  BY <1>1, <1>2, <1>3, <1>4, <1>5, <1>6, <1>7, <1>8, <1>9 DEF CallStep

\* What a step of a call may do to the operation of its job.
LEMMA OpSteps ==
    ASSUME TypeOK, NEW c \in Callers, NEW j \in Jobs, j = call[c].job, CallStep(c)
    PROVE  \/ op'[j].state = op[j].state
           \/ op'[j].state \in {"cancelled", "executing", "expired"}
           \/ /\ call[c].pc = "close_op" /\ UNCHANGED job
              /\ op'[j].state = call[c].out /\ call[c].out \in States
<1>0. op[j] \in OpRow /\ op \in [Jobs -> OpRow]
  BY DEF TypeOK, OpRow
<1>1. ASSUME NEW target, MoveOp(j, target)
      PROVE  op'[j].state = op[j].state \/ (op'[j].state = target /\ target \in States)
  <2>1. op'[j] = op[j] \/ (target \in States /\ op'[j] = [op[j] EXCEPT !.state = target])
    BY <1>1, MoveOpType
  <2> QED
    BY <1>0, <2>1 DEF OpRow
<1>2. CASE StartClaimOp(c)
  <2>1. \/ op' = [op EXCEPT ![j] = [op[j] EXCEPT !.state = "executing"]]
        \/ op' = [op EXCEPT ![j] = [op[j] EXCEPT !.state = "expired"]]
        \/ op' = [op EXCEPT ![j] = [op[j] EXCEPT !.runtime = runtime]]
        \/ op' = op
    BY <1>0, <1>2 DEF StartClaimOp
  <2> QED
    BY <1>0, <2>1 DEF OpRow
<1>3. CASE CreateInsert(c)
  BY <1>1, <1>3 DEF CreateInsert
<1>4. CASE FinishCancelledOp(c) \/ CloseOp(c) \/ CancelOp(c)
  BY <1>1, <1>4 DEF FinishCancelledOp, CloseOp, CancelOp
<1>5. CASE UNCHANGED op
  BY <1>5
<1>6. CASE \/ StartReadJob(c) \/ StartReadOp(c) \/ StartClaimJob(c) \/ StartUndo(c) \/ UndoTx(c)
           \/ StartInsert(c) \/ StartLatest(c)
  BY <1>5, <1>6, StartEffects
<1>7. CASE \/ WorkerBegin(c) \/ WorkerError(c) \/ WorkerTotals(c) \/ WorkerNext(c) \/ WorkerBatch(c)
           \/ StopOutcome(c) \/ WorkerDone(c) \/ WorkerFinal(c)
  BY <1>5, <1>7, WorkerEffects
<1>8. CASE \/ WorkerProgress(c) \/ WorkerStop(c) \/ FinishCancelledJob(c) \/ Complete(c) \/ PauseLost(c)
           \/ RemoveRunning(c) \/ PauseToken(c) \/ CancelChoose(c) \/ CancelRequest(c) \/ CancelSignal(c)
  BY <1>5, <1>8, ProgressEffects, FinishEffects, CancelEffects
<1> QED
  BY <1>2, <1>3, <1>4, <1>6, <1>7, <1>8 DEF CallStep

\* The states that a step of a call leads to.
LEMMA StateSteps ==
    ASSUME TypeOK, ShapeInv, NEW c \in Callers, NEW j \in Jobs, j = call[c].job, CallStep(c)
    PROVE  /\ job'[j].state = "absent" => job[j].state = "absent"
           /\ call[c].pc # "create_insert" /\ job[j].state \in JobTerminal =>
                 job'[j].state = job[j].state
           /\ call[c].pc # "create_insert" /\ job[j].state \in Doomed => job'[j].state \in Doomed
           /\ job'[j].state # job[j].state /\ job'[j].state = "succeeded" =>
                 call[c].pc = "complete" /\ call[c].out = "succeeded"
<1>1. JobMoves(c, j)
  BY JobSteps
<1>2. call[c].pc = "complete" /\ call[c].out # "paused" =>
         /\ FinishState(call[c].out) \in JobTerminal
         /\ FinishState(call[c].out) = "succeeded" => call[c].out = "succeeded"
  BY DEF FinishState, ShapeInv, ShapeOf, TypeOK, Calls, JobTerminal
<1>3. UndoTarget(c) \in {"paused", "queued"}
  BY DEF UndoTarget
<1> QED
  BY <1>1, <1>2, <1>3 DEF JobMoves, CasTo, Recorded, JobTerminal, Doomed, Executing

\* A job's row appears once, after its plan.
LEMMA NextBirth ==
    ASSUME TypeOK, ShapeInv, QuietInv, BirthInv, OwnerInv, [Next]_vars
    PROVE  BirthInv'
<1>1. ASSUME NEW c \in Callers, CallStep(c) PROVE BirthInv'
  <2> DEFINE j == call[c].job
  <2>1. j \in Jobs /\ Active(c, j) /\ Framed(c, j)
    BY <1>1, CallStepFramed DEF Active
  <2>2. op'[j].state = "absent" => op[j].state = "absent"
    BY <1>1, <2>1, OpSteps DEF States, TerminalStates
  <2>3. op[j].state # "absent" /\ op'[j].state # "absent"
    BY <2>1, <2>2 DEF BirthInv
  <2>4. job'[j].state = "absent" => job[j].state = "absent"
    BY <1>1, <2>1, StateSteps
  <2>5. \A k \in Jobs : k # j => job'[k] = job[k] /\ op'[k] = op[k]
    BY <2>1 DEF Framed, JobFramed, OpFramed
  <2>6. Idled(c) \/ (call'[c].job = j /\ call'[c].pc # "create_insert")
    BY <2>1, Returns DEF Framed, CallFramed
  <2>7. call[c].pc = "create_insert" => Idled(c)
    <3>1. call[c].pc = "create_insert" => CreateInsert(c)
      BY <1>1 DEF CallStep, StartReadJob, StartReadOp,
         StartClaimJob, StartClaimOp, StartUndo, UndoTx, StartInsert, StartLatest,
         WorkerBegin, WorkerError, WorkerTotals, WorkerNext, WorkerBatch, WorkerProgress,
         WorkerStop, StopOutcome, WorkerDone, WorkerFinal,
         FinishCancelledJob, FinishCancelledOp, Complete, PauseLost, CloseOp, RemoveRunning,
         PauseToken, CancelChoose, CancelRequest, CancelSignal, CancelOp
    <3> QED
      BY <2>1, <3>1, StartEffects
  <2>8. \A d \in Callers : d # c => Untouched(c, d)
    BY <2>1, OthersUntouched DEF Framed
  <2>9. \A i \in Jobs : op'[i].state = "absent" => job'[i].state = "absent"
    BY <2>3, <2>5 DEF BirthInv
  <2>10. ASSUME NEW d \in Callers, NEW k \in Jobs, Active(d, k)'
         PROVE  /\ call'[d].pc = "create_insert" => job'[k].state = "absent" /\ op'[k].state # "absent"
                /\ call'[d].pc # "create_insert" => job'[k].state # "absent"
    <3>1. CASE d = c
      BY <2>1, <2>4, <2>6, <2>7, <2>10, <3>1 DEF Active, Idled, BirthInv
    <3>2. CASE d # c
      <4>1. Active(d, k) /\ call'[d].pc = call[d].pc
        BY <2>8, <2>10, <3>2 DEF Untouched, Active
      <4>2. CASE k # j
        BY <2>5, <4>1, <4>2 DEF BirthInv
      <4>3. CASE k = j
        <5>1. call[d].pc = "create_insert" => call[c].pc = "create_insert"
          BY <2>1, <4>1, <4>3 DEF BirthInv
        <5>2. call[d].pc # "create_insert"
          BY <2>1, <3>2, <4>1, <4>3, <5>1 DEF BirthInv, Active
        <5> QED
          BY <2>4, <4>1, <4>3, <5>2 DEF BirthInv
      <4> QED
        BY <4>2, <4>3
    <3> QED
      BY <3>1, <3>2
  <2>11. ASSUME NEW d \in Callers, NEW e \in Callers,
                call'[d].pc = "create_insert", call'[e].pc = "create_insert",
                call'[d].job = call'[e].job
         PROVE  d = e
    BY <2>6, <2>8, <2>11 DEF BirthInv, Untouched, Idled
  <2> QED
    BY <2>9, <2>10, <2>11 DEF BirthInv
<1>2. ASSUME NEW c \in Callers, NEW j \in Jobs,
             CreatePlan(c, j) \/ StartCheck(c, j) \/ PauseRequest(c, j) \/ CancelRead(c, j)
      PROVE  BirthInv'
  <2>1. \/ /\ Entered(c, j, "create_insert") /\ UNCHANGED job
           /\ op[j].state = "absent" /\ op'[j].state \in {"pending_approval", "ready"}
        \/ /\ \E pc \in {"start_read_job", "cancel_req", "pause_token"} : Entered(c, j, pc)
           /\ UNCHANGED op /\ job[j].state # "absent" /\ job'[j].state = job[j].state
    <3>1. job[j] \in JobRow
      BY DEF TypeOK, JobRow
    <3>2. [job[j] EXCEPT !.pause = TRUE].state = job[j].state
      BY <3>1 DEF JobRow
    <3> QED
      BY <1>2, <3>2, Entering DEF rows
  <2>2. /\ \A k \in Jobs : k # j => job'[k] = job[k] /\ op'[k] = op[k]
        /\ \A d \in Callers : d # c => call'[d] = call[d]
        /\ call'[c].job = j /\ call[c].pc = "idle"
    BY <2>1 DEF Entered, JobFramed, OpFramed
  <2>3. CASE /\ Entered(c, j, "create_insert") /\ UNCHANGED job
             /\ op[j].state = "absent" /\ op'[j].state \in {"pending_approval", "ready"}
    <3>1. job[j].state = "absent" /\ \A d \in Callers : ~Active(d, j)
      BY <2>3 DEF BirthInv
    <3>2. call'[c].pc = "create_insert"
      BY <2>3 DEF Entered
    <3> QED
      BY <2>2, <2>3, <3>1, <3>2 DEF BirthInv, Active
  <2>4. CASE /\ \E pc \in {"start_read_job", "cancel_req", "pause_token"} : Entered(c, j, pc)
             /\ UNCHANGED op /\ job[j].state # "absent" /\ job'[j].state = job[j].state
    <3>1. call'[c].pc \in {"start_read_job", "cancel_req", "pause_token"}
      BY <2>4 DEF Entered
    <3> QED
      BY <2>2, <2>4, <3>1 DEF BirthInv, Active
  <2> QED
    BY <2>1, <2>3, <2>4
<1>3. ASSUME NEW j \in Jobs, NEW d \in {"approved", "rejected"}, DecideImport(j, d)
      PROVE  BirthInv'
  <2>1. /\ UNCHANGED <<job, call>> /\ op[j].state # "absent" /\ op'[j].state # "absent"
        /\ \A k \in Jobs : k # j => op'[k] = op[k]
    BY <1>3, Deciding DEF OpFramed
  <2> QED
    BY <2>1 DEF BirthInv, Active
<1>4. CASE RecoveryStep
  <2>1. /\ UNCHANGED call /\ \A c \in Callers : call[c].pc = "idle"
    BY <1>4, RecoveryFrame DEF RecoveryFramed, QuietInv
  <2>2. \A k \in Jobs : op'[k].state = "absent" => job'[k].state = "absent"
    <3>1. CASE RecoverLedger
      BY <3>1, LedgerRow DEF BirthInv, RecoverLedger, Executing
    <3>2. CASE RecoverNextLoop
      BY <3>2 DEF BirthInv, RecoverNextLoop, rows
    <3>3. ASSUME NEW j \in Jobs,
                 RecoverExport(j) \/ RecoverQueued(j) \/ RecoverPaused(j) \/ RecoverPausedOp(j)
          PROVE  \A k \in Jobs : op'[k].state = "absent" => job'[k].state = "absent"
      BY <3>3, RecoverEffects DEF BirthInv, JobFramed, OpFramed, CasTo
    <3> QED
      BY <1>4, <3>1, <3>2, <3>3 DEF RecoveryStep
  <2> QED
    BY <2>1, <2>2 DEF BirthInv, Active
<1>5. CASE Restart
  <2>1. \A c \in Callers : call'[c].pc = "idle"
    BY <1>5, RestartFrame DEF IdleCall
  <2>2. \A k \in Jobs : op'[k].state = "absent" => job'[k].state = "absent"
    BY <1>5, RestartFrame, RestartOp DEF BirthInv
  <2> QED
    BY <2>1, <2>2 DEF BirthInv, Active
<1>6. CASE UNCHANGED vars
  BY <1>6 DEF BirthInv, Active, vars, rows
<1> QED
  BY <1>1, <1>2, <1>3, <1>4, <1>5, <1>6 DEF Next

-----------------------------------------------------------------------------
(* One owner per job.                                                      *)

\* Only the compare-and-swap of claim_running makes a call an owner.
LEMMA BecomesOwner ==
    ASSUME TypeOK, ShapeInv, NEW c \in Callers, NEW j \in Jobs, j = call[c].job, CallStep(c),
           call'[c].pc \in OwnerPcs
    PROVE  \/ call[c].pc \in OwnerPcs
           \/ /\ job[j].state \in {"queued", "paused"} /\ CasTo(j, "running")
              /\ MovedBatch(c, "start_claim_op", job[j].rows)
<1>0. "idle" \notin OwnerPcs
  BY DEF OwnerPcs
<1>1. CASE StartClaimJob(c)
  BY <1>0, <1>1, StartEffects DEF Idled
<1>2. CASE CreateInsert(c) \/ StartReadJob(c) \/ StartReadOp(c)
  BY <1>2, StartEffects DEF OwnerPcs, Idled, MovedSnap, Moved, MovedTo
<1>3. CASE \/ FinishCancelledJob(c) \/ FinishCancelledOp(c) \/ PauseLost(c) \/ CloseOp(c) \/ RemoveRunning(c)
  BY <1>3, FinishEffects DEF OwnerPcs, Idled, Moved, MovedTo
<1>4. CASE PauseToken(c) \/ CancelChoose(c) \/ CancelRequest(c) \/ CancelSignal(c) \/ CancelOp(c)
  BY <1>4, CancelEffects DEF OwnerPcs, Idled, MovedSnap, Moved, MovedTo
<1>5. CASE StartClaimOp(c) \/ StartUndo(c) \/ UndoTx(c) \/ StartInsert(c) \/ StartLatest(c)
  BY <1>5 DEF OwnerPcs, StartClaimOp, StartUndo, UndoTx, StartInsert, StartLatest
<1>6. CASE \/ WorkerBegin(c) \/ WorkerError(c) \/ WorkerTotals(c) \/ WorkerNext(c) \/ WorkerBatch(c)
           \/ StopOutcome(c) \/ WorkerDone(c) \/ WorkerFinal(c)
  BY <1>6, WorkerEffects DEF OwnerPcs
<1>7. CASE WorkerProgress(c) \/ WorkerStop(c) \/ Complete(c)
  BY <1>7, ProgressEffects, FinishEffects DEF OwnerPcs
<1> QED
  BY <1>1, <1>2, <1>3, <1>4, <1>5, <1>6, <1>7 DEF CallStep

\* The owners after a step of a call were owners before it, or it is a claim.
LEMMA OwnerSteps ==
    ASSUME TypeOK, ShapeInv, BirthInv, OwnerInv, NEW c \in Callers, NEW j \in Jobs, j = call[c].job,
           CallStep(c)
    PROVE  /\ \A d \in Callers : \A k \in Jobs : d # c \/ k # j => (Owns(d, k)' <=> Owns(d, k) /\ (d # c))
           /\ \/ Owns(c, j)' => Owns(c, j)
              \/ /\ job[j].state \in {"queued", "paused"} /\ CasTo(j, "running")
                 /\ MovedBatch(c, "start_claim_op", job[j].rows)
                 /\ \A d \in Callers : ~Owns(d, j)
<1>1. Framed(c, j)
  BY CallStepFramed
<1>2. \A d \in Callers : d # c => Untouched(c, d)
  BY <1>1, OthersUntouched DEF Framed
<1>3. Idled(c) \/ call'[c].job = j
  BY <1>1, Returns DEF Framed, CallFramed
<1>4. \A k \in Jobs : k # j => ~Owns(c, k)' /\ ~Owns(c, k)
  BY <1>3 DEF Owns, Idled, OwnerPcs
<1>5. \A d \in Callers : \A k \in Jobs : d # c => (Owns(d, k)' <=> Owns(d, k))
  BY <1>2 DEF Owns, Untouched
<1>6. Owns(c, j)' => Owns(c, j) \/ /\ job[j].state \in {"queued", "paused"} /\ CasTo(j, "running")
                                    /\ MovedBatch(c, "start_claim_op", job[j].rows)
  BY BecomesOwner DEF Owns
<1>7. job[j].state \in {"queued", "paused"} => \A d \in Callers : ~Owns(d, j)
  BY DEF OwnerInv
<1> QED
  BY <1>4, <1>5, <1>6, <1>7

\* An owned job stays in a state that nobody else can claim.
LEMMA NextOwner ==
    ASSUME TypeOK, ShapeInv, QuietInv, BirthInv, OwnerInv, [Next]_vars
    PROVE  OwnerInv'
<1>1. ASSUME NEW c \in Callers, CallStep(c) PROVE OwnerInv'
  <2>0. PICK j \in Jobs : j = call[c].job
    BY <1>1, CallStepFramed
  <2>1. Active(c, j) /\ Framed(c, j)
    BY <1>1, <2>0, CallStepFramed DEF Active
  <2>2. \A k \in Jobs : k # j => job'[k] = job[k]
    BY <2>1 DEF Framed, JobFramed
  <2>3. /\ \A d \in Callers : \A k \in Jobs : d # c \/ k # j => (Owns(d, k)' <=> Owns(d, k) /\ (d # c))
        /\ \/ Owns(c, j)' => Owns(c, j)
           \/ /\ job[j].state \in {"queued", "paused"} /\ CasTo(j, "running")
              /\ MovedBatch(c, "start_claim_op", job[j].rows)
              /\ \A d \in Callers : ~Owns(d, j)
    BY <1>1, <2>0, OwnerSteps
  <2>4. \A d, e \in Callers : \A k \in Jobs : Owns(d, k)' /\ Owns(e, k)' => d = e
    BY <2>3 DEF OwnerInv
  <2>5. ASSUME NEW d \in Callers, NEW k \in Jobs, Owns(d, k)'
        PROVE  job'[k].state \in {"running", "cancel_requested", "cancelled", "failed"}
    <3>1. CASE k # j
      BY <2>2, <2>3, <2>5, <3>1 DEF OwnerInv
    <3>2. CASE k = j /\ CasTo(j, "running")
      BY <3>2 DEF CasTo
    <3>3. CASE k = j /\ ~CasTo(j, "running")
      <4>1. Owns(d, j)
        BY <2>3, <2>5, <3>3
      <4>2. job[j].state \in {"running", "cancel_requested", "cancelled", "failed"}
        BY <4>1 DEF OwnerInv
      <4>3. call[c].pc # "create_insert"
        BY <2>1, <4>2 DEF BirthInv
      <4>4. call[c].pc \in OwnerPcs => d = c /\ call'[c].pc \in OwnerPcs
        BY <2>0, <2>5, <3>3, <4>1 DEF OwnerInv, Owns
      <4>5. ~(call[c].pc \in {"undo_tx", "complete"} /\ (Idled(c) \/ Moved(c, "close_op") \/ Moved(c, "remove")))
        BY <4>4 DEF Idled, Moved, MovedTo, OwnerPcs
      <4>6. JobMoves(c, j)
        BY <1>1, <2>0, JobSteps
      <4> QED
        BY <3>3, <4>2, <4>3, <4>5, <4>6 DEF JobMoves, CasTo, Recorded
    <3> QED
      BY <3>1, <3>2, <3>3
  <2> QED
    BY <2>4, <2>5 DEF OwnerInv
<1>2. ASSUME NEW c \in Callers, NEW j \in Jobs,
             CreatePlan(c, j) \/ StartCheck(c, j) \/ PauseRequest(c, j) \/ CancelRead(c, j)
      PROVE  OwnerInv'
  <2>1. /\ \E pc \in {"create_insert", "start_read_job", "cancel_req", "pause_token"} : Entered(c, j, pc)
        /\ job'[j].state = job[j].state
    <3>1. job[j] \in JobRow
      BY DEF TypeOK, JobRow
    <3>2. [job[j] EXCEPT !.pause = TRUE].state = job[j].state
      BY <3>1 DEF JobRow
    <3> QED
      BY <1>2, <3>2, Entering DEF rows
  <2>2. /\ \A k \in Jobs : job'[k].state = job[k].state
        /\ \A d \in Callers : d # c => call'[d] = call[d]
        /\ call'[c].pc \notin OwnerPcs
    BY <2>1 DEF Entered, JobFramed, OwnerPcs
  <2> QED
    BY <2>2 DEF OwnerInv, Owns
<1>3. CASE \A c \in Callers : call'[c].pc = "idle"
  BY <1>3 DEF OwnerInv, Owns, OwnerPcs
<1>4. CASE UNCHANGED <<job, call>>
  BY <1>4 DEF OwnerInv, Owns
<1>5. ASSUME NEW j \in Jobs, NEW d \in {"approved", "rejected"}, DecideImport(j, d)
      PROVE  UNCHANGED <<job, call>>
  BY <1>5, Deciding
<1>6. RecoveryStep => \A c \in Callers : call'[c].pc = "idle"
  BY RecoveryFrame DEF RecoveryFramed, QuietInv
<1>7. Restart => \A c \in Callers : call'[c].pc = "idle"
  BY RestartFrame DEF IdleCall
<1> QED
  BY <1>1, <1>2, <1>3, <1>4, <1>5, <1>6, <1>7 DEF Next, vars, rows

-----------------------------------------------------------------------------
(* What has been written.                                                  *)

\* The format of a job never changes.
LEMMA FormatKept ==
    ASSUME \A k \in Jobs : job'[k].format = job[k].format, NEW j \in Jobs
    PROVE  JobKind'[j] = JobKind[j] /\ Resumable'[j] = Resumable[j]
BY DEF JobKind, Resumable

\* A step of a call keeps the kind and the format of every job.
LEMMA CallStepFormat ==
    ASSUME TypeOK, ShapeInv, NEW c \in Callers, CallStep(c), NEW j \in Jobs
    PROVE  JobKind'[j] = JobKind[j] /\ Resumable'[j] = Resumable[j]
<1>1. \A k \in Jobs : job'[k].format = job[k].format
  BY CallStepFramed DEF Framed, JobFramed
<1> QED
  BY <1>1, FormatKept

\* The file or the target of a job changes when its owner begins or sends a batch.
LEMMA AppliedSteps ==
    ASSUME TypeOK, ShapeInv, NEW c \in Callers, NEW j \in Jobs, j = call[c].job, CallStep(c)
    PROVE  /\ \/ UNCHANGED applied
              \/ call[c].pc \in {"worker_wait", "batch"} /\ UNCHANGED job
           /\ published[j] => published'[j]
<1>1. CASE WorkerBegin(c) \/ WorkerBatch(c)
  BY <1>1, WorkerEffects DEF WorkerBegin, WorkerBatch
<1>2. CASE WorkerDone(c)
  BY <1>2 DEF WorkerDone, TypeOK
<1>3. CASE UNCHANGED outside
  BY <1>3 DEF outside
<1>4. CASE \/ CreateInsert(c) \/ StartReadJob(c) \/ StartReadOp(c) \/ StartClaimJob(c) \/ StartClaimOp(c)
           \/ StartUndo(c) \/ UndoTx(c) \/ StartInsert(c) \/ StartLatest(c)
  BY <1>3, <1>4 DEF CreateInsert, StartReadJob, StartReadOp,
     StartClaimJob, StartClaimOp, StartUndo, UndoTx, StartInsert, StartLatest
<1>5. CASE \/ WorkerError(c) \/ WorkerTotals(c) \/ WorkerNext(c) \/ WorkerProgress(c)
           \/ WorkerStop(c) \/ StopOutcome(c) \/ WorkerFinal(c)
  BY <1>3, <1>5 DEF WorkerError, WorkerTotals, WorkerNext, WorkerProgress,
     WorkerStop, StopOutcome, WorkerFinal
<1>6. CASE \/ FinishCancelledJob(c) \/ FinishCancelledOp(c)
           \/ Complete(c) \/ PauseLost(c) \/ CloseOp(c) \/ RemoveRunning(c)
           \/ PauseToken(c) \/ CancelChoose(c) \/ CancelRequest(c) \/ CancelSignal(c) \/ CancelOp(c)
  BY <1>3, <1>6 DEF FinishCancelledJob, FinishCancelledOp, Complete, PauseLost, CloseOp,
     RemoveRunning, PauseToken, CancelChoose, CancelRequest, CancelSignal, CancelOp
<1> QED
  BY <1>1, <1>2, <1>4, <1>5, <1>6 DEF CallStep

\* Before its worker begins an owner carries what it knows along.
LEMMA StartLearns ==
    ASSUME TypeOK, ShapeInv, DataInv, PlainInv, NEW c \in Callers, NEW j \in Jobs, j = call[c].job,
           \/ CreateInsert(c) \/ StartReadJob(c) \/ StartReadOp(c) \/ StartClaimJob(c)
           \/ StartClaimOp(c) \/ StartUndo(c) \/ UndoTx(c) \/ StartInsert(c) \/ StartLatest(c),
           call'[c].pc \in OwnerPcs
    PROVE  OwnerKnows(c, j)'
<1>0. CallStep(c)
  BY DEF CallStep
<1>1. /\ UNCHANGED outside /\ JobKind'[j] = JobKind[j] /\ Resumable'[j] = Resumable[j]
      /\ DataOf(j) /\ PlainOf(j) /\ (Owns(c, j) => OwnerKnows(c, j))
  BY <1>0, CallStepFormat DEF DataInv, PlainInv, DataOf, CreateInsert, StartReadJob, StartReadOp,
     StartClaimJob, StartClaimOp, StartUndo, UndoTx, StartInsert, StartLatest
<1>2. CASE CreateInsert(c) \/ StartReadJob(c) \/ StartReadOp(c) \/ UndoTx(c)
  BY <1>2, StartEffects DEF OwnerPcs, Idled, MovedSnap, Moved, MovedTo
<1>3. CASE StartClaimJob(c)
  <2>1. /\ job[j].state \in {"queued", "paused"} /\ CasTo(j, "running")
        /\ MovedBatch(c, "start_claim_op", job[j].rows)
    BY <1>3, StartEffects DEF OwnerPcs, Idled
  <2>2. call'[c].pc = "start_claim_op" /\ call'[c].batch = job[j].rows /\ job'[j].rows = job[j].rows
    BY <2>1 DEF MovedBatch, MovedTo, CasTo
  <2>3. ~Resumable[j] => job[j].rows = 0
    BY <1>1, <2>1 DEF PlainOf
  <2>4. JobKind[j] = "import" => Written(j, job[j].rows)
    BY <1>1, <2>1 DEF DataOf
  <2> QED
    BY <1>1, <2>2, <2>3, <2>4 DEF OwnerKnows, Written, outside
<1>4. CASE StartClaimOp(c) \/ StartUndo(c) \/ StartInsert(c) \/ StartLatest(c)
  <2>1. /\ call'[c].pc \in BeforePcs /\ call'[c].batch = call[c].batch /\ UNCHANGED job
        /\ call[c].pc \in BeforePcs
    BY <1>4, StartEffects DEF BeforePcs, OwnerPcs, Moved, MovedTo
  <2>2. OwnerKnows(c, j)
    BY <1>1, <2>1 DEF Owns, BeforePcs, OwnerPcs
  <2> QED
    BY <1>1, <2>1, <2>2 DEF OwnerKnows, Written, outside, BeforePcs
<1> QED
  BY <1>2, <1>3, <1>4

\* What a worker learns when it begins: an export either opens a new file or
\* continues one that was compared with its checkpoint.
LEMMA BeginLearns ==
    ASSUME TypeOK, ShapeInv, DataInv, NEW c \in Callers, NEW j \in Jobs, j = call[c].job,
           WorkerBegin(c)
    PROVE  OwnerKnows(c, j)'
<1>0. CallStep(c)
  BY DEF CallStep
<1>1. /\ JobKind'[j] = JobKind[j] /\ Resumable'[j] = Resumable[j]
      /\ DataOf(j) /\ OwnerKnows(c, j) /\ UNCHANGED job /\ call[c].pc = "worker_wait"
  BY <1>0, CallStepFormat, WorkerEffects DEF DataInv, DataOf, Owns, OwnerPcs
<1>2. CASE MovedOut(c, "cancelled") \/ MovedOut(c, "failed")
  BY <1>2 DEF MovedOut, MovedTo, OwnerKnows, BeforePcs
<1>3. CASE /\ Moved(c, "totals") \/ Moved(c, "work")
           /\ job[j].ckpt => ValidateResume(j)
           /\ applied' = IF JobKind[j] = "export" /\ call[c].batch = 0
                           THEN [applied EXCEPT ![j] = [b \in Batches |-> 0]] ELSE applied
  <2>1. /\ call'[c].pc \in {"totals", "work"} /\ call'[c].batch = call[c].batch
        /\ call[c].batch = job[j].rows /\ call[c].batch \in Nat
    BY <1>1, <1>3 DEF Moved, MovedTo, OwnerKnows, TypeOK, Calls
  <2>2. \A b \in Batches : applied'[j][b] = (IF b <= call[c].batch THEN 1 ELSE 0)
    <3>1. CASE JobKind[j] = "export" /\ call[c].batch = 0
      <4>1. applied'[j] = [b \in Batches |-> 0]
        BY <1>3, <3>1 DEF TypeOK
      <4>2. \A b \in Batches : ~(b <= call[c].batch)
        BY <3>1 DEF Batches
      <4> QED
        BY <4>1, <4>2
    <3>2. CASE JobKind[j] = "export" /\ call[c].batch # 0
      <4>1. job[j].rows > 0 /\ Resumable[j]
        BY <1>1, <2>1, <3>2 DEF OwnerKnows, BeforePcs
      <4>2. ExactPrefix(j)
        BY <1>1, <1>3, <3>2, <4>1 DEF DataOf, ValidateResume
      <4> QED
        BY <1>3, <2>1, <3>2, <4>2 DEF ExactPrefix
    <3>3. CASE JobKind[j] # "export"
      <4>1. JobKind[j] = "import"
        BY <3>3, JobConstantsAssumption DEF JobKind, TypeOK
      <4> QED
        BY <1>1, <1>3, <3>3, <4>1 DEF OwnerKnows, BeforePcs, Written
    <3> QED
      BY <3>1, <3>2, <3>3
  <2> QED
    BY <1>1, <2>1, <2>2 DEF OwnerKnows, Written, BeforePcs
<1> QED
  BY <1>2, <1>3, WorkerEffects

\* What a worker learns batch by batch.
LEMMA WorkerLearns ==
    ASSUME TypeOK, ShapeInv, DataInv, NEW c \in Callers, NEW j \in Jobs, j = call[c].job,
           \/ WorkerError(c) \/ WorkerTotals(c) \/ WorkerNext(c) \/ WorkerBatch(c)
           \/ WorkerProgress(c) \/ WorkerStop(c) \/ StopOutcome(c) \/ WorkerDone(c) \/ WorkerFinal(c)
    PROVE  OwnerKnows(c, j)'
<1>0. CallStep(c) /\ call[c].pc \in OwnerPcs
  BY DEF CallStep, OwnerPcs, WorkerError, WorkerTotals, WorkerNext, WorkerBatch, WorkerProgress,
     WorkerStop, StopOutcome, WorkerDone, WorkerFinal
<1>1. /\ JobKind'[j] = JobKind[j] /\ Resumable'[j] = Resumable[j]
      /\ DataOf(j) /\ OwnerKnows(c, j) /\ call[c].batch \in 0..MaxBatches
      /\ published[j] => published'[j]
  BY <1>0, CallStepFormat, AppliedSteps DEF DataInv, DataOf, Owns, TypeOK, Calls
<1>2. ASSUME NEW out \in {"cancelled", "failed", "outcome_unknown"}, MovedOut(c, out)
      PROVE  OwnerKnows(c, j)'
  BY <1>2 DEF MovedOut, MovedTo, OwnerKnows, BeforePcs
<1>3. CASE WorkerError(c)
  BY <1>2, <1>3, WorkerEffects
<1>4. CASE WorkerTotals(c) \/ WorkerNext(c)
  <2>1. /\ call[c].pc \in {"totals", "work"} /\ UNCHANGED <<job, applied>>
        /\ Moved(c, "work") \/ Moved(c, "batch")
    BY <1>4, WorkerEffects
  <2>2. Written(j, call[c].batch) /\ call[c].batch = job[j].rows
    BY <1>1, <2>1 DEF OwnerKnows
  <2> QED
    BY <2>1, <2>2 DEF Moved, MovedTo, OwnerKnows, Written, BeforePcs
<1>5. CASE WorkerBatch(c)
  <2>1. CASE Moved(c, "progress") /\ applied' = Applied(j, call[c].batch + 1)
    <3>1. call[c].pc = "batch" /\ UNCHANGED job
      BY <1>5, WorkerEffects
    <3>2. call[c].batch + 1 \in Batches
      BY <3>1, <1>1, JobConstantsAssumption DEF ShapeInv, ShapeOf, Batches
    <3>3. Written(j, call[c].batch) /\ call[c].batch = job[j].rows
      BY <1>1, <3>1 DEF OwnerKnows
    <3>4. \A b \in Batches : applied'[j][b] = (IF b <= call[c].batch + 1 THEN 1 ELSE 0)
      <4>1. applied'[j][call[c].batch + 1] = 1
        BY <1>1, <2>1, <3>2, <3>3, AppliedFrame DEF Written, Batches
      <4>2. \A b \in Batches : b # call[c].batch + 1 => applied'[j][b] = applied[j][b]
        BY <2>1, <3>2, AppliedFrame
      <4> QED
        BY <1>1, <3>2, <3>3, <4>1, <4>2 DEF Written, Batches
    <3> QED
      BY <2>1, <3>1, <3>3, <3>4 DEF Moved, MovedTo, OwnerKnows, Written, BeforePcs
  <2> QED
    BY <1>2, <1>5, <2>1, WorkerEffects
<1>6. CASE WorkerProgress(c)
  <2>1. CASE Recorded(j, call[c].batch + 1) /\ MovedBatch(c, "work", call[c].batch + 1)
    BY <1>1, <1>6, <2>1, ProgressEffects DEF MovedBatch, MovedTo, OwnerKnows, Recorded, Written, BeforePcs
  <2> QED
    BY <1>2, <1>6, <2>1, ProgressEffects
<1>7. CASE WorkerStop(c)
  <2>1. CASE Recorded(j, call[c].batch) /\ Moved(c, "stop_outcome")
    BY <1>1, <1>7, <2>1, ProgressEffects DEF Moved, MovedTo, OwnerKnows, Recorded, Written, BeforePcs
  <2> QED
    BY <1>2, <1>7, <2>1, ProgressEffects
<1>8. CASE StopOutcome(c)
  <2>1. CASE MovedOut(c, "paused")
    <3>1. call[c].pc = "stop_outcome" /\ UNCHANGED <<job, applied>>
      BY <1>8, WorkerEffects
    <3>2. Written(j, job[j].rows)
      BY <1>1, <3>1 DEF OwnerKnows
    <3> QED
      BY <2>1, <3>1, <3>2 DEF MovedOut, MovedTo, OwnerKnows, Written, BeforePcs
  <2> QED
    BY <1>2, <1>8, <2>1, WorkerEffects
<1>9. CASE WorkerDone(c)
  <2>1. \A b \in Batches : applied'[j][b] = 1
    <3>1. call[c].pc = "work" /\ call[c].batch = MaxBatches /\ UNCHANGED applied
      BY <1>9, WorkerEffects
    <3>2. Written(j, MaxBatches)
      BY <1>1, <3>1 DEF OwnerKnows
    <3> QED
      BY <3>1, <3>2, JobConstantsAssumption DEF Written, Batches
  <2> QED
    BY <1>1, <1>9, <2>1, WorkerEffects DEF Moved, MovedOut, MovedTo, OwnerKnows, BeforePcs
<1>10. CASE WorkerFinal(c)
  <2>1. CASE MovedOut(c, "succeeded")
    BY <1>1, <1>10, <2>1, WorkerEffects DEF MovedOut, MovedTo, OwnerKnows, BeforePcs
  <2> QED
    BY <1>2, <1>10, <2>1, WorkerEffects
<1> QED
  BY <1>3, <1>4, <1>5, <1>6, <1>7, <1>8, <1>9, <1>10

\* After a step of a call its owner still knows what has been written.
LEMMA OwnerLearns ==
    ASSUME TypeOK, ShapeInv, DataInv, PlainInv, NEW c \in Callers, NEW j \in Jobs, j = call[c].job,
           CallStep(c), call'[c].pc \in OwnerPcs
    PROVE  OwnerKnows(c, j)'
<1>1. CASE \/ CreateInsert(c) \/ StartReadJob(c) \/ StartReadOp(c) \/ StartClaimJob(c)
           \/ StartClaimOp(c) \/ StartUndo(c) \/ UndoTx(c) \/ StartInsert(c) \/ StartLatest(c)
  BY <1>1, StartLearns
<1>2. CASE WorkerBegin(c)
  BY <1>2, BeginLearns
<1>3. CASE \/ WorkerError(c) \/ WorkerTotals(c) \/ WorkerNext(c) \/ WorkerBatch(c)
           \/ WorkerProgress(c) \/ WorkerStop(c) \/ StopOutcome(c) \/ WorkerDone(c) \/ WorkerFinal(c)
  BY <1>3, WorkerLearns
<1>4. CASE \/ FinishCancelledJob(c) \/ FinishCancelledOp(c)
           \/ Complete(c) \/ PauseLost(c) \/ CloseOp(c) \/ RemoveRunning(c)
  BY <1>4, FinishEffects DEF Moved, MovedTo, Idled, OwnerPcs
<1>5. CASE PauseToken(c) \/ CancelChoose(c) \/ CancelRequest(c) \/ CancelSignal(c) \/ CancelOp(c)
  BY <1>5, CancelEffects DEF Moved, MovedSnap, MovedTo, Idled, OwnerPcs
<1> QED
  BY <1>1, <1>2, <1>3, <1>4, <1>5 DEF CallStep

\* A step on one job leaves what is known about the others.
LEMMA DataElsewhere ==
    ASSUME TypeOK, ShapeInv, BirthInv, OwnerInv, DataInv, NEW c \in Callers, CallStep(c),
           NEW k \in Jobs, k # call[c].job
    PROVE  DataOf(k)'
<1>0. PICK j \in Jobs : j = call[c].job
  BY CallStepFramed
<1>1. Framed(c, j)
  BY <1>0, CallStepFramed
<1>2. /\ job'[k] = job[k] /\ applied'[k] = applied[k] /\ published'[k] = published[k]
      /\ JobKind'[k] = JobKind[k] /\ Resumable'[k] = Resumable[k]
  BY <1>0, <1>1, CallStepFormat DEF Framed, JobFramed, AppliedFramed, PublishedFramed
<1>3. DataOf(k)
  BY DEF DataInv
<1>4. ASSUME NEW d \in Callers, Owns(d, k)' PROVE OwnerKnows(d, k)'
  <2>1. Owns(d, k) /\ d # c
    BY <1>0, <1>4, OwnerSteps
  <2>2. Untouched(c, d)
    BY <1>1, <2>1, OthersUntouched DEF Framed
  <2>3. OwnerKnows(d, k)
    BY <1>3, <2>1 DEF DataOf
  <2> QED
    BY <1>2, <2>2, <2>3 DEF OwnerKnows, Untouched, Written
<1>5. \A d \in Callers : Owns(d, k)' => OwnerKnows(d, k)'
  BY <1>4
<1> HIDE <1>4
<1> QED
  BY <1>2, <1>3, <1>5 DEF DataOf, Written

\* A step on a job whose output it does not touch.
LEMMA DataHere ==
    ASSUME TypeOK, ShapeInv, BirthInv, OwnerInv, DataInv, PlainInv,
           NEW c \in Callers, NEW j \in Jobs, j = call[c].job, CallStep(c)
    PROVE  DataOf(j)'
<1>0. Framed(c, j) /\ Active(c, j) /\ DataOf(j) /\ JobMoves(c, j)
  BY CallStepFramed, JobSteps DEF DataInv, Active
<1>1. JobKind'[j] = JobKind[j] /\ Resumable'[j] = Resumable[j] /\ (published[j] => published'[j])
  BY CallStepFormat, AppliedSteps
<1>2. call[c].pc \in OwnerPcs =>
         /\ OwnerKnows(c, j)
         /\ job[j].state \in {"running", "cancel_requested", "cancelled", "failed"}
         /\ \A d \in Callers : d # c => ~Owns(d, j)
  BY <1>0 DEF DataOf, OwnerInv, Owns
<1>3. \A d \in Callers : Owns(d, j)' => OwnerKnows(d, j)'
  <2> SUFFICES ASSUME NEW d \in Callers, Owns(d, j)' PROVE OwnerKnows(d, j)'
    OBVIOUS
  <2>1. CASE d = c
    BY <2>1, OwnerLearns DEF Owns
  <2>2. CASE d # c
    <3>1. Owns(d, j) /\ Untouched(c, d)
      BY <1>0, <2>2, OwnerSteps, OthersUntouched DEF Framed
    <3>2. call[c].pc \notin OwnerPcs
      BY <1>2, <2>2, <3>1
    <3>3. /\ OwnerKnows(d, j)
          /\ job[j].state \in {"running", "cancel_requested", "cancelled", "failed"}
      BY <1>0, <3>1 DEF DataOf, OwnerInv
    <3>4. call[c].pc # "create_insert"
      BY <1>0, <3>3 DEF BirthInv
    <3>5. job'[j].rows = job[j].rows
      BY <1>0, <3>2, <3>3, <3>4 DEF JobMoves, CasTo, OwnerPcs
    <3>6. UNCHANGED applied
      BY <3>2, AppliedSteps DEF OwnerPcs
    <3> QED
      BY <1>1, <3>1, <3>3, <3>5, <3>6 DEF OwnerKnows, Untouched, Written
  <2> QED
    BY <2>1, <2>2
<1>4. job'[j].rows > 0 /\ Resumable'[j] => job'[j].ckpt
  BY <1>0, <1>1 DEF JobMoves, CasTo, Recorded, DataOf
<1>5. job'[j].state = "succeeded" =>
         /\ \A b \in Batches : applied'[j][b] = 1
         /\ JobKind'[j] = "export" => published'[j]
  <2> SUFFICES ASSUME job'[j].state = "succeeded"
               PROVE  /\ \A b \in Batches : applied'[j][b] = 1
                      /\ JobKind'[j] = "export" => published'[j]
    OBVIOUS
  <2>1. CASE job[j].state = "succeeded"
    <3>1. call[c].pc \notin OwnerPcs
      BY <1>2, <2>1
    <3>2. UNCHANGED applied
      BY <3>1, AppliedSteps DEF OwnerPcs
    <3> QED
      BY <1>0, <1>1, <2>1, <3>2 DEF DataOf
  <2>2. CASE job[j].state # "succeeded"
    <3>1. call[c].pc = "complete" /\ call[c].out = "succeeded"
      BY <2>2, StateSteps
    <3>2. OwnerKnows(c, j) /\ UNCHANGED applied
      BY <1>2, <3>1, AppliedSteps DEF OwnerPcs
    <3> QED
      BY <1>1, <3>1, <3>2 DEF OwnerKnows
  <2> QED
    BY <2>1, <2>2
<1>6. ASSUME JobKind[j] = "import", job'[j].state \in {"absent", "queued", "paused"}
      PROVE  Written(j, job[j].rows)' /\ UNCHANGED applied
  <2>1. UNCHANGED applied
    <3>1. call[c].pc \in {"worker_wait", "batch"} =>
             job[j].state \in {"running", "cancel_requested", "cancelled", "failed"}
      BY <1>2 DEF OwnerPcs
    <3> QED
      BY <1>6, <3>1, AppliedSteps
  <2>2. Written(j, job'[j].rows)
    <3>1. CASE job[j].state \in {"absent", "queued", "paused"} /\ job'[j].rows = job[j].rows
      BY <1>0, <1>6, <3>1 DEF DataOf
    <3>2. CASE ~(job[j].state \in {"absent", "queued", "paused"} /\ job'[j].rows = job[j].rows)
      <4>0. call[c].pc = "create_insert" => job[j].state = "absent"
        BY <1>0 DEF BirthInv
      <4>1. /\ call[c].pc = "undo_tx" \/ (call[c].pc = "complete" /\ call[c].out = "paused")
            /\ job'[j].rows = job[j].rows
        <5>1. call[c].pc = "complete" /\ call[c].out # "paused" =>
                 FinishState(call[c].out) \notin {"absent", "queued", "paused"}
          BY DEF FinishState, ShapeInv, ShapeOf, TypeOK, Calls
        <5> QED
          BY <1>0, <1>6, <3>2, <4>0, <5>1 DEF JobMoves, CasTo, Recorded, Executing
      <4>2. OwnerKnows(c, j)
        BY <1>2, <4>1 DEF OwnerPcs
      <4> QED
        BY <1>6, <4>1, <4>2 DEF OwnerKnows, BeforePcs
    <3> QED
      BY <3>1, <3>2
  <2> QED
    BY <2>1, <2>2 DEF Written
<1>7. ASSUME JobKind[j] = "import", NEW b \in Batches
      PROVE  applied'[j][b] <= 1
  <2>1. applied[j][b] <= 1
    BY <1>0, <1>7 DEF DataOf
  <2>2. CASE UNCHANGED applied
    BY <2>1, <2>2
  <2>3. CASE WorkerBegin(c)
    BY <2>1, <2>3, <1>7, WorkerEffects
  <2>4. CASE WorkerBatch(c)
    <3>1. call[c].pc = "batch" /\ call[c].batch \in 0..MaxBatches
      BY <2>4 DEF WorkerBatch, TypeOK, Calls
    <3>2. call[c].batch + 1 \in Batches
      BY <3>1, JobConstantsAssumption DEF ShapeInv, ShapeOf, Batches
    <3>3. Written(j, call[c].batch)
      BY <1>2, <3>1 DEF OwnerKnows, OwnerPcs
    <3>4. applied[j][call[c].batch + 1] = 0
      BY <3>1, <3>2, <3>3 DEF Written, Batches
    <3>5. applied' = Applied(j, call[c].batch + 1) \/ UNCHANGED applied
      BY <2>4, WorkerEffects
    <3>6. CASE applied' = Applied(j, call[c].batch + 1)
      <4>1. applied'[j][call[c].batch + 1] = 1
        BY <3>2, <3>4, <3>6, AppliedFrame
      <4>2. b # call[c].batch + 1 => applied'[j][b] = applied[j][b]
        BY <3>2, <3>6, AppliedFrame
      <4> QED
        BY <2>1, <4>1, <4>2
    <3> QED
      BY <2>2, <3>5, <3>6
  <2>5. UNCHANGED applied \/ WorkerBegin(c) \/ WorkerBatch(c)
    BY AppliedSteps, WorkerEffects, StartEffects DEF CallStep, WorkerError, WorkerTotals, WorkerNext, WorkerProgress,
       WorkerStop, StopOutcome, WorkerDone, WorkerFinal,
       StartReadJob, StartReadOp, StartClaimJob, StartClaimOp, StartUndo, UndoTx, StartInsert,
       StartLatest, CreateInsert, FinishCancelledJob, FinishCancelledOp, Complete, PauseLost,
       CloseOp, RemoveRunning, PauseToken, CancelChoose, CancelRequest, CancelSignal, CancelOp, outside
  <2> QED
    BY <2>2, <2>3, <2>4, <2>5
<1>8. JobKind[j] = "import" =>
         /\ \A b \in Batches : applied'[j][b] <= 1
         /\ job'[j].state \in {"absent", "queued", "paused"} => Written(j, job[j].rows)'
  BY <1>6, <1>7
<1> QED
  BY <1>1, <1>3, <1>4, <1>5, <1>8 DEF DataOf

\* Every step keeps the ledger, the owner and the written batches in agreement.
LEMMA NextData ==
    ASSUME TypeOK, ShapeInv, QuietInv, BirthInv, OwnerInv, DataInv, PlainInv, [Next]_vars
    PROVE  DataInv'
<1>1. ASSUME NEW c \in Callers, CallStep(c) PROVE DataInv'
  <2>1. PICK j \in Jobs : j = call[c].job
    BY <1>1, CallStepFramed
  <2>2. \A k \in Jobs : DataOf(k)'
    BY <1>1, <2>1, DataHere, DataElsewhere
  <2> QED
    BY <2>2 DEF DataInv
<1>2. ASSUME NEW c \in Callers, NEW j \in Jobs,
             CreatePlan(c, j) \/ StartCheck(c, j) \/ PauseRequest(c, j) \/ CancelRead(c, j)
      PROVE  DataInv'
  <2>1. /\ \E pc \in {"create_insert", "start_read_job", "cancel_req", "pause_token"} : Entered(c, j, pc)
        /\ job'[j].state = job[j].state /\ job'[j].rows = job[j].rows /\ job'[j].ckpt = job[j].ckpt
    <3>1. job[j] \in JobRow
      BY DEF TypeOK, JobRow
    <3>2. /\ [job[j] EXCEPT !.pause = TRUE].state = job[j].state
          /\ [job[j] EXCEPT !.pause = TRUE].rows = job[j].rows
          /\ [job[j] EXCEPT !.pause = TRUE].ckpt = job[j].ckpt
      BY <3>1 DEF JobRow
    <3> QED
      BY <1>2, <3>2, Entering DEF rows
  <2>2. /\ \A k \in Jobs : /\ job'[k].state = job[k].state /\ job'[k].rows = job[k].rows
                           /\ job'[k].ckpt = job[k].ckpt /\ job'[k].format = job[k].format
        /\ \A d \in Callers : d # c => call'[d] = call[d]
        /\ call'[c].pc \notin OwnerPcs /\ UNCHANGED <<applied, published>>
    BY <2>1 DEF Entered, JobFramed, OwnerPcs, outside
  <2>3. ASSUME NEW k \in Jobs PROVE DataOf(k)'
    <3>1. JobKind'[k] = JobKind[k] /\ Resumable'[k] = Resumable[k] /\ DataOf(k)
      BY <2>2, FormatKept DEF DataInv
    <3>2. \A d \in Callers : Owns(d, k)' => OwnerKnows(d, k)'
      <4> SUFFICES ASSUME NEW d \in Callers, Owns(d, k)' PROVE OwnerKnows(d, k)'
        OBVIOUS
      <4>1. d # c /\ call'[d] = call[d] /\ Owns(d, k)
        BY <2>2 DEF Owns
      <4>2. OwnerKnows(d, k)
        BY <3>1, <4>1 DEF DataOf
      <4> QED
        BY <2>2, <3>1, <4>1, <4>2 DEF OwnerKnows, Written
    <3> QED
      BY <2>2, <3>1, <3>2 DEF DataOf, Written
  <2> QED
    BY <2>3 DEF DataInv
<1>3. ASSUME UNCHANGED <<job, call, outside>> PROVE DataInv'
  BY <1>3 DEF DataInv, DataOf, OwnerKnows, Owns, Written, JobKind, Resumable, outside
<1>4. ASSUME NEW j \in Jobs, NEW d \in {"approved", "rejected"}, DecideImport(j, d)
      PROVE  UNCHANGED <<job, call, outside>>
  BY <1>4, Deciding
<1>5. CASE RecoveryStep
  <2>1. /\ \A c \in Callers : \A k \in Jobs : ~Owns(c, k)'
        /\ UNCHANGED <<applied, published>> /\ \A k \in Jobs : job'[k].format = job[k].format
    BY <1>5, RecoveryFrame DEF RecoveryFramed, QuietInv, Owns, OwnerPcs, outside
  <2>2. ASSUME NEW k \in Jobs
        PROVE  /\ job'[k].rows = job[k].rows /\ job'[k].ckpt = job[k].ckpt
               /\ \/ job'[k].state = job[k].state
                  \/ job'[k].state \in {"cancelled", "failed"}
                  \/ job'[k].state = "paused" /\ JobKind[k] = "export"
    <3>1. CASE RecoverLedger
      <4>1. InterruptedState(k) = "failed" \/ (InterruptedState(k) = "paused" /\ JobKind[k] = "export")
        BY DEF InterruptedState
      <4> QED
        BY <3>1, <4>1, LedgerRow
    <3>2. CASE RecoverNextLoop
      BY <3>2 DEF RecoverNextLoop, rows
    <3>3. ASSUME NEW j \in Jobs,
                 RecoverExport(j) \/ RecoverQueued(j) \/ RecoverPaused(j) \/ RecoverPausedOp(j)
          PROVE  /\ job'[k].rows = job[k].rows /\ job'[k].ckpt = job[k].ckpt
                 /\ job'[k].state = job[k].state \/ job'[k].state \in {"cancelled", "failed"}
      BY <3>3, RecoverEffects DEF JobFramed, CasTo
    <3> QED
      BY <1>5, <3>1, <3>2, <3>3 DEF RecoveryStep
  <2>3. ASSUME NEW k \in Jobs PROVE DataOf(k)'
    <3>1. JobKind'[k] = JobKind[k] /\ Resumable'[k] = Resumable[k] /\ DataOf(k)
      BY <2>1, FormatKept DEF DataInv
    <3> QED
      BY <2>1, <2>2, <3>1 DEF DataOf, Written
  <2> QED
    BY <2>3 DEF DataInv
<1>6. CASE Restart
  <2>1. /\ \A c \in Callers : \A k \in Jobs : ~Owns(c, k)'
        /\ UNCHANGED <<job, published>>
    BY <1>6, RestartFrame DEF IdleCall, Owns, OwnerPcs
  <2>2. PICK S \in SUBSET InFlight : applied' = Landed(S)
    BY <1>6 DEF Restart
  <2>3. ASSUME NEW k \in Jobs, NEW b \in Batches, applied'[k][b] # applied[k][b]
        PROVE  /\ applied'[k][b] <= 1
               /\ job[k].state \notin {"absent", "queued", "paused", "succeeded"}
    <3>1. /\ applied'[k][b] = applied[k][b] + 1
          /\ \E c \in Callers : call[c].pc = "batch" /\ call[c].job = k /\ call[c].batch + 1 = b
      BY <2>2, <2>3, Landing
    <3>2. PICK c \in Callers : call[c].pc = "batch" /\ call[c].job = k /\ call[c].batch + 1 = b
      BY <3>1
    <3>3. Owns(c, k) /\ OwnerKnows(c, k) /\ call[c].batch \in Nat
      BY <3>2 DEF Owns, OwnerPcs, DataInv, DataOf, TypeOK, Calls
    <3>4. Written(k, call[c].batch)
      BY <3>2, <3>3 DEF OwnerKnows
    <3>5. applied[k][b] = 0
      BY <3>2, <3>3, <3>4 DEF Written
    <3> QED
      BY <3>1, <3>3, <3>5 DEF OwnerInv
  <2>4. ASSUME NEW k \in Jobs PROVE DataOf(k)'
    <3>1. JobKind'[k] = JobKind[k] /\ Resumable'[k] = Resumable[k] /\ DataOf(k)
      BY <2>1, FormatKept DEF DataInv
    <3>2. \A b \in Batches : applied'[k][b] # applied[k][b] =>
             /\ applied'[k][b] <= 1
             /\ job[k].state \notin {"absent", "queued", "paused", "succeeded"}
      BY <2>3
    <3> QED
      BY <2>1, <3>1, <3>2 DEF DataOf, Written
  <2> QED
    BY <2>4 DEF DataInv
<1> QED
  BY <1>1, <1>2, <1>3, <1>4, <1>5, <1>6 DEF Next, vars, rows

-----------------------------------------------------------------------------
(* The operation follows the job.                                          *)

\* A worker closes the operation after it has finished the job.
LEMMA BecomesCloser ==
    ASSUME TypeOK, ShapeInv, NEW c \in Callers, NEW j \in Jobs, j = call[c].job, CallStep(c),
           call'[c].pc = "close_op"
    PROVE  CasTo(j, FinishState(call[c].out)) /\ call'[c].out = call[c].out
<1>1. CASE \/ CreateInsert(c) \/ StartReadJob(c) \/ StartReadOp(c) \/ StartClaimJob(c)
           \/ StartClaimOp(c) \/ StartUndo(c) \/ UndoTx(c) \/ StartInsert(c) \/ StartLatest(c)
  BY <1>1, StartEffects DEF Moved, MovedSnap, MovedBatch, MovedTo, Idled
<1>2. CASE \/ WorkerBegin(c) \/ WorkerError(c) \/ WorkerTotals(c) \/ WorkerNext(c) \/ WorkerBatch(c)
           \/ StopOutcome(c) \/ WorkerDone(c) \/ WorkerFinal(c)
  BY <1>2, WorkerEffects DEF Moved, MovedOut, MovedTo
<1>3. CASE WorkerProgress(c) \/ WorkerStop(c)
  BY <1>3, ProgressEffects DEF Moved, MovedOut, MovedBatch, MovedTo
<1>4. CASE \/ FinishCancelledJob(c) \/ FinishCancelledOp(c)
           \/ Complete(c) \/ PauseLost(c) \/ CloseOp(c) \/ RemoveRunning(c)
  BY <1>4, FinishEffects DEF Moved, MovedTo, Idled
<1>5. CASE PauseToken(c) \/ CancelChoose(c) \/ CancelRequest(c) \/ CancelSignal(c) \/ CancelOp(c)
  BY <1>5, CancelEffects DEF Moved, MovedSnap, MovedTo, Idled
<1> QED
  BY <1>1, <1>2, <1>3, <1>4, <1>5 DEF CallStep

\* Every step keeps an operation behind its job, and closed the same way.
LEMMA NextSettled ==
    ASSUME TypeOK, ShapeInv, QuietInv, BirthInv, OwnerInv, SettledInv, [Next]_vars
    PROVE  SettledInv'
<1>1. ASSUME NEW c \in Callers, CallStep(c), NEW k \in Jobs PROVE SettledOf(k)'
  <2>0. PICK j \in Jobs : j = call[c].job
    BY <1>1, CallStepFramed
  <2>1. Active(c, j) /\ Framed(c, j) /\ UNCHANGED gate /\ phase = "up" /\ SettledOf(k) /\ SettledOf(j)
    BY <1>1, <2>0, CallStepFramed DEF Active, QuietInv, SettledInv
  <2>2. \A d \in Callers : d # c => Untouched(c, d)
    BY <2>1, OthersUntouched DEF Framed
  <2>3. Idled(c) \/ call'[c].job = j
    BY <2>0, <2>1, Returns DEF Framed, CallFramed
  <2>4. CASE k # j
    <3>1. job'[k] = job[k] /\ op'[k] = op[k]
      BY <2>1, <2>4 DEF Framed, JobFramed, OpFramed
    <3>2. \A d \in Callers : (Active(d, k) /\ call[d].pc = "close_op")' =>
             Active(d, k) /\ call[d].pc = "close_op" /\ call'[d].out = call[d].out
      BY <2>2, <2>3, <2>4 DEF Active, Untouched, Idled
    <3> QED
      BY <2>1, <3>1, <3>2 DEF SettledOf, gate
  <2>5. CASE k = j
    <3>1. ASSUME job[j].state \in JobTerminal PROVE job'[j].state = job[j].state
      <4>1. call[c].pc # "create_insert"
        BY <2>1, <3>1 DEF BirthInv, JobTerminal
      <4> QED
        BY <1>1, <2>0, <3>1, <4>1, StateSteps
    <3>2. \A d \in Callers : call[d].pc = "close_op" => FinishState(call[d].out) \in JobTerminal
      BY DEF ShapeInv, ShapeOf, TypeOK, Calls, FinishState, JobTerminal
    <3>3. ASSUME NEW d \in Callers, Active(d, j)', call'[d].pc = "close_op"
          PROVE  job'[j].state = FinishState(call'[d].out)
      <4>1. CASE d = c
        BY <1>1, <2>0, <3>3, <4>1, BecomesCloser DEF CasTo
      <4>2. CASE d # c
        <5>1. Active(d, j) /\ call[d].pc = "close_op" /\ call'[d].out = call[d].out
          BY <2>2, <3>3, <4>2 DEF Untouched, Active
        <5>2. job[j].state = FinishState(call[d].out)
          BY <2>1, <5>1 DEF SettledOf
        <5> QED
          BY <3>1, <3>2, <5>1, <5>2
      <4> QED
        BY <4>1, <4>2
    <3>4. ASSUME NEW s \in {"succeeded", "failed"}, op'[j].state = s
          PROVE  job'[j].state = s
      <4>1. CASE op[j].state = s
        BY <2>1, <3>1, <3>4, <4>1 DEF SettledOf, JobTerminal
      <4>2. CASE op[j].state # s
        <5>1. call[c].pc = "close_op" /\ UNCHANGED job /\ call[c].out = s
          BY <1>1, <2>0, <3>4, <4>2, OpSteps
        <5> QED
          BY <2>1, <5>1 DEF SettledOf, FinishState
      <4> QED
        BY <4>1, <4>2
    <3>5. j \in closing' => job'[j].state = "failed"
      BY <2>1, <3>1 DEF SettledOf, gate, JobTerminal
    <3> QED
      BY <2>1, <2>5, <3>3, <3>4, <3>5 DEF SettledOf, gate
  <2> QED
    BY <2>4, <2>5
<1>2. ASSUME NEW c \in Callers, NEW j \in Jobs,
             CreatePlan(c, j) \/ StartCheck(c, j) \/ PauseRequest(c, j) \/ CancelRead(c, j),
             NEW k \in Jobs
      PROVE  SettledOf(k)'
  <2>1. /\ \E pc \in {"create_insert", "start_read_job", "cancel_req", "pause_token"} : Entered(c, j, pc)
        /\ job'[j].state = job[j].state
        /\ op'[j].state = op[j].state \/ op'[j].state \in {"pending_approval", "ready"}
    <3>1. job[j] \in JobRow
      BY DEF TypeOK, JobRow
    <3>2. [job[j] EXCEPT !.pause = TRUE].state = job[j].state
      BY <3>1 DEF JobRow
    <3> QED
      BY <1>2, <3>2, Entering DEF rows
  <2>2. /\ job'[k].state = job[k].state
        /\ op'[k].state = op[k].state \/ op'[k].state \in {"pending_approval", "ready"}
        /\ \A d \in Callers : d # c => call'[d] = call[d]
        /\ call'[c].pc # "close_op" /\ UNCHANGED gate
    BY <2>1 DEF Entered, JobFramed, OpFramed
  <2>3. SettledOf(k)
    BY DEF SettledInv
  <2> QED
    BY <2>2, <2>3 DEF SettledOf, Active, gate
<1>3. ASSUME NEW j \in Jobs, NEW d \in {"approved", "rejected"}, DecideImport(j, d), NEW k \in Jobs
      PROVE  SettledOf(k)'
  <2>1. /\ UNCHANGED <<job, call, gate>>
        /\ op'[k].state = op[k].state \/ op'[k].state \in {"approved", "rejected"}
    BY <1>3, Deciding DEF OpFramed
  <2> QED
    BY <2>1 DEF SettledOf, SettledInv, Active, gate
<1>4. ASSUME RecoveryStep, NEW k \in Jobs PROVE SettledOf(k)'
  <2>0. /\ UNCHANGED call /\ \A c \in Callers : call[c].pc = "idle"
        /\ SettledOf(k)
    BY <1>4, RecoveryFrame DEF RecoveryFramed, QuietInv, SettledInv
  <2>1. CASE RecoverLedger
    <3>1. /\ UNCHANGED <<op, closing>>
          /\ job[k].state \notin Executing => job'[k] = job[k]
          /\ job[k].state \in Executing => job'[k].state = InterruptedState(k)
      BY <2>1, LedgerRow DEF RecoverLedger
    <3>2. k \in todo' => job'[k].state = "failed"
      BY <2>1, <3>1 DEF RecoverLedger, InterruptedState
    <3> QED
      BY <2>0, <3>1, <3>2 DEF SettledOf, Active, Executing
  <2>2. CASE RecoverNextLoop
    <3>1. phase' \in {"queued", "paused", "up"} /\ UNCHANGED <<job, op, closing>>
      BY <2>2 DEF RecoverNextLoop, rows
    <3> QED
      BY <2>0, <3>1 DEF SettledOf, Active
  <2>3. ASSUME NEW j \in Jobs,
               RecoverExport(j) \/ RecoverQueued(j) \/ RecoverPaused(j) \/ RecoverPausedOp(j)
        PROVE  SettledOf(k)'
    <3>1. /\ phase' = "exports" => phase = "exports"
          /\ todo' \in SUBSET todo
      BY <2>3 DEF RecoverExport, RecoverQueued, RecoverPaused, RecoverPausedOp, RecoveryFails,
         RebindPending
    <3>2. k \in closing' => k \in closing \/ job'[k].state = "failed"
      <4>1. CASE RecoverPaused(j)
        <5>1. closing' # closing => JobCas(j, {"paused"}, "failed") /\ closing' \subseteq closing \cup {j}
          BY <4>1 DEF RecoverPaused
        <5>2. JobCas(j, {"paused"}, "failed") => job'[j].state = "failed"
          BY RowEffects DEF CasTo
        <5> QED
          BY <5>1, <5>2
      <4> QED
        BY <2>3, <4>1 DEF RecoverExport, RecoverQueued, RecoverPausedOp, RecoveryFails, RebindPending
    <3>3. /\ job'[k].state = job[k].state \/ job[k].state \in {"queued", "paused"}
          /\ op'[k].state = op[k].state
                \/ /\ op'[k].state = "failed" /\ UNCHANGED job
                   /\ (phase = "exports" /\ k \in todo) \/ k \in closing
      BY <2>3, RecoverEffects DEF JobFramed, OpFramed
    <3> QED
      BY <2>0, <3>1, <3>2, <3>3 DEF SettledOf, Active
  <2> QED
    BY <1>4, <2>1, <2>2, <2>3 DEF RecoveryStep
<1>5. ASSUME Restart, NEW k \in Jobs PROVE SettledOf(k)'
  <2>1. /\ UNCHANGED job /\ phase' = "ledger" /\ closing' = {}
        /\ \A c \in Callers : call'[c].pc = "idle"
    BY <1>5, RestartFrame DEF IdleCall
  <2>2. \A s \in {"succeeded", "failed"} : op'[k].state = s => op[k].state = s
    BY <1>5, RestartOp
  <2> QED
    BY <2>1, <2>2 DEF SettledOf, SettledInv, Active
<1>6. ASSUME UNCHANGED vars, NEW k \in Jobs PROVE SettledOf(k)'
  BY <1>6 DEF SettledInv, SettledOf, Active, vars, rows, gate
<1> QED
  BY <1>1, <1>2, <1>3, <1>4, <1>5, <1>6 DEF Next, SettledInv

-----------------------------------------------------------------------------
(* Jobs that cannot pause.                                                 *)

\* A step of a call on a job that cannot pause.
LEMMA PlainCaller ==
    ASSUME TypeOK, ShapeInv, BirthInv, OwnerInv, PlainInv,
           NEW c \in Callers, NEW j \in Jobs, j = call[c].job, CallStep(c), ~Resumable[j],
           call'[c].pc # "idle"
    PROVE  PlainCall(c, j)'
<1>0. /\ Active(c, j) /\ PlainCall(c, j) /\ job[j].state # "paused" /\ ~job[j].pause
      /\ call[c] \in Calls /\ ~Idled(c)
  BY CallStepFramed DEF PlainInv, PlainOf, Active, TypeOK, Idled
<1>1. ASSUME job[j].state \in Doomed PROVE job'[j].state \in Doomed
  <2>1. call[c].pc # "create_insert"
    BY <1>0, <1>1 DEF BirthInv, Doomed, JobTerminal
  <2> QED
    BY <1>1, <2>1, StateSteps
<1>2. ASSUME job[j].state \in JobTerminal PROVE job'[j].state \in JobTerminal
  <2>1. call[c].pc # "create_insert"
    BY <1>0, <1>2 DEF BirthInv, JobTerminal
  <2> QED
    BY <1>2, <2>1, StateSteps
<1>3. call[c].stop => job'[j].state \in Doomed
  BY <1>0, <1>1 DEF PlainCall
<1>4. CASE CreateInsert(c) \/ UndoTx(c) \/ RemoveRunning(c) \/ PauseToken(c)
  BY <1>0, <1>4, StartEffects, FinishEffects, CancelEffects
<1>5. CASE StartReadJob(c) \/ StartReadOp(c) \/ StartClaimJob(c)
  BY <1>0, <1>3, <1>5, StartEffects DEF MovedSnap, Moved, MovedBatch, MovedTo, PlainCall
<1>6. CASE StartClaimOp(c) \/ StartInsert(c)
  BY <1>0, <1>3, <1>6, StartEffects DEF Moved, MovedTo, PlainCall
<1>7. CASE StartUndo(c)
  BY <1>0, <1>3, <1>7, StartEffects DEF Moved, MovedTo, PlainCall, Doomed
<1>8. CASE StartLatest(c)
  BY <1>0, <1>3, <1>8, StartEffects DEF Moved, MovedTo, PlainCall, Doomed
<1>9. CASE \/ WorkerBegin(c) \/ WorkerError(c) \/ WorkerTotals(c) \/ WorkerNext(c) \/ WorkerBatch(c)
           \/ WorkerDone(c) \/ WorkerFinal(c)
  <2>1. \/ \E out \in {"cancelled", "failed", "outcome_unknown", "succeeded"} : MovedOut(c, out)
        \/ \E pc \in {"totals", "work", "batch", "progress", "final"} : Moved(c, pc)
    BY <1>9, WorkerEffects
  <2> QED
    BY <1>0, <1>3, <2>1 DEF Moved, MovedOut, MovedTo, PlainCall
<1>10. CASE StopOutcome(c)
  <2>1. call[c].pc = "stop_outcome"
    BY <1>10, WorkerEffects
  <2>2. job[j].state \in Doomed
    BY <1>0, <2>1 DEF PlainCall
  <2>3. MovedOut(c, "cancelled") \/ MovedOut(c, "failed")
    BY <1>10, <2>2, WorkerEffects DEF Doomed, JobTerminal
  <2> QED
    BY <1>0, <1>3, <2>3 DEF MovedOut, MovedTo, PlainCall
<1>11. CASE WorkerProgress(c) \/ WorkerStop(c)
  <2>1. \/ MovedOut(c, "failed") \/ MovedBatch(c, "work", call[c].batch + 1)
        \/ Moved(c, "stop_outcome") /\ call[c].stop
    BY <1>11, ProgressEffects
  <2> QED
    BY <1>0, <1>3, <2>1 DEF Moved, MovedOut, MovedBatch, MovedTo, PlainCall
<1>12. CASE FinishCancelledJob(c)
  <2>1. call[c].pc = "fc_job" /\ job[j].state \in Doomed
    BY <1>0, <1>12, FinishEffects DEF PlainCall
  <2>2. \/ CasTo(j, "cancelled") /\ Moved(c, "fc_op")
        \/ job[j].state \notin Executing /\ UNCHANGED job /\ Moved(c, "remove")
    BY <1>0, <1>12, FinishEffects
  <2> QED
    BY <1>0, <1>3, <2>1, <2>2 DEF CasTo, Moved, MovedTo, PlainCall, Doomed, Executing, JobTerminal
<1>13. CASE FinishCancelledOp(c) \/ CloseOp(c)
  <2>1. call[c].pc \in {"fc_op", "close_op"} /\ Moved(c, "remove")
    BY <1>0, <1>13, FinishEffects
  <2> QED
    BY <1>0, <1>2, <1>3, <2>1 DEF Moved, MovedTo, PlainCall
<1>14. CASE Complete(c)
  <2>1. call[c].pc = "complete" /\ call[c].out # "paused"
    BY <1>0, <1>14, FinishEffects DEF PlainCall
  <2>2. job[j].state \in {"running", "cancel_requested", "cancelled", "failed"}
    BY <1>0, <2>1 DEF OwnerInv, Owns, OwnerPcs, Active
  <2>3. FinishState(call[c].out) \in JobTerminal
    BY <1>0, <2>1 DEF FinishState, ShapeInv, ShapeOf, Calls, JobTerminal
  <2>4. \/ CasTo(j, FinishState(call[c].out)) /\ Moved(c, "close_op")
        \/ job[j].state \notin Executing /\ UNCHANGED job /\ Moved(c, "remove")
    BY <1>14, <2>1, FinishEffects
  <2> QED
    BY <1>0, <1>3, <2>2, <2>3, <2>4 DEF CasTo, Moved, MovedTo, PlainCall, Executing, JobTerminal
<1>15. CASE PauseLost(c)
  BY <1>0, <1>15, FinishEffects DEF PlainCall
<1>16. CASE CancelChoose(c) \/ CancelRequest(c)
  <2>1. \/ MovedSnap(c, "cancel_tx", job[j].state)
        \/ CasTo(j, "cancel_requested") /\ MovedSnap(c, "cancel_token", "cancel_requested")
        \/ CasTo(j, "cancelled") /\ MovedSnap(c, "cancel_token", "cancelled")
    BY <1>0, <1>16, CancelEffects
  <2> QED
    BY <1>0, <1>3, <2>1 DEF CasTo, MovedSnap, MovedTo, PlainCall, Doomed, JobTerminal
<1>17. CASE CancelSignal(c) \/ CancelOp(c)
  <2>1. call[c].pc \in {"cancel_token", "cancel_op"} /\ (Moved(c, "cancel_op") \/ Moved(c, "fc_job"))
    BY <1>0, <1>17, CancelEffects
  <2> QED
    BY <1>0, <1>1, <1>3, <2>1 DEF Moved, MovedTo, PlainCall
<1> QED
  BY <1>4, <1>5, <1>6, <1>7, <1>8, <1>9, <1>10, <1>11, <1>12, <1>13, <1>14, <1>15, <1>16, <1>17 DEF CallStep

\* The row of a job that cannot pause, after a step of a call.
LEMMA PlainRow ==
    ASSUME TypeOK, ShapeInv, BirthInv, OwnerInv, DataInv, PlainInv,
           NEW c \in Callers, NEW j \in Jobs, j = call[c].job, CallStep(c), ~Resumable[j]
    PROVE  /\ job'[j].state # "paused" /\ ~job'[j].pause
           /\ job'[j].state \in {"absent", "queued"} => job'[j].rows = 0
<1>0. /\ Active(c, j) /\ PlainCall(c, j) /\ job[j].state # "paused" /\ ~job[j].pause
      /\ job[j].state \in {"absent", "queued"} => job[j].rows = 0
      /\ call[c] \in Calls
  BY CallStepFramed DEF PlainInv, PlainOf, Active, TypeOK
<1>1. ASSUME call[c].pc = "create_insert" PROVE job[j].rows = 0
  BY <1>0, <1>1 DEF BirthInv
<1>2. ASSUME call[c].pc = "undo_tx" PROVE UndoTarget(c) = "queued" /\ job[j].rows = 0
  <2>1. Owns(c, j)
    BY <1>0, <1>2 DEF Owns, OwnerPcs, Active
  <2>2. OwnerKnows(c, j)
    BY <2>1 DEF DataInv, DataOf
  <2> QED
    BY <1>0, <1>2, <2>2 DEF OwnerKnows, BeforePcs, PlainCall, UndoTarget
<1>3. call[c].pc = "complete" => FinishState(call[c].out) \in JobTerminal
  BY <1>0 DEF FinishState, ShapeInv, ShapeOf, Calls, JobTerminal, PlainCall
<1>4. JobMoves(c, j)
  BY JobSteps
<1> QED
  BY <1>0, <1>1, <1>2, <1>3, <1>4 DEF JobMoves, CasTo, Recorded, PlainCall, JobTerminal, Executing

\* A step of a call and the other calls on the same job, which cannot pause.
LEMMA PlainBystander ==
    ASSUME TypeOK, ShapeInv, BirthInv, PlainInv, TokenInv,
           NEW c \in Callers, NEW j \in Jobs, j = call[c].job, CallStep(c),
           NEW d \in Callers, d # c, NEW k \in Jobs, ~Resumable[k], Active(d, k)'
    PROVE  PlainCall(d, k)'
<1>1. Active(c, j) /\ Framed(c, j)
  BY CallStepFramed DEF Active
<1>2. Untouched(c, d)
  BY <1>1, OthersUntouched DEF Framed
<1>3. Active(d, k) /\ PlainCall(d, k)
  BY <1>2 DEF Untouched, Active, PlainInv, PlainOf
<1>4. CASE k # j
  <2>1. job'[k] = job[k]
    BY <1>1, <1>4 DEF Framed, JobFramed
  <2>2. running[j] # d
    BY <1>3, <1>4, JobConstantsAssumption DEF TokenInv, Active
  <2> QED
    BY <1>2, <1>3, <2>1, <2>2 DEF Untouched, PlainCall
<1>5. CASE k = j
  <2>1. ASSUME job[j].state \in Doomed
        PROVE  /\ job'[j].state \in Doomed
               /\ job[j].state \in JobTerminal => job'[j].state \in JobTerminal
    <3>1. call[c].pc # "create_insert"
      BY <1>1, <2>1 DEF BirthInv, Doomed, JobTerminal
    <3> QED
      BY <2>1, <3>1, StateSteps
  <2>2. PlainCall(c, j)
    BY <1>1, <1>5 DEF PlainInv, PlainOf
  <2>3. call'[d].stop => job[j].state \in Doomed
    BY <1>2, <1>3, <1>5, <2>2 DEF Untouched, PlainCall
  <2> QED
    BY <1>2, <1>3, <1>5, <2>1, <2>3 DEF Untouched, PlainCall, Doomed
<1> QED
  BY <1>4, <1>5

\* A job that cannot pause is run once.
LEMMA NextPlain ==
    ASSUME TypeOK, ShapeInv, QuietInv, BirthInv, OwnerInv, DataInv, PlainInv, TokenInv, [Next]_vars
    PROVE  PlainInv'
<1>1. ASSUME NEW c \in Callers, CallStep(c), NEW k \in Jobs PROVE PlainOf(k)'
  <2>0. PICK j \in Jobs : j = call[c].job
    BY <1>1, CallStepFramed
  <2>1. Framed(c, j) /\ PlainOf(k) /\ Resumable'[k] = Resumable[k]
    BY <1>1, <2>0, CallStepFramed, CallStepFormat DEF PlainInv
  <2>2. SUFFICES ASSUME ~Resumable[k]
                 PROVE  /\ job'[k].state # "paused" /\ ~job'[k].pause
                        /\ job'[k].state \in {"absent", "queued"} => job'[k].rows = 0
                        /\ \A d \in Callers : Active(d, k)' => PlainCall(d, k)'
    BY <2>1 DEF PlainOf
  <2>3. /\ job'[k].state # "paused" /\ ~job'[k].pause
        /\ job'[k].state \in {"absent", "queued"} => job'[k].rows = 0
    <3>1. CASE k = j
      BY <1>1, <2>0, <2>2, <3>1, PlainRow
    <3>2. CASE k # j
      BY <2>1, <2>2, <3>2 DEF Framed, JobFramed, PlainOf
    <3> QED
      BY <3>1, <3>2
  <2>4. ASSUME NEW d \in Callers, Active(d, k)' PROVE PlainCall(d, k)'
    <3>1. CASE d # c
      BY <1>1, <2>0, <2>2, <2>4, <3>1, PlainBystander
    <3>2. CASE d = c
      <4>1. k = j /\ call'[c].pc # "idle"
        BY <2>0, <2>1, <2>4, <3>2 DEF Framed, CallFramed, Active, IdleCall
      <4> QED
        BY <1>1, <2>0, <2>2, <3>2, <4>1, PlainCaller
    <3> QED
      BY <3>1, <3>2
  <2> QED
    BY <2>3, <2>4
<1>2. ASSUME NEW c \in Callers, NEW j \in Jobs,
             CreatePlan(c, j) \/ StartCheck(c, j) \/ PauseRequest(c, j) \/ CancelRead(c, j),
             NEW k \in Jobs
      PROVE  PlainOf(k)'
  <2>1. /\ \E pc \in {"create_insert", "start_read_job", "cancel_req", "pause_token"} :
              Entered(c, j, pc) /\ (pc = "pause_token" => Resumable[j])
        /\ Resumable[j] \/ UNCHANGED job
    BY <1>2, Entering DEF rows
  <2>2. /\ \A i \in Jobs : job'[i].format = job[i].format
        /\ ~Resumable[k] => job'[k] = job[k]
        /\ \A d \in Callers : d # c => call'[d] = call[d]
        /\ call'[c].job = j /\ call'[c].snapJob = "none" /\ call'[c].out = "none" /\ ~call'[c].stop
        /\ call'[c].pc \in {"create_insert", "start_read_job", "cancel_req", "pause_token"}
        /\ call'[c].pc = "pause_token" => Resumable[j]
    BY <2>1 DEF Entered, JobFramed
  <2>3. PlainOf(k) /\ Resumable'[k] = Resumable[k]
    BY <2>2, FormatKept DEF PlainInv
  <2>4. ASSUME NEW d \in Callers, Active(d, k)', ~Resumable[k] PROVE PlainCall(d, k)'
    <3>1. CASE d = c
      BY <2>2, <2>4, <3>1 DEF Active, PlainCall
    <3>2. CASE d # c
      BY <2>2, <2>3, <2>4, <3>2 DEF Active, PlainCall, PlainOf
    <3> QED
      BY <3>1, <3>2
  <2> QED
    BY <2>2, <2>3, <2>4 DEF PlainOf
<1>3. ASSUME NEW j \in Jobs, NEW d \in {"approved", "rejected"}, DecideImport(j, d), NEW k \in Jobs
      PROVE  PlainOf(k)'
  <2>1. UNCHANGED <<job, call>>
    BY <1>3, Deciding
  <2> QED
    BY <2>1 DEF PlainOf, PlainInv, PlainCall, Active, Resumable
<1>4. ASSUME RecoveryStep, NEW k \in Jobs PROVE PlainOf(k)'
  <2>0. /\ \A c \in Callers : call'[c].pc = "idle"
        /\ PlainOf(k) /\ \A j \in Jobs : job'[j].format = job[j].format
    BY <1>4, RecoveryFrame DEF RecoveryFramed, QuietInv, PlainInv
  <2>1. Resumable'[k] = Resumable[k]
    BY <2>0, FormatKept
  <2>2. SUFFICES ASSUME ~Resumable[k]
                 PROVE  /\ job'[k].state # "paused" /\ ~job'[k].pause
                        /\ job'[k].state \in {"absent", "queued"} => job'[k].rows = 0
    BY <2>0, <2>1 DEF PlainOf, Active
  <2>3. CASE RecoverLedger
    BY <2>0, <2>2, <2>3, LedgerRow DEF PlainOf, InterruptedState
  <2>4. CASE RecoverNextLoop
    BY <2>0, <2>2, <2>4 DEF PlainOf, RecoverNextLoop, rows
  <2>5. ASSUME NEW j \in Jobs,
               RecoverExport(j) \/ RecoverQueued(j) \/ RecoverPaused(j) \/ RecoverPausedOp(j)
        PROVE  job'[k] = job[k] \/ CasTo(k, "cancelled") \/ CasTo(k, "failed")
    BY <2>5, RecoverEffects DEF JobFramed
  <2> QED
    BY <1>4, <2>0, <2>2, <2>3, <2>4, <2>5 DEF RecoveryStep, PlainOf, CasTo
<1>5. ASSUME Restart, NEW k \in Jobs PROVE PlainOf(k)'
  <2>1. UNCHANGED job /\ \A c \in Callers : call'[c].pc = "idle"
    BY <1>5, RestartFrame DEF IdleCall
  <2> QED
    BY <2>1 DEF PlainOf, PlainInv, Active, Resumable
<1>6. ASSUME UNCHANGED vars, NEW k \in Jobs PROVE PlainOf(k)'
  BY <1>6 DEF PlainInv, PlainOf, PlainCall, Active, Resumable, vars, rows
<1> QED
  BY <1>1, <1>2, <1>3, <1>4, <1>5, <1>6 DEF Next, PlainInv

-----------------------------------------------------------------------------
(* The map of cancellation tokens.                                         *)

\* A call with a token in the map takes it out, or keeps what it needs to do so.
LEMMA TokenSteps ==
    ASSUME TypeOK, ShapeInv, NEW c \in Callers, NEW j \in Jobs, j = call[c].job, CallStep(c)
    PROVE  \/ running'[j] = None
           \/ running'[j] = c /\ call'[c].job = j /\ call'[c].pc = "start_latest"
           \/ /\ running' = running
              /\ call[c].pc = "start_latest" \/ call[c].worker => call'[c].job = j /\ call'[c].worker
<1>0. call[c].worker => call[c].pc \in WorkerPcs \cup FinishPcs
  BY DEF ShapeInv, ShapeOf
<1>1. CASE \/ CreateInsert(c) \/ StartReadJob(c) \/ StartReadOp(c) \/ StartClaimJob(c)
           \/ StartClaimOp(c) \/ StartUndo(c) \/ UndoTx(c)
  <2>1. call[c].pc \notin {"start_latest"} \cup WorkerPcs \cup FinishPcs
    BY <1>1, StartEffects DEF WorkerPcs, FinishPcs
  <2>2. running' = running
    BY <1>1 DEF CreateInsert, StartReadJob, StartReadOp, StartClaimJob, StartClaimOp, StartUndo, UndoTx
  <2> QED
    BY <1>0, <2>1, <2>2
<1>2. CASE StartInsert(c) \/ StartLatest(c)
  BY <1>2, StartEffects DEF Moved, MovedTo
<1>3. CASE \/ WorkerBegin(c) \/ WorkerError(c) \/ WorkerTotals(c) \/ WorkerNext(c) \/ WorkerBatch(c)
           \/ StopOutcome(c) \/ WorkerDone(c) \/ WorkerFinal(c)
  <2>1. /\ call[c].pc # "start_latest"
        /\ (\E out : MovedOut(c, out)) \/ (\E pc : Moved(c, pc))
    BY <1>3, WorkerEffects
  <2>2. running' = running
    BY <1>3 DEF WorkerBegin, WorkerError, WorkerTotals, WorkerNext, WorkerBatch, StopOutcome, WorkerDone,
       WorkerFinal
  <2> QED
    BY <2>1, <2>2 DEF Moved, MovedOut, MovedTo
<1>4. CASE WorkerProgress(c) \/ WorkerStop(c)
  <2>1. /\ call[c].pc # "start_latest"
        /\ \/ MovedBatch(c, "work", call[c].batch + 1) \/ MovedOut(c, "failed")
           \/ Moved(c, "stop_outcome")
    BY <1>4, ProgressEffects
  <2>2. running' = running
    BY <1>4 DEF WorkerProgress, WorkerStop
  <2> QED
    BY <2>1, <2>2 DEF Moved, MovedOut, MovedBatch, MovedTo
<1>5. CASE FinishCancelledJob(c) \/ FinishCancelledOp(c) \/ Complete(c) \/ PauseLost(c) \/ CloseOp(c)
  <2>1. /\ call[c].pc # "start_latest"
        /\ (\E pc : Moved(c, pc)) \/ ~call[c].worker
    BY <1>5, FinishEffects
  <2>2. running' = running
    BY <1>5 DEF FinishCancelledJob, FinishCancelledOp, Complete, PauseLost, CloseOp
  <2> QED
    BY <2>1, <2>2 DEF Moved, MovedTo
<1>6. CASE RemoveRunning(c)
  BY <1>6, FinishEffects
<1>7. CASE PauseToken(c) \/ CancelChoose(c) \/ CancelRequest(c) \/ CancelSignal(c) \/ CancelOp(c)
  <2>1. call[c].pc \notin {"start_latest"} \cup WorkerPcs \cup FinishPcs
    BY <1>7, CancelEffects DEF WorkerPcs, FinishPcs
  <2>2. running' = running
    BY <1>7 DEF PauseToken, CancelChoose, CancelRequest, CancelSignal, CancelOp
  <2> QED
    BY <1>0, <2>1, <2>2
<1> QED
  BY <1>1, <1>2, <1>3, <1>4, <1>5, <1>6, <1>7 DEF CallStep

\* A token in the map always belongs to a call that will take it out.
LEMMA NextToken ==
    ASSUME TypeOK, ShapeInv, QuietInv, OwnerInv, TokenInv, [Next]_vars
    PROVE  TokenInv'
<1> DEFINE Tok(k) == running[k] # None =>
                        /\ call[running[k]].job = k
                        /\ call[running[k]].pc = "start_latest" \/ call[running[k]].worker
<1>0. \A k \in Jobs : Tok(k) /\ (running[k] # None => running[k] \in Callers)
  BY DEF TokenInv, TypeOK
<1>1. ASSUME NEW c \in Callers, CallStep(c), NEW k \in Jobs PROVE Tok(k)'
  <2>0. PICK j \in Jobs : j = call[c].job
    BY <1>1, CallStepFramed
  <2>1. Framed(c, j)
    BY <1>1, <2>0, CallStepFramed
  <2>2. \A d \in Callers : d # c => Untouched(c, d)
    BY <2>1, OthersUntouched DEF Framed
  <2>3. \/ running'[j] = None
        \/ running'[j] = c /\ call'[c].job = j /\ call'[c].pc = "start_latest"
        \/ /\ running' = running
           /\ call[c].pc = "start_latest" \/ call[c].worker => call'[c].job = j /\ call'[c].worker
    BY <1>1, <2>0, TokenSteps
  <2>4. CASE k # j
    <3>1. running'[k] = running[k] /\ running[k] # c
      BY <1>0, <2>0, <2>1, <2>4, JobConstantsAssumption DEF Framed, RunningFramed
    <3> QED
      BY <1>0, <2>2, <3>1 DEF Untouched
  <2>5. CASE k = j /\ running' = running /\ running[k] # c
    BY <1>0, <2>2, <2>5 DEF Untouched
  <2>6. CASE k = j /\ ~(running' = running /\ running[k] # c)
    BY <1>0, <2>0, <2>3, <2>6
  <2> QED
    BY <2>4, <2>5, <2>6
<1>2. ASSUME NEW c \in Callers, NEW j \in Jobs,
             CreatePlan(c, j) \/ StartCheck(c, j) \/ PauseRequest(c, j) \/ CancelRead(c, j),
             NEW k \in Jobs
      PROVE  Tok(k)'
  <2>1. /\ call[c].pc = "idle" /\ UNCHANGED running
        /\ \A d \in Callers : d # c => call'[d] = call[d]
    BY <1>2, Entering DEF Entered
  <2>2. ~call[c].worker
    BY <2>1 DEF ShapeInv, ShapeOf, WorkerPcs, FinishPcs
  <2> QED
    BY <1>0, <2>1, <2>2
<1>3. ASSUME NEW j \in Jobs, NEW d \in {"approved", "rejected"}, DecideImport(j, d), NEW k \in Jobs
      PROVE  Tok(k)'
  BY <1>0, <1>3, Deciding
<1>4. ASSUME RecoveryStep, NEW k \in Jobs PROVE Tok(k)'
  BY <1>0, <1>4, RecoveryFrame DEF RecoveryFramed
<1>5. ASSUME Restart, NEW k \in Jobs PROVE Tok(k)'
  BY <1>5, RestartFrame
<1>6. ASSUME UNCHANGED vars, NEW k \in Jobs PROVE Tok(k)'
  BY <1>0, <1>6 DEF vars
<1>7. \A k \in Jobs : Tok(k)'
  BY <1>1, <1>2, <1>3, <1>4, <1>5, <1>6 DEF Next
<1> QED
  BY <1>7 DEF TokenInv

-----------------------------------------------------------------------------
(* A job that cannot pause is always in somebody's hands.                  *)

\* The call with the token of an executing job that cannot pause holds the job.
LEMMA TokenHolds ==
    ASSUME TypeOK, ShapeInv, PlainInv, TokenInv, NEW j \in Jobs, ~Resumable[j],
           job[j].state \in Executing, running[j] # None
    PROVE  /\ running[j] \in Callers /\ call[running[j]].job = j
           /\ call[running[j]].pc \in (OwnerPcs \ {"undo_tx"}) \cup {"fc_job"}
<1>1. PICK d \in Callers : d = running[j]
  BY DEF TypeOK
<1>2. call[d].job = j /\ (call[d].pc = "start_latest" \/ call[d].worker)
  BY <1>1 DEF TokenInv
<1>3. call[d].pc \in {"start_latest"} \cup WorkerPcs \cup FinishPcs
  BY <1>2 DEF ShapeInv, ShapeOf
<1>4. PlainCall(d, j)
  BY <1>2, <1>3 DEF PlainInv, PlainOf, Active, WorkerPcs, FinishPcs
<1>5. call[d].pc \notin {"pause_lost", "close_op", "remove", "fc_op"}
  BY <1>4 DEF PlainCall, JobTerminal, Executing
<1> QED
  BY <1>1, <1>2, <1>3, <1>5 DEF WorkerPcs, FinishPcs, OwnerPcs

\* A call that held a job which cannot pause has moved on, and holds it still or
\* leaves it to the call whose token it cancelled.
LEMMA HolderSteps ==
    ASSUME TypeOK, ShapeInv, BirthInv, PlainInv, TokenInv,
           NEW c \in Callers, NEW j \in Jobs, j = call[c].job, CallStep(c), ~Resumable[j],
           Holds(c, j), job[j].state \in Executing, job'[j].state \in Executing
    PROVE  \E d \in Callers : Holds(d, j)'
<1>0. /\ PlainCall(c, j) /\ call[c] \in Calls /\ ShapeOf(c)
  BY CallStepFramed DEF PlainInv, PlainOf, Active, TypeOK, ShapeInv
<1>1. ASSUME NEW pc \in (OwnerPcs \ {"undo_tx"}) \cup {"fc_job"}, call'[c].pc = pc, call'[c].job = j
      PROVE  \E d \in Callers : Holds(d, j)'
  BY <1>1 DEF Holds
<1>2. CASE \/ CreateInsert(c) \/ StartReadJob(c) \/ StartReadOp(c) \/ StartClaimJob(c)
           \/ FinishCancelledOp(c) \/ PauseLost(c) \/ CloseOp(c) \/ RemoveRunning(c)
           \/ PauseToken(c) \/ CancelChoose(c) \/ CancelRequest(c)
  BY <1>2, StartEffects, FinishEffects, CancelEffects DEF Holds, OwnerPcs
<1>3. CASE StartClaimOp(c) \/ StartInsert(c) \/ StartLatest(c)
  <2>1. \E pc \in (OwnerPcs \ {"undo_tx"}) \cup {"fc_job"} : call'[c].pc = pc /\ call'[c].job = j
    BY <1>3, StartEffects DEF Moved, MovedTo, OwnerPcs
  <2> QED
    BY <1>1, <2>1
<1>4. CASE StartUndo(c)
  <2>1. /\ UNCHANGED job /\ call'[c].job = j
        /\ \/ call'[c].pc = "fc_job"
           \/ job[j].state # "cancel_requested" /\ call'[c].pc = "undo_tx"
    BY <1>4, StartEffects DEF Moved, MovedTo
  <2> QED
    BY <2>1 DEF Holds, Executing
<1>5. CASE UndoTx(c)
  BY <1>5, StartEffects DEF CasTo, UndoTarget, Holds, Executing, OwnerPcs
<1>6. CASE \/ WorkerBegin(c) \/ WorkerError(c) \/ WorkerTotals(c) \/ WorkerNext(c) \/ WorkerBatch(c)
           \/ StopOutcome(c) \/ WorkerDone(c) \/ WorkerFinal(c)
  <2>1. \/ \E out : MovedOut(c, out)
        \/ \E pc \in {"totals", "work", "batch", "progress", "final"} : Moved(c, pc)
    BY <1>6, WorkerEffects
  <2>2. \E pc \in (OwnerPcs \ {"undo_tx"}) \cup {"fc_job"} : call'[c].pc = pc /\ call'[c].job = j
    BY <2>1 DEF Moved, MovedOut, MovedTo, OwnerPcs
  <2> QED
    BY <1>1, <2>2
<1>7. CASE WorkerProgress(c) \/ WorkerStop(c)
  <2>1. \/ MovedBatch(c, "work", call[c].batch + 1) \/ MovedOut(c, "failed")
        \/ Moved(c, "stop_outcome")
    BY <1>7, ProgressEffects
  <2>2. \E pc \in (OwnerPcs \ {"undo_tx"}) \cup {"fc_job"} : call'[c].pc = pc /\ call'[c].job = j
    BY <2>1 DEF Moved, MovedOut, MovedBatch, MovedTo, OwnerPcs
  <2> QED
    BY <1>1, <2>2
<1>8. CASE FinishCancelledJob(c)
  BY <1>8, FinishEffects DEF CasTo, Executing
<1>9. CASE Complete(c)
  <2>1. call[c].pc = "complete" /\ FinishState(call[c].out) \in JobTerminal
    BY <1>0, <1>9, FinishEffects DEF PlainCall, FinishState, ShapeOf, Calls, JobTerminal
  <2>2. job'[j].state = FinishState(call[c].out)
    BY <1>0, <1>9, FinishEffects DEF PlainCall, CasTo
  <2> QED
    BY <2>1, <2>2 DEF Executing, JobTerminal
<1>10. CASE CancelSignal(c)
  <2>1. call[c].pc = "cancel_token" /\ call[c].snapJob = "cancel_requested"
    BY <1>10, CancelEffects DEF Holds, OwnerPcs
  <2>2. CASE running[j] # None
    <3>1. PICK d \in Callers : /\ d = running[j] /\ call[d].job = j
                               /\ call[d].pc \in (OwnerPcs \ {"undo_tx"}) \cup {"fc_job"}
      BY <2>2, TokenHolds
    <3>2. d # c
      BY <2>1, <3>1 DEF OwnerPcs
    <3>3. Untouched(c, d)
      BY <3>2, CallStepFramed, OthersUntouched DEF Framed
    <3> QED
      BY <3>1, <3>3 DEF Untouched, Holds
  <2>3. CASE running[j] = None
    <3>1. Moved(c, "cancel_op")
      BY <1>10, <2>3, CancelEffects
    <3> QED
      BY <2>1, <3>1 DEF Moved, MovedTo, Holds
  <2> QED
    BY <2>2, <2>3
<1>11. CASE CancelOp(c)
  <2>1. call[c].pc = "cancel_op" /\ call[c].snapJob = "cancel_requested"
    BY <1>11, CancelEffects DEF Holds, OwnerPcs
  <2>2. Moved(c, "fc_job")
    BY <1>11, <2>1, CancelEffects
  <2> QED
    BY <2>2 DEF Moved, MovedTo, Holds
<1> QED
  BY <1>2, <1>3, <1>4, <1>5, <1>6, <1>7, <1>8, <1>9, <1>10, <1>11 DEF CallStep

\* A step of a call leaves an executing job that cannot pause in somebody's hands.
LEMMA HandHere ==
    ASSUME TypeOK, ShapeInv, QuietInv, BirthInv, PlainInv, TokenInv, HandInv,
           NEW c \in Callers, NEW j \in Jobs, j = call[c].job, CallStep(c), ~Resumable[j],
           job'[j].state \in Executing
    PROVE  \E d \in Callers : Holds(d, j)'
<1>0. /\ phase = "up" /\ call[c] \in Calls /\ ShapeOf(c) /\ PlainCall(c, j) /\ Framed(c, j)
      /\ job[j].state # "paused"
  BY CallStepFramed DEF QuietInv, TypeOK, ShapeInv, PlainInv, PlainOf, Active
<1>1. JobMoves(c, j)
  BY JobSteps
<1>2. call[c].pc = "complete" => FinishState(call[c].out) \in JobTerminal
  BY <1>0 DEF FinishState, ShapeOf, Calls, JobTerminal, PlainCall
<1>3. CASE job[j].state \notin Executing
  <2>1. MovedBatch(c, "start_claim_op", job[j].rows)
    BY <1>1, <1>2, <1>3 DEF JobMoves, CasTo, Recorded, Executing, JobTerminal
  <2> QED
    BY <2>1 DEF MovedBatch, MovedTo, Holds, OwnerPcs
<1>4. CASE job[j].state \in Executing
  <2>1. PICK h \in Callers : Holds(h, j)
    BY <1>0, <1>4 DEF HandInv, HandOf
  <2>2. CASE h = c
    BY <1>4, <2>1, <2>2, HolderSteps
  <2>3. CASE h # c
    <3>1. Untouched(c, h)
      BY <1>0, <2>3, OthersUntouched DEF Framed
    <3>2. CASE call[h].pc # "undo_tx" \/ job'[j].state = "running"
      BY <2>1, <3>1, <3>2 DEF Untouched, Holds
    <3>3. CASE call[h].pc = "undo_tx" /\ job'[j].state # "running"
      <4>1. job[j].state = "running" /\ job'[j].state = "cancel_requested"
        BY <2>1, <3>3 DEF Holds, OwnerPcs, Executing
      <4>2. MovedSnap(c, "cancel_token", "cancel_requested")
        BY <1>1, <1>2, <4>1 DEF JobMoves, CasTo, Recorded, UndoTarget, JobTerminal
      <4> QED
        BY <4>2 DEF MovedSnap, MovedTo, Holds
    <3> QED
      BY <3>2, <3>3
  <2> QED
    BY <2>2, <2>3
<1> QED
  BY <1>3, <1>4

\* Every step leaves a job that cannot pause in somebody's hands.
LEMMA NextHand ==
    ASSUME TypeOK, ShapeInv, QuietInv, BirthInv, OwnerInv, PlainInv, TokenInv, HandInv, [Next]_vars
    PROVE  HandInv'
<1>1. ASSUME NEW c \in Callers, CallStep(c), NEW k \in Jobs PROVE HandOf(k)'
  <2>0. PICK j \in Jobs : j = call[c].job
    BY <1>1, CallStepFramed
  <2>1. Framed(c, j) /\ UNCHANGED gate /\ Resumable'[k] = Resumable[k] /\ HandOf(k)
    BY <1>1, <2>0, CallStepFramed, CallStepFormat DEF HandInv
  <2>2. CASE k = j
    BY <1>1, <2>0, <2>1, <2>2, HandHere DEF HandOf
  <2>3. CASE k # j
    <3>1. job'[k] = job[k]
      BY <2>1, <2>3 DEF Framed, JobFramed
    <3>2. ASSUME NEW h \in Callers, Holds(h, k) PROVE Holds(h, k)'
      <4>1. h # c
        BY <2>0, <2>3, <3>2 DEF Holds
      <4>2. Untouched(c, h)
        BY <2>1, <4>1, OthersUntouched DEF Framed
      <4> QED
        BY <3>1, <3>2, <4>2 DEF Untouched, Holds
    <3> QED
      BY <2>1, <3>1, <3>2 DEF HandOf, gate
  <2> QED
    BY <2>2, <2>3
<1>2. ASSUME NEW c \in Callers, NEW j \in Jobs,
             CreatePlan(c, j) \/ StartCheck(c, j) \/ PauseRequest(c, j) \/ CancelRead(c, j),
             NEW k \in Jobs
      PROVE  HandOf(k)'
  <2>1. /\ \E pc \in {"create_insert", "start_read_job", "cancel_req", "pause_token"} : Entered(c, j, pc)
        /\ Resumable[j] \/ UNCHANGED job
    BY <1>2, Entering DEF rows
  <2>2. /\ \A i \in Jobs : job'[i].format = job[i].format
        /\ ~Resumable[k] => job'[k] = job[k]
        /\ call[c].pc = "idle" /\ UNCHANGED gate
        /\ \A d \in Callers : d # c => call'[d] = call[d]
    BY <2>1 DEF Entered, JobFramed
  <2>3. Resumable'[k] = Resumable[k] /\ HandOf(k)
    BY <2>2, FormatKept DEF HandInv
  <2>4. ASSUME NEW h \in Callers, Holds(h, k), ~Resumable[k] PROVE Holds(h, k)'
    <3>1. h # c
      BY <2>2, <2>4 DEF Holds, OwnerPcs
    <3> QED
      BY <2>2, <2>4, <3>1 DEF Holds
  <2> QED
    BY <2>2, <2>3, <2>4 DEF HandOf, gate
<1>3. ASSUME NEW j \in Jobs, NEW d \in {"approved", "rejected"}, DecideImport(j, d), NEW k \in Jobs
      PROVE  HandOf(k)'
  <2>1. UNCHANGED <<job, call, gate>>
    BY <1>3, Deciding
  <2> QED
    BY <2>1 DEF HandInv, HandOf, Holds, Resumable, gate
<1>4. ASSUME RecoveryStep, NEW k \in Jobs PROVE HandOf(k)'
  <2>1. CASE RecoverNextLoop
    BY <2>1 DEF RecoverNextLoop, rows, QuietInv, HandOf
  <2>2. CASE RecoverLedger
    BY <2>2 DEF RecoverLedger, HandOf
  <2>3. ASSUME NEW j \in Jobs,
               RecoverExport(j) \/ RecoverQueued(j) \/ RecoverPaused(j) \/ RecoverPausedOp(j)
        PROVE  phase' # "up"
    BY <2>3 DEF RecoverExport, RecoverQueued, RecoverPaused, RecoverPausedOp, RecoveryFails, RebindPending
  <2> QED
    BY <1>4, <2>1, <2>2, <2>3 DEF RecoveryStep, HandOf
<1>5. ASSUME Restart, NEW k \in Jobs PROVE HandOf(k)'
  BY <1>5 DEF Restart, HandOf
<1>6. ASSUME UNCHANGED vars, NEW k \in Jobs PROVE HandOf(k)'
  BY <1>6 DEF HandInv, HandOf, Holds, Resumable, vars, rows, gate
<1> QED
  BY <1>1, <1>2, <1>3, <1>4, <1>5, <1>6 DEF Next, HandInv

-----------------------------------------------------------------------------
(* The inductive invariant, and what follows from it.                      *)

\* The invariant holds before the first call.
LEMMA InitInv == Init => JobInv
<1> SUFFICES ASSUME Init PROVE JobInv
  OBVIOUS
<1>1. TypeOK
  BY InitType
<1>2. PICK format \in [Jobs -> Formats] :
         job = [j \in Jobs |-> [state |-> "absent", pause |-> FALSE, rows |-> 0, ckpt |-> FALSE,
                                format |-> format[j]]]
  BY DEF Init
<1>3. \A j \in Jobs : job[j].state = "absent" /\ job[j].pause = FALSE /\ job[j].rows = 0
  BY <1>2
<1>4. /\ \A c \in Callers : call[c].pc = "idle" /\ ~call[c].worker
      /\ \A j \in Jobs : op[j].state = "absent" /\ running[j] = None
      /\ \A j \in Jobs : \A b \in Batches : applied[j][b] = 0
      /\ phase = "up" /\ todo = {} /\ closing = {}
  BY DEF Init, IdleCall
<1>5. ShapeInv
  BY <1>4 DEF ShapeInv, ShapeOf, WorkerPcs
<1>6. QuietInv /\ BirthInv
  BY <1>3, <1>4 DEF QuietInv, BirthInv, Active
<1>7. \A c \in Callers : \A j \in Jobs : ~Owns(c, j) /\ ~Active(c, j)
  BY <1>4 DEF Owns, OwnerPcs, Active
<1>8. OwnerInv /\ SettledInv
  BY <1>4, <1>7 DEF OwnerInv, SettledInv, SettledOf
<1>9. DataInv
  <2>1. \A j \in Jobs : Written(j, job[j].rows) /\ \A b \in Batches : applied[j][b] <= 1
    BY <1>3, <1>4, JobConstantsAssumption DEF Written, Batches
  <2> QED
    BY <1>3, <1>7, <2>1 DEF DataInv, DataOf
<1>10. PlainInv
  BY <1>3, <1>7 DEF PlainInv, PlainOf
<1>11. TokenInv /\ HandInv
  BY <1>3, <1>4 DEF TokenInv, HandInv, HandOf, Executing
<1> QED
  BY <1>1, <1>5, <1>6, <1>8, <1>9, <1>10, <1>11 DEF JobInv

\* Every step preserves it.
LEMMA NextInv == JobInv /\ [Next]_vars => JobInv'
<1> SUFFICES ASSUME JobInv, [Next]_vars PROVE JobInv'
  OBVIOUS
<1>1. /\ TypeOK /\ ShapeInv /\ QuietInv /\ BirthInv /\ OwnerInv
      /\ DataInv /\ SettledInv /\ PlainInv /\ TokenInv /\ HandInv
  BY DEF JobInv
<1>2. TypeOK' /\ ShapeInv' /\ QuietInv' /\ BirthInv' /\ OwnerInv'
  BY <1>1, NextType, NextShape, NextQuiet, NextBirth, NextOwner
<1>3. DataInv' /\ SettledInv' /\ PlainInv' /\ TokenInv' /\ HandInv'
  BY <1>1, NextData, NextSettled, NextPlain, NextToken, NextHand
<1> QED
  BY <1>2, <1>3 DEF JobInv

\* The invariant holds in every state of every behaviour.
THEOREM JobInvariant == Spec => []JobInv
<1> QED
  BY InitInv, NextInv, PTL DEF Spec

\* Every variable keeps its type: in particular a call never counts more batches
\* than its source has, and every step finds the job it works on.
THEOREM JobTypesCorrect == Spec => []TypeOK
<1>1. JobInv => TypeOK
  BY DEF JobInv
<1> QED
  BY <1>1, JobInvariant, PTL

\* A start, a worker and a resume that race for one job leave at most one of
\* them writing for it: claim_running hands the job over once, and no call takes
\* it before its owner has put it back or finished it.
THEOREM OneOwnerWrites == Spec => []OneWorker
<1>1. JobInv => OneWorker
  <2> SUFFICES ASSUME JobInv, NEW c \in Callers, NEW d \in Callers,
                      call[c].pc \in {"work", "batch", "progress"},
                      call[d].pc \in {"work", "batch", "progress"},
                      call[c].job = call[d].job
               PROVE  c = d
    BY DEF OneWorker
  <2>1. PICK j \in Jobs : j = call[c].job
    BY DEF JobInv, ShapeInv, ShapeOf
  <2>2. Owns(c, j) /\ Owns(d, j)
    BY <2>1 DEF Owns, OwnerPcs
  <2> QED
    BY <2>2 DEF JobInv, OwnerInv
<1> QED
  BY <1>1, JobInvariant, PTL

\* Whatever pauses, resumes, lost acknowledgements and restarts happen, no batch
\* of an import reaches its target twice: only an owner sends a batch, the one
\* after the last that it knows to be there, and a job whose last batch is in
\* doubt is never claimed again.
THEOREM BatchesWrittenOnce == Spec => []NoBatchTwice
<1>1. JobInv => NoBatchTwice
  BY DEF JobInv, DataInv, DataOf, NoBatchTwice
<1> QED
  BY <1>1, JobInvariant, PTL

\* An import is paused only with its rows recorded exactly: the resume, which
\* cannot look at the target, continues where the last worker stopped.
THEOREM PausedImportsResume == Spec => []PausedImportIsExact
<1>1. JobInv => PausedImportIsExact
  BY DEF JobInv, DataInv, DataOf, PausedImportIsExact, ExactPrefix, Written
<1> QED
  BY <1>1, JobInvariant, PTL

\* The completion in two transactions never lets an operation claim a success or
\* a failure that its job does not have, and a job that succeeded has written
\* every batch and published its file.
THEOREM JobAndOperationAgree == Spec => []OperationFollowsJob
<1>1. JobInv => OperationFollowsJob
  BY DEF JobInv, DataInv, DataOf, SettledInv, SettledOf, OperationFollowsJob
<1> QED
  BY <1>1, JobInvariant, PTL

\* A running or cancelling job that cannot pause is in the hands of a call that
\* will finish it or put it back, whenever the recovery gate is open.
THEOREM PlainJobsAreNotStranded == Spec => []NoStrandedPlainJob
<1>1. JobInv => NoStrandedPlainJob
  <2>1. \A c \in Callers : \A j \in Jobs : Holds(c, j) => Responsible(c, j)
    BY DEF Holds, Responsible, OwnerPcs, StartPcs, WorkerPcs, FinishPcs
  <2> QED
    BY <2>1 DEF JobInv, HandInv, HandOf, NoStrandedPlainJob, JobInHand
<1> QED
  BY <1>1, JobInvariant, PTL

\* What a step may do to the row of a job.
LEMMA NextProgress ==
    ASSUME JobInv, [Next]_vars, NEW k \in Jobs
    PROVE  /\ job'[k].rows >= job[k].rows
           /\ job[k].ckpt => job'[k].ckpt
           /\ job[k].state \in JobTerminal => job'[k].state = job[k].state
<1>0. TypeOK /\ ShapeInv /\ BirthInv /\ OwnerInv /\ QuietInv
  BY DEF JobInv
<1>1. job[k] \in JobRow /\ job[k].rows \in Nat
  BY <1>0, JobConstantsAssumption DEF TypeOK, JobRow
<1>2. ASSUME NEW c \in Callers, CallStep(c)
      PROVE  /\ job'[k].rows >= job[k].rows
             /\ job[k].ckpt => job'[k].ckpt
             /\ job[k].state \in JobTerminal => job'[k].state = job[k].state
  <2>1. PICK j \in Jobs : j = call[c].job
    BY <1>0, <1>2, CallStepFramed
  <2>2. Framed(c, j) /\ Active(c, j)
    BY <1>0, <1>2, <2>1, CallStepFramed DEF Active
  <2>3. CASE k # j
    BY <1>1, <2>2, <2>3 DEF Framed, JobFramed
  <2>4. CASE k = j
    <3>1. JobMoves(c, j)
      BY <1>0, <1>2, <2>1, JobSteps
    <3>2. job'[j].rows >= job[j].rows /\ (job[j].ckpt => job'[j].ckpt)
      <4>1. call[c].batch \in Nat
        BY <1>0, JobConstantsAssumption DEF TypeOK, Calls
      <4>2. \/ job'[j].rows = job[j].rows /\ job'[j].ckpt = job[j].ckpt
            \/ \E n \in {call[c].batch, call[c].batch + 1} : Recorded(j, n)
        BY <3>1 DEF JobMoves, CasTo
      <4>3. \A n : Recorded(j, n) => job[j].rows <= n /\ job'[j].rows = n /\ (job[j].ckpt => job'[j].ckpt)
        BY DEF Recorded
      <4>4. \/ job'[j].rows = job[j].rows /\ job'[j].ckpt = job[j].ckpt
            \/ \E n \in Nat : job[j].rows <= n /\ job'[j].rows = n /\ (job[j].ckpt => job'[j].ckpt)
        BY <4>1, <4>2, <4>3
      <4> QED
        BY <1>1, <2>4, <4>4
    <3>3. ASSUME job[j].state \in JobTerminal PROVE job'[j].state = job[j].state
      <4>1. call[c].pc # "create_insert"
        BY <1>0, <2>2, <3>3 DEF BirthInv, JobTerminal
      <4> QED
        BY <1>0, <1>2, <2>1, <3>3, <4>1, StateSteps
    <3> QED
      BY <2>4, <3>2, <3>3
  <2> QED
    BY <2>3, <2>4
<1>3. ASSUME NEW c \in Callers, NEW j \in Jobs,
             CreatePlan(c, j) \/ StartCheck(c, j) \/ PauseRequest(c, j) \/ CancelRead(c, j)
      PROVE  job'[k] = job[k] \/ job'[k] = [job[k] EXCEPT !.pause = TRUE]
  BY <1>0, <1>3, Entering DEF Entered, JobFramed, rows
<1>4. ASSUME NEW j \in Jobs, NEW d \in {"approved", "rejected"}, DecideImport(j, d)
      PROVE  job' = job
  BY <1>0, <1>4, Deciding
<1>5. ASSUME RecoveryStep
      PROVE  /\ job'[k].rows >= job[k].rows
             /\ job[k].ckpt => job'[k].ckpt
             /\ job[k].state \in JobTerminal => job'[k].state = job[k].state
  <2>1. CASE RecoverLedger
    BY <1>0, <1>1, <2>1, LedgerRow DEF Executing, JobTerminal
  <2>2. CASE RecoverNextLoop
    BY <1>1, <2>2 DEF RecoverNextLoop, rows
  <2>3. ASSUME NEW j \in Jobs,
               RecoverExport(j) \/ RecoverQueued(j) \/ RecoverPaused(j) \/ RecoverPausedOp(j)
        PROVE  \/ job'[k] = job[k]
               \/ /\ job[k].state \in {"queued", "paused"}
                  /\ CasTo(k, "cancelled") \/ CasTo(k, "failed")
    BY <1>0, <2>3, RecoverEffects DEF JobFramed
  <2> QED
    BY <1>1, <1>5, <2>1, <2>2, <2>3 DEF RecoveryStep, CasTo, JobTerminal
<1>6. Restart => job' = job
  BY DEF Restart
<1>7. UNCHANGED vars => job' = job
  BY DEF vars, rows
<1>8. ASSUME job'[k] = [job[k] EXCEPT !.pause = TRUE]
      PROVE  /\ job'[k].rows = job[k].rows /\ job'[k].ckpt = job[k].ckpt
             /\ job'[k].state = job[k].state
  BY <1>1, <1>8 DEF JobRow
<1>9. job'[k] = job[k] \/ job'[k] = [job[k] EXCEPT !.pause = TRUE] =>
         /\ job'[k].rows >= job[k].rows
         /\ job[k].ckpt => job'[k].ckpt
         /\ job[k].state \in JobTerminal => job'[k].state = job[k].state
  BY <1>1, <1>8
<1> QED
  BY <1>2, <1>3, <1>4, <1>5, <1>6, <1>7, <1>9 DEF Next

\* No interleaving of calls, workers, crashes and recoveries rewinds the recorded
\* rows of a job, drops its checkpoint or reopens a job that has ended.
THEOREM ProgressIsNeverLost == Spec => ProgressIsMonotone
<1>1. JobInv /\ [Next]_vars =>
         [\A j \in Jobs :
             /\ job'[j].rows >= job[j].rows
             /\ job[j].ckpt => job'[j].ckpt
             /\ job[j].state \in JobTerminal => job'[j].state = job[j].state]_vars
  BY NextProgress
<1> QED
  BY <1>1, JobInvariant, PTL DEF Spec, ProgressIsMonotone

=============================================================================
