# DopeDB in TLA+

DopeDB is a desktop database client in which AI agents propose database work and
a human approves it. The Tauri backend (`src/src-tauri`, Rust) keeps an SQLite
store, runs every piece of work as an *operation* with an exact approval, and
runs imports and exports as durable *jobs*. The workspace control plane
(`src/workspace-cloud`, TypeScript on Cloudflare D1) shares database connections
between the members of a workspace: it hands out short-lived credentials, runs
branch operations at Neon, and keeps the receipts of accounts that
administrators' desktops make on shared databases. This directory holds TLA+
models of those parts, the TLC runs that check them, and TLAPS proofs of the
main theorems about all of them.

Reading order: `OperationStates`, `OperationRuntime`, `ApprovedOnce`,
`OperationRuntimeProofs`, `OperationRuntimeSafety`; `JobEngine`, `JobEngineProofs`;
then the families that end in `ManagedLeases`, `BranchOperations` and `DirectAccess`. The
theorems about a module `M` are in `MProofs` and `MSafety`.

## Inventory

| Part | State it keeps | Operations | Hard behaviour | What makes it correct |
| --- | --- | --- | --- | --- |
| Operation state machine (`operations/state_machine.rs`) | none | `ensure_transition`, `restart_recovery` | decisions after a crash | terminal states stay; recovery never guesses |
| Operation Runtime (`operations/`) | tables `operations`, `operation_events`, `operation_approvals`; the runtime id | plan, approve, reject, claim, succeed, fail, cancel, mark unknown, recover | races for the claim, receipts that fail, crash before the receipt | executed at most once, only what was approved, honest outcomes |
| Operation control (`features/operation_control`) | none | commands around the runtime | state read before an await and used after it | a cancel never touches claimed work |
| Broker sessions (`broker/session*`) | sessions, tracked proposals, revocation channel | issue, authenticate, revoke, sweep, track | a session ends between two steps of its request | revoked sessions execute nothing and leave nothing open |
| Query execution (`features/queries/adapters/desktop_execution.rs`, `executor/cancel.rs`) | cancellation slots | run, cancel | cancellation races the start; lost commit acknowledgement | every claimed operation gets a receipt |
| Durable Job Engine (`features/jobs`) | tables `jobs`, `job_checkpoints`, running map, partial files | create, start, pause, cancel, worker, complete, recover | two tables closed in two transactions; three calls racing | no batch twice, exact resume, nobody stranded |
| Startup (`state.rs`, `startup.rs`) | recovery gate | recover, wait | order of the recoveries, failure of one | work only after a complete recovery |
| Managed leases (`workspace-cloud/lib/provider-integrations`, `revocation-gates.ts` and their routes) | rows of members, grants, connections, integrations and leases, each with a revocation gate | issue, deliver, release, sweep, refresh token, change role, remove, grant, edit, delete, disconnect, reconnect | a request reads, waits for a provider, and writes; workers stop between any two statements | no secret outlives its authority; no row is left that nobody can retire |
| Branch operations (`workspace-cloud/lib/provider-operation-*.ts`, `lib/providers/neon-branch-*`) | operations and approvals, receipts, connections, leases | plan, approve, reject, execute, reconcile, bootstrap, import | lost answers of a provider without idempotency; two requests execute one plan | the provider is called once; recorded outcomes are true and final |
| Direct access (`workspace-direct-access-*.ts`, `features/direct_access`) | grants, principals, pending revocation items; roles at the database server | request, work list, claim, receipt, defer, withdraw, leave, sync pass, revoke | three parties, none of which sees the others; claims that expire | no role exceeds its grant; a dropped account is gone |
| Manual transactions (`features/queries/manual_transaction*`) | open transactions, leases | begin, execute, commit, roll back, exit | idle timeout against a running statement | a transaction ends once, with a known outcome |
| Connection runtime (`connection/`) | pinned runtimes, pools, tunnels | acquire, refresh, retire | a generation changes under a user | no use of a retired credential |
| Query streams and results (`features/queries`, `store/`) | streams, pages | open, pull, close | bounded buffers | no page lost, no leak |
| Safety gate (`safety/`) | none | parse, enforce, preview | SQL dialects | a write is never classified as a read |
| Audit chain (`audit/`) | hash chain | append, verify | append under a lock | unbroken chain |
| External Agent requests (`broker/external_agent_requests.rs`) | approval queue | enqueue, decide, release | queue against session end | every request answered once |
| Desktop provisioning (`features/providers`) | provisioning checkpoints | plan, run, resume, quarantine | remote side effects, crash | no resource created twice |
| Analyses, backups, key rotation (`workspace-cloud`) | run leases, encrypted rows | claim, renew, finish, rotate | overlapping runners, resumable rewrites | one runner, data stays readable |
| Agents, terminals (`features/agents`, `features/terminals`) | processes, sessions | start, prompt, stop | process death | sessions are revoked with their process |
| CLI, UI, site, scripts | - | - | - | clients and tooling |

Interaction. UI, CLI and agents call the backend; agents come through the Broker,
which authenticates a session and tracks what it proposes. Every proposal becomes
an operation. Approval and execution are separate calls of the user; execution
claims the operation, runs it at the target and writes a receipt. A job owns one
operation for its whole life and moves both rows. When a session ends, the
registry hands its proposals to a consumer task that cancels what is still open.
At startup operations are recovered first, then jobs, behind a gate that job and
agent commands wait for.

A desktop asks the control plane for a lease of a shared connection; the control
plane creates a credential at the provider and returns its secret. Every route
that takes authority away first raises a *revocation gate*, revokes the leases
concerned, and commits under its claim of the gate. Branch operations share the
connections, gates and leases with those routes. On a direct shared database the
control plane holds no credential: it keeps a work list, and the desktops of
administrators carry it out at the database server and send receipts.

`PROJECT.json` lists all components, the hazards with their source lines, and for
every definition the lines it models.

## Modules

### OperationStates
Pure operators: the kinds (the twelve protocol kinds collapse to five classes the
code tells apart), terminal states, `EnsureTransition` and `RestartRecovery`.

### OperationRuntime
Tables are functions over `Ops` (an operation per idempotency key): `ops` is the
projection, `ledger` the states of its event chain, `approvals` the rows of
decisions. `runtime` is the id of the running process, `policy` the revision that
`capture_policy` would return now. `session`, `tracked` and `sink` are the Broker
registry. `signal` is the cancellation registry of the executor. `manual` is the
user's manual transaction on the connection and `staged` the writes it holds;
whether there may be one is the constant `Manual`. `confirmed` are the operations
whose stored receipt says `committed`, `commits` counts what reached the target
and `claimLive` remembers whether the proposing session was live at the claim; the
last two are history.

A call in flight is a task. One action is one SQLite transaction (the repository
holds a write lock for each), one registry access, or one read followed by an
await; `pc` says which step is next. Plan is `PlanStart`, `PlanInsert`,
`PlanDispose`, `PlanTrack`; a decision is `ApproveRead` or `RejectRead`,
`CapturePolicy`, `DecideApproval`; a run is `RunStart`, `ClaimCheck`
(`ClaimCancel`), `ClaimTx`, `ClaimRecheck`, `CheckSignal`, `Execute`,
`WriteReceipt` with `FailBeforeTarget` and `ReceiptFailed`. `Execute` is
`RunDirect`, the executor with a transaction of its own, or `RunManual`: a
statement inside the open manual transaction is staged and its receipt says
`succeeded` with `committed: false`, is rolled back alone to its savepoint, loses
its savepoint and with it the transaction's right to commit, or is abandoned with
the connection. `BeginManual`, `CommitManual` and `EndManual` are the user, the
expiry timer and the revocations. A cancel is
`CancelRead`, `CancelBefore` or `CancelQuery`; the revocation consumer is
`SinkTake`, `CleanupRead`, `CleanupCancel`. The clock is one bit per plan
(`due`), read when the code calls `Utc::now()` and used later. A payload stands
for its SHA-256. `Restart` is a crash at any point together with the recovery of
the next process, which ends before any call is served; a commit that was on its
way may still land.

### ApprovedOnce
What the runtime promises about a mutation, in three variables: decided once,
claimed once after an approval, used at most once after a claim. `KeepsPromise`
says that `OperationRuntime` implements it.

### JobEngine
`job` is the row of `jobs` with the existence of a checkpoint, `op` the state and
owner of its operation, `running` the map of cancellation tokens, `applied` how
often each batch was written (target table or partial file), `published` whether
`finalize_output` renamed the partial file. What kind of job a row is (import or
export, resumable or not) is chosen in `Init` and stays. A call and the worker it
spawns are one process; its steps follow the awaits of `start`, `complete`,
`pause`, `cancel` and the worker loops. The snapshots a call read earlier are
carried in its record and used where the code uses them. `Restart` kills all
processes and leaves the operation recovery done; the job recovery then runs
record by record behind the gate (`phase`), and may fail.

### RevocationGates, LeaseCleanup, LeaseIssuance, AccessChanges, ProviderDisconnect, ManagedLeases
One member, one managed connection, one provider integration, and the leases of
that member on that connection. One step is one D1 statement or atomic batch, or
one provider call; what a request read earlier is in its record and compared
again exactly where a `WHERE` clause of the code compares it.

- `RevocationGates`: the rows (`role`, `grant`, `conn`, `integ`, `row`), the three
  gates with claim and staleness, and the predicates that the routes share
  (`CapabilityPredicate`, `ConnectionGrantPredicate`). `cred` and `sent` are
  external: what the provider honours, and how often a refresh token was spent.
- `LeaseCleanup`: `revokeActiveLeases` and `cleanupExpiredManagedLeases`. A worker
  works on a snapshot (`work`), may defer a lease (a GCP token cannot be revoked,
  a pending row names no credential yet), loses the provider's answer, or loses
  its fence.
- `LeaseIssuance`: authorize, reserve a pending row, refresh the PlanetScale token
  with its claim and its two-phase fence, create, finalize, check again, deliver;
  or undo.
- `AccessChanges`: role, removal, grant, template edit and deletion, team read,
  and the switch to member-local credentials.
- `ProviderDisconnect`: the disconnect saga with its durable phases, resumed under
  the original claim, and the reconnect.
- `ManagedLeases`: the composition and its properties.

### ProviderOperations, NeonBranches, BranchSwitch, BranchOperations
One operation of each kind: create a side branch, delete it, switch a connection
from the main branch to it. `ProviderOperations` has the rows and the guarded
statements over them (plan, decision, claim, remote start, reconciliation,
bootstrap) and the routes they meet (import, edit, lease, loss of a manager or of
the integration). `NeonBranches` is the execution: claim, fence, call, observe,
apply, with `wire` for a call that is on its way and `landed` for what the
provider carried out. An answer may be lost, or be an error although the call took
effect (`errored`): a create then stays open, a deletion is recorded as failed.
`BranchSwitch` is the part of a switch behind the connection's gate.
`BranchOperations` composes them.

### DirectPrincipals, DirectDevices, DirectAccess
One provisioned PostgreSQL connection, one member (an editor), devices of
administrators. `DirectPrincipals` has the control plane's rows and routes; the
work list, the claim and the lowering blockers are operators over them.
`DirectDevices` has the devices: a synchronization pass, or the revocation an
administrator asked for, one at a time per device, each call and each plan a step
of its own; `roles` is external, the privileges the server holds. A plan may fail
before anything was done, after a drop has taken the privileges away, or after its
commit. A lease runs out by the clock, also under a holder that is still working.
`strayed` is history: it is set when a role gains privileges that no record
accounts for, that is by a plan run without the live claim to apply, by a gain
whose receipt does not arrive under that claim (the device reports a failure,
stops, or the lease runs out first), or by a re-grant that is not of a ready row's
recorded level.
`DirectAccess` composes them.

### MC modules
`MCOperationRuntime`, `MCJobEngine`, `MCManagedLeases`, `MCBranchOperations` and
`MCDirectAccess` give the constants of the runs. The last three give a set of
*scenarios*, from which `Init` picks one: which operations are asked for, which
features they meet and how many faults there are. One run explores all scenarios;
a scenario restricts what the environment asks for, never what the code does.

## Runs

| Run | Instance | Result |
| --- | --- | --- |
| `agent_write` | 1 Agent write, 2 callers and the consumer, 2 payloads, 2 policies, 1 restart | 1.2 M states; all safety properties hold, and the runtime implements `ApprovedOnce` |
| `runtime_live` | 1 write of the user and 1 read of an Agent session, 1 caller and the consumer, a manual transaction, 1 restart, fair tasks | 0.34 M states; no outcome contradicts what the transaction committed, rolled back or still holds; executing work resolves; proposals of ended sessions close |
| `cancel_races_claim` | 1 write, no restart needed | violation, finding 1 |
| `job` | 1 job of each kind (resumable import, resumable export, plain export), 3 calls, 2 batches, 2 restarts | 0.8 M states; no batch twice, paused imports exact, one worker, operation follows job, progress monotone, plain jobs never stranded |
| `job_live` | 1 import that can pause or 1 export that cannot, 3 calls, 1 batch, fair calls | 0.58 M states; a cancellation of the export and a pause of the import settle |
| `job_wedged` | 1 resumable export, 2 calls, 1 batch | violation, finding 2 |
| `leases` | 13 scenarios: pairs and triples of changes, the disconnect and the reconnect among them, against one lease request or two, for four providers; 1 sweeper | 1.6 M states; secrets stay authorized, tracked and retirable, refresh tokens are spent once |
| `branches` | 10 scenarios: each kind of operation with all it can meet, a deletion together with a switch and an import, 2 managers, 2 requests, at most 1 dead request | 0.88 M states; one provider mutation, closed creates untouched, final outcomes, fenced access, no import of a branch under deletion, started creates finish |
| `branch_delete_stuck` | 1 deletion, no fault | violation, finding 3 |
| `branch_delete_switched` | 1 deletion and 1 switch, no fault | violation, finding 4 |
| `direct` | 5 scenarios: lowering and removal, with and without withdrawals, crashes, refusals and leases that run out under their holder, devices that re-grant; 1 or 2 devices, 2 accounts, 4 decisions or faults | 0.77 M states; the record covers the role, the role is within the grant and a dropped account is gone while no gain has strayed; removals and departures reach the database |
| `direct_regrant` | 2 devices, 1 account, 3 decisions, no fault | violation, finding 5 |

### Why the bounds are enough

*Operations and jobs* do not share rows, so one operation or job with several
calls shows every race between calls on it; what operations share (session,
consumer) is exercised by one. Two callers and the consumer give three concurrent
writers of an operation: a claimer, a decider or second claimer, and a canceller.
Two payloads and two policies let a decision meet a plan that is not the reviewed
one. Jobs need three calls (two starts and a pause or cancel) for a stale start to
meet a paused job. Two batches give a first, a last and a batch after a resume.
One restart lets a second process meet the rows of a first; two show that a failed
recovery repeats. A manual transaction is one per connection; a write and a read
let one operation be staged while another loses the savepoint. The state spaces
are finite: the bound on restarts is `MaxRuntime`, every other counter is bounded
by the protocol.

*Leases.* The properties are about one secret and the changes that take its
authority away, so one lease request meets every change, with a second change
racing it for the same or another gate. Two lease requests are needed for what
leases share, the token refresh and the exclusive schema lease, and have
scenarios of their own. `attempts` bounds how often sweepers claim one row; with
two, a claim that went stale is taken over. `MaxGeneration` follows from the
number of requests.

*Branches.* Two requests suffice for execution, since the statements compare a
request's claim with the row and never count requests. One death or lost answer
per behaviour leaves each intermediate state for the second request to find. Two
managers separate requester and approver in production.

*Direct access.* Two devices race for one claim; two accounts let an account be
dropped and requested again; four decisions and faults together are the longest
chain the properties need (grant, lower, withdraw, leave, or a fault among them).
`MaxPrincipals` and `MaxChanges` are the bounds; a crash, a refusal and an overrun
lease each spend one of `MaxChanges`.

`job_live` has one batch so that three calls fit. That a cancellation settles is
stated for jobs that cannot pause. With three calls it is false of the others (see
"Smaller hazards"), and `NoStrandedPlainJob` has the same restriction.

`agent_write` and `runtime_live` check for deadlock; the other runs set
`CHECK_DEADLOCK FALSE`, because the system may stop: a finished job, a closed
operation or a removed member with no request left has nothing to do. Symmetry
over callers, leases and requests is used in runs without liveness only.

### Fairness

- `OperationRuntime`: every step of a task (`WF` on `TaskStep`), since each waits
  only for SQLite or for an await bounded by `QUERY_TIMEOUT`; the revocation
  consumer and its interval sweep, which run as long as the process. New calls,
  session ends, policy changes and crashes are not fair.
- `JobEngine`: every step of a call and of the recovery; new calls and crashes are
  not fair. The worker's batch is a step: an endless stall of the target is
  excluded by the query timeout.
- `BranchOperations`: a request that has begun runs on or dies, Neon settles what
  it accepted, time passes, and some manager asks for an unfinished operation
  again (the desktop shows it and offers the retry). Plans, decisions, imports,
  leases and losses of authority are not fair.
- `DirectAccess`: the worker of a device polls every minute and finishes its pass;
  leases run out. Decisions, refusals, crashes and leases that run out under their
  holder are not fair, and are bounded by `MaxChanges`.
- `ManagedLeases` has no fairness: a worker that stops anywhere is a behaviour of
  the specification, and its properties are safety.

### Assumptions and abstractions

- A provider's refusal with 423 or 503 and a 4xx of a create mean that nothing
  happened. Any other error may hide an effect, and every answer may be lost.
- A managed lease expires at the provider when its row says so. An analyst has a
  viewer's managed access and is folded into it.
- A manual transaction is on the connection of the modelled operations; an
  operation of another connection runs directly, which `Execute` also allows.
- `RoleWithinGrant`, `RecordCoversRole` and `DroppedMeansGone` hold as long as no
  gain has *strayed*. This is not a restriction of scenarios: crashes, refusals,
  lapsed leases and re-granting devices are in the run and in the theorems, and
  only the step that gains a privilege outside the protocol (see `DirectDevices`)
  ends what is promised. Run `direct_regrant` shows what happens after such a
  step, and "Smaller hazards" names the others.
- `DepartureDropsTheRole` and `RemovalReachesTheRole` leave out an item of
  lowering that is pending beside the removal: its claim to apply may be renewed
  for ever (see "Smaller hazards").

## Findings

1. `cancel_races_claim`: `cancel_terminal` and `cancel_revoked_agent_proposals`
   read an unclaimed state, then call `cancel_before_execution`, which is legal
   from `executing` too. A claim in between is overwritten: the row says
   `cancelled`, the write commits, and its receipt is refused.
2. `job_wedged`: a start with an old snapshot rolls a paused job back to `queued`
   although its operation is executing. For an export the job recovery then
   refuses the record at every startup, and the gate stays closed.
3. `branch_delete_stuck`: the deletion reports its observations with managed access
   `unavailable` and without a database count, a combination the reconciliation
   accepts from a refused deletion only. The branch is gone and the operation
   stays `remote_started`.
4. `branch_delete_switched`: the deletion looks for connections up to its
   remote-start fence, and a switch never looks for a deletion. A switch that
   commits after the fence leaves a connection on a deleted branch.
5. `direct_regrant`: the re-grant of every tenth pass runs under no claim. Another
   device lowers the role in between, the server lowers the grant, and the
   re-grant gives back what was withdrawn.

## Smaller hazards

`PROJECT.json` lists the hazards the properties are for. Reading and modelling
the code met others, which no property forbids because the code does not keep
more, or which an assumption above excludes:

- Jobs that can pause: a cancel finds the token of a worker that has paused and not
  left the running map, and only signals it; the start that has reclaimed the job
  looked for a cancellation before that and gives up (`execution.rs:318`). The job
  stays in `cancel_requested`, which the comment at `execution.rs:207` says never
  happens. The model reaches this with three calls.
- Jobs: a crash after `finalize_output` renamed the partial file leaves a paused
  export that cannot resume although its output exists
  (`worker/export.rs:333`); a crash between `ledger.finish` and the receipt leaves
  the operation of an export executing (`execution.rs:187`); the operation recovery
  expires the plan of a queued job, so the job is cancelled at a restart where
  `docs/contracts/job-engine.md:50` moves it to the new process; an SQLite error
  after `running.insert` leaves a running job without a worker
  (`execution.rs:118`, store errors are not modelled).
- Broker: the 257th tracked proposal of a session drops the oldest from the list
  (`proposals.rs:50`); it can no longer be approved and expires by itself.
- Gates: a grant change, a template edit and a branch switch whose leases were
  deferred keep their gate pending, and the same routes refuse a pending gate
  (`grants/route.ts:192`, `switch.ts:52`). Access stays suspended until another
  route resolves the gate.
- Branches: every error answer to a deletion is recorded as failed, a gateway's or
  an unexpected success code included (`neon-branch-api.ts:186`, `delete.ts:185`).
  The branch may be gone, and a failed operation is not reconciled. The model
  reaches this; `ClosedMeansUntouched` speaks of failed creates only.
- Branches: a branch whose create lost its answer is treated as one that nobody
  here created (`provider-operation-managed-access.ts:242`); if it comes out broken
  besides, its create stays open for ever (`neon-branch-api.ts:421`, the last
  disjunct of `StartedCreateFinishes`); a reconnect changes the integration's
  generation, after which nobody may finish a started operation of the former one.
- Direct access, all reached by the model:
  access granted again while the account is in `drop_pending` makes the work list
  ask to apply, which a claim refuses from that state, and the member's new request
  is refused too (`workspace-direct-access-store.ts:262`), so the account stays
  there; a claim runs out under a device that is about to create a role, a second
  device finds no role and reports the account dropped, and then the role is
  created (`:270`); provisioning commits and is reported as failed, no role id is
  recorded, no drop can prove ownership (`ownership.rs:91`), and the role of a
  member who leaves stays; a lowering that finds nothing to lower leaves its claim
  in `applying`, the device renews it in that direction also when a removal is
  pending, and the receipt of the drop is refused at every pass (`:257`), so that
  the role is gone and the removal pending for ever.
- Direct access: a request that removes a grant and dies before `clearRevocationGate`
  leaves the member's gate closed (`grants/route.ts:268`); the model has the state,
  and not the route that resolves it. A role locked by an interrupted drop is not
  unlocked when the account is applied again (`plan.rs:319`, login state is not
  modelled).

## Proofs

Every theorem holds for all values of the constants that satisfy the assumptions
of the module that declares them (`ConstantsAssumption` of `OperationRuntime`,
`JobConstantsAssumption` of `JobEngine`, the assumptions on scenarios and bounds
of the other families): any number of operations, jobs, batches, callers,
managers, requests, leases, sweepers and restarts. Each inductive invariant was
checked with TLC on the instance of its run before it was proved.

### OperationRuntimeProofs, OperationRuntimeSafety

`TypeCorrect` is `Spec => []TypeOK`. `TaskInv` makes the types inductive: a task
that is not idle names an operation, a planning one carries a payload, a deciding
one a decision, a tracked one a session, and one at its receipt an outcome. The
lemmas follow the structure of the model: what a legal transition, a recovery
decision, `TransitionTx`, `Finish`, `Return`, `Goto` and `Call` do, then one lemma
per group of actions.

| Theorem | Statement | Rests on |
| --- | --- | --- |
| `ExecutedAtMostOnce` | `Spec => []AtMostOnce` | `GrantInv` |
| `OnlyExactApprovalsExecute` | `Spec => []MutationsAreApproved` | `ApprovalInv` |
| `RecoveryClosesOldRuntimes` | `Spec => []OldRuntimesAreClosed` | itself |
| `StoredPlansStay` | `Spec => StoredPlanIsImmutable` | the shapes of steps |
| `OutcomesAreHonest` | `Spec => []HonestOutcome` | `OutcomeInv`, `ClaimInv` |
| `OnlyLiveSessionsCommit` | `Spec => []RevokedSessionsDoNotCommit` | `LiveInv` |
| `PromiseKept` | `Spec => KeepsPromise` | `ClaimInv`, `DecidedInv`, `ApprovalInv` |

`GrantInv` says why a second commit cannot happen: a task that holds a grant works
on an operation that has left the open states, so nobody can claim it again;
grants are unique; and the target is untouched while a grant is fresh or the
operation is open. `ApprovalInv` extends the approval to every operation that is
approved, claimed, granted or committed. All actions but three are *plain*: they
create a plan, keep an operation or move it along a legal transition that does not
claim it, and issue no grant (`StepShapes`). An invariant is preserved by a plain
step once and for all, and by a successful claim, an execution and a restart one
by one.

A plain step does not say who wrote a final state. `LiveShapes` adds it: an
execution is ended by a cancellation, or by the task that holds the grant
(`FailBeforeTarget`, `WriteReceipt`). `OutcomeInv` is then inductive: while a
grant is held nobody but a cancellation closes the row, and the result a task is
about to write is true of the target: a success was committed, and a failure was
not and is not staged either. Only a claimed operation is ever staged (`ClaimInv`),
and the `COMMIT` of the user touches what is staged and nothing else, so a commit
never overtakes a failure receipt. That a held operation may be `cancelled` is
what finding 1 is about; the theorem therefore leaves `cancelled` out. `LiveInv`
carries a claim from its transaction to the second session check: the proposing
session was live at the claim, or it has ended since, and an ended session never
comes back, so the check sees it.

For the refinement, `ClaimInv` (every grant has its event in the ledger, and a
claimed operation is never open again) and `DecidedInv` (an approval row closes
the decision, and there is at most one) show that each step maps to a decision, a
claim, a use or a stutter of `ApprovedOnce`; a restart maps to one `Use` of all the
commits that land after the crash.

### JobEngineProofs

All theorems follow from one inductive invariant, `JobInv`.

| Theorem | Property | Rests on |
| --- | --- | --- |
| `JobTypesCorrect` | `TypeOK` | `ShapeInv` |
| `OneOwnerWrites` | `OneWorker` | `OwnerInv` |
| `BatchesWrittenOnce` | `NoBatchTwice` | `DataInv` |
| `PausedImportsResume` | `PausedImportIsExact` | `DataInv` |
| `JobAndOperationAgree` | `OperationFollowsJob` | `DataInv`, `SettledInv` |
| `PlainJobsAreNotStranded` | `NoStrandedPlainJob` | `PlainInv`, `TokenInv`, `HandInv` |
| `ProgressIsNeverLost` | `ProgressIsMonotone` (action property) | `BirthInv` |

The compare-and-swap of `claim_running` makes a call the *owner* of a job, until
it has put the row back or completed it. `OwnerInv`: a job has one owner at most,
and an owned row is in a state that no other call can claim, although a cancel or
a second start may have moved it. `DataInv` says what the owner knows at each of
its steps about the batches that were written, and what the row says when there
is no owner; a lost acknowledgement is harmless because a job whose last batch is
in doubt ends as failed and is never `paused` or `queued` again. `BirthInv` (the
row appears once, before any other call) keeps an ended job from being reinserted.
`SettledInv` orders the two transactions of a completion, the recovery loops
included.

`NoStrandedPlainJob` needs the most. A job that cannot pause is started from
`queued` with no rows, is never paused, and only a cancellation stops its worker
(`PlainInv`); a token in the map belongs to a call that will take it out
(`TokenInv`). `HandInv` then finds a holder after every step: a cancel that
signals a worker hands the job to it, a cancel that finds no token keeps it and
finishes it itself, and a start that undoes its claim is relieved by the cancel
that overtook it. For a job that can pause the statement is false: a cancel may
signal the token of a worker that has already paused and not left the map, while
the start that reclaimed the job gives up (`execution.rs:318`). That is why the
property is about the others.

The proof uses frame lemmas (what a step of one call leaves of the other jobs and
calls) and one *effects* lemma per group of actions, which reads the assignments
of an action field by field; every conjunct is then proved from these.

### BranchOperationsProofs, BranchOperationsSafety

`TypeInv` adds to the types what a request carries at each step: the kind its
steps belong to, and an observation that never claims `ready`.

| Theorem | Property | Rests on |
| --- | --- | --- |
| `MutatesOnce` | `OneProviderMutation` | `FenceInv`, `LandedInv` |
| `ClosedUntouched` | `ClosedMeansUntouched` | `ClosedInv` |
| `AccessFenced` | `ManagedAccessIsFenced` | `AccessInv` |
| `FinalOutcome` | `TerminalIsFinal` (action property) | `TypeInv` |
| `LeasesFollow` | `LeasesFollowTheConnection` | `LeaseInv` |
| `DeletionExcludes` | `DeletionExcludesImports` | `DeleteInv` |

The remote-start fence lets one request of an operation through to the provider:
`FenceInv` says that nothing is on the wire and nobody sends before the row says
`remote_started`, and that senders of a kind are unique. `LandedInv` ties what the
provider carried out to the answer on the wire, which may be an acceptance or an
error. `ClosedInv` ties a failed row to a call that was denied or, of a deletion
only, answered with an error: a create answered with an error that may hide a
branch is never closed. `DeleteInv` says that a deletion which passed its fence
found no imported connection and that none can appear while it is started.
`DeletionExcludes` therefore holds whatever is planned beside the deletion; what a
switch does to it is finding 4.

### ManagedLeasesProofs, ManagedLeasesSafety

`TypeCorrect` needs a counting argument: the type bounds the credential
generation of the integration by `MaxGeneration`, and `GenerationInv` bounds it by
the number of requests that finished and of lease requests that renewed a token,
each of which moves it once.

| Theorem | Property | Rests on |
| --- | --- | --- |
| `TokenSpentOnce` | `RefreshTokenSpentOnce` | `RefreshInv` |
| `SecretsTracked` | `UsableSecretsAreTracked` | `TrackInv` |
| `SecretsAuthorized` | `SecretsStayAuthorized` | `SafetyInv` |
| `LeasesNotStranded` | `NoStrandedLease` | `SafetyInv` |
| `LeasesRevokedFirst` | `ProviderRevokedLast` | `SafetyInv` |

`RefreshInv`: a token that was sent is marked in the row by `remote_started` or by
a later generation, and one lease request per generation is between the mark and
the call. `TrackInv` relates the position of a lease request to its row and its
credential, and says that what a cleanup has read of a row is still so.
`ClaimInv` says that a claim is drawn by one request and closes its gate.
`DrainInv` is the heart of the revocation protocol: as long as a request's claim
is on its gate, every lease it must revoke is on its list, in its hand or known to
be deferred, and none is left when it commits. A row is born only by a
reservation under open gates (`RowBirth`), which is why no lease can join the
scope of a change that is under way. `PhaseInv` and `StrandInv` carry this through
the durable phases of a disconnect and the links a revocation needs.

### DirectAccessProofs

| Theorem | Property | Rests on |
| --- | --- | --- |
| `DirectTypesCorrect` | `TypeOK` | `FormInv`, `TypeInv` |
| `DroppedAccountsAreGone` | `DroppedMeansGone` | the two, and `RecordInv` |
| `RecordsCoverRoles` | `RecordCoversRole` | the same |
| `RolesStayWithinTheGrant` | `RoleWithinGrant` | the same |

The theorems are about every scenario: any number of devices that re-grant,
crashes, refusals, plans that fail after their commit, withdrawals, and leases
that run out under their holder. `FormInv` gives rows and devices their form: a
device works on the latest account or on an older one. `TypeInv` adds the types
and `WorkerOf`: a device at work holds the row just as it read it, with or without
its lease, or the row is no longer its own, because a receipt gave it back or
another device took it over. Without it a receipt could record a level the row
cannot have.

The last three theorems are about behaviours in which no gain has strayed,
`RightfulInv == ~strayed => RecordInv`. `RecordInv` cannot say that the role is as
recorded, because after a crash or a lost answer it is not; it says that the
record *covers* the role:

- *Covered, or a report is due* (`CoverInv`): the privileges of the role of the
  latest account are within the recorded level, unless the holder of a live claim
  has applied a level and its receipt is still to come (`Raising`). If that device
  crashes, is refused or loses its lease, the gain has strayed.
- *A late report is still true* (`ReportOf`, `LateOf`): a device whose lease has run
  out, or whose claim another renewed, may only have taken privileges away, or
  granted no more than what is recorded, so its receipt, if it is accepted, says
  nothing false and records nothing higher. A report of a drop is true since only a
  claim to apply brings a role to life, and it is refused once the row is claimed
  so.
- *Nothing above the grant* (`GrantInv`, `RaiseOf`): the recorded level and a level
  being raised under a live claim are at most the grant's, because a lowering of
  the grant commits only past `LoweringBlocked`, which counts both.
- *Superseded accounts are gone* (`GoneInv`): a new row is made only after the drop
  of the old one was recorded, and a late creation strays.

`Strays` says that history only grows. The actions fall into requests and queued
changes, which touch the grant and the items; steps of a device that touch neither
row nor role; and those that do: a verifier, a lease that runs out, a crash, the
claim, the plan, its refusal, the receipt and the re-grant, each with a lemma of
its own. TLC checked `RecordInv` on the instance of `direct` before the proof.

### What the proofs changed

Two operators of the model used `CASE` with guards that overlap, where TLA+ leaves
the choice open and TLC takes the first: `AfterFence` of `NeonBranches` and
`ClaimGate` of `BranchSwitch` now test in the order of the code, and the guard of
`CreateObservation` excludes the earlier case. The runs see the same states as
before. `BoundsAssumption` of `DirectPrincipals` now asks for at least one
principal: an initial state has one.

A pending item is now taken out with `RemoveFirst` where `SelectSeq` filtered for
it, and `SettleAfterMutation` names the one item it can leave. Both see the same
states, since no item is pending twice, which is a conjunct of `TypeOK` and is
proved.

The invariants of direct access were once stated for scenarios without faults and
with one re-granting device. The attempt to say what remains true with them led to
`strayed`, to `RecordCoversRole` in the place of an equality between record and
role, to finding 5 and to the hazards of direct access above.

### Only model-checked

Liveness (`ExecutionResolves`, `RevokedProposalsClose` and the temporal properties
of the other families) and the properties that runs show violated are outside of
what these proofs can state. Every invariant and every action property that a
passing run checks is also a theorem.

## Not modelled

- Operations: provider operations of the desktop, the contents and hashes of
  ledger rows, errors of the SQLite store other than a refused success receipt.
- Jobs: job events, file formats, the row-by-row fallback inside an import batch,
  the concurrency permits of the job scheduler.
- Control plane: sign-in, invitations and sync; analysis runs and their runner
  leases with the scheduler that triggers them; backups and the data key
  rotation; the statements inside a bootstrap. Each of these works on rows of its
  own.
- Direct access: MySQL, whose plans are not transactions; items for lowered
  roles, team read, deleted databases and removed members, which take the same
  path as the modelled ones; the login state of a role; setting up a shared
  database.
- Desktop: scripts, streamed reads and the exit dialog of manual transactions;
  connection runtime, query streams, external Agent
  requests, the provisioning saga, agents and terminals.
- The React interface, its message catalogs and components, make up most of the
  TypeScript of the repository. It keeps no state of the protocols: its commands
  are the calls of the models. Site, scripts and release tooling are likewise left
  out.

Commands that only read change no state. `PROJECT.json` lists every part with its
reason.

## Plan

1. Analysis runs and key rotation of the control plane; external Agent requests of
   the desktop, composed with `OperationRuntime`; scripts inside a manual
   transaction; store errors in `JobEngine`.
