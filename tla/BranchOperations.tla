-------------------------- MODULE BranchOperations --------------------------
(***************************************************************************)
(* Neon branch operations of one workspace: the specification and what it  *)
(* promises.                                                               *)
(***************************************************************************)
EXTENDS BranchSwitch

\* The side branch exists from the start unless the behaviour creates it: an
\* earlier create operation made it, fenced it and bootstrapped it; a legacy
\* one succeeded before inherited roles were fenced.
EarlierCreate ==
    IF "legacy" \in scenario.with
    THEN [NoOperation EXCEPT !.state = "succeeded", !.recorded = TRUE]
    ELSE [NoOperation EXCEPT !.state = "succeeded", !.recorded = TRUE, !.access = "ready", !.fence = TRUE]

Creates == "create" \in scenario.kinds /\ "legacy" \notin scenario.with

NewConnection == [exists |-> FALSE, branch |-> NoOne, revision |-> 1, pending |-> FALSE,
                  claim |-> NoOne, stale |-> FALSE]

Init ==
    /\ scenario \in Scenarios
    /\ op = [k \in Kinds |-> IF k = "create" /\ ~Creates THEN EarlierCreate ELSE NoOperation]
    /\ live = [m \in Members |-> m \in scenario.team]
    /\ current = TRUE
    /\ conn = [c \in Connections |->
                  IF c = "moving" THEN [NewConnection EXCEPT !.exists = TRUE, !.branch = "main"]
                  ELSE NewConnection]
    /\ lease = [c \in Connections |-> NoOne]
    /\ receipt = FALSE
    /\ side = IF Creates THEN "absent" ELSE "ready"
    /\ inherited \in IF "legacy" \in scenario.with THEN BOOLEAN ELSE {FALSE}
    /\ wire = [k \in Kinds |-> "none"]
    /\ landed = [k \in Kinds |-> 0]
    /\ req = [r \in Requests |-> NoRequest]
    /\ faults = 0

\* One step of a request that has begun
Proceed(r) ==
    \/ CancelExpired(r) \/ Claim(r) \/ MarkRemoteStarted(r)
    \/ Send(r) \/ Receive(r) \/ Observe(r) \/ Apply(r)
    \/ ClaimGate(r) \/ Drain(r) \/ Target(r) \/ Commit(r) \/ Release(r) \/ GiveUp(r)

Next ==
    \/ \E m \in Members, k \in Kinds : Plan(m, k) \/ Approve(m, k) \/ Reject(m, k)
    \/ \E k \in Kinds : PlanExpires(k) \/ StartIsOverdue(k)
    \/ \E r \in Requests, m \in Members, k \in Kinds : Begin(r, m, k)
    \/ \E r \in Requests : Proceed(r) \/ Fails(r)
    \/ \E k \in {"create", "delete"} : Lands(k) \/ Refuses(k)
    \/ Settles \/ GateGoesStale
    \/ \E m \in Members : Bootstrap(m) \/ Import(m) \/ LosesAuthority(m)
    \/ IntegrationChanges \/ Discover
    \/ \E c \in Connections : EditConnection(c) \/ IssueLease(c) \/ LeaseEnds(c)

Spec == Init /\ [][Next]_vars

\* A request that has begun runs on, Neon settles what it was asked, time
\* passes, and some manager asks for an operation that is not finished again.
FairSpec ==
    /\ Spec
    /\ \A r \in Requests : WF_vars(Proceed(r))
    /\ \A k \in {"create", "delete"} : WF_vars(Lands(k) \/ Refuses(k))
    /\ WF_vars(Settles)
    /\ \A k \in Kinds : WF_vars(StartIsOverdue(k))
    /\ \A k \in Kinds : WF_vars(\E r \in Requests, m \in Members : Begin(r, m, k))

-----------------------------------------------------------------------------
(* Properties. *)

OperationStates == {"none", "awaiting_approval", "approved", "claimed"} \cup Started \cup Terminal
AccessStates == {"unavailable", "waiting_for_provider", "not_requested", "bootstrap_required",
                 "ready", "needs_repair"}
Positions == {"idle", "cancel", "claim", "mark", "send", "await", "record", "observe", "apply",
              "gate", "drain", "target", "commit", "release", "clear", "unclaim"}
Statuses == {"none", "missing", "pending", "ready", "conflict", "failed"}
SideStates == {"absent", "creating", "ready", "broken", "deleting", "gone", "kept"}
Somebody == Members \cup {NoOne}
Branches == {"main", "side", NoOne}

\* The type invariant of the operation and approval rows, the connection rows
\* with their gates, and the requests of the operations route.
TypeOK ==
    /\ scenario \in Scenarios
    /\ op \in [Kinds -> [state : OperationStates, requester : Somebody, approver : Somebody,
                         expired : BOOLEAN, overdue : BOOLEAN, revision : Nat, leased : BOOLEAN,
                         recorded : BOOLEAN, operation : BOOLEAN, access : AccessStates,
                         fence : BOOLEAN]]
    /\ live \in [Members -> BOOLEAN] /\ current \in BOOLEAN /\ receipt \in BOOLEAN
    /\ conn \in [Connections -> [exists : BOOLEAN, branch : Branches, revision : Nat,
                                 pending : BOOLEAN, claim : Requests \cup {NoOne}, stale : BOOLEAN]]
    /\ lease \in [Connections -> Branches]
    /\ side \in SideStates /\ inherited \in BOOLEAN
    /\ wire \in [Kinds -> {"none", "sent", "accepted", "errored", "locked", "refused"}]
    /\ landed \in [Kinds -> Nat]
    /\ req \in [Requests -> [pc : Positions, kind : Kinds, member : Somebody, tries : 0..2, late : BOOLEAN,
                             obs : [status : Statuses, branch : BOOLEAN, operation : BOOLEAN,
                                    access : AccessStates, databases : BOOLEAN, fence : BOOLEAN]]]
    /\ faults \in 0..scenario.faults

\* The remote-start fence: however often an operation is executed, retried or
\* taken over, the provider carries out its create or delete at most once.
OneProviderMutation == \A k \in Kinds : landed[k] <= 1

\* No request is about to change anything in the name of an operation recorded
\* as failed or cancelled.  A cancelled operation, and a create that failed,
\* changed nothing at the provider: an answer that may hide a branch never closes
\* its create.  A deletion has no such promise: deleteNeonBranch records every
\* error answer as failed, whatever the deletion did.
ClosedMeansUntouched ==
    /\ \A k \in Kinds : op[k].state \in {"failed", "cancelled"} =>
          wire[k] # "sent" /\ \A r \in Requests : ~(req[r].kind = k /\ req[r].pc = "send")
    /\ \A k \in Kinds : op[k].state = "cancelled" => landed[k] = 0
    /\ op["create"].state = "failed" => landed["create"] = 0

\* A branch is opened to managed access, whatever recorded its create and
\* whoever reconciled it, only once no temporary role copied from the source
\* can log in on it.
ManagedAccessIsFenced ==
    op["create"].access \in {"bootstrap_required", "ready"} =>
        side \notin {"absent", "creating", "broken"} /\ ~inherited

\* A recorded outcome is final: no late observation, retry or second request
\* changes the state of a finished operation or takes back its managed access.
TerminalIsFinal ==
    [][\A k \in Kinds : op[k].state \in Terminal =>
          /\ op'[k].state = op[k].state
          /\ op[k].access = "ready" => op'[k].access = "ready"]_vars

\* A credential lease is for the branch its connection points at, also across a
\* switch that races other requests for the connection's gate.
LeasesFollowTheConnection ==
    \A c \in Connections : Leased(c) => lease[c] = conn[c].branch

\* A deletion in flight excludes imports: a branch whose deletion reached the
\* provider has no imported connection and no credential lease of one, unless the
\* provider answered the deletion with an error and its row says that it failed.
DeletionExcludesImports ==
    side \in {"deleting", "gone"} /\ op["delete"].state # "failed" =>
        ~On("imported", "side") /\ lease["imported"] # "side"

\* The same of every connection ("no workspace authority"), one that a switch
\* moves to the branch included.
NoConnectionToDeletedBranch ==
    side \in {"deleting", "gone"} =>
        \A c \in Connections : ~On(c, "side") /\ lease[c] # "side"

\* The branch came out broken and the answer that named the provider's operation
\* was not recorded: every reconciliation of the create sees it pending.
BrokenUnseen == side = "broken" /\ ~op["create"].operation

\* A create that crossed the remote-start fence is finished, by whichever
\* manager is left, unless its integration is replaced: a lost response leaves it
\* open only when the branch came out broken besides.
StartedCreateFinishes ==
    op["create"].state \in Started ~> (op["create"].state \in Terminal \/ ~current \/ BrokenUnseen)

\* Whatever was started is finished ("A current manager may therefore finish the
\* exact fenced recovery"), a deletion too.
StartedOperationFinishes ==
    \A k \in Kinds : op[k].state \in Started ~> (op[k].state \in Terminal \/ ~current)

=============================================================================
