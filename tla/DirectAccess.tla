---------------------------- MODULE DirectAccess ----------------------------
(***************************************************************************)
(* A direct shared database end to end: the control plane's rows, the      *)
(* administrators' devices and the roles on the database server.           *)
(***************************************************************************)
EXTENDS DirectDevices

\* A member with write access, with no account yet or with one in use.
Init ==
    /\ scenario \in Scenarios
    /\ changes = 0
    /\ grant = "use" /\ gate = FALSE /\ left = FALSE
    /\ pending = <<>>
    /\ submission = "none"
    /\ strayed = FALSE
    /\ devices = [d \in Devices |-> Resting]
    /\ \/ principal = NoPrincipal
          /\ roles = [n \in 1..MaxPrincipals |-> Absent]
       \/ /\ principal = [Requested(1) EXCEPT !.state = "ready",
                            !.applied = "write", !.current = TRUE,
                            !.identified = TRUE]
          /\ roles = [n \in 1..MaxPrincipals |->
                        IF n = 1 THEN Privileges["write"] ELSE Absent]

\* Requests the control plane serves without a device.
ControlPlane ==
    \/ CheckSubmission
    \/ SubmitVerifier
    \/ SelfLeave
    \/ \E capability \in {"read", "use"} : IncreaseConnectionGrant(capability)
    \/ LowerConnectionGrant
    \/ \E item \in {LowerGrant, RemoveGrant} : DeferRevocation(item)
    \/ \E item \in {LowerGrant, RemoveGrant, SelfLeft} : CancelRevocation(item)

\* What the worker, or the coordinator once asked, does on its own.
Work(d) ==
    \/ SyncOnce(d)
    \/ Prepare(d)
    \/ Derive(d)
    \/ Claim(d)
    \/ Execute(d)
    \/ SettleReceipt(d)
    \/ RegrantItem(d)
    \/ NothingToChange(d)
    \/ SettleLeave(d)
    \/ CommitLower(d)
    \/ OpenGate(d)
    \/ CommitRemoval(d)
    \/ ClearGate(d)

Next ==
    \/ ControlPlane /\ UNCHANGED <<serverVars, devices>>
    \/ LeaseExpires
    \/ \E d \in Devices :
         \/ Work(d)
         \/ \E item \in {LowerGrant, RemoveGrant} : RevokeApply(d, item)
         \/ ExecuteRefused(d)
         \/ Crash(d)

Spec == Init /\ [][Next]_vars

\* The worker polls every minute and finishes its pass; leases run out.
FairSpec ==
    /\ Spec
    /\ \A d \in Devices : WF_vars(Work(d))
    /\ WF_vars(LeaseExpires)

-----------------------------------------------------------------------------
Levels == {"none", "read", "write"}
States ==
    {"requested", "applying", "ready", "failed", "drop_pending", "dropped"}
Items == {LowerGrant, RemoveGrant, SelfLeft}
Steps ==
    {"idle", "recorded", "listed", "derived", "holding", "acted", "changing",
     "removing", "clearing", "regranting"}
Roles == (SUBSET {"select", "modify"}) \union {Absent}

\* Every row is one the tables' checks accept, every item is pending at most
\* once, and a device that acts has a principal to act on.
TypeOK ==
    /\ scenario \in Scenarios /\ changes \in 0..MaxChanges
    /\ grant \in DOMAIN Level /\ gate \in BOOLEAN /\ left \in BOOLEAN
    /\ principal \in
         [number : 0..MaxPrincipals, state : States, applied : Levels,
          current : BOOLEAN, identified : BOOLEAN,
          holder : Devices \union {"nobody"}, live : BOOLEAN]
    /\ principal.state = "ready" => principal.applied # "none"
    /\ principal.state = "dropped" => principal.applied = "none"
    /\ ToSet(pending) \subseteq Items /\ IsInjective(pending)
    /\ submission \in {"none", "checked"}
    /\ roles \in [1..MaxPrincipals -> Roles] /\ strayed \in BOOLEAN
    /\ \A d \in Devices :
         /\ devices[d].step \in Steps
         /\ ToSet(devices[d].entries) \subseteq Items
         /\ devices[d].handled <= Len(devices[d].entries)
         /\ devices[d].step \in {"holding", "acted"} =>
              devices[d].listed \in 1..principal.number

\* The server never says "no access" before the database does: while the
\* membership lasts, no account of the member holds a privilege the grant does
\* not give, because a lowering commits only past directLoweringBlockers.  The
\* guard reads the record, so this takes that no gain has strayed from it: every
\* level applied under a live claim is reported before the claim ends, and no
\* device re-grants what another is lowering.
RoleWithinGrant ==
    ~strayed /\ ~left =>
        \A n \in 1..MaxPrincipals :
            roles[n] = Absent \/ roles[n] \subseteq Privileges[Level[grant]]

\* What the guard relies on: outside a claim, the level recorded for an account
\* is not below the one its role holds, whatever crashed, failed or was
\* withdrawn on the way.
RecordCoversRole ==
    ~strayed /\ Live /\ principal.state \notin {"applying", "drop_pending"} =>
        \/ roles[principal.number] = Absent
        \/ roles[principal.number] \subseteq Privileges[principal.applied]

\* A principal is dropped only when its role is gone from the server, whatever
\* crashed or was refused on the way, and no later account shares its role.  A
\* device that creates a role after its claim has lapsed has strayed.
DroppedMeansGone ==
    ~strayed =>
        \A n \in 1..MaxPrincipals :
            n < principal.number \/ (n = principal.number /\ ~Live)
                => roles[n] = Absent

\* "The server does not claim 'no access' before the database does" (ADR 0010,
\* decision 5), without the proviso of RoleWithinGrant.
NoAccessBeforeDatabase ==
    ~left => \A n \in 1..MaxPrincipals :
        roles[n] = Absent \/ roles[n] \subseteq Privileges[Level[grant]]

\* The account of a member who left is dropped in the end, whatever crashed,
\* failed or was withdrawn meanwhile, unless a deferred lowering was pending or
\* a gain has strayed from the record.
DepartureDropsTheRole ==
    left /\ LowerGrant \notin ToSet(pending)
        ~> strayed \/ \A n \in 1..MaxPrincipals : roles[n] = Absent

\* A removal of access that stays recorded reaches the database: some device
\* drops the account in the end, also when no receipt of it is accepted, unless
\* the member leaves first, a lowering is pending beside it or a gain has
\* strayed from the record.
RemovalReachesTheRole ==
    RemoveGrant \in ToSet(pending)
        ~> \/ RemoveGrant \notin ToSet(pending) \/ LowerGrant \in ToSet(pending)
           \/ left \/ strayed
           \/ \A n \in 1..MaxPrincipals : roles[n] = Absent
=============================================================================
