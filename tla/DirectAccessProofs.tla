------------------------- MODULE DirectAccessProofs -------------------------
(***************************************************************************)
(* Proofs about direct access to a shared database, for every set of       *)
(* devices, every number of accounts and every scenario, with crashes,     *)
(* refusals, lost commits and leases that run out under their holder.      *)
(* They come in three parts, each on the invariant of the one before it.   *)
(*                                                                         *)
(* Form (FormInv): the rows and devices are records, and a device works on *)
(* the latest principal or on an older one.                                *)
(*                                                                         *)
(* Types and claims (TypeInv): a device at work is still the holder of the *)
(* row as it read it, with or without its lease, or another device has     *)
(* taken the row over, or a receipt has given it back.                     *)
(*                                                                         *)
(* Records (RecordInv), while no gain has strayed: a role that can be used *)
(* is covered by the level recorded for it, or the holder of a live claim  *)
(* has raised it and its report is due; and neither the recorded level nor *)
(* one being raised is above the grant.  A plan run without a live claim   *)
(* can then only take privileges away, so a late report is still true.     *)
(***************************************************************************)
EXTENDS DirectAccess, SequenceTheorems, TLAPS

-----------------------------------------------------------------------------
(***************************************************************************)
(* The form of the state.                                                  *)
(***************************************************************************)
\* The rows and the devices are records with their fields.
IsPrincipal(p) ==
    /\ p = [number |-> p.number, state |-> p.state, applied |-> p.applied,
            current |-> p.current, identified |-> p.identified,
            holder |-> p.holder, live |-> p.live]
    /\ p.number \in 0..MaxPrincipals

IsDevice(r) ==
    r = [step |-> r.step, task |-> r.task, listed |-> r.listed,
         entries |-> r.entries, handled |-> r.handled, revoked |-> r.revoked,
         to |-> r.to, item |-> r.item, effect |-> r.effect,
         regrant |-> r.regrant]

ShapeInv ==
    /\ IsPrincipal(principal)
    /\ roles = [n \in 1..MaxPrincipals |-> roles[n]]
    /\ devices = [d \in Devices |-> devices[d]]
    /\ \A d \in Devices : IsDevice(devices[d])

\* A device works on the latest principal or on an older one, and a claim is
\* one of the two that exist.
ListedOf(d) ==
    /\ devices[d].listed \in 0..principal.number
    /\ devices[d].step \in {"derived", "holding", "acted"} =>
          devices[d].listed # 0
    /\ devices[d].step = "derived" =>
          devices[d].to \in {"applying", "drop_pending"}

ListedInv == \A d \in Devices : ListedOf(d)

FormInv == ShapeInv /\ ListedInv

-----------------------------------------------------------------------------
(***************************************************************************)
(* What a device becomes.                                                  *)
(***************************************************************************)
\* The steps in which a device has no business with a claim.
Aside == {"idle", "recorded", "listed", "changing", "removing", "clearing",
          "regranting"}

\* A device that waits, goes on to its entries or has handled them.
Retired(r, device) ==
    /\ IsDevice(r) /\ r.step \in Aside
    /\ r.listed \in {0, device.listed}

\* A device that does nothing lists nothing.
LEMMA RestingDevice ==
    IsDevice(Resting) /\ Resting.listed = 0 /\ Resting.step = "idle"
BY DEF IsDevice, Resting

\* The ways out of a claim, or out of a pass without one.
LEMMA Retires ==
    ASSUME NEW device, IsDevice(device)
    PROVE  /\ Retired(AfterItem(device), device)
           /\ Retired(Finish(device), device)
           /\ Retired(NotClaimed(device), device)
           /\ Retired(Done(device), device)
<1>2. Retired(AfterItem(device), device)
  <2>1. CASE device.entries # <<>>
    <3>1. AfterItem(device) = [device EXCEPT !.task = "revoke", !.step = "listed",
                                 !.item = NoItem, !.to = "none", !.effect = "none"]
      BY <2>1 DEF AfterItem
    <3> QED
      BY <3>1 DEF Retired, IsDevice, Aside
  <2>2. CASE device.entries = <<>> /\ device.regrant # "none"
    <3>1. AfterItem(device) = [device EXCEPT !.step = "regranting"]
      BY <2>2 DEF AfterItem
    <3> QED
      BY <3>1 DEF Retired, IsDevice, Aside
  <2>3. CASE device.entries = <<>> /\ device.regrant = "none"
    BY <2>3, RestingDevice DEF AfterItem, Retired, Aside
  <2> QED
    BY <2>1, <2>2, <2>3
<1>3. Retired(Finish(device), device)
  <2>1. \/ Finish(device) = [device EXCEPT !.step = "changing", !.revoked = 1..Len(device.entries)]
        \/ Finish(device) = [device EXCEPT !.step = "changing"]
    BY DEF Finish
  <2> QED
    BY <2>1 DEF Retired, IsDevice, Aside
<1>4. Retired(NotClaimed(device), device)
  BY <1>2, RestingDevice DEF NotClaimed, Retired, Aside
<1>5. Retired(Done(device), device)
  <2>1. \/ Done(device) = Resting
        \/ Done(device) = [device EXCEPT !.revoked = device.revoked \ {NextRevoked(device)},
                                          !.step = "changing"]
    BY DEF Done
  <2>2. ASSUME NEW r, NEW rest, r = [device EXCEPT !.revoked = rest, !.step = "changing"]
        PROVE  Retired(r, device)
    BY <2>2 DEF Retired, IsDevice, Aside
  <2> QED
    BY <2>1, <2>2, RestingDevice DEF Retired, Aside
<1> QED
  BY <1>2, <1>3, <1>4, <1>5

\* The next entry is handled under the same listing, without a new claim.
LEMMA NextEntryIs ==
    ASSUME NEW device, IsDevice(device), NEW wasRevoked
    PROVE  /\ IsDevice(NextEntry(device, wasRevoked))
           /\ NextEntry(device, wasRevoked).step \in {"holding", "changing"}
           /\ NextEntry(device, wasRevoked).listed = device.listed
           /\ NextEntry(device, wasRevoked).task = device.task
           /\ NextEntry(device, wasRevoked).item = device.item
           /\ NextEntry(device, wasRevoked).entries = device.entries
<1> DEFINE done == [device EXCEPT !.handled = @ + 1, !.effect = "none",
                      !.revoked = IF wasRevoked THEN @ \union {device.handled + 1} ELSE @]
<1>1. /\ IsDevice(done) /\ done.listed = device.listed /\ done.task = device.task
      /\ done.item = device.item /\ done.entries = device.entries
  <2>1. PICK n, R : done = [device EXCEPT !.handled = n, !.effect = "none", !.revoked = R]
    <3> WITNESS device.handled + 1, IF wasRevoked THEN device.revoked \union {device.handled + 1}
                                    ELSE device.revoked
    <3> QED
      OBVIOUS
  <2> HIDE DEF done
  <2> QED
    BY <2>1 DEF IsDevice
<1>2. NextEntry(device, wasRevoked) = IF done.handled < Len(device.entries)
                                        THEN [done EXCEPT !.step = "holding"] ELSE Finish(done)
  BY DEF NextEntry
<1> HIDE DEF done
<1>3. \/ NextEntry(device, wasRevoked) = [done EXCEPT !.step = "holding"]
      \/ NextEntry(device, wasRevoked) = [done EXCEPT !.step = "changing", !.revoked = 1..Len(done.entries)]
      \/ NextEntry(device, wasRevoked) = [done EXCEPT !.step = "changing"]
  BY <1>2 DEF Finish
<1> QED
  BY <1>1, <1>3 DEF IsDevice

\* One device moves.
LEMMA DeviceMoves ==
    ASSUME ShapeInv, NEW d \in Devices, NEW r, IsDevice(r), Moves(d, r)
    PROVE  /\ devices' = [e \in Devices |-> devices'[e]]
           /\ \A e \in Devices : IsDevice(devices[e])'
           /\ devices'[d] = r
           /\ \A e \in Devices : e # d => devices'[e] = devices[e]
<1>1. devices' = [e \in Devices |-> IF e = d THEN r ELSE devices[e]]
  BY DEF ShapeInv, Moves
<1>2. \A e \in Devices : devices'[e] = IF e = d THEN r ELSE devices[e]
  BY <1>1
<1> QED
  BY <1>1, <1>2 DEF ShapeInv, IsDevice

-----------------------------------------------------------------------------
(***************************************************************************)
(* Every step keeps the form.                                              *)
(***************************************************************************)
\* No device moves, and the row stays or a later one takes its place.
LEMMA RowForm ==
    ASSUME FormInv, UNCHANGED <<roles, devices>>, IsPrincipal(principal)',
           principal'.number >= principal.number
    PROVE  FormInv'
<1>1. ShapeInv'
  BY DEF FormInv, ShapeInv, IsDevice
<1>2. ListedInv'
  BY DEF FormInv, ShapeInv, IsPrincipal, ListedInv, ListedOf
<1> QED
  BY <1>1, <1>2 DEF FormInv

\* One device moves; the row keeps its number.
LEMMA MoveForm ==
    ASSUME FormInv, NEW d \in Devices, NEW r, IsDevice(r), Moves(d, r),
           r.listed \in 0..principal.number,
           r.step \in {"derived", "holding", "acted"} => r.listed # 0,
           r.step = "derived" => r.to \in {"applying", "drop_pending"},
           IsPrincipal(principal)', principal'.number = principal.number,
           roles' = [n \in 1..MaxPrincipals |-> roles'[n]]
    PROVE  FormInv'
<1>1. /\ devices' = [e \in Devices |-> devices'[e]]
      /\ \A e \in Devices : IsDevice(devices[e])'
      /\ devices'[d] = r
      /\ \A e \in Devices : e # d => devices'[e] = devices[e]
  BY DeviceMoves DEF FormInv
<1>2. ShapeInv'
  BY <1>1 DEF ShapeInv
<1>3. ASSUME NEW e \in Devices PROVE ListedOf(e)'
  <2>1. CASE e = d
    BY <1>1, <2>1 DEF ListedOf
  <2>2. CASE e # d
    BY <1>1, <2>2 DEF FormInv, ListedInv, ListedOf
  <2> QED
    BY <2>1, <2>2
<1> QED
  BY <1>2, <1>3 DEF FormInv, ListedInv

\* A device that lists, leaves its claim or changes the grants.
LEMMA AsideForm ==
    ASSUME FormInv, NEW d \in Devices, NEW r, IsDevice(r), Moves(d, r),
           r.step \in Aside, r.listed \in 0..principal.number,
           UNCHANGED <<principal, roles>>
    PROVE  FormInv'
<1>1. IsPrincipal(principal)' /\ roles' = [n \in 1..MaxPrincipals |-> roles'[n]]
  BY DEF FormInv, ShapeInv, IsPrincipal
<1> QED
  BY <1>1, MoveForm DEF Aside

\* submitDirectVerifier makes a new row, renews the row or leaves it alone.
LEMMA SubmitForm ==
    ASSUME FormInv, SubmitVerifier, UNCHANGED <<roles, devices>>
    PROVE  FormInv'
<1>0. /\ IsPrincipal(principal) /\ principal.number \in 0..MaxPrincipals
      /\ MaxPrincipals \in Nat
  BY BoundsAssumption DEF FormInv, ShapeInv, IsPrincipal
<1>1. CASE principal' = principal
  BY <1>0, <1>1, RowForm DEF IsPrincipal
<1>2. CASE ~Live /\ principal' # principal
  <2>1. principal' = Requested(principal.number + 1) /\ principal.number < MaxPrincipals
    BY <1>2 DEF SubmitVerifier, Live
  <2>2. principal' = [number |-> principal.number + 1, state |-> "requested",
                      applied |-> "none", current |-> FALSE, identified |-> FALSE,
                      holder |-> "nobody", live |-> FALSE]
    BY <2>1 DEF Requested, NoPrincipal
  <2>3. IsPrincipal(principal)' /\ principal'.number = principal.number + 1
    BY <1>0, <2>1, <2>2 DEF IsPrincipal
  <2> QED
    BY <1>0, <2>3, RowForm
<1>3. CASE Live /\ principal' # principal
  <2>1. principal' = [principal EXCEPT !.state = "requested", !.current = FALSE]
    BY <1>3 DEF SubmitVerifier, Live
  <2>2. IsPrincipal(principal)' /\ principal'.number = principal.number
    BY <1>0, <2>1 DEF IsPrincipal
  <2> QED
    BY <1>0, <2>2, RowForm
<1> QED
  BY <1>1, <1>2, <1>3

\* A lease that runs out.
LEMMA LeaseForm ==
    ASSUME FormInv, LeaseExpires
    PROVE  FormInv'
<1>0. IsPrincipal(principal) /\ principal.number \in 0..MaxPrincipals /\ MaxPrincipals \in Nat
  BY BoundsAssumption DEF FormInv, ShapeInv, IsPrincipal
<1>1. principal' = [principal EXCEPT !.live = FALSE] /\ UNCHANGED <<roles, devices>>
  BY DEF LeaseExpires
<1>2. IsPrincipal(principal)' /\ principal'.number = principal.number
  BY <1>0, <1>1 DEF IsPrincipal
<1> QED
  BY <1>0, <1>1, <1>2, RowForm

\* A device derives the claim it asks for.
LEMMA DeriveForm ==
    ASSUME FormInv, NEW d \in Devices, Derive(d)
    PROVE  FormInv'
<1>0. /\ IsDevice(devices[d]) /\ ListedOf(d) /\ UNCHANGED <<principal, roles>>
      /\ MaxPrincipals \in Nat /\ principal.number \in 0..MaxPrincipals
      /\ IsPrincipal(principal)' /\ roles' = [n \in 1..MaxPrincipals |-> roles'[n]]
  BY BoundsAssumption DEF FormInv, ShapeInv, IsPrincipal, ListedInv, Derive, controlVars, serverVars
<1>1. ASSUME NEW r, Retired(r, devices[d]), Moves(d, r) PROVE FormInv'
  BY <1>0, <1>1, AsideForm DEF Retired, ListedOf
<1>2. CASE Moves(d, Finish(devices[d])) \/ Moves(d, NotClaimed(devices[d]))
  BY <1>0, <1>1, <1>2, Retires
<1>3. CASE ~(Moves(d, Finish(devices[d])) \/ Moves(d, NotClaimed(devices[d])))
  <2>1. /\ devices[d].listed = principal.number /\ devices[d].listed # 0
        /\ ClaimTarget(d) # "none"
        /\ Moves(d, [devices[d] EXCEPT !.step = "derived", !.to = ClaimTarget(d)])
    BY <1>3 DEF Derive
  <2>2. ClaimTarget(d) \in {"applying", "drop_pending"}
    BY <2>1 DEF ClaimTarget
  <2>3. PICK r : r = [devices[d] EXCEPT !.step = "derived", !.to = ClaimTarget(d)]
    OBVIOUS
  <2>4. /\ IsDevice(r) /\ r.step = "derived" /\ r.listed = devices[d].listed
        /\ r.to = ClaimTarget(d)
    BY <1>0, <2>3 DEF IsDevice
  <2> QED
    BY <1>0, <2>1, <2>2, <2>3, <2>4, MoveForm DEF ListedOf
<1> QED
  BY <1>2, <1>3

\* The claim that is given: the device holds the row as it read it, and forgets
\* the re-grant of an item it works on.
Held(device) ==
    [device EXCEPT !.step = "holding", !.regrant = "none",
       !.item = [state |-> device.to, desired |-> Desired,
                 applied |-> principal.applied, identified |-> principal.identified]]

\* The fields of a device that is given its claim.
LEMMA HeldIs ==
    ASSUME NEW device, IsDevice(device), NEW r, r = Held(device)
    PROVE  /\ IsDevice(r) /\ r.step = "holding" /\ r.listed = device.listed
           /\ r.task = device.task /\ r.entries = device.entries /\ r.handled = device.handled
           /\ r.revoked = device.revoked /\ r.regrant = "none"
           /\ r.item.state = device.to /\ r.item.desired = Desired
           /\ r.item.applied = principal.applied
           /\ r.item.identified = principal.identified
<1> DEFINE item == [state |-> device.to, desired |-> Desired,
                    applied |-> principal.applied, identified |-> principal.identified]
<1>1. /\ item.state = device.to /\ item.desired = Desired
      /\ item.applied = principal.applied /\ item.identified = principal.identified
  OBVIOUS
<1>2. r = [device EXCEPT !.step = "holding", !.regrant = "none", !.item = item]
  BY DEF Held
<1> HIDE DEF item
<1>3. /\ IsDevice(r) /\ r.step = "holding" /\ r.listed = device.listed
      /\ r.task = device.task /\ r.entries = device.entries /\ r.handled = device.handled
      /\ r.revoked = device.revoked /\ r.regrant = "none" /\ r.item = item
  BY <1>2 DEF IsDevice
<1> QED
  BY <1>1, <1>3

\* A claim is given or it is not.
LEMMA ClaimEither ==
    ASSUME FormInv, NEW d \in Devices, Claim(d)
    PROVE  /\ devices[d].step = "derived" /\ UNCHANGED <<roles, strayed>>
           /\ UNCHANGED <<scenario, changes, grant, gate, left, pending, submission>>
           /\ \/ Moves(d, NotClaimed(devices[d])) /\ UNCHANGED principal
              \/ /\ devices[d].listed = principal.number /\ Claimable(d, devices[d].to)
                 /\ Moves(d, Held(devices[d]))
                 /\ principal' = [principal EXCEPT !.state = devices[d].to, !.holder = d,
                                                   !.live = TRUE]
                 /\ IsPrincipal(principal)' /\ principal'.number = principal.number
                 /\ principal'.state = devices[d].to /\ principal'.holder = d /\ principal'.live = TRUE
                 /\ principal'.applied = principal.applied
                 /\ principal'.identified = principal.identified
                 /\ principal'.current = principal.current
<1>0. IsPrincipal(principal)
  BY DEF FormInv, ShapeInv
<1>1. /\ devices[d].step = "derived" /\ UNCHANGED <<roles, strayed>>
      /\ UNCHANGED <<scenario, changes, grant, gate, left, pending, submission>>
  BY Zenon DEF Claim, serverVars
<1>2. CASE ~(devices[d].listed = principal.number /\ Claimable(d, devices[d].to))
  BY <1>1, <1>2, Zenon DEF Claim
<1>3. CASE devices[d].listed = principal.number /\ Claimable(d, devices[d].to)
  <2>1. /\ principal' = [principal EXCEPT !.state = devices[d].to, !.holder = d, !.live = TRUE]
        /\ Moves(d, Held(devices[d]))
    BY <1>3, Zenon DEF Claim, Held
  <2>2. /\ IsPrincipal(principal)' /\ principal'.number = principal.number
        /\ principal'.state = devices[d].to /\ principal'.holder = d /\ principal'.live = TRUE
        /\ principal'.applied = principal.applied
        /\ principal'.identified = principal.identified
        /\ principal'.current = principal.current
    BY <1>0, <2>1 DEF IsPrincipal
  <2> QED
    BY <1>1, <1>3, <2>1, <2>2, Zenon
<1> QED
  BY <1>2, <1>3

\* A claim keeps the form.
LEMMA ClaimForm ==
    ASSUME FormInv, NEW d \in Devices, Claim(d)
    PROVE  FormInv'
<1>0. /\ IsDevice(devices[d]) /\ ListedOf(d) /\ devices[d].step = "derived" /\ UNCHANGED roles
      /\ roles' = [n \in 1..MaxPrincipals |-> roles'[n]]
      /\ MaxPrincipals \in Nat /\ principal.number \in 0..MaxPrincipals
  BY BoundsAssumption, ClaimEither DEF FormInv, ShapeInv, IsPrincipal, ListedInv
<1>1. CASE Moves(d, NotClaimed(devices[d])) /\ UNCHANGED principal
  <2>1. PICK r : r = NotClaimed(devices[d]) /\ Retired(r, devices[d])
    BY <1>0, Retires
  <2> QED
    BY <1>0, <1>1, <2>1, AsideForm DEF Retired, ListedOf
<1>2. CASE /\ Moves(d, Held(devices[d])) /\ IsPrincipal(principal)'
           /\ principal'.number = principal.number
  <2>1. PICK r : r = Held(devices[d])
    OBVIOUS
  <2>2. IsDevice(r) /\ r.step = "holding" /\ r.listed = devices[d].listed
    BY <1>0, <2>1, HeldIs
  <2> QED
    BY <1>0, <1>2, <2>1, <2>2, MoveForm DEF ListedOf
<1> QED
  BY <1>1, <1>2, ClaimEither

\* What a plan makes of the roles and of the device.
LEMMA RanMoves ==
    ASSUME FormInv, NEW d \in Devices, devices[d].step = "holding", NEW outcome, Ran(d, outcome)
    PROVE  /\ devices[d].listed \in 1..MaxPrincipals /\ devices[d].listed \in 1..principal.number
           /\ roles' = [n \in 1..MaxPrincipals |-> roles'[n]]
           /\ roles'[devices[d].listed] = outcome.role
           /\ \A n \in 1..MaxPrincipals : n # devices[d].listed => roles'[n] = roles[n]
           /\ \E r : /\ Moves(d, r) /\ IsDevice(r) /\ r.listed = devices[d].listed
                     /\ r.task = devices[d].task /\ r.item = devices[d].item
                     /\ \/ outcome.effect = "unchanged" /\ r = NextEntry(devices[d], TRUE)
                           /\ r.step \in {"holding", "changing"}
                        \/ /\ outcome.effect # "unchanged"
                           /\ r.step = "acted" /\ r.effect = outcome.effect
                           /\ r.entries = devices[d].entries /\ r.handled = devices[d].handled
                           /\ r.revoked = devices[d].revoked /\ r.regrant = devices[d].regrant
<1> DEFINE device == devices[d]
           l == devices[d].listed
<1>0. /\ IsDevice(device) /\ l \in 1..principal.number /\ l \in 1..MaxPrincipals
  BY BoundsAssumption DEF FormInv, ShapeInv, IsPrincipal, ListedInv, ListedOf
<1>1. /\ roles' = [n \in 1..MaxPrincipals |-> roles'[n]]
      /\ roles'[l] = outcome.role
      /\ \A n \in 1..MaxPrincipals : n # l => roles'[n] = roles[n]
  <2>1. roles' = [n \in 1..MaxPrincipals |-> IF n = l THEN outcome.role ELSE roles[n]]
    BY DEF Ran, FormInv, ShapeInv
  <2> QED
    BY <1>0, <2>1
<1>2. CASE outcome.effect = "unchanged"
  <2>1. PICK r : r = NextEntry(device, TRUE) /\ Moves(d, r)
    BY <1>2 DEF Ran
  <2>2. /\ IsDevice(r) /\ r.listed = l /\ r.step \in {"holding", "changing"}
        /\ r.task = device.task /\ r.item = device.item
    BY <1>0, <2>1, NextEntryIs
  <2> QED
    BY <1>0, <1>1, <1>2, <2>1, <2>2
<1>3. CASE outcome.effect # "unchanged"
  <2>1. PICK r : r = [device EXCEPT !.step = "acted", !.effect = outcome.effect] /\ Moves(d, r)
    BY <1>3 DEF Ran
  <2>2. /\ IsDevice(r) /\ r.listed = l /\ r.step = "acted" /\ r.effect = outcome.effect
        /\ r.task = device.task /\ r.item = device.item /\ r.entries = device.entries
        /\ r.handled = device.handled /\ r.revoked = device.revoked /\ r.regrant = device.regrant
    BY <1>0, <2>1 DEF IsDevice
  <2> QED
    BY <1>0, <1>1, <1>3, <2>1, <2>2
<1> QED
  BY <1>2, <1>3

\* A plan that ran keeps it.
LEMMA RanForm ==
    ASSUME FormInv, NEW d \in Devices, devices[d].step = "holding", NEW outcome,
           Ran(d, outcome), UNCHANGED principal
    PROVE  FormInv'
<1>0. /\ MaxPrincipals \in Nat /\ principal.number \in 0..MaxPrincipals
      /\ IsPrincipal(principal)'
  BY BoundsAssumption DEF FormInv, ShapeInv, IsPrincipal
<1>1. PICK r : /\ Moves(d, r) /\ IsDevice(r) /\ r.listed \in 1..principal.number
               /\ r.step \in {"holding", "changing", "acted"}
  BY RanMoves, Zenon
<1>2. roles' = [n \in 1..MaxPrincipals |-> roles'[n]]
  BY RanMoves
<1> QED
  BY <1>0, <1>1, <1>2, MoveForm

\* The row a receipt leaves: released, with the same number and holder, and
\* dropped only after a drop.
LEMMA SettledRow ==
    ASSUME NEW device, IsPrincipal(principal)
    PROVE  /\ IsPrincipal(Settled(device))
           /\ Settled(device).number = principal.number
           /\ Settled(device).holder = principal.holder
           /\ device.effect # "dropped" => Settled(device).state # "dropped"
<1>1. PICK released : released = [principal EXCEPT !.live = FALSE]
  OBVIOUS
<1>2. /\ IsPrincipal(released) /\ released.number = principal.number
      /\ released.holder = principal.holder
  BY <1>1 DEF IsPrincipal
<1>3. PICK row : row = Settled(device)
  OBVIOUS
<1>4. \/ row = [released EXCEPT !.state = "ready", !.identified = TRUE,
                                !.applied = device.item.desired, !.current = TRUE]
      \/ row = [released EXCEPT !.state = "ready", !.identified = TRUE, !.applied = Target(device)]
      \/ /\ device.effect = "dropped"
         /\ row = [released EXCEPT !.state = "dropped", !.applied = "none"]
      \/ row = [released EXCEPT !.state = "failed", !.applied = device.item.applied]
  BY <1>1, <1>3 DEF Settled
<1>5. /\ IsPrincipal(row) /\ row.number = released.number /\ row.holder = released.holder
      /\ device.effect # "dropped" => row.state # "dropped"
  BY <1>2, <1>4 DEF IsPrincipal
<1> QED
  BY <1>2, <1>3, <1>5

\* A receipt, accepted or not.
LEMMA SettleForm ==
    ASSUME FormInv, NEW d \in Devices, SettleReceipt(d)
    PROVE  FormInv'
<1> DEFINE device == devices[d]
<1>0. /\ IsDevice(device) /\ ListedOf(d) /\ device.step = "acted" /\ UNCHANGED roles
      /\ roles' = [n \in 1..MaxPrincipals |-> roles'[n]]
      /\ MaxPrincipals \in Nat /\ principal.number \in 0..MaxPrincipals /\ IsPrincipal(principal)
  BY BoundsAssumption DEF FormInv, ShapeInv, IsPrincipal, ListedInv, SettleReceipt, serverVars
<1>1. CASE ~ReceiptMatches(d)
  <2>1. Moves(d, Resting) /\ UNCHANGED principal
    BY <1>1 DEF SettleReceipt
  <2> QED
    BY <1>0, <2>1, RestingDevice, AsideForm DEF Aside
<1>2. CASE ReceiptMatches(d)
  <2>1. /\ principal' = Settled(device)
        /\ Moves(d, IF device.task = "revoke" THEN NextEntry(device, device.effect # "failed")
                    ELSE AfterItem(device))
    BY <1>2 DEF SettleReceipt
  <2>2. PICK r : /\ Moves(d, r) /\ IsDevice(r) /\ r.listed \in {0, device.listed}
                 /\ r.step \in Aside \/ (r.step = "holding" /\ r.listed # 0)
    <3>1. CASE device.task = "revoke"
      BY <1>0, <2>1, <3>1, NextEntryIs DEF Aside, ListedOf
    <3>2. CASE device.task # "revoke"
      BY <1>0, <2>1, <3>2, Retires DEF Retired
    <3> QED
      BY <3>1, <3>2
  <2>3. IsPrincipal(principal)' /\ principal'.number = principal.number
    BY <1>0, <2>1, SettledRow DEF IsPrincipal
  <2> QED
    BY <1>0, <2>2, <2>3, MoveForm DEF Aside, ListedOf
<1> QED
  BY <1>1, <1>2

\* What a re-grant makes of the roles: it creates none.
LEMMA RegrantMoves ==
    ASSUME FormInv, NEW d \in Devices, RegrantItem(d)
    PROVE  /\ UNCHANGED controlVars /\ Moves(d, Resting) /\ devices[d].step = "regranting"
           /\ roles' = [n \in 1..MaxPrincipals |-> roles'[n]]
           /\ \A n \in 1..MaxPrincipals :
                roles'[n] = IF n # devices[d].listed \/ roles[n] = Absent THEN roles[n]
                            ELSE Granted(roles[n], devices[d].regrant)
<1> DEFINE l == devices[d].listed
           after == IF roles[l] = Absent THEN roles[l] ELSE Granted(roles[l], devices[d].regrant)
<1>1. /\ UNCHANGED controlVars /\ Moves(d, Resting) /\ devices[d].step = "regranting"
      /\ roles' = [roles EXCEPT ![l] = after]
  BY Zenon DEF RegrantItem
<1>2. roles = [n \in 1..MaxPrincipals |-> roles[n]]
  BY DEF FormInv, ShapeInv
<1> HIDE DEF after
<1>3. /\ roles' = [n \in 1..MaxPrincipals |-> roles'[n]]
      /\ \A n \in 1..MaxPrincipals : roles'[n] = IF n = l THEN after ELSE roles[n]
  BY <1>1, <1>2
<1>4. \A n \in 1..MaxPrincipals :
         roles'[n] = IF n # l \/ roles[n] = Absent THEN roles[n]
                     ELSE Granted(roles[n], devices[d].regrant)
  BY <1>3 DEF after
<1> QED
  BY <1>1, <1>3, <1>4

\* A re-grant keeps it.
LEMMA RegrantForm ==
    ASSUME FormInv, NEW d \in Devices, RegrantItem(d)
    PROVE  FormInv'
<1>1. /\ UNCHANGED principal /\ Moves(d, Resting) /\ IsPrincipal(principal)'
      /\ roles' = [n \in 1..MaxPrincipals |-> roles'[n]]
      /\ MaxPrincipals \in Nat /\ principal.number \in 0..MaxPrincipals
  BY BoundsAssumption, RegrantMoves DEF FormInv, ShapeInv, IsPrincipal, controlVars
<1> QED
  BY <1>1, RestingDevice, MoveForm

\* The steps of a device around its claims leave the row and the roles alone.
LEMMA AroundSame ==
    ASSUME NEW d \in Devices,
           \/ SyncOnce(d) \/ Prepare(d) \/ NothingToChange(d) \/ SettleLeave(d) \/ Derive(d)
           \/ CommitLower(d) \/ OpenGate(d) \/ CommitRemoval(d) \/ ClearGate(d) \/ Crash(d)
           \/ \E item \in {LowerGrant, RemoveGrant} : RevokeApply(d, item)
    PROVE  UNCHANGED <<principal, roles>>
<1>1. CASE SyncOnce(d) \/ Prepare(d) \/ NothingToChange(d) \/ Derive(d)
  BY <1>1, Zenon DEF SyncOnce, Prepare, NothingToChange, Derive, controlVars, serverVars
<1>2. CASE OpenGate(d) \/ CommitRemoval(d) \/ ClearGate(d) \/ Crash(d)
  BY <1>2, Zenon DEF OpenGate, CommitRemoval, ClearGate, Crash, serverVars
<1>3. CASE \E item \in {LowerGrant, RemoveGrant} : RevokeApply(d, item)
  BY <1>3, Zenon DEF RevokeApply, serverVars
<1>4. CASE SettleLeave(d) \/ CommitLower(d)
  BY <1>4, Zenon DEF SettleLeave, CommitLower, serverVars
<1> QED
  BY <1>1, <1>2, <1>3, <1>4

\* The steps of a device around its claims: it lists, records, prepares, commits
\* queued changes or crashes.
LEMMA AroundForm ==
    ASSUME FormInv, NEW d \in Devices,
           \/ SyncOnce(d) \/ Prepare(d) \/ NothingToChange(d) \/ SettleLeave(d)
           \/ CommitLower(d) \/ OpenGate(d) \/ CommitRemoval(d) \/ ClearGate(d) \/ Crash(d)
           \/ \E item \in {LowerGrant, RemoveGrant} : RevokeApply(d, item)
    PROVE  FormInv'
<1>0. /\ IsDevice(devices[d]) /\ devices[d].listed \in 0..principal.number
      /\ MaxPrincipals \in Nat /\ principal.number \in 0..MaxPrincipals
      /\ Listed \in 0..principal.number
  BY BoundsAssumption DEF FormInv, ShapeInv, IsPrincipal, ListedInv, ListedOf, Listed
<1>1. UNCHANGED <<principal, roles>>
  BY AroundSame, Zenon
<1>2. ASSUME NEW r, Moves(d, r), IsDevice(r), r.step \in Aside, r.listed \in 0..principal.number
      PROVE  FormInv'
  BY <1>1, <1>2, AsideForm
<1>3. CASE SyncOnce(d)
  <2>1. PICK w, begun :
           /\ begun = [Resting EXCEPT !.listed = Listed, !.entries = pending, !.regrant = w]
           /\ \/ Moves(d, [begun EXCEPT !.step = "listed", !.task = WorkAction])
              \/ Moves(d, AfterItem(begun))
    BY <1>3, Zenon DEF SyncOnce
  <2>2. IsDevice(begun) /\ begun.listed = Listed
    BY <2>1 DEF Resting, IsDevice
  <2>3. CASE Moves(d, AfterItem(begun))
    BY <1>0, <1>2, <2>2, <2>3, Retires DEF Retired
  <2>4. CASE Moves(d, [begun EXCEPT !.step = "listed", !.task = WorkAction])
    <3>1. PICK r : r = [begun EXCEPT !.step = "listed", !.task = WorkAction]
      OBVIOUS
    <3>2. IsDevice(r) /\ r.step = "listed" /\ r.listed = Listed
      BY <2>2, <3>1 DEF IsDevice
    <3> QED
      BY <1>0, <1>2, <2>4, <3>1, <3>2 DEF Aside
  <2> QED
    BY <2>1, <2>3, <2>4, Zenon
<1>4. CASE \E item \in {LowerGrant, RemoveGrant} : RevokeApply(d, item)
  <2>1. PICK r, item : /\ Moves(d, r)
                       /\ r = [Resting EXCEPT !.step = "recorded", !.entries = <<item>>, !.listed = Listed]
    BY <1>4 DEF RevokeApply
  <2>2. IsDevice(r) /\ r.step = "recorded" /\ r.listed = Listed
    BY <2>1 DEF Resting, IsDevice
  <2> QED
    BY <1>0, <1>2, <2>1, <2>2 DEF Aside
<1>5. CASE Prepare(d)
  <2>0. PICK n : n = IF devices[d].listed = 0 THEN 0 ELSE Listed
    OBVIOUS
  <2>1. PICK r : /\ Moves(d, r)
                 /\ r = [devices[d] EXCEPT !.step = "listed", !.task = "revoke", !.listed = n]
    BY <1>5, <2>0 DEF Prepare
  <2>2. IsDevice(r) /\ r.step = "listed" /\ r.listed = n
    BY <1>0, <2>1 DEF IsDevice
  <2> QED
    BY <1>0, <1>2, <2>0, <2>1, <2>2 DEF Aside
<1>6. CASE Moves(d, Resting)
  BY <1>0, <1>2, <1>6, RestingDevice DEF Aside
<1>7. CASE Moves(d, Done(devices[d]))
  BY <1>0, <1>2, <1>7, Retires DEF Retired
<1>8. ASSUME NEW s \in {"removing", "clearing"}, Moves(d, [devices[d] EXCEPT !.step = s])
      PROVE  FormInv'
  <2>1. PICK r : r = [devices[d] EXCEPT !.step = s]
    OBVIOUS
  <2>2. IsDevice(r) /\ r.step = s /\ r.listed = devices[d].listed
    BY <1>0, <2>1 DEF IsDevice
  <2> QED
    BY <1>0, <1>2, <1>8, <2>1, <2>2 DEF Aside
<1>9. CASE OpenGate(d) \/ CommitRemoval(d) \/ ClearGate(d)
  BY <1>7, <1>8, <1>9 DEF OpenGate, CommitRemoval, ClearGate
<1> QED
  BY <1>3, <1>4, <1>5, <1>6, <1>7, <1>9 DEF NothingToChange, SettleLeave, CommitLower, Crash

\* The form holds in the initial states.
LEMMA InitForm == Init => FormInv
<1> SUFFICES ASSUME Init PROVE FormInv
  OBVIOUS
<1>0. MaxPrincipals \in Nat /\ 1 \in 0..MaxPrincipals
  BY BoundsAssumption
<1>1. \A d \in Devices : devices[d] = Resting
  BY DEF Init
<1>2. /\ IsPrincipal(principal)
      /\ roles = [n \in 1..MaxPrincipals |-> roles[n]]
  <2>1. CASE principal = NoPrincipal /\ roles = [n \in 1..MaxPrincipals |-> Absent]
    BY <1>0, <2>1 DEF NoPrincipal, IsPrincipal
  <2>2. CASE /\ principal = [Requested(1) EXCEPT !.state = "ready", !.applied = "write", !.current = TRUE,
                                                 !.identified = TRUE]
             /\ roles = [n \in 1..MaxPrincipals |-> IF n = 1 THEN Privileges["write"] ELSE Absent]
    <3>1. principal = [number |-> 1, state |-> "ready", applied |-> "write", current |-> TRUE,
                       identified |-> TRUE, holder |-> "nobody", live |-> FALSE]
      BY <2>2 DEF Requested, NoPrincipal
    <3>2. IsPrincipal(principal)
      BY <1>0, <3>1 DEF IsPrincipal
    <3> QED
      BY <2>2, <3>2
  <2> QED
    BY <2>1, <2>2 DEF Init
<1>3. ShapeInv
  BY <1>1, <1>2, RestingDevice DEF Init, ShapeInv
<1>4. ListedInv
  BY <1>0, <1>1, <1>2, RestingDevice DEF ListedInv, ListedOf, IsPrincipal
<1> QED
  BY <1>3, <1>4 DEF FormInv

\* The requests that do not write the row of the account.
LEMMA ControlSame ==
    ASSUME ControlPlane, ~SubmitVerifier
    PROVE  UNCHANGED principal
BY DEF ControlPlane, CheckSubmission, SelfLeave, IncreaseConnectionGrant,
   LowerConnectionGrant, DeferRevocation, CancelRevocation

\* Every step keeps the form.
LEMMA NextForm == FormInv /\ [Next]_vars => FormInv'
<1> SUFFICES ASSUME FormInv, [Next]_vars PROVE FormInv'
  OBVIOUS
<1>0. ASSUME UNCHANGED <<principal, roles, devices>> PROVE FormInv'
  <2>1. IsPrincipal(principal)' /\ principal'.number >= principal.number
    BY <1>0, BoundsAssumption DEF FormInv, ShapeInv, IsPrincipal
  <2> QED
    BY <1>0, <2>1, RowForm
<1>1. CASE ControlPlane /\ UNCHANGED <<serverVars, devices>>
  <2>1. UNCHANGED <<roles, devices>>
    BY <1>1 DEF serverVars
  <2> QED
    BY <1>0, <1>1, <2>1, SubmitForm, ControlSame
<1>2. CASE LeaseExpires
  BY <1>2, LeaseForm
<1>3. ASSUME NEW d \in Devices, Work(d) PROVE FormInv'
  <2>1. CASE Execute(d)
    <3>1. devices[d].step = "holding" /\ UNCHANGED principal
      BY <2>1 DEF Execute, controlVars
    <3>2. PICK outcome : Ran(d, outcome)
      BY <2>1 DEF Execute
    <3> QED
      BY <3>1, <3>2, RanForm
  <2> QED
    BY <1>3, <2>1, DeriveForm, ClaimForm, SettleForm, RegrantForm, AroundForm DEF Work
<1>4. ASSUME NEW d \in Devices, ExecuteRefused(d) PROVE FormInv'
  <2>1. PICK outcome : Ran(d, outcome) /\ devices[d].step = "holding" /\ UNCHANGED principal
    BY <1>4 DEF ExecuteRefused
  <2> QED
    BY <2>1, RanForm
<1>5. ASSUME NEW d \in Devices,
             Crash(d) \/ \E item \in {LowerGrant, RemoveGrant} : RevokeApply(d, item)
      PROVE  FormInv'
  BY <1>5, AroundForm
<1>6. CASE UNCHANGED vars
  BY <1>0, <1>6 DEF vars, controlVars, serverVars
<1> QED
  BY <1>1, <1>2, <1>3, <1>4, <1>5, <1>6 DEF Next

-----------------------------------------------------------------------------
(***************************************************************************)
(* The tables of the model, written out.                                   *)
(***************************************************************************)
\* The levels a grant stands for, in their order.
LEMMA LevelTable ==
    /\ DOMAIN Level = {"absent", "read", "use"}
    /\ Level["absent"] = "none" /\ Level["read"] = "read" /\ Level["use"] = "write"
    /\ Rank["none"] = 0 /\ Rank["read"] = 1 /\ Rank["write"] = 2
BY DEF Level, Rank

\* What a role holds at a level.
LEMMA PrivilegeTable ==
    /\ Privileges["none"] = {} /\ Privileges["read"] = {"select"}
    /\ Privileges["write"] = {"select", "modify"} /\ Absent = {"absent"}
BY DEF Privileges, Absent

\* The kinds of items are three.
LEMMA ItemTable ==
    /\ LowerGrant.target = "read" /\ RemoveGrant.target = "none" /\ SelfLeft.target = "none"
    /\ LowerGrant # RemoveGrant /\ LowerGrant # SelfLeft /\ RemoveGrant # SelfLeft
BY DEF LowerGrant, RemoveGrant, SelfLeft

\* Removing an item from a queue without repetitions takes just that item away.
LEMMA RemoveItem ==
    ASSUME NEW S, NEW s \in Seq(S), IsInjective(s), NEW e
    PROVE  /\ RemoveFirst(s, e) \in Seq(S) /\ IsInjective(RemoveFirst(s, e))
           /\ ToSet(RemoveFirst(s, e)) = ToSet(s) \ {e}
<1>0. Len(s) \in Nat /\ DOMAIN s = 1..Len(s) /\ \A i \in 1..Len(s) : s[i] \in S
  BY LenProperties, ElementOfSeq
<1>1. CASE ~\E i \in 1..Len(s) : s[i] = e
  <2>1. RemoveFirst(s, e) = s
    BY <1>1 DEF RemoveFirst
  <2> QED
    BY <1>0, <1>1, <2>1 DEF ToSet
<1>2. CASE \E i \in 1..Len(s) : s[i] = e
  <2>1. PICK k \in 1..Len(s) : s[k] = e
    BY <1>2
  <2>2. {i \in 1..Len(s) : s[i] = e} = {k}
    BY <1>0, <2>1 DEF IsInjective
  <2>3. SelectInSeq(s, LAMBDA v : v = e) = k
    <3>1. Min({k}) = k
      BY DEF Min
    <3> QED
      BY <2>2, <3>1 DEF SelectInSeq
  <2>4. RemoveFirst(s, e) = SubSeq(s, 1, k - 1) \o SubSeq(s, k + 1, Len(s))
    BY <1>2, <2>3 DEF RemoveFirst, RemoveAt
  <2> DEFINE a == SubSeq(s, 1, k - 1)
             b == SubSeq(s, k + 1, Len(s))
  <2>5. /\ a \in Seq(S) /\ Len(a) = k - 1 /\ \A i \in 1..(k - 1) : a[i] = s[i]
    BY <1>0, <2>1, SubSeqProperties
  <2>6. /\ b \in Seq(S) /\ Len(b) = Len(s) - k /\ \A i \in 1..(Len(s) - k) : b[i] = s[k + i]
    <3>1. \A i \in (k + 1)..Len(s) : s[i] \in S
      BY <1>0, <2>1
    <3>2. /\ b \in Seq(S) /\ Len(b) = IF k + 1 <= Len(s) THEN Len(s) - (k + 1) + 1 ELSE 0
          /\ \A i \in 1..(Len(s) - (k + 1) + 1) : b[i] = s[(k + 1) + i - 1]
      BY <1>0, <2>1, <3>1, SubSeqProperties, SMTT(30)
    <3> HIDE DEF a, b
    <3>3. PICK n \in Nat : n = Len(s) /\ k \in 1..n
      BY <1>0, <2>1
    <3>4. \A i \in 1..(n - k) : (k + 1) + i - 1 = k + i /\ i \in 1..(n - (k + 1) + 1)
      BY <3>3
    <3>5. k = n \/ k + 1 <= n
      BY <3>3
    <3>6. Len(b) = n - k
      <4>1. CASE k = n
        BY <3>2, <3>3, <4>1
      <4>2. CASE k + 1 <= n
        BY <3>2, <3>3, <4>2
      <4> QED
        BY <3>5, <4>1, <4>2
    <3> QED
      BY <3>2, <3>3, <3>4, <3>6
  <2> HIDE DEF a, b
  <2>7. PICK t : t = a \o b
    OBVIOUS
  <2>8. /\ t \in Seq(S) /\ Len(t) = Len(s) - 1
        /\ \A i \in 1..Len(t) : t[i] = IF i <= k - 1 THEN a[i] ELSE b[i - (k - 1)]
    <3>1. /\ t \in Seq(S) /\ Len(t) = Len(a) + Len(b)
          /\ \A i \in 1..(Len(a) + Len(b)) : t[i] = IF i <= Len(a) THEN a[i] ELSE b[i - Len(a)]
      BY <2>5, <2>6, <2>7, ConcatProperties
    <3>2. Len(a) = k - 1 /\ Len(a) + Len(b) = Len(s) - 1
      BY <1>0, <2>1, <2>5, <2>6
    <3> QED
      BY <3>1, <3>2
  <2>9. DOMAIN t = 1..(Len(s) - 1)
    BY <2>8, LenProperties
  <2>10. ASSUME NEW i \in 1..(Len(s) - 1) PROVE t[i] = IF i < k THEN s[i] ELSE s[i + 1]
    <3>1. CASE i < k
      <4>1. i <= k - 1 /\ i \in 1..(k - 1)
        BY <2>1, <3>1
      <4> QED
        BY <2>5, <2>8, <3>1, <4>1
    <3>2. CASE ~(i < k)
      <4>1. /\ ~(i <= k - 1) /\ i - (k - 1) \in 1..(Len(s) - k)
            /\ k + (i - (k - 1)) = i + 1
        BY <1>0, <2>1, <3>2
      <4> QED
        BY <2>6, <2>8, <3>2, <4>1
    <3> QED
      BY <3>1, <3>2
  <2>11. IsInjective(t)
    BY <1>0, <2>1, <2>9, <2>10 DEF IsInjective
  <2>12. \A j \in 1..Len(s) : j # k => \E i \in 1..(Len(s) - 1) : t[i] = s[j]
    <3>1. SUFFICES ASSUME NEW j \in 1..Len(s), j # k
                   PROVE  \E i \in 1..(Len(s) - 1) : t[i] = s[j]
      OBVIOUS
    <3>2. CASE j < k
      <4>1. j \in 1..(Len(s) - 1)
        BY <1>0, <2>1, <3>2
      <4> QED
        BY <2>10, <3>2, <4>1
    <3>3. CASE j > k
      <4>1. j - 1 \in 1..(Len(s) - 1) /\ ~(j - 1 < k) /\ (j - 1) + 1 = j
        BY <1>0, <2>1, <3>3
      <4> QED
        BY <2>10, <4>1
    <3> QED
      BY <1>0, <2>1, <3>1, <3>2, <3>3
  <2>13. ToSet(t) = ToSet(s) \ {e}
    <3>1. ASSUME NEW x \in ToSet(t) PROVE x \in ToSet(s) /\ x # e
      <4>1. PICK i \in 1..(Len(s) - 1) : x = t[i]
        BY <2>9 DEF ToSet
      <4>2. PICK j \in 1..Len(s) : x = s[j] /\ j # k
        BY <1>0, <2>1, <2>10, <4>1
      <4> QED
        BY <1>0, <2>1, <4>2 DEF ToSet, IsInjective
    <3>2. ASSUME NEW x \in ToSet(s), x # e PROVE x \in ToSet(t)
      <4>1. PICK j \in 1..Len(s) : x = s[j]
        BY <1>0 DEF ToSet
      <4>2. PICK i \in 1..(Len(s) - 1) : t[i] = x
        BY <2>1, <2>12, <3>2, <4>1
      <4> QED
        BY <2>9, <4>2 DEF ToSet
    <3> QED
      BY <3>1, <3>2
  <2> QED
    BY <2>4, <2>7, <2>8, <2>11, <2>13 DEF a, b
<1> QED
  BY <1>1, <1>2

\* Queues with no item, with one, and with one more.
LEMMA GrownItems ==
    /\ <<>> \in Seq(Items) /\ IsInjective(<<>>) /\ ToSet(<<>>) = {} /\ Len(<<>>) = 0
    /\ \A e \in Items : /\ <<e>> \in Seq(Items) /\ IsInjective(<<e>>) /\ ToSet(<<e>>) = {e}
                        /\ Len(<<e>>) = 1
    /\ \A s \in Seq(Items), e \in Items :
          IsInjective(s) /\ e \notin ToSet(s) =>
             /\ Append(s, e) \in Seq(Items) /\ IsInjective(Append(s, e))
             /\ ToSet(Append(s, e)) = ToSet(s) \union {e}
<1>1. <<>> \in Seq(Items) /\ IsInjective(<<>>) /\ ToSet(<<>>) = {} /\ Len(<<>>) = 0
  BY EmptySeq DEF IsInjective, ToSet
<1>2. ASSUME NEW e \in Items
      PROVE  <<e>> \in Seq(Items) /\ IsInjective(<<e>>) /\ ToSet(<<e>>) = {e} /\ Len(<<e>>) = 1
  BY DEF IsInjective, ToSet
<1>3. ASSUME NEW s \in Seq(Items), NEW e \in Items, IsInjective(s), e \notin ToSet(s)
      PROVE  /\ Append(s, e) \in Seq(Items) /\ IsInjective(Append(s, e))
             /\ ToSet(Append(s, e)) = ToSet(s) \union {e}
  <2>0. Len(s) \in Nat /\ DOMAIN s = 1..Len(s)
    BY LenProperties
  <2>1. PICK t : t = Append(s, e)
    OBVIOUS
  <2>2. /\ t \in Seq(Items) /\ Len(t) = Len(s) + 1 /\ t[Len(s) + 1] = e
        /\ \A i \in 1..Len(s) : t[i] = s[i]
    BY <2>1, AppendProperties
  <2>3. DOMAIN t = 1..(Len(s) + 1)
    BY <2>2, LenProperties
  <2>4. \A i \in 1..Len(s) : s[i] # e
    BY <1>3, <2>0 DEF ToSet
  <2>5. PICK n \in Nat : n = Len(s)
    BY <2>0
  <2>6. \A i \in 1..(n + 1) : i \in 1..n \/ i = n + 1
    OBVIOUS
  <2>7. IsInjective(t)
    BY <1>3, <2>0, <2>2, <2>3, <2>4, <2>5, <2>6 DEF IsInjective
  <2>8. ToSet(t) = ToSet(s) \union {e}
    <3>1. \A i \in 1..n : i \in 1..(n + 1)
      OBVIOUS
    <3>2. ASSUME NEW x \in ToSet(t) PROVE x \in ToSet(s) \union {e}
      <4>1. PICK i \in 1..(n + 1) : x = t[i]
        BY <2>3, <2>5 DEF ToSet
      <4> QED
        BY <2>0, <2>2, <2>5, <2>6, <4>1 DEF ToSet
    <3>3. ASSUME NEW x \in ToSet(s) PROVE x \in ToSet(t)
      BY <2>0, <2>2, <2>3, <2>5, <3>1 DEF ToSet
    <3>4. e \in ToSet(t)
      BY <2>2, <2>3, <2>5 DEF ToSet
    <3> QED
      BY <3>2, <3>3, <3>4
  <2> QED
    BY <2>1, <2>2, <2>7, <2>8
<1> QED
  BY <1>1, <1>2, <1>3

-----------------------------------------------------------------------------
(***************************************************************************)
(* Types, and who works under a claim.                                     *)
(***************************************************************************)
ControlTyped ==
    /\ scenario \in Scenarios /\ changes \in 0..MaxChanges
    /\ grant \in DOMAIN Level /\ gate \in BOOLEAN /\ left \in BOOLEAN
    /\ pending \in Seq(Items) /\ IsInjective(pending)
    /\ submission \in {"none", "checked"} /\ strayed \in BOOLEAN

\* A row that exists is recorded as the server's exactly when a level is.
RowTyped(p) ==
    /\ p.number \in 0..MaxPrincipals /\ p.state \in States /\ p.applied \in Levels
    /\ p.current \in BOOLEAN /\ p.identified \in BOOLEAN /\ p.live \in BOOLEAN
    /\ p.holder \in Devices \union {"nobody"}
    /\ p.state = "ready" => p.applied # "none"
    /\ p.state = "dropped" => p.applied = "none"
    /\ p.state # "dropped" => p.number # 0 /\ (p.identified <=> p.applied # "none")
    /\ p.live => p.state \in {"applying", "drop_pending"}

\* No account beyond the latest has a role.
RolesTyped ==
    /\ roles \in [1..MaxPrincipals -> Roles]
    /\ \A n \in 1..MaxPrincipals : n > principal.number => roles[n] = Absent

\* A device that revokes has an entry left, and reports what its plan can do.
DeviceTyped(r) ==
    /\ r.step \in Steps /\ r.task \in {"none", "apply", "drop", "revoke"}
    /\ r.entries \in Seq(Items) /\ IsInjective(r.entries)
    /\ r.handled \in 0..Len(r.entries) /\ r.revoked \subseteq 1..Len(r.entries)
    /\ r.item.applied \in Levels /\ r.item.desired \in Levels /\ r.regrant \in Levels
    /\ r.item.identified \in BOOLEAN
    /\ r.step = "recorded" => r.handled < Len(r.entries)
    /\ r.step \in {"listed", "derived", "holding", "acted"} /\ r.task = "revoke" =>
          r.handled < Len(r.entries)
    /\ r.task # "revoke" => r.handled = 0
    /\ r.step = "acted" /\ r.effect = "applied" => r.task = "apply" /\ r.item.desired # "none"
    /\ r.step = "acted" /\ r.effect = "lowered" => r.task = "revoke" /\ Target(r) # "none"

\* A device at work is the holder of the row as it read it, or another device has
\* taken the row over, or a receipt has given it back.
Working(d) == devices[d].step \in {"holding", "acted"}

Claimant(d) ==
    /\ Working(d)
    /\ principal.number = devices[d].listed
    /\ principal.holder = d
    /\ principal.state = devices[d].item.state
    /\ principal.state \in {"applying", "drop_pending"}

WorkerOf(d) ==
    Working(d) =>
        \/ /\ Claimant(d)
           /\ devices[d].item.applied = principal.applied
           /\ devices[d].item.identified = principal.identified
        \/ ~(principal.holder = d /\ principal.state \in {"applying", "drop_pending"})

TypeInv ==
    /\ ControlTyped /\ RowTyped(principal) /\ RolesTyped
    /\ \A d \in Devices : DeviceTyped(devices[d])
    /\ \A d \in Devices : WorkerOf(d)

\* The invariant has the types of the specification.
LEMMA TypeInvTypes == FormInv /\ TypeInv => TypeOK
<1> SUFFICES ASSUME FormInv, TypeInv PROVE TypeOK
  OBVIOUS
<1>1. principal \in [number : 0..MaxPrincipals, state : States, applied : Levels,
                     current : BOOLEAN, identified : BOOLEAN,
                     holder : Devices \union {"nobody"}, live : BOOLEAN]
  BY DEF TypeInv, RowTyped, FormInv, ShapeInv, IsPrincipal
<1>2. ASSUME NEW s \in Seq(Items) PROVE ToSet(s) \subseteq Items
  BY LenProperties, ElementOfSeq DEF ToSet
<1>3. ASSUME NEW d \in Devices
      PROVE  /\ devices[d].step \in Steps /\ ToSet(devices[d].entries) \subseteq Items
             /\ devices[d].handled <= Len(devices[d].entries)
             /\ devices[d].step \in {"holding", "acted"} =>
                   devices[d].listed \in 1..principal.number
  <2>1. DeviceTyped(devices[d]) /\ ListedOf(d) /\ principal.number \in 0..MaxPrincipals
    BY DEF TypeInv, FormInv, ListedInv, RowTyped
  <2>2. devices[d].step \in {"holding", "acted"} => devices[d].listed \in 1..principal.number
    BY <2>1, BoundsAssumption DEF ListedOf
  <2> QED
    BY <1>2, <2>1, <2>2 DEF DeviceTyped
<1> QED
  BY <1>1, <1>2, <1>3 DEF TypeOK, TypeInv, ControlTyped, RowTyped, RolesTyped

\* A device at rest.
LEMMA RestingTyped == DeviceTyped(Resting)
<1>1. /\ Resting.step = "idle" /\ Resting.task = "none" /\ Resting.entries = <<>>
      /\ Resting.handled = 0 /\ Resting.revoked = {} /\ Resting.item = NoItem
      /\ Resting.regrant = "none"
  BY DEF Resting
<1>2. NoItem.applied = "none" /\ NoItem.desired = "none" /\ NoItem.identified \in BOOLEAN
  BY DEF NoItem
<1> QED
  BY <1>1, <1>2, GrownItems DEF DeviceTyped, Steps, Levels

\* What a device does around its work keeps it typed.
LEMMA TypedMoves ==
    ASSUME NEW r, IsDevice(r), DeviceTyped(r)
    PROVE  /\ r.task # "revoke" => DeviceTyped(AfterItem(r))
           /\ DeviceTyped(Finish(r)) /\ DeviceTyped(NotClaimed(r)) /\ DeviceTyped(Done(r))
<1>0. DeviceTyped(Resting)
  BY RestingTyped
<1>1. Len(r.entries) \in Nat
  BY LenProperties DEF DeviceTyped
<1>2. ASSUME r.task # "revoke" PROVE DeviceTyped(AfterItem(r))
  <2>1. CASE r.entries # <<>>
    <3>1. PICK q : q = [r EXCEPT !.task = "revoke", !.step = "listed",
                          !.item = NoItem, !.to = "none", !.effect = "none"]
      OBVIOUS
    <3>2. /\ q.step = "listed" /\ q.task = "revoke" /\ q.item = NoItem /\ q.entries = r.entries
          /\ q.handled = r.handled /\ q.revoked = r.revoked /\ q.regrant = r.regrant
      BY <3>1 DEF IsDevice
    <3>3. NoItem.applied = "none" /\ NoItem.desired = "none" /\ NoItem.identified \in BOOLEAN
      BY DEF NoItem
    <3>4. Len(r.entries) # 0
      BY <2>1, EmptySeq DEF DeviceTyped
    <3>5. AfterItem(r) = q
      BY <2>1, <3>1 DEF AfterItem
    <3> QED
      BY <1>1, <1>2, <3>2, <3>3, <3>4, <3>5 DEF DeviceTyped, Steps, Levels
  <2>2. CASE r.entries = <<>> /\ r.regrant # "none"
    <3>1. PICK q : q = [r EXCEPT !.step = "regranting"]
      OBVIOUS
    <3>2. /\ q.step = "regranting" /\ q.task = r.task /\ q.item = r.item /\ q.entries = r.entries
          /\ q.handled = r.handled /\ q.revoked = r.revoked /\ q.regrant = r.regrant
      BY <3>1 DEF IsDevice
    <3>5. AfterItem(r) = q
      BY <2>2, <3>1 DEF AfterItem
    <3> QED
      BY <3>2, <3>5 DEF DeviceTyped, Steps
  <2> QED
    BY <1>0, <2>1, <2>2 DEF AfterItem
<1>3. ASSUME NEW R, R \subseteq 1..Len(r.entries),
             NEW q, q = [r EXCEPT !.step = "changing", !.revoked = R]
      PROVE  DeviceTyped(q)
  <2>1. /\ q.step = "changing" /\ q.task = r.task /\ q.item = r.item /\ q.entries = r.entries
        /\ q.handled = r.handled /\ q.revoked = R /\ q.regrant = r.regrant
    BY <1>3 DEF IsDevice
  <2> QED
    BY <1>3, <2>1 DEF DeviceTyped, Steps
<1>4. DeviceTyped(Finish(r))
  <2>1. [r EXCEPT !.step = "changing"] = [r EXCEPT !.step = "changing", !.revoked = r.revoked]
    BY DEF IsDevice
  <2>2. r.revoked \subseteq 1..Len(r.entries)
    BY DEF DeviceTyped
  <2> QED
    BY <1>3, <2>1, <2>2 DEF Finish
<1>5. DeviceTyped(Done(r))
  <2>1. \/ Done(r) = Resting
        \/ Done(r) = [r EXCEPT !.revoked = r.revoked \ {NextRevoked(r)}, !.step = "changing"]
    BY DEF Done
  <2>2. ASSUME NEW R PROVE [r EXCEPT !.revoked = R, !.step = "changing"]
                             = [r EXCEPT !.step = "changing", !.revoked = R]
    BY DEF IsDevice
  <2>3. r.revoked \ {NextRevoked(r)} \subseteq 1..Len(r.entries)
    BY DEF DeviceTyped
  <2> QED
    BY <1>0, <1>3, <2>1, <2>2, <2>3
<1> QED
  BY <1>0, <1>2, <1>4, <1>5 DEF NotClaimed

\* The next entry is one of the list, or the list is at its end.
LEMMA TypedNext ==
    ASSUME NEW r, IsDevice(r), DeviceTyped(r), NEW w, r.task = "revoke",
           r.step \in {"holding", "acted"}
    PROVE  DeviceTyped(NextEntry(r, w))
<1>0. Len(r.entries) \in Nat /\ r.handled \in Nat /\ r.handled < Len(r.entries)
  BY LenProperties DEF DeviceTyped
<1> DEFINE done == [r EXCEPT !.handled = @ + 1, !.effect = "none",
                      !.revoked = IF w THEN @ \union {r.handled + 1} ELSE @]
<1>1. PICK R : /\ done = [r EXCEPT !.handled = r.handled + 1, !.effect = "none", !.revoked = R]
               /\ R \in {r.revoked \union {r.handled + 1}, r.revoked}
  OBVIOUS
<1>2. NextEntry(r, w) = IF done.handled < Len(r.entries)
                          THEN [done EXCEPT !.step = "holding"] ELSE Finish(done)
  BY DEF NextEntry
<1> HIDE DEF done
<1>3. /\ IsDevice(done) /\ done.handled = r.handled + 1 /\ done.entries = r.entries
      /\ done.task = "revoke" /\ done.revoked = R /\ done.item = r.item
      /\ done.regrant = r.regrant /\ done.listed = r.listed
  BY <1>1 DEF IsDevice
<1>4. R \subseteq 1..Len(r.entries) /\ r.handled + 1 \in 0..Len(r.entries)
  BY <1>0, <1>1 DEF DeviceTyped
<1>5. ASSUME NEW q, IsDevice(q), q.step \in {"holding", "changing"},
             q.step = "holding" => r.handled + 1 < Len(r.entries),
             q.task = "revoke", q.item = r.item, q.entries = r.entries,
             q.handled = r.handled + 1, q.revoked \subseteq 1..Len(r.entries), q.regrant = r.regrant
      PROVE  DeviceTyped(q)
  BY <1>4, <1>5 DEF DeviceTyped, Steps
<1>6. CASE done.handled < Len(r.entries)
  <2>1. PICK q : q = [done EXCEPT !.step = "holding"]
    OBVIOUS
  <2>2. /\ IsDevice(q) /\ q.step = "holding" /\ q.task = "revoke" /\ q.item = r.item
        /\ q.entries = r.entries /\ q.handled = r.handled + 1 /\ q.revoked = R
        /\ q.regrant = r.regrant
    BY <1>3, <2>1 DEF IsDevice
  <2> QED
    BY <1>2, <1>3, <1>4, <1>5, <1>6, <2>1, <2>2
<1>7. CASE ~(done.handled < Len(r.entries))
  <2>1. PICK q, Q : /\ q = [done EXCEPT !.step = "changing", !.revoked = Q]
                    /\ Q \in {1..Len(r.entries), R} /\ q = Finish(done)
    <3>1. [done EXCEPT !.step = "changing"] = [done EXCEPT !.step = "changing", !.revoked = R]
      BY <1>3 DEF IsDevice
    <3> QED
      BY <1>3, <3>1 DEF Finish
  <2>2. /\ IsDevice(q) /\ q.step = "changing" /\ q.task = "revoke" /\ q.item = r.item
        /\ q.entries = r.entries /\ q.handled = r.handled + 1 /\ q.revoked = Q
        /\ q.regrant = r.regrant
    BY <1>3, <2>1 DEF IsDevice
  <2>3. NextEntry(r, w) = q
    BY <1>2, <1>7, <2>1, Zenon
  <2>4. q.revoked \subseteq 1..Len(r.entries)
    <3>1. Q \in {1..Len(r.entries), R}
      BY <2>1
    <3> QED
      BY <1>4, <2>2, <3>1, Zenon
  <2>5. DeviceTyped(q)
    BY <1>5, <2>2, <2>4, Zenon
  <2> QED
    BY <2>3, <2>5
<1> QED
  BY <1>6, <1>7

-----------------------------------------------------------------------------
(***************************************************************************)
(* Every step keeps the types.                                             *)
(***************************************************************************)
QueueTyped(s) == s \in Seq(Items) /\ IsInjective(s)

\* What a request leaves of the pending items.
LEMMA PendingForms ==
    ASSUME ControlTyped
    PROVE  /\ QueueTyped(SettleAfterMutation) /\ QueueTyped(<<SelfLeft>>)
           /\ \A e \in Items : QueueTyped(RemoveFirst(pending, e)) /\ QueueTyped(Recorded(e))
<1>1. SelfLeft \in Items
  BY DEF Items
<1>2. ASSUME NEW e \in Items PROVE QueueTyped(RemoveFirst(pending, e)) /\ QueueTyped(Recorded(e))
  BY RemoveItem, GrownItems DEF ControlTyped, QueueTyped, Recorded
<1> QED
  BY <1>1, <1>2, GrownItems DEF QueueTyped, SettleAfterMutation

\* The requests and the commits of queued changes.
LEMMA ControlStays ==
    ASSUME ControlTyped, [Next]_vars
    PROVE  ControlTyped'
<1> USE DEF controlVars, serverVars
<1>S. strayed' \in BOOLEAN
  <2>1. ASSUME NEW d \in Devices, NEW outcome, Ran(d, outcome) PROVE strayed' \in BOOLEAN
    BY <2>1, Zenon DEF Ran
  <2>2. ASSUME NEW d \in Devices, Work(d) PROVE strayed' \in BOOLEAN
    <3>1. CASE Execute(d)
      BY <2>1, <3>1, Zenon DEF Execute
    <3>2. CASE RegrantItem(d)
      BY <3>2, Zenon DEF RegrantItem
    <3>3. CASE ~Execute(d) /\ ~RegrantItem(d)
      <4>1. UNCHANGED strayed
        BY <2>2, <3>3, ZenonT(30) DEF Work, SyncOnce, Prepare, Derive, Claim, SettleReceipt, NothingToChange,
           SettleLeave, CommitLower, OpenGate, CommitRemoval, ClearGate
      <4> QED
        BY <4>1 DEF ControlTyped
    <3> QED
      BY <3>1, <3>2, <3>3
  <2>3. ASSUME NEW d \in Devices, ExecuteRefused(d) PROVE strayed' \in BOOLEAN
    BY <2>1, <2>3, Zenon DEF ExecuteRefused
  <2>4. ASSUME NEW d \in Devices, NEW item, RevokeApply(d, item) PROVE strayed' \in BOOLEAN
    <3>1. UNCHANGED strayed
      BY <2>4, Zenon DEF RevokeApply
    <3> QED
      BY <3>1 DEF ControlTyped
  <2>5. ASSUME LeaseExpires \/ \E d \in Devices : Crash(d) PROVE strayed' \in BOOLEAN
    BY <2>5, Zenon DEF LeaseExpires, Crash
  <2>6. ASSUME UNCHANGED strayed PROVE strayed' \in BOOLEAN
    BY <2>6 DEF ControlTyped
  <2> QED
    BY <2>2, <2>3, <2>4, <2>5, <2>6 DEF Next, vars
<1>0. MaxChanges \in Nat /\ {LowerGrant, RemoveGrant, SelfLeft} = Items
  BY BoundsAssumption DEF Items
<1>1. Decide => changes' \in 0..MaxChanges
  BY <1>S, <1>0 DEF Decide, ControlTyped
<1>2. ASSUME ControlPlane PROVE ControlTyped'
  <2>1. CASE CheckSubmission
    BY <1>S, <1>1, <2>1 DEF CheckSubmission, ControlTyped
  <2>2. CASE SubmitVerifier
    BY <1>S, <2>2 DEF SubmitVerifier, ControlTyped
  <2>3. CASE SelfLeave
    <3>1. QueueTyped(pending')
      BY <1>S, <2>3, PendingForms DEF SelfLeave, ControlTyped, QueueTyped
    <3> QED
      BY <1>S, <1>1, <2>3, <3>1, LevelTable DEF SelfLeave, ControlTyped, QueueTyped
  <2>4. CASE \E capability \in {"read", "use"} : IncreaseConnectionGrant(capability)
    BY <1>S, <1>1, <2>4, PendingForms, LevelTable DEF IncreaseConnectionGrant, ControlTyped, QueueTyped
  <2>5. CASE LowerConnectionGrant
    BY <1>S, <1>1, <2>5, PendingForms, LevelTable DEF LowerConnectionGrant, ControlTyped, QueueTyped
  <2>6. CASE \E item \in {LowerGrant, RemoveGrant} : DeferRevocation(item)
    <3>1. QueueTyped(pending')
      BY <1>0, <2>6, PendingForms DEF DeferRevocation
    <3> QED
      BY <1>S, <1>1, <2>6, <3>1 DEF DeferRevocation, ControlTyped, QueueTyped
  <2>7. CASE \E item \in {LowerGrant, RemoveGrant, SelfLeft} : CancelRevocation(item)
    <3>1. QueueTyped(pending')
      BY <1>0, <2>7, PendingForms DEF CancelRevocation
    <3> QED
      BY <1>S, <1>1, <2>7, <3>1 DEF CancelRevocation, ControlTyped, QueueTyped
  <2> QED
    BY <1>2, <2>1, <2>2, <2>3, <2>4, <2>5, <2>6, <2>7 DEF ControlPlane
<1>3. CASE UNCHANGED controlVars
  BY <1>S, <1>3 DEF ControlTyped
<1>4. CASE LeaseExpires
  <2>1. /\ UNCHANGED <<scenario, grant, gate, left, pending, submission>>
        /\ Decide \/ UNCHANGED changes
    BY <1>4, ZenonT(30) DEF LeaseExpires
  <2> QED
    BY <1>S, <1>1, <2>1 DEF ControlTyped
<1>5. ASSUME NEW d \in Devices, Work(d) PROVE ControlTyped'
  <2>1. CASE Claim(d) \/ SettleReceipt(d)
    BY <1>S, <2>1 DEF Claim, SettleReceipt, ControlTyped
  <2>2. CASE SettleLeave(d)
    <3>1. QueueTyped(pending')
      BY <1>S, <1>0, <2>2, PendingForms DEF SettleLeave, ControlTyped, QueueTyped
    <3> QED
      BY <1>S, <2>2, <3>1 DEF SettleLeave, ControlTyped, QueueTyped
  <2>3. CASE CommitLower(d)
    <3>1. QueueTyped(pending')
      BY <1>S, <2>3, PendingForms DEF CommitLower, ControlTyped, QueueTyped
    <3> QED
      BY <1>S, <2>3, <3>1, LevelTable DEF CommitLower, ControlTyped, QueueTyped
  <2>4. CASE OpenGate(d) \/ ClearGate(d)
    BY <1>S, <2>4 DEF OpenGate, ClearGate, ControlTyped
  <2>5. CASE CommitRemoval(d)
    <3>1. QueueTyped(pending')
      BY <1>S, <2>5, PendingForms DEF CommitRemoval, ControlTyped, QueueTyped
    <3>2. grant' \in {grant, "absent"}
      BY <2>5 DEF CommitRemoval
    <3> QED
      BY <1>S, <2>5, <3>1, <3>2, LevelTable DEF CommitRemoval, ControlTyped, QueueTyped
  <2> QED
    BY <1>3, <1>5, <2>1, <2>2, <2>3, <2>4, <2>5 DEF Work, SyncOnce, Prepare, Derive, Execute,
       RegrantItem, NothingToChange
<1>6. ASSUME NEW d \in Devices, NEW item \in {LowerGrant, RemoveGrant}, RevokeApply(d, item)
      PROVE  ControlTyped'
  <2>1. QueueTyped(pending')
    BY <1>0, <1>6, PendingForms DEF RevokeApply
  <2> QED
    BY <1>S, <1>1, <1>6, <2>1 DEF RevokeApply, ControlTyped, QueueTyped
<1>7. ASSUME NEW d \in Devices, ExecuteRefused(d) \/ Crash(d) PROVE ControlTyped'
  BY <1>S, <1>1, <1>7 DEF ExecuteRefused, Crash, ControlTyped
<1> QED
  BY <1>2, <1>3, <1>4, <1>5, <1>6, <1>7 DEF Next, vars

\* The account, the roles and the devices.
RestTyped ==
    /\ RowTyped(principal) /\ RolesTyped
    /\ \A d \in Devices : DeviceTyped(devices[d])
    /\ \A d \in Devices : WorkerOf(d)

\* Nothing of them changes.
LEMMA RestStays ==
    ASSUME RestTyped, UNCHANGED <<principal, roles, devices>>
    PROVE  RestTyped'
BY DEF RestTyped, RowTyped, RolesTyped, DeviceTyped, WorkerOf, Working, Claimant, Target, Entry

\* A device moves and works on nothing afterwards.
LEMMA RestMoves ==
    ASSUME RestTyped, ShapeInv, NEW d \in Devices, NEW r, IsDevice(r), DeviceTyped(r), Moves(d, r),
           r.step \notin {"holding", "acted"}, UNCHANGED <<principal, roles>>
    PROVE  RestTyped'
<1>1. /\ devices'[d] = r
      /\ \A e \in Devices : e # d => devices'[e] = devices[e]
  BY DeviceMoves
<1>2. RowTyped(principal)' /\ RolesTyped'
  BY DEF RestTyped, RowTyped, RolesTyped
<1>3. ASSUME NEW e \in Devices PROVE DeviceTyped(devices[e])' /\ WorkerOf(e)'
  <2>1. CASE e = d
    <3>1. DeviceTyped(r)'
      BY DEF DeviceTyped, Target, Entry
    <3> QED
      BY <1>1, <2>1, <3>1 DEF WorkerOf, Working
  <2>2. CASE e # d
    <3>1. devices'[e] = devices[e] /\ DeviceTyped(devices[e]) /\ WorkerOf(e)
      BY <1>1, <2>2 DEF RestTyped
    <3> QED
      BY <3>1 DEF DeviceTyped, Target, Entry, WorkerOf, Working, Claimant
  <2> QED
    BY <2>1, <2>2
<1> QED
  BY <1>2, <1>3 DEF RestTyped

\* Around its claims a device lists, derives, commits, rests or crashes.
LEMMA RestAround ==
    ASSUME RestTyped, ControlTyped, FormInv, NEW d \in Devices,
           \/ SyncOnce(d) \/ Prepare(d) \/ NothingToChange(d) \/ SettleLeave(d)
           \/ CommitLower(d) \/ OpenGate(d) \/ CommitRemoval(d) \/ ClearGate(d) \/ Crash(d) \/ Derive(d)
           \/ \E item \in {LowerGrant, RemoveGrant} : RevokeApply(d, item)
    PROVE  RestTyped'
<1>0. /\ IsDevice(devices[d]) /\ DeviceTyped(devices[d]) /\ ShapeInv
      /\ IsDevice(Resting) /\ Resting.step = "idle"
  BY RestingDevice DEF RestTyped, FormInv, ShapeInv
<1>1. UNCHANGED <<principal, roles>>
  BY AroundSame, Zenon
<1>2. ASSUME NEW r, Moves(d, r), IsDevice(r), DeviceTyped(r), r.step \notin {"holding", "acted"}
      PROVE  RestTyped'
  BY <1>0, <1>1, <1>2, RestMoves
<1>3. DeviceTyped(Resting)
  BY RestingTyped
<1>4. Resting.entries = <<>> /\ Resting.handled = 0 /\ Resting.revoked = {} /\ Resting.task = "none"
      /\ Resting.regrant = "none"
  BY DEF Resting
<1>5. CASE SyncOnce(d)
  <2>1. PICK w, begun :
           /\ begun = [Resting EXCEPT !.listed = Listed, !.entries = pending, !.regrant = w]
           /\ w \in {"none", principal.applied}
           /\ \/ /\ Moves(d, [begun EXCEPT !.step = "listed", !.task = WorkAction])
                 /\ WorkAction \in {"apply", "drop"}
              \/ Moves(d, AfterItem(begun))
    BY <1>5, Zenon DEF SyncOnce
  <2>2. /\ IsDevice(begun) /\ begun.step = "idle" /\ begun.task = "none" /\ begun.item = Resting.item
        /\ begun.entries = pending /\ begun.handled = 0 /\ begun.revoked = {} /\ begun.regrant = w
    BY <2>1 DEF Resting, IsDevice
  <2>3. Len(pending) \in Nat /\ w \in Levels
    BY <2>1, LenProperties DEF ControlTyped, RestTyped, RowTyped, Levels
  <2>4. DeviceTyped(begun)
    BY <1>3, <2>2, <2>3 DEF DeviceTyped, ControlTyped, Steps
  <2>5. CASE Moves(d, AfterItem(begun))
    BY <1>2, <2>2, <2>4, <2>5, TypedMoves, Retires DEF Retired, Aside
  <2>6. CASE /\ Moves(d, [begun EXCEPT !.step = "listed", !.task = WorkAction])
             /\ WorkAction \in {"apply", "drop"}
    <3>1. PICK r : r = [begun EXCEPT !.step = "listed", !.task = WorkAction]
      OBVIOUS
    <3>2. /\ IsDevice(r) /\ r.step = "listed" /\ r.task = WorkAction /\ r.item = begun.item
          /\ r.entries = begun.entries /\ r.handled = begun.handled /\ r.revoked = begun.revoked
          /\ r.regrant = begun.regrant
      BY <2>2, <3>1 DEF IsDevice
    <3>3. DeviceTyped(r)
      BY <2>2, <2>4, <2>6, <3>2 DEF DeviceTyped, Steps
    <3> QED
      BY <1>2, <2>6, <3>1, <3>2, <3>3
  <2> QED
    BY <2>1, <2>5, <2>6, Zenon
<1>6. CASE \E item \in {LowerGrant, RemoveGrant} : RevokeApply(d, item)
  <2>0. PICK item \in {LowerGrant, RemoveGrant} : RevokeApply(d, item)
    BY <1>6
  <2>1. PICK r : /\ Moves(d, r)
                 /\ r = [Resting EXCEPT !.step = "recorded", !.entries = <<item>>, !.listed = Listed]
    BY <2>0 DEF RevokeApply
  <2>2. /\ IsDevice(r) /\ r.step = "recorded" /\ r.task = "none" /\ r.item = Resting.item
        /\ r.entries = <<item>> /\ r.handled = 0 /\ r.revoked = {} /\ r.regrant = "none"
    BY <2>1 DEF Resting, IsDevice
  <2>3. <<item>> \in Seq(Items) /\ IsInjective(<<item>>) /\ Len(<<item>>) = 1
    BY <2>0, GrownItems DEF Items
  <2>4. DeviceTyped(r)
    BY <1>3, <2>2, <2>3 DEF DeviceTyped, Steps, Levels
  <2> QED
    BY <1>2, <2>1, <2>2, <2>4
<1>7. CASE Prepare(d)
  <2>1. PICK r, n : /\ Moves(d, r) /\ devices[d].step = "recorded"
                    /\ r = [devices[d] EXCEPT !.step = "listed", !.task = "revoke", !.listed = n]
    BY <1>7 DEF Prepare
  <2>2. /\ IsDevice(r) /\ r.step = "listed" /\ r.task = "revoke" /\ r.item = devices[d].item
        /\ r.entries = devices[d].entries /\ r.handled = devices[d].handled
        /\ r.revoked = devices[d].revoked /\ r.regrant = devices[d].regrant
    BY <1>0, <2>1 DEF IsDevice
  <2>3. DeviceTyped(r)
    BY <1>0, <2>1, <2>2 DEF DeviceTyped, Steps
  <2> QED
    BY <1>2, <2>1, <2>2, <2>3
<1>8. CASE Moves(d, Resting)
  BY <1>0, <1>2, <1>3, <1>8
<1>9. CASE Moves(d, Done(devices[d]))
  BY <1>0, <1>2, <1>9, TypedMoves, Retires DEF Retired, Aside
<1>10. ASSUME NEW s \in {"removing", "clearing"}, Moves(d, [devices[d] EXCEPT !.step = s])
       PROVE  RestTyped'
  <2>1. PICK r : r = [devices[d] EXCEPT !.step = s]
    OBVIOUS
  <2>2. /\ IsDevice(r) /\ r.step = s /\ r.task = devices[d].task /\ r.item = devices[d].item
        /\ r.entries = devices[d].entries /\ r.handled = devices[d].handled
        /\ r.revoked = devices[d].revoked /\ r.regrant = devices[d].regrant
    BY <1>0, <2>1 DEF IsDevice
  <2>3. DeviceTyped(r)
    BY <1>0, <2>2 DEF DeviceTyped, Steps
  <2> QED
    BY <1>2, <1>10, <2>1, <2>2, <2>3
<1>11. CASE Derive(d)
  <2>1. CASE Moves(d, Finish(devices[d])) \/ Moves(d, NotClaimed(devices[d]))
    BY <1>0, <1>2, <2>1, TypedMoves, Retires DEF Retired, Aside
  <2>2. CASE ~(Moves(d, Finish(devices[d])) \/ Moves(d, NotClaimed(devices[d])))
    <3>1. PICK r, t : /\ Moves(d, r) /\ devices[d].step = "listed"
                      /\ r = [devices[d] EXCEPT !.step = "derived", !.to = t]
      BY <1>11, <2>2 DEF Derive
    <3>2. /\ IsDevice(r) /\ r.step = "derived" /\ r.task = devices[d].task /\ r.item = devices[d].item
          /\ r.entries = devices[d].entries /\ r.handled = devices[d].handled
          /\ r.revoked = devices[d].revoked /\ r.regrant = devices[d].regrant
      BY <1>0, <3>1 DEF IsDevice
    <3>3. DeviceTyped(r)
      BY <1>0, <3>1, <3>2 DEF DeviceTyped, Steps
    <3> QED
      BY <1>2, <3>1, <3>2, <3>3
  <2> QED
    BY <2>1, <2>2
<1>12. CASE OpenGate(d) \/ CommitRemoval(d) \/ ClearGate(d)
  BY <1>9, <1>10, <1>12 DEF OpenGate, CommitRemoval, ClearGate
<1> QED
  BY <1>5, <1>6, <1>7, <1>8, <1>9, <1>11, <1>12 DEF NothingToChange, SettleLeave, CommitLower, Crash

\* A new verifier, and a lease that runs out.
LEMMA RestRow ==
    ASSUME RestTyped, FormInv, UNCHANGED <<roles, devices>>, SubmitVerifier \/ LeaseExpires
    PROVE  RestTyped'
<1>0. IsPrincipal(principal) /\ MaxPrincipals \in Nat /\ RowTyped(principal)
  BY BoundsAssumption DEF FormInv, ShapeInv, RestTyped
<1>1. \A d \in Devices : DeviceTyped(devices[d])'
  BY DEF RestTyped, DeviceTyped, Target, Entry
<1>2. CASE principal' = principal
  BY <1>2, RestStays
<1>3. CASE SubmitVerifier /\ ~Live /\ principal' # principal
  <2>1. principal' = Requested(principal.number + 1) /\ principal.number < MaxPrincipals
    BY <1>3 DEF SubmitVerifier, Live
  <2>2. principal' = [number |-> principal.number + 1, state |-> "requested",
                      applied |-> "none", current |-> FALSE, identified |-> FALSE,
                      holder |-> "nobody", live |-> FALSE]
    BY <2>1 DEF Requested, NoPrincipal
  <2>3. principal.number + 1 \in 0..MaxPrincipals /\ principal.number + 1 # 0
    BY <1>0, <2>1 DEF RowTyped
  <2>4. RowTyped(principal)'
    BY <2>2, <2>3 DEF RowTyped, States, Levels
  <2>5. RolesTyped'
    BY <1>0, <2>2 DEF RolesTyped, RestTyped, RowTyped
  <2>6. \A d \in Devices : WorkerOf(d)'
    BY <1>3, <2>2 DEF RestTyped, WorkerOf, Working, Claimant, Live
  <2> QED
    BY <1>1, <2>4, <2>5, <2>6 DEF RestTyped
<1>4. CASE SubmitVerifier /\ Live /\ principal' # principal
  <2>1. /\ principal.state \in {"requested", "ready", "failed"}
        /\ principal' = [principal EXCEPT !.state = "requested", !.current = FALSE]
    BY <1>4 DEF SubmitVerifier, Live
  <2>2. /\ principal'.number = principal.number /\ principal'.state = "requested"
        /\ principal'.applied = principal.applied /\ principal'.current = FALSE
        /\ principal'.identified = principal.identified /\ principal'.holder = principal.holder
        /\ principal'.live = principal.live
    BY <1>0, <2>1 DEF IsPrincipal
  <2>3. RowTyped(principal)'
    BY <1>0, <2>1, <2>2 DEF RowTyped, States
  <2>4. RolesTyped'
    BY <2>2 DEF RolesTyped, RestTyped
  <2>5. \A d \in Devices : WorkerOf(d)'
    BY <2>1, <2>2 DEF RestTyped, WorkerOf, Working, Claimant
  <2> QED
    BY <1>1, <2>3, <2>4, <2>5 DEF RestTyped
<1>5. CASE LeaseExpires
  <2>1. principal' = [principal EXCEPT !.live = FALSE]
    BY <1>5 DEF LeaseExpires
  <2>2. /\ principal'.number = principal.number /\ principal'.state = principal.state
        /\ principal'.applied = principal.applied /\ principal'.current = principal.current
        /\ principal'.identified = principal.identified /\ principal'.holder = principal.holder
        /\ principal'.live = FALSE
    BY <1>0, <2>1 DEF IsPrincipal
  <2>3. RowTyped(principal)'
    BY <1>0, <2>2 DEF RowTyped
  <2>4. RolesTyped'
    BY <2>2 DEF RolesTyped, RestTyped
  <2>5. ASSUME NEW d \in Devices PROVE WorkerOf(d)'
    BY <2>2 DEF RestTyped, WorkerOf, Working, Claimant
  <2> QED
    BY <1>1, <2>3, <2>4, <2>5 DEF RestTyped
<1> QED
  BY <1>2, <1>3, <1>4, <1>5

\* Levels and roles of what a plan or a receipt is made from.
LEMMA TargetTyped ==
    ASSUME NEW r, DeviceTyped(r), r.step \in {"holding", "acted"}
    PROVE  /\ Target(r) \in {"none", "read"}
           /\ r.task = "revoke" => Entry(r) \in Items /\ Target(r) = Entry(r).target
           /\ r.task # "revoke" => Target(r) = "none"
<1>1. CASE r.task # "revoke"
  BY <1>1 DEF Target
<1>2. CASE r.task = "revoke"
  <2>1. Len(r.entries) \in Nat /\ r.handled + 1 \in 1..Len(r.entries)
    BY <1>2, LenProperties DEF DeviceTyped
  <2>2. Entry(r) \in Items
    BY <2>1, ElementOfSeq DEF Entry, DeviceTyped
  <2> QED
    BY <1>2, <2>2, ItemTable DEF Target, Items
<1> QED
  BY <1>1, <1>2

\* What a plan makes of a role, and which reports it can lead to.
LEMMA PlanTyped ==
    ASSUME NEW r, DeviceTyped(r), r.step = "holding", NEW role \in Roles
    PROVE  /\ Plan(r, role).role \in Roles
           /\ Plan(r, role).effect = "applied" => r.task = "apply" /\ r.item.desired # "none"
           /\ Plan(r, role).effect \in {"lowered", "unchanged"} =>
                 r.task = "revoke" /\ Target(r) # "none"
<1>0. /\ r.item.applied \in Levels /\ r.item.desired \in Levels /\ Target(r) \in Levels
      /\ r.task # "revoke" => Target(r) = "none"
  BY TargetTyped DEF DeviceTyped, Levels
<1>1. \A l \in Levels : Privileges[l] \subseteq {"select", "modify"}
  BY PrivilegeTable DEF Levels
<1>2. role = Absent \/ role \subseteq {"select", "modify"}
  BY DEF Roles
<1>3. \A l \in Levels : role # Absent => Granted(role, l) \in Roles
  BY <1>1, <1>2 DEF Granted, Roles
<1>4. \A l \in Levels : Granted(role \ Absent, l) \in Roles
  BY <1>1, <1>2, PrivilegeTable DEF Granted, Roles
<1>5. \A k, l \in Levels : role # Absent => Changed(role, k, l) \in Roles
  BY <1>1, <1>2 DEF Changed, Roles
<1>6. /\ Applied(r.item, role).role \in Roles
      /\ Applied(r.item, role).effect \in {"applied", "failed"}
      /\ Applied(r.item, role).effect = "applied" => r.item.desired # "none"
  BY <1>0, <1>3, <1>4, <1>5 DEF Applied, Outcome, Provable
<1>7. /\ Dropped(r.item, role).role \in Roles
      /\ Dropped(r.item, role).effect \in {"dropped", "failed"}
  BY <1>2 DEF Dropped, Outcome, Roles, Provable
<1>8. /\ Lowered(r.item, role, Target(r)).role \in Roles
      /\ Lowered(r.item, role, Target(r)).effect \in {"lowered", "unchanged", "failed"}
  BY <1>0, <1>5 DEF Lowered, Outcome, Provable
<1> QED
  BY <1>0, <1>6, <1>7, <1>8 DEF Plan

\* A refused plan reports a failure, whatever it did to the role.
LEMMA RefusedTyped ==
    ASSUME NEW r, DeviceTyped(r), r.step = "holding", NEW role \in Roles,
           NEW outcome \in Refused(r, role)
    PROVE  outcome.role \in Roles /\ outcome.effect = "failed"
<1>1. \/ outcome = Outcome(role, "failed")
      \/ outcome = Outcome(Plan(r, role).role, "failed")
      \/ role # Absent /\ outcome = Outcome(role \ Privileges[r.item.applied], "failed")
  BY DEF Refused, Provable
<1>2. role # Absent => role \ Privileges[r.item.applied] \in Roles
  BY DEF Roles
<1>3. Plan(r, role).role \in Roles
  BY PlanTyped
<1>4. PICK after \in Roles : outcome = Outcome(after, "failed")
  BY <1>1, <1>2, <1>3, Zenon
<1> QED
  BY <1>4 DEF Outcome

\* The guarded claim.
LEMMA RestClaim ==
    ASSUME RestTyped, ControlTyped, FormInv, NEW d \in Devices, Claim(d)
    PROVE  RestTyped'
<1>0. /\ IsDevice(devices[d]) /\ DeviceTyped(devices[d]) /\ ListedOf(d) /\ ShapeInv
      /\ devices[d].step = "derived" /\ UNCHANGED roles
      /\ IsPrincipal(principal) /\ RowTyped(principal)
  BY ClaimEither DEF RestTyped, FormInv, ShapeInv, ListedInv
<1>1. CASE Moves(d, NotClaimed(devices[d])) /\ UNCHANGED principal
  BY <1>0, <1>1, Retires, TypedMoves, RestMoves DEF Retired, Aside
<1>2. CASE ~(Moves(d, NotClaimed(devices[d])) /\ UNCHANGED principal)
  <2>1. /\ devices[d].listed = principal.number /\ Claimable(d, devices[d].to)
        /\ Moves(d, Held(devices[d]))
        /\ principal'.number = principal.number /\ principal'.state = devices[d].to
        /\ principal'.applied = principal.applied /\ principal'.current = principal.current
        /\ principal'.identified = principal.identified /\ principal'.holder = d
        /\ principal'.live = TRUE
    BY <1>2, ClaimEither, Zenon
  <2>2. PICK r : r = Held(devices[d])
    OBVIOUS
  <2>3. /\ IsDevice(r) /\ r.step = "holding" /\ r.listed = devices[d].listed
        /\ r.task = devices[d].task /\ r.entries = devices[d].entries
        /\ r.handled = devices[d].handled /\ r.revoked = devices[d].revoked
        /\ r.regrant = "none" /\ r.item.state = devices[d].to /\ r.item.desired = Desired
        /\ r.item.applied = principal.applied /\ r.item.identified = principal.identified
    BY <1>0, <2>2, HeldIs
  <2>5. /\ devices'[d] = r
        /\ \A e \in Devices : e # d => devices'[e] = devices[e]
    BY <1>0, <2>1, <2>2, <2>3, DeviceMoves
  <2>7. devices[d].to \in {"applying", "drop_pending"} /\ Live
    BY <1>0, <2>1 DEF ListedOf, Claimable
  <2>8. Desired \in Levels
    BY LevelTable DEF Desired, Capped, ControlTyped, Levels
  <2>9. RowTyped(principal)'
    BY <1>0, <2>1, <2>7 DEF RowTyped, Live, States
  <2>10. RolesTyped'
    BY <1>0, <2>1 DEF RestTyped, RolesTyped
  <2>11. ASSUME NEW e \in Devices PROVE DeviceTyped(devices[e])' /\ WorkerOf(e)'
    <3>1. CASE e = d
      <4>1. DeviceTyped(r)
        BY <1>0, <2>3, <2>8 DEF DeviceTyped, Steps, RowTyped, Levels
      <4>2. DeviceTyped(r)'
        BY <4>1 DEF DeviceTyped, Target, Entry
      <4>3. WorkerOf(d)'
        BY <2>1, <2>3, <2>5, <2>7 DEF WorkerOf, Working, Claimant
      <4> QED
        BY <2>5, <3>1, <4>2, <4>3
    <3>2. CASE e # d
      <4>1. devices'[e] = devices[e] /\ DeviceTyped(devices[e])
        BY <2>5, <3>2 DEF RestTyped
      <4>3. DeviceTyped(devices[e])'
        BY <4>1 DEF DeviceTyped, Target, Entry
      <4> QED
        BY <2>1, <3>2, <4>3 DEF WorkerOf
    <3> QED
      BY <3>1, <3>2
  <2> QED
    BY <2>9, <2>10, <2>11 DEF RestTyped
<1> QED
  BY <1>1, <1>2

\* A plan ran or was refused.
LEMMA RestRan ==
    ASSUME RestTyped, FormInv, NEW d \in Devices, devices[d].step = "holding", NEW outcome,
           Ran(d, outcome), UNCHANGED principal, outcome.role \in Roles,
           outcome.effect = "applied" => devices[d].task = "apply" /\ devices[d].item.desired # "none",
           outcome.effect \in {"lowered", "unchanged"} =>
              devices[d].task = "revoke" /\ Target(devices[d]) # "none"
    PROVE  RestTyped'
<1> DEFINE device == devices[d]
           l == devices[d].listed
<1>0. /\ IsDevice(device) /\ DeviceTyped(device) /\ ListedOf(d) /\ ShapeInv /\ WorkerOf(d)
      /\ MaxPrincipals \in Nat /\ principal.number \in 0..MaxPrincipals
      /\ l \in 1..principal.number
  BY BoundsAssumption DEF RestTyped, FormInv, ShapeInv, IsPrincipal, ListedInv, ListedOf
<1>1. RolesTyped'
  <2>1. roles' = [roles EXCEPT ![l] = outcome.role]
    BY DEF Ran
  <2> QED
    BY <1>0, <2>1 DEF RestTyped, RolesTyped
<1>2. RowTyped(principal)'
  BY DEF RestTyped, RowTyped
<1>3. PICK r : /\ Moves(d, r) /\ IsDevice(r) /\ DeviceTyped(r) /\ r.listed = l /\ r.item = device.item
               /\ r.task = device.task
  <2>1. PICK r : /\ Moves(d, r) /\ IsDevice(r) /\ r.listed = devices[d].listed
                 /\ r.task = devices[d].task /\ r.item = devices[d].item
                 /\ \/ outcome.effect = "unchanged" /\ r = NextEntry(devices[d], TRUE)
                       /\ r.step \in {"holding", "changing"}
                    \/ /\ outcome.effect # "unchanged"
                       /\ r.step = "acted" /\ r.effect = outcome.effect
                       /\ r.entries = devices[d].entries /\ r.handled = devices[d].handled
                       /\ r.revoked = devices[d].revoked /\ r.regrant = devices[d].regrant
    BY RanMoves, Zenon
  <2>2. CASE outcome.effect = "unchanged"
    <3>1. r = NextEntry(device, TRUE) /\ device.task = "revoke"
      BY <2>1, <2>2
    <3>2. DeviceTyped(NextEntry(device, TRUE))
      BY <1>0, <3>1, TypedNext
    <3> QED
      BY <2>1, <3>1, <3>2
  <2>3. CASE outcome.effect # "unchanged"
    <3>1. Target(r) = Target(device)
      BY <2>1, <2>3 DEF Target, Entry
    <3>2. DeviceTyped(r)
      BY <1>0, <2>1, <2>3, <3>1 DEF DeviceTyped, Steps
    <3> QED
      BY <2>1, <3>2
  <2> QED
    BY <2>2, <2>3
<1>4. /\ devices'[d] = r
      /\ \A e \in Devices : e # d => devices'[e] = devices[e]
  BY <1>0, <1>3, DeviceMoves
<1>5. ASSUME NEW e \in Devices PROVE DeviceTyped(devices[e])' /\ WorkerOf(e)'
  <2>1. CASE e = d
    <3>1. DeviceTyped(r)'
      BY <1>3 DEF DeviceTyped, Target, Entry
    <3> QED
      BY <1>0, <1>3, <1>4, <2>1, <3>1 DEF WorkerOf, Working, Claimant
  <2>2. CASE e # d
    <3>1. devices'[e] = devices[e] /\ DeviceTyped(devices[e]) /\ WorkerOf(e)
      BY <1>4, <2>2 DEF RestTyped
    <3> QED
      BY <3>1 DEF DeviceTyped, Target, Entry, WorkerOf, Working, Claimant
  <2> QED
    BY <2>1, <2>2
<1> QED
  BY <1>1, <1>2, <1>5 DEF RestTyped

\* A receipt is accepted from the holder of the claim only.
LEMMA MatchIsClaimant ==
    ASSUME NEW d \in Devices, WorkerOf(d), devices[d].step = "acted", ReceiptMatches(d)
    PROVE  /\ Claimant(d)
           /\ devices[d].item.applied = principal.applied
           /\ devices[d].item.identified = principal.identified
<1>1. ReceiptFrom(devices[d]) \in {"applying", "drop_pending"}
  BY DEF ReceiptFrom
<1> QED
  BY <1>1 DEF WorkerOf, Working, ReceiptMatches

\* The row after an accepted receipt.
LEMMA SettledFields ==
    ASSUME NEW r, IsPrincipal(principal), NEW row, row = Settled(r)
    PROVE  /\ row.number = principal.number /\ row.holder = principal.holder /\ row.live = FALSE
           /\ row.state \in {"ready", "dropped", "failed"}
           /\ r.effect = "applied" => /\ row.state = "ready" /\ row.applied = r.item.desired
                                      /\ row.identified = TRUE /\ row.current = TRUE
           /\ r.effect = "lowered" => /\ row.state = "ready" /\ row.applied = Target(r)
                                      /\ row.identified = TRUE /\ row.current = principal.current
           /\ r.effect = "dropped" => /\ row.state = "dropped" /\ row.applied = "none"
                                      /\ row.identified = principal.identified
                                      /\ row.current = principal.current
           /\ r.effect \notin {"applied", "lowered", "dropped"} =>
                 /\ row.state = "failed" /\ row.applied = r.item.applied
                 /\ row.identified = principal.identified /\ row.current = principal.current
<1>1. PICK released : released = [principal EXCEPT !.live = FALSE]
  OBVIOUS
<1>2. released = [number |-> principal.number, state |-> principal.state,
                  applied |-> principal.applied, current |-> principal.current,
                  identified |-> principal.identified, holder |-> principal.holder,
                  live |-> FALSE]
  BY <1>1 DEF IsPrincipal
<1>3. CASE r.effect = "applied"
  <2>1. row = [released EXCEPT !.state = "ready", !.identified = TRUE,
                               !.applied = r.item.desired, !.current = TRUE]
    BY <1>1, <1>3 DEF Settled
  <2> QED
    BY <1>2, <1>3, <2>1
<1>4. CASE r.effect = "lowered"
  <2>1. row = [released EXCEPT !.state = "ready", !.identified = TRUE, !.applied = Target(r)]
    BY <1>1, <1>4 DEF Settled
  <2> QED
    BY <1>2, <1>4, <2>1
<1>5. CASE r.effect = "dropped"
  <2>1. row = [released EXCEPT !.state = "dropped", !.applied = "none"]
    BY <1>1, <1>5 DEF Settled
  <2> QED
    BY <1>2, <1>5, <2>1
<1>6. CASE r.effect \notin {"applied", "lowered", "dropped"}
  <2>1. row = [released EXCEPT !.state = "failed", !.applied = r.item.applied]
    BY <1>1, <1>6 DEF Settled
  <2> QED
    BY <1>2, <1>6, <2>1
<1> QED
  BY <1>3, <1>4, <1>5, <1>6

\* An accepted receipt, or one that ends the pass.
LEMMA RestSettle ==
    ASSUME RestTyped, FormInv, NEW d \in Devices, SettleReceipt(d)
    PROVE  RestTyped'
<1> DEFINE device == devices[d]
<1>0. /\ IsDevice(device) /\ DeviceTyped(device) /\ ListedOf(d) /\ ShapeInv /\ WorkerOf(d)
      /\ device.step = "acted" /\ UNCHANGED roles
      /\ IsPrincipal(principal) /\ RowTyped(principal)
  BY DEF RestTyped, FormInv, ShapeInv, ListedInv, SettleReceipt, serverVars
<1>1. CASE ~ReceiptMatches(d)
  <2>1. Moves(d, Resting) /\ UNCHANGED principal
    BY <1>1 DEF SettleReceipt
  <2>2. DeviceTyped(Resting)
    BY RestingTyped
  <2> QED
    BY <1>0, <2>1, <2>2, RestingDevice, RestMoves
<1>2. CASE ReceiptMatches(d)
  <2>1. /\ principal' = Settled(device)
        /\ Moves(d, IF device.task = "revoke" THEN NextEntry(device, device.effect # "failed")
                    ELSE AfterItem(device))
    BY <1>2 DEF SettleReceipt
  <2>2. /\ Claimant(d) /\ device.item.applied = principal.applied
        /\ device.item.identified = principal.identified
    BY <1>0, <1>2, MatchIsClaimant
  <2>3. PICK row : row = principal' /\ row = Settled(device)
    BY <2>1
  <2> DEFINE applied == device.effect = "applied"
             lowered == device.effect = "lowered"
             dropped == device.effect = "dropped"
  <2>4. /\ row.number = principal.number /\ row.holder = principal.holder /\ row.live = FALSE
        /\ row.state \in {"ready", "dropped", "failed"}
        /\ applied => /\ row.state = "ready" /\ row.applied = device.item.desired
                      /\ row.identified = TRUE /\ row.current = TRUE
        /\ lowered => /\ row.state = "ready" /\ row.applied = Target(device)
                      /\ row.identified = TRUE /\ row.current = principal.current
        /\ dropped => /\ row.state = "dropped" /\ row.applied = "none"
                      /\ row.identified = principal.identified
                      /\ row.current = principal.current
        /\ ~applied /\ ~lowered /\ ~dropped =>
              /\ row.state = "failed" /\ row.applied = principal.applied
              /\ row.identified = principal.identified /\ row.current = principal.current
    <3>1. IsPrincipal(principal) /\ row = Settled(device) /\ device.item.applied = principal.applied
      BY <1>0, <2>2, <2>3
    <3> HIDE DEF device
    <3> QED
      BY <3>1, SettledFields
  <2>5. /\ row.number = principal.number /\ row.holder = d
        /\ row.state \in {"ready", "dropped", "failed"}
    BY <2>2, <2>4 DEF Claimant
  <2>6. RowTyped(row)
    <3>1. /\ row.number = principal.number /\ row.holder = principal.holder /\ row.live = FALSE
          /\ row.current \in {TRUE, principal.current}
      BY <2>4
    <3>2. principal.state # "dropped"
      BY <2>2 DEF Claimant
    <3>3. CASE device.effect = "applied"
      <4>1. /\ row.state = "ready" /\ row.applied = device.item.desired /\ row.identified = TRUE
            /\ device.item.desired \in Levels /\ device.item.desired # "none"
        BY <1>0, <2>4, <3>3 DEF DeviceTyped
      <4> QED
        BY <1>0, <3>1, <3>2, <4>1 DEF RowTyped, States
    <3>4. CASE device.effect = "lowered"
      <4>1. /\ row.state = "ready" /\ row.applied = Target(device) /\ row.identified = TRUE
            /\ Target(device) \in Levels /\ Target(device) # "none"
        <5>1. Target(device) \in {"none", "read"} /\ Target(device) # "none"
          BY <1>0, <3>4, TargetTyped DEF DeviceTyped
        <5> QED
          BY <2>4, <3>4, <5>1 DEF Levels
      <4> QED
        BY <1>0, <3>1, <3>2, <4>1 DEF RowTyped, States
    <3>5. CASE device.effect = "dropped"
      <4>1. row.state = "dropped" /\ row.applied = "none" /\ row.identified = principal.identified
        BY <2>4, <3>5
      <4> QED
        BY <1>0, <3>1, <3>2, <4>1 DEF RowTyped, States, Levels
    <3>6. CASE device.effect \notin {"applied", "lowered", "dropped"}
      <4>1. /\ row.state = "failed" /\ row.applied = principal.applied
            /\ row.identified = principal.identified
        BY <2>4, <3>6
      <4> QED
        BY <1>0, <3>1, <3>2, <4>1 DEF RowTyped, States
    <3> QED
      BY <3>3, <3>4, <3>5, <3>6
  <2>7. RowTyped(principal)' /\ RolesTyped'
    BY <1>0, <2>3, <2>5, <2>6 DEF RestTyped, RowTyped, RolesTyped
  <2>8. PICK r : Moves(d, r) /\ IsDevice(r) /\ DeviceTyped(r)
    <3>1. CASE device.task = "revoke"
      <4>1. PICK w : Moves(d, NextEntry(device, w))
        BY <2>1, <3>1
      <4>2. DeviceTyped(NextEntry(device, w))
        BY <1>0, <3>1, TypedNext
      <4> QED
        BY <1>0, <3>1, <4>1, <4>2, NextEntryIs
    <3>2. CASE device.task # "revoke"
      BY <1>0, <2>1, <3>2, Retires, TypedMoves DEF Retired, Aside
    <3> QED
      BY <3>1, <3>2
  <2>9. /\ devices'[d] = r
        /\ \A e \in Devices : e # d => devices'[e] = devices[e]
    BY <1>0, <2>8, DeviceMoves
  <2>10. ASSUME NEW e \in Devices PROVE DeviceTyped(devices[e])' /\ WorkerOf(e)'
    <3>1. CASE e = d
      <4>1. DeviceTyped(r)'
        BY <2>8 DEF DeviceTyped, Target, Entry
      <4> QED
        BY <2>3, <2>5, <2>8, <2>9, <3>1, <4>1 DEF WorkerOf, Working
    <3>2. CASE e # d
      <4>1. devices'[e] = devices[e] /\ DeviceTyped(devices[e]) /\ WorkerOf(e)
        BY <2>9, <3>2 DEF RestTyped
      <4>2. ~Claimant(e)
        BY <2>2, <3>2 DEF Claimant
      <4>3. DeviceTyped(devices[e])'
        BY <4>1 DEF DeviceTyped, Target, Entry
      <4> QED
        BY <2>3, <2>5, <3>2, <4>1, <4>2, <4>3 DEF WorkerOf, Working
    <3> QED
      BY <3>1, <3>2
  <2> QED
    BY <2>7, <2>10 DEF RestTyped
<1> QED
  BY <1>1, <1>2

\* A re-grant.
LEMMA RestRegrant ==
    ASSUME RestTyped, FormInv, NEW d \in Devices, RegrantItem(d)
    PROVE  RestTyped'
<1> DEFINE l == devices[d].listed
<1>0. /\ DeviceTyped(devices[d]) /\ ListedOf(d) /\ ShapeInv
      /\ UNCHANGED principal /\ Moves(d, Resting) /\ MaxPrincipals \in Nat
      /\ principal.number \in 0..MaxPrincipals
  BY BoundsAssumption, RegrantMoves DEF RestTyped, RowTyped, FormInv, ShapeInv, ListedInv, controlVars
<1>1. /\ roles' \in [1..MaxPrincipals -> Roles]
      /\ \A n \in 1..MaxPrincipals : n > principal.number => roles'[n] = Absent
  <2>1. /\ roles' = [n \in 1..MaxPrincipals |-> roles'[n]]
        /\ \A n \in 1..MaxPrincipals :
             roles'[n] = IF n # l \/ roles[n] = Absent THEN roles[n]
                         ELSE Granted(roles[n], devices[d].regrant)
    BY RegrantMoves
  <2>2. ASSUME NEW n \in 1..MaxPrincipals
        PROVE  roles'[n] \in Roles /\ (n > principal.number => roles'[n] = Absent)
    <3>1. roles[n] \in Roles /\ (n > principal.number => roles[n] = Absent)
      BY DEF RestTyped, RolesTyped
    <3>2. \A k \in Levels : Privileges[k] \subseteq {"select", "modify"}
      BY PrivilegeTable DEF Levels
    <3>3. roles[n] # Absent => Granted(roles[n], devices[d].regrant) \in Roles
      BY <1>0, <3>1, <3>2 DEF Granted, Roles, DeviceTyped
    <3> QED
      BY <2>1, <3>1, <3>3
  <2> QED
    BY <2>1, <2>2
<1>2. DeviceTyped(Resting) /\ IsDevice(Resting) /\ Resting.step = "idle"
  BY RestingTyped, RestingDevice
<1>3. /\ devices'[d] = Resting
      /\ \A e \in Devices : e # d => devices'[e] = devices[e]
  BY <1>0, <1>2, DeviceMoves
<1>4. ASSUME NEW e \in Devices PROVE DeviceTyped(devices[e])' /\ WorkerOf(e)'
  <2>1. CASE e = d
    <3>1. DeviceTyped(Resting)'
      BY <1>2 DEF DeviceTyped, Target, Entry
    <3> QED
      BY <1>2, <1>3, <2>1, <3>1 DEF WorkerOf, Working
  <2>2. CASE e # d
    <3>1. devices'[e] = devices[e] /\ DeviceTyped(devices[e]) /\ WorkerOf(e)
      BY <1>3, <2>2 DEF RestTyped
    <3> QED
      BY <1>0, <3>1 DEF DeviceTyped, Target, Entry, WorkerOf, Working, Claimant
  <2> QED
    BY <2>1, <2>2
<1> QED
  BY <1>0, <1>1, <1>4 DEF RestTyped, RowTyped, RolesTyped

\* The types hold initially.
LEMMA InitTyped == Init => TypeInv
<1> SUFFICES ASSUME Init PROVE TypeInv
  OBVIOUS
<1>0. MaxPrincipals \in Nat /\ MaxPrincipals # 0 /\ MaxChanges \in Nat
  BY BoundsAssumption
<1>1. ControlTyped
  <2>1. /\ scenario \in Scenarios /\ changes = 0 /\ grant = "use" /\ gate \in BOOLEAN
        /\ left \in BOOLEAN /\ pending = <<>> /\ submission = "none" /\ strayed \in BOOLEAN
    BY DEF Init
  <2>2. 0 \in 0..MaxChanges /\ "use" \in DOMAIN Level
    BY <1>0, LevelTable
  <2> QED
    BY <2>1, <2>2, GrownItems DEF ControlTyped
<1>2. \A d \in Devices : devices[d] = Resting
  BY DEF Init
<1>3. \A d \in Devices : DeviceTyped(devices[d]) /\ WorkerOf(d)
  BY <1>2, RestingTyped, RestingDevice DEF WorkerOf, Working
<1>4. Absent \in Roles /\ Privileges["write"] \in Roles
  BY PrivilegeTable DEF Roles
<1>5. RowTyped(principal) /\ RolesTyped
  <2>1. CASE principal = NoPrincipal /\ roles = [n \in 1..MaxPrincipals |-> Absent]
    <3>1. RowTyped(principal)
      BY <1>0, <2>1 DEF NoPrincipal, RowTyped, States, Levels
    <3> QED
      BY <1>4, <2>1, <3>1 DEF RolesTyped
  <2>2. CASE /\ principal = [Requested(1) EXCEPT !.state = "ready", !.applied = "write", !.current = TRUE,
                                                 !.identified = TRUE]
             /\ roles = [n \in 1..MaxPrincipals |-> IF n = 1 THEN Privileges["write"] ELSE Absent]
    <3>1. principal = [number |-> 1, state |-> "ready", applied |-> "write", current |-> TRUE,
                       identified |-> TRUE, holder |-> "nobody", live |-> FALSE]
      BY <2>2 DEF Requested, NoPrincipal
    <3>2. RowTyped(principal)
      BY <1>0, <3>1 DEF RowTyped, States, Levels
    <3>3. \A n \in 1..MaxPrincipals : roles[n] = IF n = 1 THEN Privileges["write"] ELSE Absent
      BY <2>2
    <3>4. principal.number = 1
      BY <3>1
    <3>5. \A n \in 1..MaxPrincipals : n > principal.number => roles[n] = Absent
      BY <3>3, <3>4
    <3>6. roles \in [1..MaxPrincipals -> Roles]
      BY <1>4, <2>2
    <3> QED
      BY <3>2, <3>5, <3>6 DEF RolesTyped
  <2> QED
    BY <2>1, <2>2 DEF Init
<1> QED
  BY <1>1, <1>3, <1>5 DEF TypeInv

\* Every step keeps the types.
LEMMA NextTyped == FormInv /\ TypeInv /\ [Next]_vars => TypeInv'
<1> SUFFICES ASSUME FormInv, TypeInv, [Next]_vars PROVE TypeInv'
  OBVIOUS
<1>0. RestTyped /\ ControlTyped /\ ControlTyped'
  BY ControlStays DEF TypeInv, RestTyped
<1>1. ASSUME ControlPlane, UNCHANGED <<serverVars, devices>> PROVE RestTyped'
  <2>0. UNCHANGED <<roles, devices>>
    BY <1>1 DEF serverVars
  <2>1. CASE SubmitVerifier
    BY <1>0, <2>0, <2>1, RestRow
  <2>2. CASE ~SubmitVerifier
    BY <1>0, <1>1, <2>0, <2>2, ControlSame, RestStays
  <2> QED
    BY <2>1, <2>2
<1>2. ASSUME LeaseExpires PROVE RestTyped'
  BY <1>0, <1>2, RestRow DEF LeaseExpires
<1>3. ASSUME NEW d \in Devices, Work(d) PROVE RestTyped'
  <2>1. CASE Execute(d)
    <3>1. devices[d].step = "holding" /\ UNCHANGED principal
      BY <2>1 DEF Execute, controlVars
    <3>2. PICK outcome : outcome = Plan(devices[d], roles[devices[d].listed]) /\ Ran(d, outcome)
      BY <2>1 DEF Execute
    <3>3. roles[devices[d].listed] \in Roles /\ DeviceTyped(devices[d])
      BY <1>0, <3>1, BoundsAssumption DEF RestTyped, RolesTyped, RowTyped, FormInv, ListedInv, ListedOf
    <3> QED
      BY <1>0, <3>1, <3>2, <3>3, PlanTyped, RestRan
  <2> QED
    BY <1>0, <1>3, <2>1, RestClaim, RestSettle, RestRegrant, RestAround DEF Work
<1>4. ASSUME NEW d \in Devices, ExecuteRefused(d) PROVE RestTyped'
  <2>1. PICK outcome \in Refused(devices[d], roles[devices[d].listed]) :
           Ran(d, outcome) /\ devices[d].step = "holding" /\ UNCHANGED principal
    BY <1>4 DEF ExecuteRefused
  <2>2. roles[devices[d].listed] \in Roles /\ DeviceTyped(devices[d])
    BY <1>0, <2>1, BoundsAssumption DEF RestTyped, RolesTyped, RowTyped, FormInv, ListedInv, ListedOf
  <2> QED
    BY <1>0, <2>1, <2>2, RefusedTyped, RestRan
<1>5. ASSUME NEW d \in Devices,
             Crash(d) \/ \E item \in {LowerGrant, RemoveGrant} : RevokeApply(d, item)
      PROVE  RestTyped'
  BY <1>0, <1>5, RestAround
<1>6. ASSUME UNCHANGED vars PROVE RestTyped'
  BY <1>0, <1>6, RestStays DEF vars, controlVars, serverVars
<1>7. RestTyped'
  BY <1>1, <1>2, <1>3, <1>4, <1>5, <1>6, <1>0 DEF Next
<1> QED
  BY <1>0, <1>7 DEF TypeInv, RestTyped

\* Every row stays one the tables accept, no item is pending twice, and a device
\* that acts has an account to act on, through crashes, refusals and lapsed leases
\* too.
THEOREM DirectTypesCorrect == Spec => []TypeOK
<1> QED
  BY InitForm, NextForm, InitTyped, NextTyped, TypeInvTypes, PTL DEF Spec

-----------------------------------------------------------------------------
(***************************************************************************)
(* What the records say of the roles while no gain has strayed.            *)
(***************************************************************************)
Within(role, level) == role = Absent \/ role \subseteq Privileges[level]

\* Device d has raised the role under its live claim and is about to say so.
Raising(d) == Unreported(d) /\ HoldsToApply(d)

\* Device d has acted and its receipt would be accepted.
Reporting(d) == devices[d].step = "acted" /\ ReceiptMatches(d)

GoneInv ==
    \A n \in 1..MaxPrincipals :
        n < principal.number \/ (n = principal.number /\ ~Live) => roles[n] = Absent

CoverInv ==
    Live => \/ Within(roles[principal.number], principal.applied)
            \/ \E d \in Devices : Raising(d)

\* What a report says of the role is so, however late it comes.
ReportOf(d) ==
    Reporting(d) =>
        /\ devices[d].effect = "dropped" => roles[principal.number] = Absent
        /\ devices[d].effect = "applied" =>
              Within(roles[principal.number], devices[d].item.desired)
        /\ devices[d].effect = "lowered" =>
              /\ Within(roles[principal.number], Target(devices[d]))
              /\ Rank[Target(devices[d])] <= Rank[principal.applied]

\* A level reported without a live claim is not above the recorded one.
LateOf(d) ==
    Reporting(d) /\ devices[d].effect = "applied" =>
        principal.live \/ Rank[devices[d].item.desired] <= Rank[principal.applied]

\* Neither the recorded level nor the one a live claim raises is above the grant.
GrantInv == ~left => Rank[principal.applied] <= Rank[Level[grant]]

RaiseOf(d) ==
    ~left /\ Working(d) /\ devices[d].task = "apply" /\ HoldsToApply(d) =>
        Rank[devices[d].item.desired] <= Rank[Level[grant]]

RecordInv ==
    /\ GoneInv /\ CoverInv /\ GrantInv
    /\ \A d \in Devices : ReportOf(d) /\ LateOf(d) /\ RaiseOf(d)

\* Levels compare by their rank.
LEMMA RankTable ==
    /\ \A k \in Levels : Rank[k] \in {0, 1, 2} /\ (Rank[k] = 0 <=> k = "none")
    /\ \A g \in DOMAIN Level : Level[g] \in Levels
BY LevelTable DEF Levels

\* A higher level holds the privileges of a lower one.
LEMMA PrivilegesGrow ==
    ASSUME NEW j \in Levels, NEW k \in Levels, Rank[j] <= Rank[k]
    PROVE  Privileges[j] \subseteq Privileges[k]
BY LevelTable, PrivilegeTable DEF Levels

\* The level asked for is never above the grant.
LEMMA DesiredWithin ==
    ASSUME ControlTyped, ~left
    PROVE  Desired \in Levels /\ Rank[Desired] <= Rank[Level[grant]]
<1>1. Level[grant] \in Levels /\ Rank["none"] = 0 /\ Rank["read"] = 1 /\ Rank["write"] = 2
  BY LevelTable, RankTable DEF ControlTyped
<1>2. ASSUME NEW k \in Levels PROVE Capped(k) \in Levels /\ Rank[Capped(k)] <= Rank[k]
  BY <1>1, RankTable DEF Capped, Levels
<1>3. CASE gate
  BY <1>1, <1>2, <1>3, RankTable DEF Desired, Levels
<1>4. CASE ~gate
  BY <1>1, <1>2, <1>4 DEF Desired
<1> QED
  BY <1>3, <1>4

\* A role that gains nothing loses something or stays as it is.
Shrinks(before, after) == after = Absent \/ (before # Absent /\ after \subseteq before)

\* A role that gains nothing shrinks, unless it is created.
LEMMA NoGainShrinks ==
    ASSUME NEW before \in Roles, NEW after \in Roles, ~Gains(before, after),
           before = Absent => after = Absent
    PROVE  Shrinks(before, after)
<1>1. CASE before = Absent \/ after = Absent
  BY <1>1 DEF Shrinks
<1>2. CASE before # Absent /\ after # Absent
  <2>1. after \subseteq {"select", "modify"}
    BY <1>2 DEF Roles
  <2> QED
    BY <1>2, <2>1 DEF Shrinks, Gains, Absent
<1> QED
  BY <1>1, <1>2

\* A role that shrinks stays within every level it was within.
LEMMA ShrinksWithin ==
    ASSUME NEW before, NEW after, Shrinks(before, after)
    PROVE  /\ before = Absent => after = Absent
           /\ \A k : Within(before, k) => Within(after, k)
BY DEF Shrinks, Within

\* A role that a plan creates can be used.
LEMMA PlanBirth ==
    ASSUME NEW r, DeviceTyped(r), Plan(r, Absent).role # Absent
    PROVE  "select" \in Plan(r, Absent).role
<1>1. CASE r.task # "apply"
  <2>1. \/ Plan(r, Absent) = Dropped(r.item, Absent)
        \/ Plan(r, Absent) = Lowered(r.item, Absent, Target(r))
    BY <1>1 DEF Plan
  <2>2. Dropped(r.item, Absent).role = Absent
    BY DEF Dropped, Outcome
  <2>3. \A t : Lowered(r.item, Absent, t).role = Absent
    BY DEF Lowered, Outcome, Provable
  <2> QED
    BY <2>1, <2>2, <2>3
<1>2. CASE r.task = "apply"
  <2>1. Plan(r, Absent) = Applied(r.item, Absent)
    BY <1>2 DEF Plan
  <2>2. \/ Applied(r.item, Absent).role = Absent
        \/ /\ r.item.desired # "none"
           /\ Applied(r.item, Absent).role = Granted(Absent \ Absent, r.item.desired)
    BY DEF Applied, Outcome, Provable
  <2>3. \A k \in Levels : k # "none" => "select" \in Privileges[k]
    BY PrivilegeTable DEF Levels
  <2> QED
    BY <2>1, <2>2, <2>3 DEF Granted, DeviceTyped
<1> QED
  BY <1>1, <1>2

\* What ran, whether its answer arrived or not, shrinks the role or is a gain.
LEMMA RunShrinks ==
    ASSUME NEW r, DeviceTyped(r), r.step = "holding", NEW role \in Roles, NEW outcome,
           outcome = Plan(r, role) \/ outcome \in Refused(r, role),
           ~Gains(role, outcome.role)
    PROVE  Shrinks(role, outcome.role)
<1>1. outcome.role \in Roles
  BY PlanTyped, RefusedTyped
<1>2. ASSUME role = Absent, outcome.role # Absent PROVE FALSE
  <2>1. \/ outcome = Plan(r, role)
        \/ outcome = Outcome(role, "failed")
        \/ outcome = Outcome(Plan(r, role).role, "failed")
    BY <1>2 DEF Refused, Provable
  <2>2. outcome.role = Plan(r, Absent).role
    BY <1>2, <2>1 DEF Outcome
  <2>3. "select" \in outcome.role
    BY <1>2, <2>2, PlanBirth
  <2> QED
    BY <1>2, <2>3 DEF Gains, Absent
<1> QED
  BY <1>1, <1>2, NoGainShrinks

\* What a plan reports of a role the record covers.
LEMMA PlanSays ==
    ASSUME NEW r, DeviceTyped(r), r.step = "holding", NEW role \in Roles,
           Within(role, r.item.applied)
    PROVE  /\ Plan(r, role).effect = "dropped" => Plan(r, role).role = Absent
           /\ Plan(r, role).effect = "applied" =>
                 /\ Within(Plan(r, role).role, r.item.desired)
                 /\ \/ Gains(role, Plan(r, role).role)
                    \/ Rank[r.item.desired] <= Rank[r.item.applied]
           /\ Plan(r, role).effect = "lowered" =>
                 /\ Within(Plan(r, role).role, Target(r))
                 /\ Rank[Target(r)] <= Rank[r.item.applied]
<1> DEFINE from == r.item.applied
           to == r.item.desired
<1>0. /\ from \in Levels /\ to \in Levels /\ Target(r) \in Levels
      /\ \A k \in Levels : Rank[k] \in {0, 1, 2}
  BY TargetTyped, RankTable DEF DeviceTyped, Levels
<1>1. ASSUME NEW j \in Levels, NEW k \in Levels, role \subseteq Privileges[j]
      PROVE  /\ Changed(role, j, k) \subseteq Privileges[k]
             /\ Rank[k] > Rank[j] /\ role # Absent => Gains(role, Changed(role, j, k))
  <2>1. Changed(role, j, k) \subseteq Privileges[k]
    BY <1>1 DEF Changed
  <2>2. ASSUME Rank[k] > Rank[j] PROVE Gains(role, Changed(role, j, k))
    <3>1. \E x \in {"select", "modify"} : x \in Privileges[k] /\ x \notin Privileges[j]
      BY <2>2, LevelTable, PrivilegeTable DEF Levels
    <3>2. PICK x \in {"select", "modify"} : x \in Privileges[k] /\ x \notin Privileges[j]
      BY <3>1
    <3>3. x \in Changed(role, j, k) /\ x \notin role /\ x \notin Absent
      BY <1>1, <3>2 DEF Changed, Absent
    <3> QED
      BY <3>3 DEF Gains
  <2> QED
    BY <2>1, <2>2
<1>2. CASE r.task = "apply"
  <2>1. Plan(r, role) = Applied(r.item, role)
    BY <1>2 DEF Plan
  <2>2. CASE to = "none" \/ (from = "none" /\ r.item.state # "applying")
                \/ (from # "none" /\ ~Provable(r.item, role))
    BY <2>1, <2>2 DEF Applied, Outcome
  <2>3. CASE to # "none" /\ from = "none" /\ r.item.state = "applying"
    <3>1. Plan(r, role) = Outcome(Granted(role \ Absent, to), "applied")
      BY <2>1, <2>3 DEF Applied
    <3>2. /\ Plan(r, role).role = Granted(role \ Absent, to)
          /\ Plan(r, role).effect = "applied"
      BY <3>1 DEF Outcome
    <3>3. role \ Absent = {}
      BY <2>3, PrivilegeTable DEF Within
    <3>4. Plan(r, role).role = Privileges[to]
      BY <3>2, <3>3 DEF Granted
    <3>5. "select" \in Privileges[to] /\ "select" \notin role
      BY <1>0, <2>3, PrivilegeTable DEF Levels, Within
    <3>6. Gains(role, Plan(r, role).role)
      BY <3>4, <3>5 DEF Gains, Absent
    <3> QED
      BY <3>2, <3>4, <3>6 DEF Within
  <2>4. CASE to # "none" /\ from # "none" /\ Provable(r.item, role)
    <3>1. role \subseteq Privileges[from] /\ role # Absent
      BY <2>4 DEF Within, Provable
    <3>2. CASE from = to
      <4>1. Plan(r, role) = Outcome(Granted(role, to), "applied")
        BY <2>1, <2>4, <3>2 DEF Applied
      <4>2. /\ Plan(r, role).role = Granted(role, to)
            /\ Plan(r, role).effect = "applied"
        BY <4>1 DEF Outcome
      <4>3. Granted(role, to) \subseteq Privileges[to]
        BY <3>1, <3>2 DEF Granted
      <4> QED
        BY <1>0, <3>2, <4>2, <4>3 DEF Within
    <3>3. CASE from # to
      <4>1. Plan(r, role) = Outcome(Changed(role, from, to), "applied")
        BY <2>1, <2>4, <3>3 DEF Applied
      <4>2. /\ Plan(r, role).role = Changed(role, from, to)
            /\ Plan(r, role).effect = "applied"
        BY <4>1 DEF Outcome
      <4>3. /\ Changed(role, from, to) \subseteq Privileges[to]
            /\ Rank[to] > Rank[from] => Gains(role, Changed(role, from, to))
        BY <1>0, <1>1, <3>1
      <4>4. Rank[to] > Rank[from] \/ Rank[to] <= Rank[from]
        BY <1>0
      <4> QED
        BY <4>2, <4>3, <4>4 DEF Within
    <3> QED
      BY <3>2, <3>3
  <2> QED
    BY <2>2, <2>3, <2>4
<1>3. CASE r.task # "apply" /\ Target(r) = "none"
  <2>1. Plan(r, role) = Dropped(r.item, role)
    BY <1>3 DEF Plan
  <2>2. /\ Dropped(r.item, role).effect \in {"dropped", "failed"}
        /\ Dropped(r.item, role).effect = "dropped" => Dropped(r.item, role).role = Absent
    BY DEF Dropped, Outcome
  <2> QED
    BY <2>1, <2>2
<1>4. CASE r.task # "apply" /\ Target(r) # "none"
  <2>1. Plan(r, role) = Lowered(r.item, role, Target(r))
    BY <1>4 DEF Plan
  <2>2. CASE Rank[from] <= Rank[Target(r)] \/ ~Provable(r.item, role)
    BY <2>1, <2>2 DEF Lowered, Outcome
  <2>3. CASE ~(Rank[from] <= Rank[Target(r)]) /\ Provable(r.item, role)
    <3>1. Plan(r, role) = Outcome(Changed(role, from, Target(r)), "lowered")
      BY <2>1, <2>3 DEF Lowered
    <3>2. /\ Plan(r, role).role = Changed(role, from, Target(r))
          /\ Plan(r, role).effect = "lowered"
      BY <3>1 DEF Outcome
    <3>3. role \subseteq Privileges[from]
      BY <2>3 DEF Within, Provable
    <3>4. Changed(role, from, Target(r)) \subseteq Privileges[Target(r)]
      BY <1>0, <1>1, <3>3
    <3>5. Rank[Target(r)] <= Rank[from]
      BY <1>0, <2>3
    <3> QED
      BY <3>2, <3>4, <3>5 DEF Within
  <2> QED
    BY <2>2, <2>3
<1> QED
  BY <1>2, <1>3, <1>4

-----------------------------------------------------------------------------
(***************************************************************************)
(* Every step that does not stray keeps the records.                       *)
(***************************************************************************)
\* A device that raises the role is the one whose report is awaited.
LEMMA RaisingReports ==
    ASSUME NEW d, Raising(d)
    PROVE  /\ Reporting(d) /\ devices[d].effect = "applied" /\ devices[d].step = "acted"
           /\ principal.holder = d /\ principal.live /\ principal.state = "applying"
           /\ HoldsToApply(d) /\ principal.number = devices[d].listed
<1>1. ReceiptFrom(devices[d]) = "applying"
  BY DEF Raising, Unreported, ReceiptFrom
<1> QED
  BY <1>1 DEF Raising, Unreported, HoldsToApply, Reporting, ReceiptMatches

\* A report is awaited of the holder, on the account it works on.
LEMMA ReportsAsHolder ==
    ASSUME NEW d, Reporting(d)
    PROVE  /\ principal.holder = d /\ principal.number = devices[d].listed
           /\ principal.state \in {"applying", "drop_pending"} /\ devices[d].step = "acted"
BY DEF Reporting, ReceiptMatches, ReceiptFrom

\* A device and the row of its account as before leave what is said of it.
LEMMA SameReport ==
    ASSUME NEW d, devices'[d] = devices[d], UNCHANGED principal
    PROVE  /\ Reporting(d)' <=> Reporting(d)
           /\ Raising(d)' <=> Raising(d)
           /\ HoldsToApply(d)' <=> HoldsToApply(d)
           /\ Working(d)' <=> Working(d)
           /\ Target(devices[d])' = Target(devices[d])
<1>1. /\ Target(devices[d])' = Target(devices[d])
      /\ ReceiptFrom(devices[d])' = ReceiptFrom(devices[d])
  BY DEF Target, Entry, ReceiptFrom
<1> QED
  BY <1>1 DEF Reporting, ReceiptMatches, Raising, Unreported, HoldsToApply, Working

\* The member leaves, the grant is raised, or it is lowered past the guard.
GrantStep ==
    \/ left'
    \/ /\ ~left
       /\ \/ Rank[Level[grant]] <= Rank[Level[grant']]
          \/ /\ Rank[principal.applied] <= Rank[Level[grant']]
             /\ ~(principal.state = "applying" /\ principal.live)

\* A step that leaves the grant and the membership alone.
LEMMA SameGrant ==
    ASSUME ControlTyped, UNCHANGED <<grant, left>>
    PROVE  GrantStep
<1>1. Rank[Level[grant]] \in {0, 1, 2}
  BY RankTable DEF ControlTyped
<1> QED
  BY <1>1 DEF GrantStep, ControlTyped

\* A step that leaves the row and the roles alone: no device that raises the role
\* turns away, and none begins to work.
LEMMA CalmRecord ==
    ASSUME RecordInv, TypeInv, ControlTyped', UNCHANGED <<principal, roles>>, GrantStep,
           \A e \in Devices : \/ devices'[e] = devices[e]
                              \/ devices'[e].step \notin {"holding", "acted"} /\ ~Raising(e)
    PROVE  RecordInv'
<1>0. /\ Rank[Level[grant]] \in {0, 1, 2} /\ Rank[Level[grant']] \in {0, 1, 2}
      /\ Rank[principal.applied] \in {0, 1, 2}
      /\ \A d \in Devices : Rank[devices[d].item.desired] \in {0, 1, 2}
  BY RankTable DEF TypeInv, ControlTyped, RowTyped, DeviceTyped
<1>1. GoneInv'
  BY DEF RecordInv, GoneInv, Live
<1>2. CoverInv'
  <2>1. \A e \in Devices : Raising(e) => Raising(e)'
    BY SameReport
  <2> QED
    BY <2>1 DEF RecordInv, CoverInv, Live, Within
<1>3. GrantInv'
  BY <1>0 DEF RecordInv, GrantInv, GrantStep
<1>4. ASSUME NEW d \in Devices PROVE ReportOf(d)' /\ LateOf(d)' /\ RaiseOf(d)'
  <2>1. CASE devices'[d] = devices[d]
    <3>1. ReportOf(d) /\ LateOf(d) /\ RaiseOf(d)
      BY DEF RecordInv
    <3>2. ReportOf(d)' /\ LateOf(d)'
      BY <2>1, <3>1, SameReport DEF ReportOf, LateOf, Within
    <3>3. RaiseOf(d)'
      <4>1. SUFFICES ASSUME ~left', Working(d), devices[d].task = "apply", HoldsToApply(d)
                     PROVE  Rank[devices[d].item.desired] <= Rank[Level[grant']]
        BY <2>1, SameReport DEF RaiseOf
      <4>2. ~left /\ Rank[Level[grant]] <= Rank[Level[grant']]
        BY <4>1 DEF GrantStep, HoldsToApply
      <4> QED
        BY <1>0, <3>1, <4>1, <4>2 DEF RaiseOf
    <3> QED
      BY <3>2, <3>3
  <2>2. CASE devices'[d].step \notin {"holding", "acted"}
    BY <2>2 DEF ReportOf, LateOf, RaiseOf, Reporting, Working
  <2> QED
    BY <2>1, <2>2
<1> QED
  BY <1>1, <1>2, <1>3, <1>4 DEF RecordInv

\* The lowering guard: past it, no level is above the one asked for.
LEMMA Unblocked ==
    ASSUME TypeInv, NEW k \in Levels, ~LoweringBlocked(k)
    PROVE  /\ Rank[principal.applied] <= Rank[k]
           /\ ~(principal.state = "applying" /\ principal.live)
<1>1. Rank[principal.applied] \in {0, 1, 2} /\ Rank[k] \in {0, 1, 2}
  BY RankTable DEF TypeInv, RowTyped
<1>2. CASE Live
  BY <1>1, <1>2 DEF LoweringBlocked
<1>3. CASE ~Live
  <2>1. principal.state = "dropped" /\ principal.applied = "none"
    BY <1>3 DEF Live, TypeInv, RowTyped
  <2> QED
    BY <1>1, <2>1, LevelTable
<1> QED
  BY <1>2, <1>3

\* The grant changes with the member's departure, upwards, or past the guard.
LEMMA ControlGrants ==
    ASSUME TypeInv,
           \/ ControlPlane
           \/ \E d \in Devices : CommitLower(d) \/ CommitRemoval(d)
    PROVE  GrantStep
<1>0. grant' = grant /\ left' = left => GrantStep
  BY SameGrant DEF TypeInv
<1>1. ASSUME CanLowerGrant, grant' = "read" PROVE GrantStep
  <2>1. ~left /\ Level[grant'] = "read" /\ "read" \in Levels
    BY <1>1, LevelTable DEF CanLowerGrant, Levels
  <2> QED
    BY <1>1, <2>1, Unblocked DEF CanLowerGrant, GrantStep
<1>2. CASE CheckSubmission \/ SubmitVerifier
  BY <1>0, <1>2 DEF CheckSubmission, SubmitVerifier
<1>3. CASE SelfLeave
  BY <1>3 DEF SelfLeave, GrantStep
<1>4. CASE \E capability \in {"read", "use"} : IncreaseConnectionGrant(capability)
  BY <1>4 DEF IncreaseConnectionGrant, GrantStep
<1>5. CASE LowerConnectionGrant
  BY <1>1, <1>5 DEF LowerConnectionGrant
<1>6. CASE \/ \E item \in {LowerGrant, RemoveGrant} : DeferRevocation(item)
           \/ \E item \in {LowerGrant, RemoveGrant, SelfLeft} : CancelRevocation(item)
  BY <1>0, <1>6 DEF DeferRevocation, CancelRevocation
<1>7. CASE \E d \in Devices : CommitLower(d)
  BY <1>0, <1>1, <1>7 DEF CommitLower
<1>8. CASE \E d \in Devices : CommitRemoval(d)
  <2>1. CASE grant' = grant
    BY <1>0, <1>8, <2>1 DEF CommitRemoval
  <2>2. CASE grant' # grant
    <3>1. ~left /\ ~LoweringBlocked("none") /\ grant' = "absent"
      BY <1>8, <2>2 DEF CommitRemoval
    <3>2. Level[grant'] = "none" /\ "none" \in Levels
      BY <3>1, LevelTable DEF Levels
    <3> QED
      BY <3>1, <3>2, Unblocked DEF GrantStep
  <2> QED
    BY <2>1, <2>2
<1> QED
  BY <1>2, <1>3, <1>4, <1>5, <1>6, <1>7, <1>8 DEF ControlPlane

\* A device that lists, derives, commits, rests or crashes before it has raised a
\* role.
LEMMA AroundRecord ==
    ASSUME RecordInv, TypeInv, FormInv, ControlTyped', ~strayed', NEW d \in Devices,
           \/ SyncOnce(d) \/ Prepare(d) \/ NothingToChange(d) \/ SettleLeave(d) \/ Derive(d)
           \/ CommitLower(d) \/ OpenGate(d) \/ CommitRemoval(d) \/ ClearGate(d) \/ Crash(d)
           \/ \E item \in {LowerGrant, RemoveGrant} : RevokeApply(d, item)
    PROVE  RecordInv'
<1>1. UNCHANGED <<principal, roles>>
  BY AroundSame, Zenon
<1>2. GrantStep
  <2>1. CASE CommitLower(d) \/ CommitRemoval(d)
    BY <2>1, ControlGrants
  <2>2. CASE ~(CommitLower(d) \/ CommitRemoval(d))
    <3>1. UNCHANGED <<grant, left>>
      BY <2>2, ZenonT(30) DEF SyncOnce, Prepare, NothingToChange, SettleLeave, Derive, OpenGate, ClearGate,
         Crash, RevokeApply, controlVars
    <3> QED
      BY <3>1, SameGrant DEF TypeInv
  <2> QED
    BY <2>1, <2>2
<1>3. ~Raising(d)
  <2>1. CASE Crash(d)
    <3>1. ~Unreported(d)
      BY <2>1, Zenon DEF Crash
    <3> QED
      BY <3>1 DEF Raising
  <2>2. CASE ~Crash(d)
    <3>1. devices[d].step # "acted"
      BY <2>2, ZenonT(30) DEF SyncOnce, Prepare, NothingToChange, SettleLeave, Derive, CommitLower, OpenGate,
         CommitRemoval, ClearGate, RevokeApply, Changing
    <3> QED
      BY <3>1 DEF Raising, Unreported
  <2> QED
    BY <2>1, <2>2
<1>4. PICK r : Moves(d, r) /\ IsDevice(r) /\ r.step \notin {"holding", "acted"}
  <2>0. IsDevice(devices[d]) /\ IsDevice(Resting) /\ Resting.step = "idle"
    BY RestingDevice DEF FormInv, ShapeInv
  <2>1. CASE SyncOnce(d)
    <3>1. PICK w, begun :
             /\ begun = [Resting EXCEPT !.listed = Listed, !.entries = pending, !.regrant = w]
             /\ \/ Moves(d, [begun EXCEPT !.step = "listed", !.task = WorkAction])
                \/ Moves(d, AfterItem(begun))
      BY <2>1, Zenon DEF SyncOnce
    <3>2. IsDevice(begun)
      BY <3>1 DEF Resting, IsDevice
    <3>3. CASE Moves(d, AfterItem(begun))
      BY <3>2, <3>3, Retires DEF Retired, Aside
    <3>4. CASE Moves(d, [begun EXCEPT !.step = "listed", !.task = WorkAction])
      <4>1. PICK r : r = [begun EXCEPT !.step = "listed", !.task = WorkAction]
        OBVIOUS
      <4>2. IsDevice(r) /\ r.step = "listed"
        BY <3>2, <4>1 DEF IsDevice
      <4> QED
        BY <3>4, <4>1, <4>2
    <3> QED
      BY <3>1, <3>3, <3>4, Zenon
  <2>2. CASE \E item \in {LowerGrant, RemoveGrant} : RevokeApply(d, item)
    <3>1. PICK r, item : /\ Moves(d, r)
                         /\ r = [Resting EXCEPT !.step = "recorded", !.entries = <<item>>,
                                                !.listed = Listed]
      BY <2>2 DEF RevokeApply
    <3>2. IsDevice(r) /\ r.step = "recorded"
      BY <3>1 DEF Resting, IsDevice
    <3> QED
      BY <3>1, <3>2
  <2>3. CASE Prepare(d)
    <3>1. PICK r, n : /\ Moves(d, r)
                      /\ r = [devices[d] EXCEPT !.step = "listed", !.task = "revoke", !.listed = n]
      BY <2>3 DEF Prepare
    <3>2. IsDevice(r) /\ r.step = "listed"
      BY <2>0, <3>1 DEF IsDevice
    <3> QED
      BY <3>1, <3>2
  <2>4. CASE Moves(d, Resting)
    BY <2>0, <2>4
  <2>5. CASE Moves(d, Done(devices[d])) \/ Moves(d, Finish(devices[d])) \/ Moves(d, NotClaimed(devices[d]))
    BY <2>0, <2>5, Retires DEF Retired, Aside
  <2>6. ASSUME NEW s \in {"removing", "clearing"}, Moves(d, [devices[d] EXCEPT !.step = s])
        PROVE  \E r : Moves(d, r) /\ IsDevice(r) /\ r.step \notin {"holding", "acted"}
    <3>1. PICK r : r = [devices[d] EXCEPT !.step = s]
      OBVIOUS
    <3>2. IsDevice(r) /\ r.step = s
      BY <2>0, <3>1 DEF IsDevice
    <3> QED
      BY <2>6, <3>1, <3>2
  <2>7. CASE Derive(d)
    <3>1. CASE ~(Moves(d, Finish(devices[d])) \/ Moves(d, NotClaimed(devices[d])))
      <4>1. PICK r, t : Moves(d, r) /\ r = [devices[d] EXCEPT !.step = "derived", !.to = t]
        BY <2>7, <3>1 DEF Derive
      <4>2. IsDevice(r) /\ r.step = "derived"
        BY <2>0, <4>1 DEF IsDevice
      <4> QED
        BY <4>1, <4>2
    <3> QED
      BY <2>5, <3>1
  <2>8. CASE OpenGate(d) \/ CommitRemoval(d) \/ ClearGate(d)
    BY <2>5, <2>6, <2>8 DEF OpenGate, CommitRemoval, ClearGate
  <2> QED
    BY <2>1, <2>2, <2>3, <2>4, <2>5, <2>7, <2>8 DEF NothingToChange, SettleLeave, CommitLower, Crash
<1>5. /\ devices'[d] = r
      /\ \A e \in Devices : e # d => devices'[e] = devices[e]
  BY <1>4, DeviceMoves DEF FormInv
<1> QED
  BY <1>1, <1>2, <1>3, <1>4, <1>5, CalmRecord

\* A fresh row has no role yet; a renewed one keeps its level.
LEMMA SubmitRecord ==
    ASSUME RecordInv, TypeInv, FormInv, ControlTyped', SubmitVerifier, UNCHANGED <<roles, devices>>
    PROVE  RecordInv'
<1>0. /\ IsPrincipal(principal) /\ principal.number \in 0..MaxPrincipals /\ MaxPrincipals \in Nat
      /\ UNCHANGED <<grant, left>> /\ Rank["none"] = 0 /\ Rank[Level[grant]] \in {0, 1, 2}
  BY BoundsAssumption, LevelTable, RankTable DEF FormInv, ShapeInv, IsPrincipal, SubmitVerifier,
     TypeInv, ControlTyped
<1>1. CASE principal' = principal
  BY <1>0, <1>1, CalmRecord, SameGrant DEF TypeInv
<1>2. ASSUME principal'.state = "requested", NEW d \in Devices
      PROVE  ReportOf(d)' /\ LateOf(d)' /\ RaiseOf(d)'
  BY <1>2, ReportsAsHolder DEF ReportOf, LateOf, RaiseOf, HoldsToApply, Reporting, ReceiptMatches, ReceiptFrom
<1>3. CASE ~Live /\ principal' # principal
  <2>1. principal' = Requested(principal.number + 1) /\ principal.number < MaxPrincipals
    BY <1>3 DEF SubmitVerifier, Live
  <2>2. principal' = [number |-> principal.number + 1, state |-> "requested",
                      applied |-> "none", current |-> FALSE, identified |-> FALSE,
                      holder |-> "nobody", live |-> FALSE]
    BY <2>1 DEF Requested, NoPrincipal
  <2>3. principal'.number = principal.number + 1 /\ principal'.state = "requested"
        /\ principal'.applied = "none"
    BY <2>2
  <2>4. GoneInv'
    BY <1>0, <1>3, <2>3 DEF RecordInv, GoneInv, Live
  <2>5. CoverInv'
    <3>1. principal'.number \in 1..MaxPrincipals /\ principal'.number > principal.number
      BY <1>0, <2>1, <2>3
    <3>2. roles'[principal'.number] = Absent
      BY <3>1 DEF TypeInv, RolesTyped
    <3> QED
      BY <3>2 DEF CoverInv, Within
  <2>6. GrantInv'
    BY <1>0, <2>3 DEF GrantInv
  <2> QED
    BY <1>2, <2>3, <2>4, <2>5, <2>6 DEF RecordInv
<1>4. CASE Live /\ principal' # principal
  <2>1. /\ principal.state \in {"requested", "ready", "failed"}
        /\ principal' = [principal EXCEPT !.state = "requested", !.current = FALSE]
    BY <1>4 DEF SubmitVerifier, Live
  <2>2. /\ principal'.number = principal.number /\ principal'.state = "requested"
        /\ principal'.applied = principal.applied
    BY <1>0, <2>1 DEF IsPrincipal
  <2>3. GoneInv'
    BY <1>4, <2>2 DEF RecordInv, GoneInv, Live
  <2>4. CoverInv'
    <3>1. \A e \in Devices : ~Raising(e)
      BY <2>1, RaisingReports
    <3> QED
      BY <1>4, <2>2, <3>1 DEF RecordInv, CoverInv, Within
  <2>5. GrantInv'
    BY <1>0, <2>2 DEF RecordInv, GrantInv
  <2> QED
    BY <1>2, <2>2, <2>3, <2>4, <2>5 DEF RecordInv
<1> QED
  BY <1>1, <1>3, <1>4

\* A lease that runs out before its holder has raised the role.
LEMMA LeaseRecord ==
    ASSUME RecordInv, TypeInv, FormInv, LeaseExpires, ~strayed'
    PROVE  RecordInv'
<1>0. /\ IsPrincipal(principal) /\ UNCHANGED <<grant, left, roles, devices>>
      /\ principal' = [principal EXCEPT !.live = FALSE]
      /\ ~Unreported(principal.holder)
  <2>1. /\ UNCHANGED <<grant, left, roles, devices>> /\ principal' = [principal EXCEPT !.live = FALSE]
        /\ ~Unreported(principal.holder)
    BY Zenon DEF LeaseExpires
  <2> QED
    BY <2>1 DEF FormInv, ShapeInv
<1>1. /\ principal'.number = principal.number /\ principal'.state = principal.state
      /\ principal'.applied = principal.applied /\ principal'.holder = principal.holder
      /\ principal'.live = FALSE
  BY <1>0 DEF IsPrincipal
<1>2. \A e \in Devices : ~Raising(e)
  BY <1>0, RaisingReports DEF Raising
<1>3. GoneInv' /\ GrantInv'
  BY <1>0, <1>1 DEF RecordInv, GoneInv, GrantInv, Live
<1>4. CoverInv'
  BY <1>0, <1>1, <1>2 DEF RecordInv, CoverInv, Within, Live
<1>5. ASSUME NEW d \in Devices PROVE ReportOf(d)' /\ LateOf(d)' /\ RaiseOf(d)'
  <2>1. /\ Target(devices[d])' = Target(devices[d])
        /\ ReceiptFrom(devices[d])' = ReceiptFrom(devices[d])
    BY <1>0 DEF Target, Entry, ReceiptFrom
  <2>2. Reporting(d)' <=> Reporting(d)
    BY <1>0, <1>1, <2>1 DEF Reporting, ReceiptMatches
  <2>3. ReportOf(d)'
    BY <1>0, <1>1, <2>1, <2>2 DEF RecordInv, ReportOf, Within
  <2>4. LateOf(d)'
    <3>1. ~(Reporting(d) /\ devices[d].effect = "applied")
      BY <1>0, ReportsAsHolder DEF Unreported
    <3> QED
      BY <1>0, <2>2, <3>1 DEF LateOf
  <2>5. RaiseOf(d)'
    BY <1>1 DEF RaiseOf, HoldsToApply
  <2> QED
    BY <2>3, <2>4, <2>5
<1> QED
  BY <1>3, <1>4, <1>5 DEF RecordInv

\* A claim is given only when nobody raises the role, and for a level the grant
\* allows.
LEMMA ClaimRecord ==
    ASSUME RecordInv, TypeInv, FormInv, ControlTyped', NEW d \in Devices, Claim(d)
    PROVE  RecordInv'
<1>0. /\ IsDevice(devices[d]) /\ ListedOf(d) /\ devices[d].step = "derived" /\ ShapeInv
      /\ UNCHANGED <<roles, grant, left>>
  BY ClaimEither DEF FormInv, ShapeInv, ListedInv
<1>1. CASE Moves(d, NotClaimed(devices[d])) /\ UNCHANGED principal
  <2>1. PICK r : r = NotClaimed(devices[d]) /\ Retired(r, devices[d])
    BY <1>0, Retires
  <2>2. /\ devices'[d] = r /\ r.step \notin {"holding", "acted"}
        /\ \A e \in Devices : e # d => devices'[e] = devices[e]
    BY <1>0, <1>1, <2>1, DeviceMoves DEF Retired, Aside
  <2>3. ~Raising(d)
    BY <1>0 DEF Raising, Unreported
  <2>4. GrantStep
    BY <1>0, SameGrant DEF TypeInv
  <2> QED
    BY <1>0, <1>1, <2>2, <2>3, <2>4, CalmRecord
<1>2. CASE ~(Moves(d, NotClaimed(devices[d])) /\ UNCHANGED principal)
  <2>1. /\ devices[d].listed = principal.number /\ Claimable(d, devices[d].to)
        /\ Moves(d, Held(devices[d]))
        /\ principal'.number = principal.number /\ principal'.state = devices[d].to
        /\ principal'.applied = principal.applied /\ principal'.holder = d
    BY <1>2, ClaimEither, Zenon
  <2>2. PICK r : r = Held(devices[d])
    OBVIOUS
  <2>3. IsDevice(r) /\ r.step = "holding" /\ r.item.desired = Desired
    BY <1>0, <2>2, HeldIs
  <2>4. /\ devices'[d] = r
        /\ \A e \in Devices : e # d => devices'[e] = devices[e]
    BY <1>0, <2>1, <2>2, <2>3, DeviceMoves
  <2>5. devices[d].to \in {"applying", "drop_pending"} /\ Live /\ (Claimed => principal.holder = d)
    BY <1>0, <2>1 DEF ListedOf, Claimable
  <2>6. \A e \in Devices : ~Raising(e)
    <3>1. SUFFICES ASSUME NEW e \in Devices, Raising(e) PROVE FALSE
      OBVIOUS
    <3>2. principal.holder = e /\ Claimed /\ devices[e].step = "acted"
      BY <3>1, RaisingReports DEF Claimed
    <3> QED
      BY <1>0, <2>5, <3>2
  <2>7. GoneInv' /\ CoverInv' /\ GrantInv'
    BY <1>0, <2>1, <2>5, <2>6 DEF RecordInv, GoneInv, CoverInv, GrantInv, Within, Live
  <2>8. ASSUME NEW e \in Devices PROVE ReportOf(e)' /\ LateOf(e)' /\ RaiseOf(e)'
    <3>1. CASE e = d
      <4>1. ~Reporting(d)'
        BY <2>3, <2>4 DEF Reporting
      <4>2. RaiseOf(d)'
        BY <1>0, <2>3, <2>4, DesiredWithin DEF RaiseOf, TypeInv
      <4> QED
        BY <3>1, <4>1, <4>2 DEF ReportOf, LateOf
    <3>2. CASE e # d
      BY <2>1, <3>2 DEF ReportOf, LateOf, RaiseOf, Reporting, ReceiptMatches, HoldsToApply
    <3> QED
      BY <3>1, <3>2
  <2> QED
    BY <2>7, <2>8 DEF RecordInv
<1> QED
  BY <1>1, <1>2

\* A plan that ran: its gains are those of a live claim and will be reported; all
\* else shrinks the role, and what it reports is so.
LEMMA RanRecord ==
    ASSUME RecordInv, TypeInv, FormInv, NEW d \in Devices, devices[d].step = "holding", NEW outcome,
           \/ outcome = Plan(devices[d], roles[devices[d].listed])
           \/ outcome \in Refused(devices[d], roles[devices[d].listed]),
           Ran(d, outcome), UNCHANGED <<principal, grant, left>>, ~strayed'
    PROVE  RecordInv'
<1> DEFINE device == devices[d]
           l == devices[d].listed
           N == principal.number
<1>0. /\ IsDevice(device) /\ DeviceTyped(device) /\ WorkerOf(d) /\ ShapeInv
      /\ MaxPrincipals \in Nat /\ N \in 0..MaxPrincipals
  BY BoundsAssumption DEF TypeInv, FormInv, ShapeInv, IsPrincipal
<1>1. /\ l \in 1..MaxPrincipals
      /\ roles'[l] = outcome.role
      /\ \A n \in 1..MaxPrincipals : n # l => roles'[n] = roles[n]
  BY RanMoves
<1>2. roles[l] \in Roles
  BY <1>1 DEF TypeInv, RolesTyped
<1>3. PICK r : /\ Moves(d, r) /\ IsDevice(r) /\ r.listed = devices[d].listed
               /\ r.task = devices[d].task /\ r.item = devices[d].item
               /\ \/ outcome.effect = "unchanged" /\ r = NextEntry(devices[d], TRUE)
                     /\ r.step \in {"holding", "changing"}
                  \/ /\ outcome.effect # "unchanged"
                     /\ r.step = "acted" /\ r.effect = outcome.effect
                     /\ r.entries = devices[d].entries /\ r.handled = devices[d].handled
                     /\ r.revoked = devices[d].revoked /\ r.regrant = devices[d].regrant
  BY RanMoves, Zenon
<1>4. /\ devices'[d] = r
      /\ \A e \in Devices : e # d => devices'[e] = devices[e]
  BY <1>0, <1>3, DeviceMoves
<1>5. ~Gains(roles[l], outcome.role) \/ (outcome.effect = "applied" /\ HoldsToApply(d))
  BY Zenon DEF Ran
<1>6. Shrinks(roles[l], roles'[l]) \/ (outcome.effect = "applied" /\ HoldsToApply(d))
  BY <1>0, <1>1, <1>2, <1>5, RunShrinks
<1>7. ~Raising(d)
  BY DEF Raising, Unreported
<1>8. HoldsToApply(d) => l = N /\ principal.holder = d /\ Live /\ principal.live
  BY DEF HoldsToApply, Live
<1>9. HoldsToApply(d)' <=> HoldsToApply(d)
  BY <1>3, <1>4 DEF HoldsToApply
<1>10. ASSUME NEW e \in Devices, e # d PROVE Raising(e)' <=> Raising(e)
  BY <1>4, <1>10, SameReport
<1>11. GoneInv'
  <2>1. SUFFICES ASSUME NEW n \in 1..MaxPrincipals, n < N \/ (n = N /\ ~Live) PROVE roles'[n] = Absent
    BY DEF GoneInv, Live
  <2>2. roles[n] = Absent
    BY <2>1 DEF RecordInv, GoneInv
  <2>3. CASE n # l
    BY <1>1, <2>2, <2>3
  <2>4. CASE n = l
    <3>1. ~HoldsToApply(d)
      BY <1>0, <1>8, <2>1, <2>4
    <3> QED
      BY <1>6, <2>2, <2>4, <3>1, ShrinksWithin
  <2> QED
    BY <2>3, <2>4
<1>12. CoverInv'
  <2>1. SUFFICES ASSUME Live PROVE Within(roles'[N], principal.applied) \/ \E e \in Devices : Raising(e)'
    BY DEF CoverInv, Live, Within
  <2>2. N \in 1..MaxPrincipals
    BY <1>0, <2>1 DEF TypeInv, RowTyped, Live
  <2>3. Within(roles[N], principal.applied) \/ \E e \in Devices : Raising(e)
    BY <2>1 DEF RecordInv, CoverInv
  <2>4. CASE \E e \in Devices : Raising(e)
    BY <1>7, <1>10, <2>4
  <2>5. CASE outcome.effect = "applied" /\ HoldsToApply(d)
    <3>1. Raising(d)'
      BY <1>3, <1>4, <1>9, <2>5 DEF Raising, Unreported
    <3> QED
      BY <3>1
  <2>6. CASE Within(roles[N], principal.applied) /\ (N # l \/ Shrinks(roles[l], roles'[l]))
    BY <1>1, <2>2, <2>6, ShrinksWithin
  <2> QED
    BY <1>6, <2>3, <2>4, <2>5, <2>6
<1>13. GrantInv'
  BY DEF RecordInv, GrantInv
<1>14. ASSUME NEW e \in Devices, e # d PROVE ReportOf(e)' /\ LateOf(e)' /\ RaiseOf(e)'
  <2>1. ReportOf(e) /\ LateOf(e) /\ RaiseOf(e) /\ devices'[e] = devices[e]
    BY <1>4, <1>14 DEF RecordInv
  <2>2. LateOf(e)' /\ RaiseOf(e)'
    BY <2>1, SameReport DEF LateOf, RaiseOf
  <2>3. ReportOf(e)'
    <3>1. CASE ~Reporting(e)
      BY <2>1, <3>1, SameReport DEF ReportOf
    <3>2. CASE Reporting(e)
      <4>1. principal.holder = e /\ Live
        BY <3>2, ReportsAsHolder DEF Live
      <4>2. N \in 1..MaxPrincipals
        BY <1>0, <4>1 DEF TypeInv, RowTyped, Live
      <4>3. N # l \/ Shrinks(roles[l], roles'[l])
        BY <1>6, <1>8, <1>14, <4>1
      <4>4. /\ roles[N] = Absent => roles'[N] = Absent
            /\ \A k : Within(roles[N], k) => Within(roles'[N], k)
        BY <1>1, <4>2, <4>3, ShrinksWithin
      <4>5. /\ devices[e].effect = "dropped" => roles[N] = Absent
            /\ devices[e].effect = "applied" => Within(roles[N], devices[e].item.desired)
            /\ devices[e].effect = "lowered" =>
                  /\ Within(roles[N], Target(devices[e]))
                  /\ Rank[Target(devices[e])] <= Rank[principal.applied]
        BY <2>1, <3>2 DEF ReportOf
      <4>6. Target(devices[e])' = Target(devices[e])
        BY <2>1, SameReport
      <4> QED
        BY <2>1, <4>4, <4>5, <4>6 DEF ReportOf, Within
    <3> QED
      BY <3>1, <3>2
  <2> QED
    BY <2>2, <2>3
<1>15. RaiseOf(d)'
  BY <1>3, <1>4, <1>9 DEF RecordInv, RaiseOf, Working
<1>16. ReportOf(d)' /\ LateOf(d)'
  <2>1. CASE ~Reporting(d)'
    BY <2>1 DEF ReportOf, LateOf
  <2>2. CASE Reporting(d)'
    <3>1. /\ r.step = "acted" /\ outcome.effect # "unchanged" /\ r.effect = outcome.effect
          /\ r.entries = device.entries /\ r.handled = device.handled
      BY <1>3, <1>4, <2>2 DEF Reporting
    <3>2. /\ principal.holder = d /\ N = l /\ principal.state \in {"applying", "drop_pending"}
      BY <1>3, <1>4, <2>2 DEF Reporting, ReceiptMatches, ReceiptFrom
    <3>3. Live /\ device.item.applied = principal.applied
      BY <1>0, <3>2 DEF Live, WorkerOf, Working
    <3>4. Within(roles[l], device.item.applied)
      <4>1. \A e \in Devices : ~Raising(e)
        BY <1>7, <3>2, RaisingReports
      <4> QED
        BY <3>2, <3>3, <4>1 DEF RecordInv, CoverInv
    <3>5. Target(r)' = Target(device)
      BY <1>3, <3>1 DEF Target, Entry
    <3>6. CASE outcome \in Refused(device, roles[l])
      <4>1. r.effect = "failed"
        BY <1>0, <1>2, <3>1, <3>6, RefusedTyped
      <4> QED
        BY <1>4, <4>1 DEF ReportOf, LateOf
    <3>7. CASE outcome = Plan(device, roles[l])
      <4>1. /\ outcome.effect = "dropped" => outcome.role = Absent
            /\ outcome.effect = "applied" =>
                  /\ Within(outcome.role, device.item.desired)
                  /\ \/ Gains(roles[l], outcome.role)
                     \/ Rank[device.item.desired] <= Rank[device.item.applied]
            /\ outcome.effect = "lowered" =>
                  /\ Within(outcome.role, Target(device))
                  /\ Rank[Target(device)] <= Rank[device.item.applied]
        BY <1>0, <1>2, <3>4, <3>7, PlanSays
      <4>2. /\ devices'[d].effect = outcome.effect /\ devices'[d].item = device.item
            /\ Target(devices[d])' = Target(device) /\ roles'[N] = outcome.role
        BY <1>1, <1>3, <1>4, <3>1, <3>2, <3>5 DEF Target, Entry
      <4>3. ReportOf(d)'
        BY <3>3, <4>1, <4>2 DEF ReportOf, Within
      <4>4. LateOf(d)'
        BY <1>5, <1>8, <3>3, <4>1, <4>2 DEF LateOf
      <4> QED
        BY <4>3, <4>4
    <3> QED
      BY <3>6, <3>7
  <2> QED
    BY <2>1, <2>2
<1> QED
  BY <1>11, <1>12, <1>13, <1>14, <1>15, <1>16 DEF RecordInv

\* A receipt: the recorded level becomes the one the report speaks of.
LEMMA SettleRecord ==
    ASSUME RecordInv, TypeInv, FormInv, ControlTyped', NEW d \in Devices, SettleReceipt(d)
    PROVE  RecordInv'
<1> DEFINE device == devices[d]
           N == principal.number
<1>0. /\ IsDevice(device) /\ DeviceTyped(device) /\ WorkerOf(d) /\ ShapeInv /\ IsPrincipal(principal)
      /\ device.step = "acted" /\ UNCHANGED <<roles, grant, left>>
      /\ MaxPrincipals \in Nat /\ N \in 0..MaxPrincipals
  BY BoundsAssumption DEF TypeInv, FormInv, ShapeInv, IsPrincipal, SettleReceipt, serverVars
<1>1. CASE ~ReceiptMatches(d)
  <2>1. Moves(d, Resting) /\ UNCHANGED principal
    BY <1>1 DEF SettleReceipt
  <2>2. /\ devices'[d] = Resting /\ Resting.step = "idle"
        /\ \A e \in Devices : e # d => devices'[e] = devices[e]
    BY <1>0, <2>1, RestingDevice, DeviceMoves
  <2>3. ~Raising(d)
    BY <1>1, RaisingReports DEF Reporting
  <2>4. GrantStep
    BY <1>0, SameGrant DEF TypeInv
  <2> QED
    BY <1>0, <2>1, <2>2, <2>3, <2>4, CalmRecord
<1>2. CASE ReceiptMatches(d)
  <2>1. /\ principal' = Settled(device)
        /\ Moves(d, IF device.task = "revoke" THEN NextEntry(device, device.effect # "failed")
                    ELSE AfterItem(device))
    BY <1>2 DEF SettleReceipt
  <2>2. PICK r : Moves(d, r) /\ IsDevice(r) /\ r.step # "acted"
    <3>1. CASE device.task = "revoke"
      BY <1>0, <2>1, <3>1, NextEntryIs
    <3>2. CASE device.task # "revoke"
      BY <1>0, <2>1, <3>2, Retires DEF Retired, Aside
    <3> QED
      BY <3>1, <3>2
  <2>3. devices'[d].step # "acted"
    BY <1>0, <2>2, DeviceMoves
  <2>4. /\ Reporting(d) /\ principal.holder = d /\ Live
        /\ device.item.applied = principal.applied
    <3>1. Reporting(d)
      BY <1>0, <1>2 DEF Reporting
    <3> QED
      BY <1>0, <1>2, <3>1, ReportsAsHolder, MatchIsClaimant DEF Live
  <2>5. PICK row : row = principal' /\ row = Settled(device)
    BY <2>1
  <2>6. /\ row.number = N /\ row.holder = d /\ row.live = FALSE
        /\ row.state \in {"ready", "dropped", "failed"}
        /\ device.effect = "applied" => row.state = "ready" /\ row.applied = device.item.desired
        /\ device.effect = "lowered" => row.state = "ready" /\ row.applied = Target(device)
        /\ device.effect = "dropped" => row.state = "dropped" /\ row.applied = "none"
        /\ device.effect \notin {"applied", "lowered", "dropped"} =>
              row.state = "failed" /\ row.applied = principal.applied
    <3>1. PICK q : q = device
      OBVIOUS
    <3>2. IsPrincipal(principal) /\ row = Settled(q)
      BY <1>0, <2>5, <3>1
    <3>3. q.item.applied = principal.applied /\ principal.holder = d
      BY <2>4, <3>1
    <3>4. /\ row.number = N /\ row.holder = principal.holder /\ row.live = FALSE
          /\ row.state \in {"ready", "dropped", "failed"}
          /\ q.effect = "applied" => row.state = "ready" /\ row.applied = q.item.desired
          /\ q.effect = "lowered" => row.state = "ready" /\ row.applied = Target(q)
          /\ q.effect = "dropped" => row.state = "dropped" /\ row.applied = "none"
          /\ q.effect \notin {"applied", "lowered", "dropped"} =>
                row.state = "failed" /\ row.applied = q.item.applied
      BY <3>2, SettledFields
    <3> QED
      BY <3>1, <3>3, <3>4
  <2>7. /\ device.effect = "dropped" => roles[N] = Absent
        /\ device.effect = "applied" => Within(roles[N], device.item.desired)
        /\ device.effect = "lowered" => /\ Within(roles[N], Target(device))
                                        /\ Rank[Target(device)] <= Rank[principal.applied]
    BY <2>4 DEF RecordInv, ReportOf
  <2>8. /\ Rank["none"] = 0 /\ Rank[Level[grant]] \in {0, 1, 2} /\ Rank[principal.applied] \in {0, 1, 2}
        /\ Rank[device.item.desired] \in {0, 1, 2} /\ Rank[Target(device)] \in {0, 1, 2}
    <3>1. Target(device) \in Levels
      BY <1>0, TargetTyped DEF Levels
    <3> QED
      BY <1>0, <3>1, LevelTable, RankTable DEF TypeInv, ControlTyped, RowTyped, DeviceTyped
  <2>9. GoneInv'
    <3>1. SUFFICES ASSUME NEW n \in 1..MaxPrincipals, n < N \/ (n = N /\ row.state = "dropped")
                   PROVE  roles[n] = Absent
      BY <1>0, <2>5, <2>6 DEF GoneInv, Live
    <3>2. CASE n < N
      BY <3>1, <3>2 DEF RecordInv, GoneInv
    <3>3. CASE n = N /\ row.state = "dropped"
      BY <2>6, <2>7, <3>3
    <3> QED
      BY <3>1, <3>2, <3>3
  <2>10. CoverInv'
    <3>1. SUFFICES ASSUME row.state # "dropped" PROVE Within(roles[N], row.applied)
      BY <1>0, <2>5, <2>6 DEF CoverInv, Live, Within
    <3>2. CASE device.effect \in {"applied", "lowered"}
      BY <2>6, <2>7, <3>2
    <3>3. CASE device.effect \notin {"applied", "lowered"}
      <4>1. \A e \in Devices : ~Raising(e)
        BY <2>4, <3>3, RaisingReports
      <4> QED
        BY <2>4, <2>6, <3>1, <3>3, <4>1 DEF RecordInv, CoverInv
    <3> QED
      BY <3>2, <3>3
  <2>11. GrantInv'
    <3>1. SUFFICES ASSUME ~left PROVE Rank[row.applied] <= Rank[Level[grant]]
      BY <1>0, <2>5 DEF GrantInv
    <3>2. Rank[principal.applied] <= Rank[Level[grant]]
      BY <3>1 DEF RecordInv, GrantInv
    <3>3. CASE device.effect = "applied"
      <4>1. CASE principal.live
        <5>1. HoldsToApply(d) /\ Working(d) /\ device.task = "apply"
          BY <1>0, <1>2, <3>3, <4>1 DEF HoldsToApply, ReceiptMatches, ReceiptFrom, Working, DeviceTyped
        <5> QED
          BY <2>6, <3>1, <3>3, <5>1 DEF RecordInv, RaiseOf
      <4>2. CASE ~principal.live
        <5>1. Rank[device.item.desired] <= Rank[principal.applied]
          BY <2>4, <3>3, <4>2 DEF RecordInv, LateOf
        <5> QED
          BY <2>6, <2>8, <3>2, <3>3, <5>1
      <4> QED
        BY <4>1, <4>2
    <3>4. CASE device.effect = "lowered"
      BY <2>6, <2>7, <2>8, <3>2, <3>4
    <3>5. CASE device.effect = "dropped"
      BY <2>6, <2>8, <3>5
    <3>6. CASE device.effect \notin {"applied", "lowered", "dropped"}
      BY <2>6, <3>2, <3>6
    <3> QED
      BY <3>3, <3>4, <3>5, <3>6
  <2>12. ASSUME NEW e \in Devices PROVE ReportOf(e)' /\ LateOf(e)' /\ RaiseOf(e)'
    BY <2>5, <2>6 DEF ReportOf, LateOf, RaiseOf, Reporting, ReceiptMatches, ReceiptFrom, HoldsToApply
  <2> QED
    BY <2>9, <2>10, <2>11, <2>12 DEF RecordInv
<1> QED
  BY <1>1, <1>2

\* A re-grant gains what a ready row records, or nothing.
LEMMA RegrantRecord ==
    ASSUME RecordInv, TypeInv, FormInv, NEW d \in Devices, RegrantItem(d), ~strayed'
    PROVE  RecordInv'
<1> DEFINE l == devices[d].listed
           N == principal.number
<1>0. /\ UNCHANGED <<principal, grant, left>> /\ Moves(d, Resting) /\ ShapeInv
      /\ devices[d].step = "regranting" /\ MaxPrincipals \in Nat /\ N \in 0..MaxPrincipals
      /\ DeviceTyped(devices[d])
  BY BoundsAssumption, RegrantMoves DEF FormInv, ShapeInv, IsPrincipal, controlVars, TypeInv
<1>1. \A n \in 1..MaxPrincipals :
         roles'[n] = IF n # l \/ roles[n] = Absent THEN roles[n]
                     ELSE Granted(roles[n], devices[d].regrant)
  BY RegrantMoves
<1>2. /\ devices'[d] = Resting /\ Resting.step = "idle"
      /\ \A e \in Devices : e # d => devices'[e] = devices[e]
  BY <1>0, RestingDevice, DeviceMoves
<1>3. ASSUME NEW n \in 1..MaxPrincipals
      PROVE  \/ Shrinks(roles[n], roles'[n])
             \/ /\ n = N /\ principal.state = "ready"
                /\ roles'[n] = Granted(roles[n], principal.applied) /\ roles[n] # Absent
  <2>1. CASE n # l \/ roles[n] = Absent
    BY <1>1, <2>1 DEF Shrinks
  <2>2. CASE n = l /\ roles[n] # Absent
    <3>1. roles'[n] = Granted(roles[n], devices[d].regrant)
      BY <1>1, <2>2
    <3>2. \/ ~Gains(roles[l], Granted(roles[l], devices[d].regrant))
          \/ /\ N = l /\ principal.state = "ready"
             /\ principal.applied = devices[d].regrant
      BY <2>2, Zenon DEF RegrantItem
    <3>3. roles[n] \in Roles /\ Granted(roles[n], devices[d].regrant) \in Roles
      <4>1. roles[n] \in Roles
        BY DEF TypeInv, RolesTyped
      <4>2. \A k \in Levels : Privileges[k] \subseteq {"select", "modify"}
        BY PrivilegeTable DEF Levels
      <4> QED
        BY <1>0, <2>2, <4>1, <4>2 DEF Granted, Roles, DeviceTyped
    <3> QED
      BY <2>2, <3>1, <3>2, <3>3, NoGainShrinks
  <2> QED
    BY <2>1, <2>2
<1>4. GoneInv'
  BY <1>0, <1>1 DEF RecordInv, GoneInv, Live
<1>5. ~Raising(d)
  BY <1>0 DEF Raising, Unreported
<1>6. CoverInv'
  <2>1. SUFFICES ASSUME Live PROVE Within(roles'[N], principal.applied) \/ \E e \in Devices : Raising(e)'
    BY <1>0 DEF CoverInv, Live, Within
  <2>2. N \in 1..MaxPrincipals
    BY <1>0, <2>1 DEF TypeInv, RowTyped, Live
  <2>3. CASE \E e \in Devices : Raising(e)
    <3>1. PICK e \in Devices : Raising(e)
      BY <2>3
    <3>2. Raising(e)'
      BY <1>0, <1>2, <1>5, <3>1, SameReport
    <3> QED
      BY <3>2
  <2>4. CASE Within(roles[N], principal.applied)
    <3>1. CASE Shrinks(roles[N], roles'[N])
      BY <2>4, <3>1, ShrinksWithin
    <3>2. CASE roles'[N] = Granted(roles[N], principal.applied) /\ roles[N] # Absent
      BY <2>4, <3>2 DEF Within, Granted
    <3> QED
      BY <1>3, <2>2, <3>1, <3>2
  <2> QED
    BY <2>1, <2>3, <2>4 DEF RecordInv, CoverInv
<1>7. GrantInv'
  BY <1>0 DEF RecordInv, GrantInv
<1>8. ASSUME NEW e \in Devices PROVE ReportOf(e)' /\ LateOf(e)' /\ RaiseOf(e)'
  <2>1. CASE e = d
    BY <1>2, <2>1 DEF ReportOf, LateOf, RaiseOf, Reporting, Working
  <2>2. CASE e # d
    <3>1. ReportOf(e) /\ LateOf(e) /\ RaiseOf(e) /\ devices'[e] = devices[e]
      BY <1>2, <2>2 DEF RecordInv
    <3>2. LateOf(e)' /\ RaiseOf(e)'
      BY <1>0, <3>1, SameReport DEF LateOf, RaiseOf
    <3>3. ReportOf(e)'
      <4>1. CASE ~Reporting(e)
        BY <1>0, <3>1, <4>1, SameReport DEF ReportOf
      <4>2. CASE Reporting(e)
        <5>1. principal.state # "ready" /\ Live
          BY <4>2, ReportsAsHolder DEF Live
        <5>2. N \in 1..MaxPrincipals
          BY <1>0, <5>1 DEF TypeInv, RowTyped, Live
        <5>3. Shrinks(roles[N], roles'[N])
          BY <1>3, <5>1, <5>2
        <5>4. /\ roles[N] = Absent => roles'[N] = Absent
              /\ \A k : Within(roles[N], k) => Within(roles'[N], k)
          BY <5>3, ShrinksWithin
        <5>5. /\ devices[e].effect = "dropped" => roles[N] = Absent
              /\ devices[e].effect = "applied" => Within(roles[N], devices[e].item.desired)
              /\ devices[e].effect = "lowered" =>
                    /\ Within(roles[N], Target(devices[e]))
                    /\ Rank[Target(devices[e])] <= Rank[principal.applied]
          BY <3>1, <4>2 DEF ReportOf
        <5>6. Target(devices[e])' = Target(devices[e])
          BY <1>0, <3>1, SameReport
        <5> QED
          BY <1>0, <3>1, <5>4, <5>5, <5>6 DEF ReportOf, Within
      <4> QED
        BY <4>1, <4>2
    <3> QED
      BY <3>2, <3>3
  <2> QED
    BY <2>1, <2>2
<1> QED
  BY <1>4, <1>6, <1>7, <1>8 DEF RecordInv

\* The records are right initially.
LEMMA InitRecord == Init => RecordInv
<1> SUFFICES ASSUME Init PROVE RecordInv
  OBVIOUS
<1>0. MaxPrincipals \in Nat /\ 1 \in 1..MaxPrincipals
  BY BoundsAssumption
<1>1. \A d \in Devices : devices[d] = Resting
  BY DEF Init
<1>2. \A d \in Devices : ReportOf(d) /\ LateOf(d) /\ RaiseOf(d)
  BY <1>1, RestingDevice DEF ReportOf, LateOf, RaiseOf, Reporting, Working
<1>3. grant = "use" /\ Level["use"] = "write" /\ Rank["write"] = 2 /\ Rank["none"] = 0
  BY LevelTable DEF Init
<1>4. CASE principal = NoPrincipal /\ roles = [n \in 1..MaxPrincipals |-> Absent]
  <2>1. principal.number = 0 /\ principal.applied = "none" /\ ~Live
    BY <1>4 DEF NoPrincipal, Live
  <2> QED
    BY <1>2, <1>3, <1>4, <2>1 DEF RecordInv, GoneInv, CoverInv, GrantInv
<1>5. CASE /\ principal = [Requested(1) EXCEPT !.state = "ready", !.applied = "write", !.current = TRUE,
                                               !.identified = TRUE]
           /\ roles = [n \in 1..MaxPrincipals |-> IF n = 1 THEN Privileges["write"] ELSE Absent]
  <2>1. principal = [number |-> 1, state |-> "ready", applied |-> "write", current |-> TRUE,
                     identified |-> TRUE, holder |-> "nobody", live |-> FALSE]
    BY <1>5 DEF Requested, NoPrincipal
  <2>2. principal.number = 1 /\ principal.applied = "write" /\ Live
    BY <2>1 DEF Live
  <2>3. roles[1] = Privileges["write"]
    BY <1>0, <1>5
  <2>4. GoneInv /\ CoverInv /\ GrantInv
    BY <1>0, <1>3, <2>2, <2>3 DEF GoneInv, CoverInv, GrantInv, Within
  <2> QED
    BY <1>2, <2>4 DEF RecordInv
<1> QED
  BY <1>4, <1>5 DEF Init

\* A gain that has strayed is not forgotten.
LEMMA Strays == [Next]_vars /\ ~strayed' => ~strayed
<1> SUFFICES ASSUME [Next]_vars, strayed PROVE strayed'
  OBVIOUS
<1>1. ASSUME NEW d \in Devices, NEW outcome, Ran(d, outcome) PROVE strayed'
  BY <1>1, Zenon DEF Ran
<1>2. ASSUME NEW d \in Devices, Work(d) PROVE strayed'
  <2>1. CASE Execute(d)
    BY <1>1, <2>1, Zenon DEF Execute
  <2>2. CASE RegrantItem(d)
    BY <2>2, Zenon DEF RegrantItem
  <2>3. CASE ~Execute(d) /\ ~RegrantItem(d)
    <3>1. UNCHANGED strayed
      BY <1>2, <2>3, ZenonT(30) DEF Work, SyncOnce, Prepare, Derive, Claim, SettleReceipt, NothingToChange,
         SettleLeave, CommitLower, OpenGate, CommitRemoval, ClearGate, serverVars
    <3> QED
      BY <3>1
  <2> QED
    BY <2>1, <2>2, <2>3
<1>3. ASSUME NEW d \in Devices, ExecuteRefused(d) PROVE strayed'
  BY <1>1, <1>3, Zenon DEF ExecuteRefused
<1>4. ASSUME NEW d \in Devices, NEW item, RevokeApply(d, item) PROVE strayed'
  BY <1>4, Zenon DEF RevokeApply, serverVars
<1>5. ASSUME LeaseExpires \/ \E d \in Devices : Crash(d) PROVE strayed'
  BY <1>5, Zenon DEF LeaseExpires, Crash
<1> QED
  BY <1>2, <1>3, <1>4, <1>5 DEF Next, vars, serverVars

\* Every step that does not stray keeps the records right.
LEMMA NextRecord == FormInv /\ TypeInv /\ TypeInv' /\ RecordInv /\ [Next]_vars /\ ~strayed' => RecordInv'
<1> SUFFICES ASSUME FormInv, TypeInv, TypeInv', RecordInv, [Next]_vars, ~strayed' PROVE RecordInv'
  OBVIOUS
<1>0. ControlTyped' /\ ControlTyped
  BY DEF TypeInv
<1>1. ASSUME ControlPlane, UNCHANGED <<serverVars, devices>> PROVE RecordInv'
  <2>1. UNCHANGED <<roles, devices>>
    BY <1>1 DEF serverVars
  <2>2. CASE SubmitVerifier
    BY <1>0, <2>1, <2>2, SubmitRecord
  <2>3. CASE ~SubmitVerifier
    BY <1>0, <1>1, <2>1, <2>3, ControlSame, ControlGrants, CalmRecord
  <2> QED
    BY <2>2, <2>3
<1>2. ASSUME LeaseExpires PROVE RecordInv'
  BY <1>2, LeaseRecord
<1>3. ASSUME NEW d \in Devices, Work(d) PROVE RecordInv'
  <2>1. CASE Execute(d)
    <3>1. devices[d].step = "holding" /\ UNCHANGED <<principal, grant, left>>
      BY <2>1 DEF Execute, controlVars
    <3>2. PICK outcome : outcome = Plan(devices[d], roles[devices[d].listed]) /\ Ran(d, outcome)
      BY <2>1 DEF Execute
    <3> QED
      BY <3>1, <3>2, RanRecord
  <2>2. CASE Claim(d) \/ SettleReceipt(d) \/ RegrantItem(d)
    BY <1>0, <2>2, ClaimRecord, SettleRecord, RegrantRecord
  <2>3. CASE ~Execute(d) /\ ~(Claim(d) \/ SettleReceipt(d) \/ RegrantItem(d))
    BY <1>0, <1>3, <2>3, AroundRecord DEF Work
  <2> QED
    BY <2>1, <2>2, <2>3
<1>4. ASSUME NEW d \in Devices, ExecuteRefused(d) PROVE RecordInv'
  <2>1. PICK outcome \in Refused(devices[d], roles[devices[d].listed]) :
           Ran(d, outcome) /\ devices[d].step = "holding" /\ UNCHANGED <<principal, grant, left>>
    BY <1>4 DEF ExecuteRefused
  <2> QED
    BY <2>1, RanRecord
<1>5. ASSUME NEW d \in Devices,
             Crash(d) \/ \E item \in {LowerGrant, RemoveGrant} : RevokeApply(d, item)
      PROVE  RecordInv'
  BY <1>0, <1>5, AroundRecord
<1>6. ASSUME UNCHANGED vars PROVE RecordInv'
  <2>1. UNCHANGED <<principal, roles, devices, grant, left>>
    BY <1>6 DEF vars, controlVars, serverVars
  <2> QED
    BY <1>0, <2>1, SameGrant, CalmRecord
<1> QED
  BY <1>1, <1>2, <1>3, <1>4, <1>5, <1>6 DEF Next

\* The records are right as long as no gain has strayed.
RightfulInv == ~strayed => RecordInv

\* The three invariants hold together.
LEMMA RecordsHold == Spec => [](FormInv /\ TypeInv /\ RightfulInv)
<1>1. Init => FormInv /\ TypeInv /\ RightfulInv
  BY InitForm, InitTyped, InitRecord DEF RightfulInv
<1>2. FormInv /\ TypeInv /\ RightfulInv /\ [Next]_vars => (FormInv /\ TypeInv /\ RightfulInv)'
  <2> SUFFICES ASSUME FormInv, TypeInv, RightfulInv, [Next]_vars
               PROVE  FormInv' /\ TypeInv' /\ RightfulInv'
    OBVIOUS
  <2>1. FormInv' /\ TypeInv'
    BY NextForm, NextTyped
  <2>2. ASSUME ~strayed' PROVE RecordInv'
    BY <2>1, <2>2, Strays, NextRecord DEF RightfulInv
  <2> QED
    BY <2>1, <2>2 DEF RightfulInv
<1> QED
  BY <1>1, <1>2, PTL DEF Spec

\* A principal is recorded as dropped only when its role is gone from the server,
\* and no later step brings the role of a dropped or superseded account back:
\* not a crashed, refused or half-answered plan, not one run after its lease
\* ran out, not a re-grant from an old work list.  A plan that does create a role
\* without a live claim has strayed.
THEOREM DroppedAccountsAreGone == Spec => []DroppedMeansGone
<1>1. RightfulInv => DroppedMeansGone
  BY DEF RightfulInv, RecordInv, GoneInv, DroppedMeansGone
<1> QED
  BY <1>1, RecordsHold, PTL

\* While no gain has strayed, the level the lowering guard reads is not below the
\* one the role holds, for every number of devices and every order of crashes,
\* refusals, lapsed leases and late receipts.
THEOREM RecordsCoverRoles == Spec => []RecordCoversRole
<1>1. RightfulInv => RecordCoversRole
  <2> SUFFICES ASSUME RecordInv, Live, principal.state \notin {"applying", "drop_pending"}
               PROVE  Within(roles[principal.number], principal.applied)
    BY DEF RightfulInv, RecordCoversRole, Within
  <2>1. \A e \in Devices : ~Raising(e)
    BY RaisingReports
  <2> QED
    BY <2>1 DEF RecordInv, CoverInv
<1> QED
  BY <1>1, RecordsHold, PTL

\* While no gain has strayed and the membership lasts, no account holds a privilege
\* the grant does not give: the grant is never lowered before the database is.
THEOREM RolesStayWithinTheGrant == Spec => []RoleWithinGrant
<1>1. FormInv /\ TypeInv /\ RightfulInv => RoleWithinGrant
  <2> SUFFICES ASSUME FormInv, TypeInv, RecordInv, ~left, NEW n \in 1..MaxPrincipals
               PROVE  Within(roles[n], Level[grant])
    BY DEF RightfulInv, RoleWithinGrant, Within
  <2>0. /\ Level[grant] \in Levels /\ principal.applied \in Levels
        /\ principal.number \in 0..MaxPrincipals /\ MaxPrincipals \in Nat
        /\ \A d \in Devices : devices[d].item.desired \in Levels
    BY RankTable, BoundsAssumption DEF TypeInv, ControlTyped, RowTyped, DeviceTyped
  <2>1. ASSUME NEW k \in Levels, Within(roles[n], k), Rank[k] <= Rank[Level[grant]]
        PROVE  Within(roles[n], Level[grant])
    BY <2>0, <2>1, PrivilegesGrow DEF Within
  <2>2. CASE n # principal.number \/ ~Live
    <3>1. roles[n] = Absent
      BY <2>0, <2>2 DEF RecordInv, GoneInv, TypeInv, RolesTyped
    <3> QED
      BY <3>1 DEF Within
  <2>3. CASE n = principal.number /\ Live /\ Within(roles[n], principal.applied)
    BY <2>0, <2>1, <2>3 DEF RecordInv, GrantInv
  <2>4. CASE n = principal.number /\ \E d \in Devices : Raising(d)
    <3>1. PICK d \in Devices : Raising(d)
      BY <2>4
    <3>2. Within(roles[n], devices[d].item.desired)
      BY <2>4, <3>1, RaisingReports DEF RecordInv, ReportOf
    <3>3. Working(d) /\ devices[d].task = "apply" /\ HoldsToApply(d)
      BY <3>1, RaisingReports DEF Working, TypeInv, DeviceTyped
    <3> QED
      BY <2>0, <2>1, <3>2, <3>3 DEF RecordInv, RaiseOf
  <2> QED
    BY <2>2, <2>3, <2>4 DEF RecordInv, CoverInv
<1> QED
  BY <1>1, RecordsHold, PTL
=============================================================================
