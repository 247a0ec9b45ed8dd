--------------------------- MODULE ApprovedOnce ---------------------------
(***************************************************************************)
(* What the Operation Runtime promises about a mutation, without tasks,    *)
(* rows, sessions or restarts: a human decides once, an approved mutation  *)
(* is claimed once, and only a claimed one changes the target, once.       *)
(* (docs/adr/0001: exact approval, atomic claim, no automatic retry)       *)
(***************************************************************************)
EXTENDS Naturals

CONSTANT Mutations

VARIABLES
    verdict,   \* the human decision
    claimed,   \* has an execution been claimed
    used       \* how often the target was changed

avars == <<verdict, claimed, used>>

AInit ==
    /\ verdict = [m \in Mutations |-> "none"]
    /\ claimed = [m \in Mutations |-> FALSE]
    /\ used = [m \in Mutations |-> 0]

Decide(m, v) ==
    /\ verdict[m] = "none"
    /\ verdict' = [verdict EXCEPT ![m] = v]
    /\ UNCHANGED <<claimed, used>>

Claim(m) ==
    /\ verdict[m] = "approved"
    /\ ~claimed[m]
    /\ claimed' = [claimed EXCEPT ![m] = TRUE]
    /\ UNCHANGED <<verdict, used>>

\* Several commits that were in flight may land when the process is gone.
Use(S) ==
    /\ \A m \in S : claimed[m] /\ used[m] = 0
    /\ used' = [m \in Mutations |-> IF m \in S THEN 1 ELSE used[m]]
    /\ UNCHANGED <<verdict, claimed>>

ANext ==
    \/ \E m \in Mutations, v \in {"approved", "rejected"} : Decide(m, v)
    \/ \E m \in Mutations : Claim(m)
    \/ \E S \in SUBSET Mutations : Use(S)

ASpec == AInit /\ [][ANext]_avars
=============================================================================
