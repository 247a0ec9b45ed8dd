-------------------------- MODULE OperationStates --------------------------
(***************************************************************************)
(* The pure part of the Operation Runtime: operation kinds, lifecycle      *)
(* states, the transition relation and the startup recovery decision.      *)
(* src-tauri/src/operations/state_machine.rs and the kind predicates of    *)
(* dopedb-protocol/src/operation.rs.                                       *)
(***************************************************************************)

\* The twelve protocol kinds collapse to the classes the code tells apart:
\* "read" stands for ReadQuery and DocumentRead, "write" for every mutating kind that is neither
\* Import nor ProviderAction.
Kinds == {"read", "write", "import", "export", "provider"}

\* OperationKind::may_mutate_target
MayMutateTarget(kind) == kind \in {"write", "import", "provider"}

\* OperationKind::is_resumable_job
IsResumableJob(kind) == kind \in {"import", "export"}

\* OperationState::is_terminal
TerminalStates ==
    {"rejected", "expired", "cancelled", "succeeded", "failed", "outcome_unknown"}

IsTerminal(state) == state \in TerminalStates

States ==
    {"planned", "pending_approval", "ready", "approved", "executing"}
        \cup TerminalStates

\* The states of a plan that nobody has claimed for execution yet.
UnclaimedStates == {"planned", "pending_approval", "ready", "approved"}

\* Mutant: anything can be cancelled.
EnsureTransition_CancelFinished(from, to) ==
    \/ from = "planned" /\ to \in {"pending_approval", "ready", "expired"}
    \/ from = "pending_approval" /\ to \in {"approved", "rejected", "expired"}
    \/ from \in {"ready", "approved"} /\ to \in {"executing", "expired"}
    \/ from = "executing" /\ to \in {"succeeded", "failed", "outcome_unknown"}
    \/ from \in States /\ to = "cancelled"

\* ensure_transition
EnsureTransition(from, to) ==
    \/ from = "planned" /\ to \in {"pending_approval", "ready", "cancelled", "expired"}
    \/ from = "pending_approval" /\ to \in {"approved", "rejected", "cancelled", "expired"}
    \/ from \in {"ready", "approved"} /\ to \in {"executing", "cancelled", "expired"}
    \/ from = "executing" /\ to \in {"succeeded", "failed", "cancelled", "outcome_unknown"}

\* Mutant: an interrupted mutation is recorded as failed.
RestartRecovery_MutationFailed(kind, state) ==
    CASE IsTerminal(state) -> state
      [] ~IsTerminal(state) /\ state # "executing" -> "expired"
      [] state = "executing" /\ kind \in {"export", "provider"} -> state
      [] OTHER -> "failed"

\* Mutant: a plan that was ready or approved survives the restart.
RestartRecovery_KeepsClaimable(kind, state) ==
    CASE IsTerminal(state) \/ state \in {"ready", "approved"} -> state
      [] state \in {"planned", "pending_approval"} -> "expired"
      [] state = "executing" /\ kind \in {"export", "provider"} -> state
      [] OTHER -> "outcome_unknown"

\* restart_recovery: the state an operation of an older runtime is moved to at
\* startup. The two "validate checkpoint" decisions leave the row untouched.
RestartRecovery(kind, state) ==
    CASE IsTerminal(state) -> state
      [] ~IsTerminal(state) /\ state # "executing" -> "expired"
      [] state = "executing" /\ kind \in {"export", "provider"} -> state
      [] state = "executing" /\ kind \in {"write", "import"} -> "outcome_unknown"
      [] OTHER -> "failed"
=============================================================================
