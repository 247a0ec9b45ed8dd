------------------------ MODULE MCOperationRuntime ------------------------
(***************************************************************************)
(* Instances of OperationRuntime for TLC.                                  *)
(***************************************************************************)
EXTENDS OperationRuntime, TLC

CONSTANTS w1, r1, s1

\* One write proposed by an Agent session.
AgentWriteKind == (w1 :> "write")
AgentWriteSession == (w1 :> s1)

\* A write of the local user and a read proposed by an Agent session, on the
\* connection that may hold a manual transaction.
MixedKind == (w1 :> "write" @@ r1 :> "read")
MixedSession == (w1 :> None @@ r1 :> s1)

CallerSymmetry == Permutations(Callers)
=============================================================================
