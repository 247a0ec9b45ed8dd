------------------------- MODULE MCBranchOperations -------------------------
(* Bounds for BranchOperations: which operations are planned, and what they meet. *)
EXTENDS BranchOperations

CONSTANTS m1, m2

Alone(kinds, with) == [kinds |-> kinds, with |-> with, team |-> {m1}, faults |-> 1]
Team(kinds, with)  == [kinds |-> kinds, with |-> with, team |-> {m1, m2}, faults |-> 0]

NoFaults(s) == [s EXCEPT !.faults = 0]

\* Each kind of operation with everything that can meet it.
EveryKind ==
    { Alone({"create"}, {}), Team({"create"}, {"production"}), Alone({"create"}, {"checkpoint"}),
      Alone({"create"}, {"legacy"}), Alone({"create"}, {"reconnect"}),
      Team({"delete"}, {}), Alone({"delete"}, {"import", "lease"}),
      Team({"switch"}, {"lease"}), Alone({"switch"}, {"import", "edit", "lease"}),
      NoFaults(Alone({"delete", "switch"}, {"import"})) }

OnlyDelete == { NoFaults(Alone({"delete"}, {})) }
DeleteAndSwitch == { NoFaults(Alone({"delete", "switch"}, {})) }
=============================================================================
