--------------------------- MODULE MCDirectAccess ---------------------------
(***************************************************************************)
(* Instances of DirectAccess for TLC.                                      *)
(***************************************************************************)
EXTENDS DirectAccess, TLC

CONSTANTS d1, d2

Scenario(items, withdraw, devs, regrant, faults) ==
    [items |-> items, withdraw |-> withdraw, devices |-> devs,
     regrant |-> regrant, faults |-> faults]

Both == {d1, d2}

Everything ==
    {Scenario({LowerGrant}, TRUE, Both, FALSE, {}),
     Scenario({RemoveGrant}, FALSE, Both, FALSE, {"overrun"}),
     Scenario({LowerGrant, RemoveGrant}, TRUE, {d1}, TRUE, {"refuse", "crash"}),
     Scenario({LowerGrant}, FALSE, Both, TRUE, {"refuse", "overrun"}),
     Scenario({RemoveGrant}, FALSE, Both, TRUE, {"crash"})}

Regranting == {Scenario({LowerGrant}, FALSE, Both, TRUE, {})}
=============================================================================
