---------------------------- MODULE MCJobEngine ----------------------------
(***************************************************************************)
(* Instances of JobEngine for TLC.                                         *)
(***************************************************************************)
EXTENDS JobEngine, TLC

CONSTANTS j1

Import == [kind |-> "import", resumable |-> TRUE]
Export == [kind |-> "export", resumable |-> TRUE]
PlainExport == [kind |-> "export", resumable |-> FALSE]

ImportOrPlain == {Import, PlainExport}
OnlyExport == {Export}
AllFormats == {Import, Export, PlainExport}

CallerSymmetry == Permutations(Callers)
=============================================================================
