----------------------------- MODULE MCUpgradeSaga -----------------------------
(* Instances of UpgradeSaga for TLC.                                             *)
EXTENDS UpgradeSaga, TLC

CONSTANTS o1, o2, e1

\* One resource of every adapter, in the order of STEP_ORDER.
MCKind == <<"application", "sqlite", "postgres", "object_store", "configuration", "pack">>
MCActors == {o1, o2}
MCExecutors == {e1}
=============================================================================
