------------------------------- MODULE MCSync -------------------------------
(* Small instances of Sync for TLC.                                         *)
EXTENDS Sync, TLC

CONSTANTS laptop, phone

Devices == {laptop, phone}
Symmetry == Permutations(Devices)
=============================================================================
