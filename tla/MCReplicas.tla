----------------------------- MODULE MCReplicas -----------------------------
(* Small instances of Replicas for TLC.                                     *)
EXTENDS Replicas, TLC

CONSTANTS a, b, g1, g2, g3, g4

Devices == {a, b}
Groups == {Root, g1, g2, g3, g4}
SharedGroups == {g1, g2}
Unlimited == -1
Symmetry == Permutations(Devices) \cup Permutations(Shared) \cup
            Permutations({g3, g4})
=============================================================================
