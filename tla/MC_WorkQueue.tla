---------------------------- MODULE MC_WorkQueue ----------------------------
(* Small instances of WorkQueue for TLC.                                   *)
EXTENDS WorkQueue, TLC

\* Replicas are interchangeable; so are items and fresh lease identifiers.
Symmetry ==
    Permutations(Workers) \cup Permutations(Items) \cup Permutations(LeaseIds)
=============================================================================
