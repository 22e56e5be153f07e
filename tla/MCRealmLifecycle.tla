-------------------------- MODULE MCRealmLifecycle --------------------------
(* RealmLifecycle on a small memory.  Granules, VMIDs and hash algorithms   *)
(* are interchangeable: no action names one of them.                        *)
EXTENDS RealmLifecycle, TLC

Symmetric ==
    Permutations(Granule) \cup Permutations(Vmid) \cup Permutations(Algo)
=============================================================================
