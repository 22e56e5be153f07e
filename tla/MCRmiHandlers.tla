--------------------------- MODULE MCRmiHandlers ---------------------------
(* RmiHandlers on a small memory.  Granules and CPUs are interchangeable.   *)
EXTENDS RmiAtomic, TLC

Symmetric == Permutations(Granule) \cup Permutations(Cpu)
=============================================================================
