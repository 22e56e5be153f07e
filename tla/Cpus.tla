-------------------------------- MODULE Cpus --------------------------------
(* What RmmMap and RecContext have in common.                              *)

CONSTANTS
    None,   \* no page, no REC, nothing in a register
    Cpu     \* the CPUs that run the RMM
=============================================================================
