------------------------------ MODULE MCRecRun ------------------------------
(* Two RECs of a realm that runs, and one of a realm that is still New.     *)
EXTENDS RecRun

CONSTANTS a, b, c0, c1, d0

MCOwner == [c \in {c0, c1, d0} |-> IF c = d0 THEN b ELSE a]
MCOwner2 == [c \in {c0, c1} |-> a]
MCVcpuid2 == [c \in {c0, c1} |-> IF c = c1 THEN 1 ELSE 0]
MCVcpuid == [c \in {c0, c1, d0} |-> IF c = c1 THEN 1 ELSE 0]
=============================================================================
