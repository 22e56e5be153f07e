----------------------------- MODULE MCRecEnter -----------------------------
(* Instances of RecEnter for TLC.                                          *)
EXTENDS RecEnter

CONSTANTS p1, p2, g1, g2, g3, c1, c2

MCRegion == [g \in Page |-> IF g = g1 THEN "high" ELSE "low"]

Irq(n) == [vintid |-> n, wellFormed |-> TRUE]
Malformed(n) == [vintid |-> n, wellFormed |-> FALSE]

\* an interrupt, the same one twice, and one whose fields are wrong in the last list
\* register, with NrLrs = 2
MCHostLrs ==
    { [NoLrs EXCEPT ![0] = Irq(1)],
      [NoLrs EXCEPT ![0] = Irq(1), ![1] = Irq(1)],
      [NoLrs EXCEPT ![0] = Irq(1), ![2] = Malformed(2)] }

\* Bound of the model: realms write their registers while there is nothing but
\* REC_ENTER; when other handlers have been called, REC_ENTER goes on, but only c1 gets
\* as far as its realm, which leaves the registers alone.
EnterOnly ==
    /\ \A p \in Cpu : at[p].kind \in {"none", "Enter"} /\ at[p].src # g3
    /\ \A g \in Page : /\ gst[g] = "Undelegated"
                       /\ map[g] = "none" \/ \E p \in Cpu : at[p].src = g
Quiet ==
    /\ \A c \in Rec : /\ ctx[c].fpu = None /\ ~ctx[c].isUsed /\ left[c].timer = <<c, 0>>
                      /\ c # c1 => ctx[c].lrs = NoLrs
    /\ \A p \in Cpu : hostFpu[p] = <<p, 0>>
MCNext == Next /\ (Quiet' \/ EnterOnly')
MCSpec == Init /\ [][MCNext]_vars
=============================================================================
