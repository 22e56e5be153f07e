------------------------------ MODULE RmiAtomic ------------------------------
(***************************************************************************)
(* RealmLifecycle, as the handlers of RmiHandlers implement it.  A handler  *)
(* that creates takes effect with its last step, since until then it may    *)
(* still give up; one that destroys takes effect when it frees its first    *)
(* granule, since from then on another CPU may use what it has freed.       *)
(***************************************************************************)
EXTENDS RmiHandlers

\* What a creation in progress has converted, which does not count yet.
UndoneBy(p) ==
    IF pc[p] \in {"create_roots", "rec_aux"} THEN call[p].all \ call[p].todo ELSE {}

RealmGoing(p) ==
    \/ pc[p] \in {"destroy_check", "destroy_roots"} /\ call[p].c # None
    \/ pc[p] = "destroy_roots" /\ call[p].todo # call[p].all
RecGoing(p) ==
    \/ pc[p] = "recdel_aux" /\ call[p].todo # call[p].all
    \/ pc[p] = "recdel_rd" /\ call[p].all # {}
    \/ pc[p] = "recdel_end"

\* What a destruction in progress has still to free.
FreedBy(p) ==
    (IF RealmGoing(p)
       THEN {call[p].r} \cup (IF pc[p] = "destroy_check" THEN call[p].all ELSE call[p].todo)
       ELSE {})
    \cup (IF RecGoing(p) THEN {call[p].c} \cup call[p].todo ELSE {})

Unsettled == UNION {UndoneBy(p) \cup FreedBy(p) : p \in Cpu}
AbsGst ==
    LET U == Unsettled
    IN  [g \in Granule |-> IF g \in U THEN "Delegated" ELSE gst[g]]
AbsRefcnt ==
    LET going == {p \in Cpu : RecGoing(p) /\ pc[p] # "recdel_end"}
    IN  [g \in Granule |->
           (refcnt[g] + 255 * Cardinality({p \in going : call[p].r = g})) % 256]
AbsRd ==
    LET U == Unsettled
        early == {call[p].r : p \in {q \in Cpu : pc[q] = "rec_aux"}}
    IN  [g \in Granule |->
           IF g \in U \/ gst[g] # "RD" THEN ZeroRd
           ELSE IF g \in early THEN [rd[g] EXCEPT !.recIndex = @ - 1, !.rim = @ - 1]
           ELSE rd[g]]
AbsRec ==
    LET U == Unsettled
    IN  [g \in Granule |-> IF g \notin U /\ gst[g] = "Rec" THEN rec[g] ELSE ZeroRec]
AbsDirty == dirty \ UNION {FreedBy(p) : p \in Cpu}
AbsVmids == vmids \ ({call[p].v : p \in {q \in Cpu : pc[q] \in {"create_init", "create_roots"}}}
                     \cup {rd[call[p].r].vmid : p \in {q \in Cpu : RealmGoing(q)}})

Lifecycle == INSTANCE RealmLifecycle
    WITH gst <- AbsGst, refcnt <- AbsRefcnt, rd <- AbsRd, rec <- AbsRec,
         dirty <- AbsDirty, vmids <- AbsVmids

-----------------------------------------------------------------------------
\* Two handlers that run at once have the effect of one after the other: however
\* the lock steps of the CPUs interleave, the GST, the reference counts, the
\* VMIDs and the objects change as RealmLifecycle says.  (This is Lifecycle!Spec,
\* with the stuttering step, which most lock steps are, asked for first.)
Atomic ==
    /\ Lifecycle!Init
    /\ [][UNCHANGED Lifecycle!vars \/ Lifecycle!Next]_hvars
=============================================================================
