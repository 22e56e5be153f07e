----------------------------- MODULE RecContext -----------------------------
(***************************************************************************)
(* The registers that change hands when a CPU goes into a REC and comes    *)
(* back: SIMD, which is saved and restored lazily (rec/simd.rs and the     *)
(* SIMD trap of exception/trap.rs), the timer (rec/timer.rs) and the GIC   *)
(* list registers that the host fills (rec/gic.rs).  into_current and      *)
(* from_current are rec/context.rs.                                        *)
(*                                                                         *)
(* The realms have no SVE and no SME (for a realm that has, simd's         *)
(* save_state is unimplemented!()).  The content of a register file is     *)
(* <<owner, n>>: whose values they are, and a number that tells two of     *)
(* them apart.                                                             *)
(***************************************************************************)
EXTENDS Naturals, Cpus

CONSTANTS
    Rec,      \* the RECs
    NrLrs,    \* ICH_VTR_EL2.ListRegs: the number of the last list register
    HostLrs,  \* the list registers that the host may give, indexed by Lr
    Writers   \* bound of the model: the CPUs and RECs that write new values again

\* a list register that is not Invalid: its vINTID, and whether the fields that
\* validate_state looks at (HW, priority, pINTID, the range of vINTID) are right
LrValue == {None} \cup [vintid : Nat, wellFormed : BOOLEAN]

ASSUME ContextAssumption ==
    /\ None \notin Rec
    /\ NrLrs \in Nat
    /\ \A lrs \in HostLrs : lrs \in [0 .. NrLrs -> LrValue]

VARIABLES
    hw,       \* the registers of every CPU
    nsSimd,   \* NS_SIMD: what is saved of the host, for every CPU
    ctx,      \* rec.context of every REC
    hostFpu,  \* history: what the host has in its SIMD registers, on every CPU
    left      \* history: what a REC has in its registers

ctxVars == <<hw, nsSimd, ctx, hostFpu, left>>

Lr == 0 .. NrLrs
NoLrs == [i \in Lr |-> None]
Flip(v) == IF v[1] \in Writers THEN <<v[1], 1 - v[2]>> ELSE v

\* init_simd, init_timer and init_gic: SIMD traps, nothing is saved, and the
\* virtual interface is enabled.
NewContext(c) ==
    [isUsed |-> FALSE, isSaved |-> FALSE, fpu |-> None, open |-> FALSE,
     timer |-> <<c, 0>>, lrs |-> NoLrs, en |-> TRUE]

RecContextInit ==
    /\ hw = [p \in Cpu |-> [fpu |-> <<p, 0>>, open |-> TRUE, timer |-> <<p, 0>>,
                            lrs |-> NoLrs, en |-> FALSE]]
    /\ nsSimd = [p \in Cpu |-> None]
    /\ ctx = [c \in Rec |-> NewContext(c)]
    /\ hostFpu = [p \in Cpu |-> <<p, 0>>]
    /\ left = [c \in Rec |-> [fpu |-> None, timer |-> <<c, 0>>]]

-----------------------------------------------------------------------------
(* The GIC                                                                  *)

\* validate_state over the list registers of the run page: those before the last
\* are looked at, against all the ones after them.
ValidateState(lrs) ==
    \A i \in 0 .. NrLrs - 1 :
        lrs[i] # None =>
            /\ lrs[i].wellFormed
            /\ \A j \in i + 1 .. NrLrs : lrs[j] # None => lrs[j].vintid # lrs[i].vintid

\* Variant: the last list register is taken too.
ReceiveAllLrs(mine, lrs) == lrs

\* receive_state_from_host: ich_lr_el2[..nr_lrs]
ReceiveLrs(mine, lrs) == [i \in Lr |-> IF i < NrLrs THEN lrs[i] ELSE mine[i]]

Receive(c, lrs) == ctx' = [ctx EXCEPT ![c].lrs = ReceiveLrs(@, lrs)]

-----------------------------------------------------------------------------
(* Into the REC and back                                                    *)

\* Variant: one save area for all the CPUs.
NsAreaShared(p) == CHOOSE q \in Cpu : TRUE

\* NS_SIMD[get_cpu_id()]
NsArea(p) == p

\* save_fpu and restore_fpu: all of the SIMD registers at once
SaveFpu(r) == r.fpu
RestoreFpu(r, fpu) == [r EXCEPT !.fpu = fpu]

\* gic::restore_state and timer::restore_state: the registers are the REC's.
GicRestored(r, s) == [r EXCEPT !.lrs = s.lrs, !.en = s.en]
TimerRestored(r, s) == [r EXCEPT !.timer = s.timer]

\* simd::restore_state leaves the host's SIMD registers as they are, behind the
\* traps of the REC.
SimdRestored(r, s) == [r EXCEPT !.open = s.open]

\* into_current; the host's SIMD registers are saved first.
IntoCurrent(p, c) ==
    /\ hw' = [hw EXCEPT ![p] =
                SimdRestored(TimerRestored(GicRestored(hw[p], ctx[c]), ctx[c]), ctx[c])]
    /\ nsSimd' = [nsSimd EXCEPT ![NsArea(p)] = SaveFpu(hw[p])]
    /\ UNCHANGED <<ctx, hostFpu, left>>

\* Variant: the traps of the REC are left as they are.
SimdSavedOpen(s, r) ==
    [s EXCEPT !.isUsed = FALSE, !.open = r.open,
              !.isSaved = s.isSaved \/ s.isUsed,
              !.fpu = IF s.isUsed THEN SaveFpu(r) ELSE s.fpu]

\* simd::save_state for the REC: its registers are saved if it has used them.
SimdSaved(s, r) ==
    [s EXCEPT !.isUsed = FALSE, !.open = FALSE,
              !.isSaved = s.isSaved \/ s.isUsed,
              !.fpu = IF s.isUsed THEN SaveFpu(r) ELSE s.fpu]

GicSaved(s, r) == [s EXCEPT !.lrs = r.lrs, !.en = r.en]
TimerSaved(s, r) == [s EXCEPT !.timer = r.timer]

\* from_current: the REC's registers are saved, the virtual interface is disabled,
\* and the host has its SIMD registers again.  The timer keeps its values.
FromCurrent(p, c) ==
    /\ ctx' = [ctx EXCEPT ![c] =
                 SimdSaved(TimerSaved(GicSaved(ctx[c], hw[p]), hw[p]), hw[p])]
    /\ hw' = [hw EXCEPT ![p] =
                RestoreFpu([hw[p] EXCEPT !.en = FALSE, !.open = TRUE], nsSimd[NsArea(p)])]
    /\ UNCHANGED <<nsSimd, hostFpu, left>>

-----------------------------------------------------------------------------
(* While the realm or the host runs                                         *)

\* handle_lower_exception, SIMD: the traps are lifted, and what was saved of the
\* REC is restored; back to the REC.
SimdTrap(p, c) ==
    /\ ~hw[p].open
    /\ LET open == [hw[p] EXCEPT !.open = TRUE]
       IN  hw' = [hw EXCEPT ![p] = IF ctx[c].isSaved THEN RestoreFpu(open, ctx[c].fpu) ELSE open]
    /\ ctx' = [ctx EXCEPT ![c].isUsed = TRUE]
    /\ UNCHANGED <<nsSimd, hostFpu, left>>

\* The realm writes its timer, and its SIMD registers if it can.
RealmWrites(p, c) ==
    LET v == Flip(left[c].timer)
        simd(old) == IF hw[p].open THEN v ELSE old
    IN  /\ hw' = [hw EXCEPT ![p] = [@ EXCEPT !.timer = v, !.fpu = simd(hw[p].fpu)]]
        /\ left' = [left EXCEPT ![c] = [fpu |-> simd(left[c].fpu), timer |-> v]]
        /\ UNCHANGED <<nsSimd, ctx, hostFpu>>

\* Back at the host, which has timer and list registers of its own, and has written
\* its SIMD registers before it calls again.
HostRuns(p) ==
    /\ hw' = [hw EXCEPT ![p] = [@ EXCEPT !.fpu = Flip(hostFpu[p]), !.timer = <<p, 0>>,
                                         !.lrs = NoLrs]]
    /\ hostFpu' = [hostFpu EXCEPT ![p] = Flip(@)]
    /\ UNCHANGED <<nsSimd, ctx, left>>
=============================================================================
