--------------------------- MODULE RecEnterProofs ---------------------------
(***************************************************************************)
(* HostSimdPreserved, ContextPreserved and ListRegistersSound for any      *)
(* number of CPUs, RECs, granules and list registers, and whether the host *)
(* gives a page to one call at a time or not.                              *)
(*                                                                         *)
(* None of the three is inductive.  RegistersInv adds where the values are *)
(* that are not in the registers: the host's in NS_SIMD while a REC runs,  *)
(* a REC's in its context while it does not, or while it has not touched   *)
(* SIMD; that is_used and the traps agree; and that the list register      *)
(* behind the ones the host gives stays empty.  RecLocked is what the lock *)
(* of a REC is needed for: no two CPUs have the same REC.                  *)
(***************************************************************************)
EXTENDS RecEnter, TLAPS

\* The states of REC_ENTER in which at[p].rec is the REC that it works on.
Entered == {"check_run", "prepare", "realm", "map_out", "check_out", "copy_out", "unmap_out"}

Pc == {"host", "map", "set", "unmap", "map_src", "check_src", "copy_src", "unmap_src", "lock",
       "check_also", "map_also", "write_also", "set_also", "others", "zero_also", "unmap_also",
       "zero", "read_ns", "read_meta"} \cup Entered
Kind == {"none", "Enter", "Delegated", "Undelegated"} \cup Objects
Call == [pc : Pc, kind : Kind, src : Page \cup {None}, target : Page \cup {None},
         also : Page \cup {None}, rec : Rec \cup {None}]

Owned == (Cpu \cup Rec) \X {0, 1}
Value == Owned \cup {None}
Lrs == [Lr -> LrValue]

HwRec == [fpu : Value, open : BOOLEAN, timer : Value, lrs : Lrs, en : BOOLEAN]
CtxRec == [isUsed : BOOLEAN, isSaved : BOOLEAN, fpu : Value, open : BOOLEAN,
           timer : Value, lrs : Lrs, en : BOOLEAN]

TypeInv ==
    /\ at \in [Cpu -> Call]
    /\ hw \in [Cpu -> HwRec]
    /\ nsSimd \in [Cpu -> Value]
    /\ ctx \in [Rec -> CtxRec]
    /\ hostFpu \in [Cpu -> Owned]
    /\ left \in [Rec -> [fpu : Value, timer : Owned]]

RecLocked ==
    /\ \A p \in Cpu : at[p].pc \in Entered \/ at[p].kind = "Enter" => at[p].rec \in Rec
    /\ \A p, q \in Cpu : p # q /\ at[p].rec \in Rec => at[p].rec # at[q].rec

Runs(p) == at[p].pc = "realm"

\* The registers of a CPU that is not in a REC, and of one that is.
HostSide(p) == hw[p].fpu = hostFpu[p] /\ hw[p].open /\ ~hw[p].en
RealmSide(p) ==
    LET c == at[p].rec
    IN  /\ nsSimd[p] = hostFpu[p]
        /\ hw[p].en
        /\ hw[p].timer = left[c].timer
        /\ hw[p].open = ctx[c].isUsed
        /\ hw[p].open /\ left[c].fpu # None => hw[p].fpu = left[c].fpu
        /\ hw[p].lrs = ctx[c].lrs

\* The context of a REC that no CPU runs.
RestSide(c) == ~ctx[c].isUsed /\ ctx[c].timer = left[c].timer

\* What is saved of a REC that has not touched SIMD since it was entered.
SavedSide(c) ==
    /\ ~ctx[c].open
    /\ ctx[c].en
    /\ ~ctx[c].isUsed /\ left[c].fpu # None => ctx[c].isSaved /\ ctx[c].fpu = left[c].fpu

SoundLrs(lrs) ==
    /\ lrs[NrLrs] = None
    /\ \A i \in Lr : lrs[i] # None =>
          /\ lrs[i].wellFormed
          /\ \A j \in Lr \ {i} : lrs[j] # None => lrs[j].vintid # lrs[i].vintid

RegistersInv ==
    /\ \A p \in Cpu : IF Runs(p) THEN RealmSide(p) ELSE HostSide(p)
    /\ \A c \in Rec :
          /\ SavedSide(c)
          /\ SoundLrs(ctx[c].lrs)
          /\ (\A p \in Cpu : Runs(p) => at[p].rec # c) => RestSide(c)

IInv == TypeInv /\ RecLocked /\ RegistersInv

\* A step of a call outside of the realm: it works on the REC it has, or on none.
OutStep(p) ==
    /\ at' \in [Cpu -> Call]
    /\ \A q \in Cpu \ {p} : at'[q] = at[q]
    /\ ~Runs(p) /\ at'[p].pc # "realm"
    /\ at'[p].rec \in {at[p].rec, None}
    /\ at'[p].pc \in Entered \/ at'[p].kind = "Enter" =>
          at'[p].rec = at[p].rec /\ (at[p].pc \in Entered \/ at[p].kind = "Enter")

-----------------------------------------------------------------------------

\* The sides of the invariant for a CPU and for a REC.
CpuSide(p) == IF Runs(p) THEN RealmSide(p) ELSE HostSide(p)
RecSide(c) ==
    /\ SavedSide(c)
    /\ SoundLrs(ctx[c].lrs)
    /\ (\A p \in Cpu : Runs(p) => at[p].rec # c) => RestSide(c)

-----------------------------------------------------------------------------

\* The strengthened invariant holds in every reachable state: RECs stay locked,
\* and every value is where into_current and from_current put it.
THEOREM RegistersInvariant == Spec => []IInv
<1>NextInv. IInv /\ [Next]_vars => IInv'
\* The two ways in which a handler goes on: with another step, or back to the host.
  <2> USE Zenon
  <2>GotoOut. ASSUME at \in [Cpu -> Call], NEW p \in Cpu, NEW l \in Pc \ {"realm"}, Goto(p, l),
                     ~Runs(p), l \in Entered => at[p].pc \in Entered \/ at[p].kind = "Enter"
              PROVE  OutStep(p)
    BY <2>GotoOut, SMTT(30) DEF OutStep, Runs, Goto, Call, Pc, Entered
  <2>ReturnOut. ASSUME at \in [Cpu -> Call], NEW p \in Cpu, Return(p), ~Runs(p)
                PROVE  OutStep(p)
    BY <2>ReturnOut DEF OutStep, Runs, Return, AtHost, Call, Pc, Kind, Entered
  \* The handlers of RmmMap never work on a REC of their own.
  <2>MapStepOut. ASSUME at \in [Cpu -> Call], NEW p \in Cpu, MapStep(p)
                 PROVE  OutStep(p)
    <3> USE <2>MapStepOut
    <3>0. ASSUME NEW a \in Call, at[p].pc = "host", at' = [at EXCEPT ![p] = a], a.rec = None,
                 a.kind # "Enter", a.pc \notin Entered
          PROVE  OutStep(p)
      BY <3>0 DEF OutStep, Runs, Entered
    <3>1. ASSUME NEW l \in Pc \ Entered, NEW kind \in Kind \ {"Enter"}, NEW g \in Page,
                 NEW src \in Page \cup {None}, NEW also \in Page \cup {None}, at[p].pc = "host",
                 at' = [at EXCEPT ![p] = [AtHost EXCEPT !.pc = l, !.kind = kind, !.target = g,
                                                       !.src = src, !.also = also]]
          PROVE  OutStep(p)
      <4>1. PICK a : a = [AtHost EXCEPT !.pc = l, !.kind = kind, !.target = g, !.src = src, !.also = also]
        OBVIOUS
      <4>2. a \in Call /\ a.rec = None /\ a.kind = kind /\ a.pc = l
        BY <4>1 DEF Call, AtHost
      <4> QED
        BY <3>0, <3>1, <4>1, <4>2
    <3>2. ASSUME NEW g \in Page, Begin(p, g) PROVE OutStep(p)
      <4>1. CASE DelegateBegin(p, g) \/ UndelegateBegin(p, g)
        <5>1. PICK kind \in {"Delegated", "Undelegated"} :
                 /\ at' = [at EXCEPT ![p] = [AtHost EXCEPT !.pc = "map", !.kind = kind, !.target = g]]
                 /\ at[p].pc = "host"
          BY <4>1 DEF DelegateBegin, UndelegateBegin
        <5>2. PICK a : a = [AtHost EXCEPT !.pc = "map", !.kind = kind, !.target = g]
          OBVIOUS
        <5>3. a \in Call /\ a.rec = None /\ a.kind = kind /\ a.pc = "map"
          BY <5>1, <5>2 DEF Call, AtHost, Pc, Kind
        <5> QED
          BY <3>0, <5>1, <5>2, <5>3 DEF Entered
      <4>2. ASSUME NEW kind \in Kinds, NEW src \in Page \cup {None}, NEW also \in Page \cup {None},
                   CreateBegin(p, g, kind, src, also)
            PROVE  OutStep(p)
        <5>1. kind \in Kind \ {"Enter"} /\ "map" \in Pc \ Entered
          BY <4>2, MapAssumption DEF Kind, Objects, Pc, Entered
        <5> QED
          BY <3>1, <4>2, <5>1 DEF CreateBegin
      <4>3. ASSUME NEW src \in Page, NEW also \in Page, RecCreateBegin(p, g, src, also) PROVE OutStep(p)
        <5>1. "Rec" \in Kind \ {"Enter"} /\ "map_src" \in Pc \ Entered
          BY DEF Kind, Objects, Pc, Entered
        <5> QED
          BY <3>1, <4>3, <5>1 DEF RecCreateBegin
      <4>4. ASSUME NEW src \in Page, SetMetadataBegin(p, g, src) PROVE OutStep(p)
        <5>1. PICK a : /\ a = [AtHost EXCEPT !.pc = "read_ns", !.kind = "Metadata", !.target = g, !.src = src]
                       /\ at[p].pc = "host" /\ at' = [at EXCEPT ![p] = a]
          BY <4>4 DEF SetMetadataBegin
        <5>2. a \in Call /\ a.rec = None /\ a.kind = "Metadata" /\ a.pc = "read_ns"
          BY <5>1 DEF Call, AtHost, Pc, Kind, Objects
        <5> QED
          BY <3>0, <5>1, <5>2 DEF Entered
      <4>5. CASE ReadMetadataBegin(p, g)
        <5>1. PICK a : /\ a = [AtHost EXCEPT !.pc = "read_meta", !.kind = "Metadata", !.target = g]
                       /\ at[p].pc = "host" /\ at' = [at EXCEPT ![p] = a]
          BY <4>5 DEF ReadMetadataBegin
        <5>2. a \in Call /\ a.rec = None /\ a.kind = "Metadata" /\ a.pc = "read_meta"
          BY <5>1 DEF Call, AtHost, Pc, Kind, Objects
        <5> QED
          BY <3>0, <5>1, <5>2 DEF Entered
      <4>6. CASE DestroyBegin(p, g)
        <5>1. PICK l : l = IF gst[g] \in {"RD", "Rec"} THEN "others" ELSE "zero"
          OBVIOUS
        <5>2. PICK a : a = [AtHost EXCEPT !.kind = gst[g], !.target = g, !.pc = l]
          OBVIOUS
        <5>3. /\ at[p].pc = "host" /\ at' = [at EXCEPT ![p] = a] /\ l \in {"others", "zero"}
              /\ gst[g] \in {"RD", "RTT", "Data", "Rec"}
          BY <4>6, <5>1, <5>2 DEF DestroyBegin
        <5>4. a \in Call /\ a.rec = None /\ a.kind = gst[g] /\ a.pc = l
          BY <5>2, <5>3 DEF Call, AtHost, Pc, Kind, Objects
        <5> QED
          BY <3>0, <5>3, <5>4 DEF Entered
      <4> QED
        BY <3>2, <4>1, <4>2, <4>3, <4>4, <4>5, <4>6 DEF Begin
    <3>3. ASSUME NEW l \in {"zero_also", "others"}, NEW also \in Page \cup {None}, ~Runs(p),
                 at' = [at EXCEPT ![p] = [@ EXCEPT !.pc = l, !.also = also]]
          PROVE  OutStep(p)
      <4>1. PICK a : a = [at[p] EXCEPT !.pc = l, !.also = also]
        OBVIOUS
      <4>2. a \in Call /\ a.rec = at[p].rec /\ a.kind = at[p].kind /\ a.pc = l
        BY <4>1 DEF Call, Pc
      <4>3. at' = [at EXCEPT ![p] = a] /\ l \notin Entered /\ l # "realm"
        BY <3>3, <4>1 DEF Entered
      <4> QED
        BY <3>3, <4>2, <4>3 DEF OutStep
    <3>4. CASE MapTarget(p) \/ MapSrc(p) \/ CopySrc(p) \/ UnmapSrc(p)
      BY <3>4, <2>GotoOut, ZenonT(60) DEF MapTarget, MapSrc, CopySrc, UnmapSrc, AfterCopy, Runs, Pc, Entered
    <3>5. CASE SetGranule(p) \/ CheckSrc(p) \/ LockTarget(p) \/ CheckAlso(p) \/ SetAlso(p) \/ ZeroObject(p)
      BY <3>5, <2>GotoOut, <2>ReturnOut, ZenonT(60)
        DEF SetGranule, CheckSrc, LockTarget, CheckAlso, SetAlso, ZeroObject, Runs, Pc, Entered
    <3>6. CASE UnmapTarget(p) \/ CreateFails(p) \/ ReadMetadata(p)
      BY <3>6, <2>ReturnOut DEF UnmapTarget, CreateFails, ReadMetadata, Runs
    <3>7. CASE MapAlso(p) \/ WriteAlso(p) \/ NoOthers(p) \/ FromNs(p)
      BY <3>7, <2>GotoOut, ZenonT(60) DEF MapAlso, WriteAlso, NoOthers, FromNs, Runs, Pc, Entered
    <3>8. CASE ZeroAlso(p) \/ UnmapAlso(p)
      BY <3>3, <3>8, <2>GotoOut, ZenonT(60) DEF ZeroAlso, UnmapAlso, Runs, Pc, Entered
    <3>9. ASSUME NEW g \in Page, NextOther(p, g) PROVE OutStep(p)
      BY <3>3, <3>9 DEF NextOther, Runs
    <3>10. ASSUME NEW g \in Page, MapSrcUnaligned(p, g) PROVE OutStep(p)
      BY <3>10, <2>ReturnOut DEF MapSrcUnaligned, Runs
    <3> QED
      BY <3>2, <3>4, <3>5, <3>6, <3>7, <3>8, <3>9, <3>10, ZenonT(60) DEF MapStep
  \* Such a step moves no register, and keeps the invariant.
  <2>OutStepInv. ASSUME IInv, NEW p \in Cpu, OutStep(p), UNCHANGED ctxVars
                 PROVE  IInv'
    <3> USE <2>OutStepInv
    <3> USE DEF IInv, ctxVars
    <3>1. TypeInv'
      BY DEF TypeInv, HwRec, CtxRec, OutStep
    <3>2. RecLocked'
      <4>1. \A q \in Cpu : at'[q].pc \in Entered \/ at'[q].kind = "Enter" => at'[q].rec \in Rec
        BY DEF RecLocked, OutStep
      <4>2. \A q \in Cpu : at'[q].rec \in Rec => at'[q].rec = at[q].rec
        BY ContextAssumption DEF OutStep
      <4>3. \A q \in Cpu : at'[q].rec # None => at'[q].rec = at[q].rec
        BY DEF OutStep
      <4> QED
        BY <4>1, <4>2, <4>3, ContextAssumption DEF RecLocked
    <3>3. \A q \in Cpu : Runs(q)' <=> Runs(q)
      BY DEF OutStep, Runs
    <3>4. \A q \in Cpu : Runs(q) => at'[q] = at[q]
      BY DEF OutStep
    <3>5. RegistersInv'
      BY <3>3, <3>4, SMTT(30) DEF RegistersInv, RealmSide, HostSide, SavedSide, RestSide
    <3> QED
      BY <3>1, <3>2, <3>5
  \* A step of CPU p on REC c leaves the registers of the other CPUs and the
  \* contexts of the other RECs as they should be.
  <2>OthersKeep. ASSUME IInv, NEW p \in Cpu, NEW c \in Rec, at[p].rec = c,
                        \A q \in Cpu \ {p} : /\ at'[q] = at[q] /\ hw'[q] = hw[q]
                                             /\ nsSimd'[q] = nsSimd[q] /\ hostFpu'[q] = hostFpu[q],
                        \A d \in Rec \ {c} : ctx'[d] = ctx[d] /\ left'[d] = left[d],
                        CpuSide(p)', RecSide(c)'
                 PROVE  RegistersInv'
    <3> USE <2>OthersKeep
    <3>1. ASSUME NEW q \in Cpu, q # p PROVE CpuSide(q)'
      <4>1. at'[q] = at[q] /\ hw'[q] = hw[q] /\ nsSimd'[q] = nsSimd[q] /\ hostFpu'[q] = hostFpu[q]
        BY <3>1
      <4>2. CpuSide(q)
        BY DEF IInv, RegistersInv, CpuSide
      <4>3. CASE Runs(q)
        <5>1. at[q].rec \in Rec \ {c}
          BY <3>1, <4>3 DEF IInv, RecLocked, Runs, Entered
        <5>2. ctx'[at[q].rec] = ctx[at[q].rec] /\ left'[at[q].rec] = left[at[q].rec]
          BY <5>1
        <5> QED
          BY <4>1, <4>2, <4>3, <5>2, SMTT(30) DEF CpuSide, RealmSide, Runs
      <4>4. CASE ~Runs(q)
        BY <4>1, <4>2, <4>4 DEF CpuSide, HostSide, Runs
      <4> QED
        BY <4>3, <4>4
    <3>2. ASSUME NEW d \in Rec, d # c PROVE RecSide(d)'
      <4>1. ctx'[d] = ctx[d] /\ left'[d] = left[d]
        BY <3>2
      <4>2. RecSide(d)
        BY DEF IInv, RegistersInv, RecSide
      <4>3. (\A q \in Cpu : Runs(q)' => at'[q].rec # d) => \A q \in Cpu : Runs(q) => at[q].rec # d
        BY <3>2 DEF Runs
      <4> QED
        BY <4>1, <4>2, <4>3, ZenonT(60) DEF RecSide, SavedSide, RestSide
    <3> QED
      BY <3>1, <3>2 DEF RegistersInv, CpuSide, RecSide
  \* validate_state and receive_state_from_host: what is taken over is sound, since
  \* the register behind the ones that are validated is not taken.
  <2>ReceiveSound. ASSUME NEW mine \in Lrs, SoundLrs(mine), NEW lrs \in Lrs, ValidateState(lrs)
                   PROVE  SoundLrs(ReceiveLrs(mine, lrs)) /\ ReceiveLrs(mine, lrs) \in Lrs
    <3> USE <2>ReceiveSound
    <3> DEFINE new == ReceiveLrs(mine, lrs)
    <3>1. new \in Lrs /\ new[NrLrs] = None /\ \A i \in Lr : new[i] # None => i \in 0 .. NrLrs - 1 /\ new[i] = lrs[i]
      BY ContextAssumption, SMTT(30) DEF Lrs, Lr, ReceiveLrs, SoundLrs
    <3>2. ASSUME NEW i \in Lr, NEW j \in Lr, i # j, new[i] # None, new[j] # None
          PROVE  new[i].wellFormed /\ new[j].vintid # new[i].vintid
      <4>1. i \in 0 .. NrLrs - 1 /\ j \in 0 .. NrLrs - 1 /\ lrs[i] = new[i] /\ lrs[j] = new[j]
        BY <3>1, <3>2
      <4>2. CASE i < j
        BY <3>2, <4>1, <4>2, ContextAssumption, SMTT(30) DEF ValidateState, Lr
      <4>3. CASE j < i
        BY <3>2, <4>1, <4>3, ContextAssumption, SMTT(30) DEF ValidateState, Lr
      <4> QED
        BY <3>2, <4>1, <4>2, <4>3, ContextAssumption, SMTT(30)
    <3>3. \A i \in Lr : new[i] # None => new[i].wellFormed
      BY <3>1 DEF ValidateState
    <3> QED
      BY <3>1, <3>2, <3>3 DEF SoundLrs
  <2>FlipOwned. \A v \in Owned : Flip(v) \in Owned
    BY SMTT(30) DEF Owned, Flip
  \* REC_ENTER takes a REC that no other call has.
  <2>EnterBeginInv. ASSUME IInv, NEW p \in Cpu, NEW c \in Rec, NEW run \in Page, EnterBegin(p, c, run)
                    PROVE  IInv'
    <3> USE <2>EnterBeginInv
    <3> DEFINE call == [AtHost EXCEPT !.pc = "map_src", !.kind = "Enter", !.src = run, !.rec = c]
    <3>1. call \in Call /\ call.rec = c /\ call.pc = "map_src"
      BY DEF Call, AtHost, Pc, Kind
    <3>2. at' = [at EXCEPT ![p] = call] /\ at[p].pc = "host" /\ (\A q \in Cpu : at[q].rec # c) /\ UNCHANGED ctxVars
      BY DEF EnterBegin
    <3> HIDE DEF call
    <3>3. at' \in [Cpu -> Call] /\ at'[p] = call /\ \A q \in Cpu \ {p} : at'[q] = at[q]
      BY <3>1, <3>2 DEF IInv, TypeInv, HwRec, CtxRec
    <3>4. TypeInv'
      BY <3>2, <3>3 DEF IInv, TypeInv, HwRec, CtxRec, ctxVars
    <3>5. RecLocked'
      BY <3>1, <3>2, <3>3, ZenonT(60) DEF IInv, RecLocked
    <3>6. \A q \in Cpu : (Runs(q)' <=> Runs(q)) /\ (Runs(q) => at'[q] = at[q])
      BY <3>1, <3>2, <3>3 DEF Runs
    <3>7. RegistersInv'
      BY <3>2, <3>6, SMTT(30) DEF IInv, RegistersInv, RealmSide, HostSide, SavedSide, RestSide, ctxVars
    <3> QED
      BY <3>4, <3>5, <3>7 DEF IInv
  \* The REC of a call that has come as far as its run page.
  <2>EnteredRec. ASSUME IInv, NEW p \in Cpu, at[p].pc \in Entered
                 PROVE  /\ at[p].rec \in Rec
                        /\ \A q \in Cpu : q # p => at[q].rec # at[p].rec
    BY <2>EnteredRec DEF IInv, RecLocked
  <2>GotoLocked. ASSUME IInv, NEW p \in Cpu, at[p].pc \in Entered, NEW l \in Entered, Goto(p, l)
                 PROVE  /\ at' \in [Cpu -> Call]
                        /\ at'[p].pc = l /\ at'[p].rec = at[p].rec
                        /\ \A q \in Cpu \ {p} : at'[q] = at[q]
                        /\ RecLocked'
    <3> USE <2>GotoLocked
    <3>1. /\ at' \in [Cpu -> Call] /\ at'[p].pc = l /\ at'[p].rec = at[p].rec
          /\ \A q \in Cpu \ {p} : at'[q] = at[q]
      <4> DEFINE new == [at[p] EXCEPT !.pc = l]
      <4>1. at \in [Cpu -> Call] /\ at[p] \in Call
        BY DEF IInv, TypeInv
      <4>2. new \in Call /\ new.pc = l /\ new.rec = at[p].rec
        BY <4>1 DEF Call, Pc
      <4>3. at' = [at EXCEPT ![p] = new]
        BY DEF Goto
      <4> HIDE DEF new
      <4> QED
        BY <4>1, <4>2, <4>3
    <3>2. RecLocked'
      BY <3>1, <2>EnteredRec, SMTT(30) DEF IInv, RecLocked
    <3> QED
      BY <3>1, <3>2
  <2>EnterAcceptedInv. ASSUME IInv, NEW p \in Cpu, NEW lrs \in HostLrs, EnterAccepted(p, lrs)
                       PROVE  IInv'
    <3> USE <2>EnterAcceptedInv
    <3>0. PICK c \in Rec : at[p].rec = c
      BY <2>EnteredRec DEF EnterAccepted, Entered
    <3> DEFINE new == ReceiveLrs(ctx[c].lrs, lrs)
    <3>1. at[p].rec = c /\ at[p].pc = "check_run" /\ at[p].pc \in Entered
      BY <3>0 DEF EnterAccepted, Entered
    <3>2. at' \in [Cpu -> Call] /\ at'[p].pc = "prepare" /\ at'[p].rec = c
          /\ (\A q \in Cpu \ {p} : at'[q] = at[q]) /\ RecLocked'
      BY <3>1, <2>GotoLocked DEF EnterAccepted, Entered
    <3>3. ctx[c].lrs \in Lrs /\ SoundLrs(ctx[c].lrs)
      BY <3>1 DEF IInv, TypeInv, HwRec, CtxRec, RegistersInv
    <3>4. new \in Lrs /\ SoundLrs(new)
      BY <3>3, <2>ReceiveSound, ContextAssumption DEF EnterAccepted, Lrs, Lr
    <3>5. ctx' = [ctx EXCEPT ![c].lrs = new] /\ UNCHANGED <<hw, nsSimd, hostFpu, left>>
      BY <3>1 DEF EnterAccepted, Receive
    <3> HIDE DEF new
    <3>6. TypeInv'
      <4> DEFINE s == [ctx[c] EXCEPT !.lrs = new]
      <4>1. ctx \in [Rec -> CtxRec] /\ ctx[c] \in CtxRec
        BY DEF IInv, TypeInv
      <4>2. s \in CtxRec /\ ctx' = [ctx EXCEPT ![c] = s]
        BY <3>4, <3>5, <4>1 DEF CtxRec
      <4> HIDE DEF s
      <4>3. ctx' \in [Rec -> CtxRec]
        BY <4>1, <4>2
      <4> QED
        BY <3>2, <3>5, <4>3 DEF IInv, TypeInv
    <3>7. /\ \A d \in Rec \ {c} : ctx'[d] = ctx[d]
          /\ ctx'[c].lrs = new /\ ctx'[c].isUsed = ctx[c].isUsed /\ ctx'[c].isSaved = ctx[c].isSaved
          /\ ctx'[c].fpu = ctx[c].fpu /\ ctx'[c].open = ctx[c].open
          /\ ctx'[c].timer = ctx[c].timer /\ ctx'[c].en = ctx[c].en
      BY <3>1, <3>5, SMTT(30) DEF IInv, TypeInv, HwRec, CtxRec
    <3>8. CpuSide(p)'
      BY <3>1, <3>2, <3>5 DEF IInv, RegistersInv, CpuSide, HostSide, Runs
    <3>9. RecSide(c)'
      <4>1. \A q \in Cpu : Runs(q) => at[q].rec # c
        BY <3>1, <2>EnteredRec DEF Runs
      <4>2. SavedSide(c) /\ RestSide(c)
        BY <3>1, <4>1 DEF IInv, RegistersInv
      <4> QED
        BY <3>4, <3>5, <3>7, <4>2 DEF RecSide, SavedSide, RestSide
    <3>10. RegistersInv'
      BY <3>1, <3>2, <3>5, <3>7, <3>8, <3>9, <2>OthersKeep
    <3> QED
      BY <3>2, <3>6, <3>10 DEF IInv
  <2>RunPrepareInv. ASSUME IInv, NEW p \in Cpu, RunPrepare(p)
                    PROVE  IInv'
    <3> USE <2>RunPrepareInv
    <3>0. PICK c \in Rec : at[p].rec = c
      BY <2>EnteredRec DEF RunPrepare, Entered
    <3>1. at[p].pc = "prepare" /\ at[p].pc \in Entered
      BY DEF RunPrepare, Entered
    <3>2. at' \in [Cpu -> Call] /\ at'[p].pc = "realm" /\ at'[p].rec = c
          /\ (\A q \in Cpu \ {p} : at'[q] = at[q]) /\ RecLocked'
      BY <3>0, <3>1, <2>GotoLocked DEF RunPrepare, Entered
    <3>3. /\ hw' = [hw EXCEPT ![p] = [@ EXCEPT !.lrs = ctx[c].lrs, !.en = ctx[c].en,
                                               !.timer = ctx[c].timer, !.open = ctx[c].open]]
          /\ nsSimd' = [nsSimd EXCEPT ![p] = hw[p].fpu]
          /\ UNCHANGED <<ctx, hostFpu, left>>
      <4>1. hw[p] \in HwRec
        BY DEF IInv, TypeInv
      <4>2. SimdRestored(TimerRestored(GicRestored(hw[p], ctx[c]), ctx[c]), ctx[c])
              = [hw[p] EXCEPT !.lrs = ctx[c].lrs, !.en = ctx[c].en,
                              !.timer = ctx[c].timer, !.open = ctx[c].open]
        BY <4>1 DEF SimdRestored, TimerRestored, GicRestored, HwRec
      <4> QED
        BY <3>0, <4>2 DEF RunPrepare, IntoCurrent, NsArea, SaveFpu
    <3>4. TypeInv'
      <4>1. hw' \in [Cpu -> HwRec]
        <5>1. hw[p] \in HwRec /\ ctx[c] \in CtxRec
          BY DEF IInv, TypeInv
        <5>2. [hw[p] EXCEPT !.lrs = ctx[c].lrs, !.en = ctx[c].en, !.timer = ctx[c].timer,
                            !.open = ctx[c].open] \in HwRec
          BY <5>1 DEF HwRec, CtxRec
        <5> QED
          BY <3>3, <5>2 DEF IInv, TypeInv
      <4>2. nsSimd' \in [Cpu -> Value]
        BY <3>3 DEF IInv, TypeInv, HwRec, CtxRec
      <4> QED
        BY <3>2, <3>3, <4>1, <4>2 DEF IInv, TypeInv, HwRec, CtxRec
    <3>5. /\ \A q \in Cpu \ {p} : hw'[q] = hw[q] /\ nsSimd'[q] = nsSimd[q]
          /\ hw'[p].lrs = ctx[c].lrs /\ hw'[p].en = ctx[c].en /\ hw'[p].timer = ctx[c].timer
          /\ hw'[p].open = ctx[c].open /\ nsSimd'[p] = hw[p].fpu
      BY <3>3, SMTT(30) DEF IInv, TypeInv, HwRec, CtxRec
    <3>6. \A q \in Cpu : Runs(q) => at[q].rec # c
      BY <3>0, <3>1, <2>EnteredRec DEF Runs
    <3>7. HostSide(p) /\ SavedSide(c) /\ RestSide(c) /\ SoundLrs(ctx[c].lrs)
      BY <3>1, <3>6 DEF IInv, RegistersInv, Runs
    <3>8. CpuSide(p)'
      <4>1. RealmSide(p)'
        <5>1. nsSimd'[p] = hostFpu'[p] /\ hw'[p].en /\ hw'[p].timer = left'[c].timer
              /\ hw'[p].lrs = ctx'[c].lrs
          BY <3>3, <3>5, <3>7 DEF HostSide, SavedSide, RestSide
        <5>2. hw'[p].open = FALSE /\ ctx'[c].isUsed = FALSE
          BY <3>3, <3>5, <3>7 DEF SavedSide, RestSide, IInv, TypeInv, HwRec, CtxRec
        <5> QED
          BY <3>2, <5>1, <5>2 DEF RealmSide
      <4> QED
        BY <3>2, <4>1 DEF CpuSide, Runs
    <3>9. RecSide(c)'
      BY <3>3, <3>7 DEF RecSide, SavedSide, RestSide
    <3>10. RegistersInv'
      BY <3>0, <3>2, <3>3, <3>5, <3>8, <3>9, <2>OthersKeep
    <3> QED
      BY <3>2, <3>4, <3>10 DEF IInv
  <2>RealmExitInv. ASSUME IInv, NEW p \in Cpu, RealmExit(p)
                   PROVE  IInv'
    <3> USE <2>RealmExitInv
    <3>0. PICK c \in Rec : at[p].rec = c
      BY <2>EnteredRec DEF RealmExit, Entered
    <3>1. Runs(p) /\ at[p].pc \in Entered
      BY DEF RealmExit, Entered, Runs
    <3>2. at' \in [Cpu -> Call] /\ at'[p].pc # "realm" /\ at'[p].rec = c
          /\ (\A q \in Cpu \ {p} : at'[q] = at[q]) /\ RecLocked'
      <4>1. PICK l \in {"prepare", "map_out"} : Goto(p, l)
        BY DEF RealmExit
      <4> QED
        BY <3>0, <3>1, <4>1, <2>GotoLocked DEF Entered
    <3> DEFINE r == hw[p]
               s == ctx[c]
    <3>3. /\ ctx' = [ctx EXCEPT ![c] = SimdSaved(TimerSaved(GicSaved(ctx[c], hw[p]), hw[p]), hw[p])]
          /\ hw' = [hw EXCEPT ![p] = [hw[p] EXCEPT !.en = FALSE, !.open = TRUE, !.fpu = nsSimd[p]]]
          /\ UNCHANGED <<nsSimd, hostFpu, left>>
      BY <3>0 DEF RealmExit, FromCurrent, NsArea, RestoreFpu
    <3>4. r \in HwRec
          /\ s \in CtxRec
      BY DEF IInv, TypeInv, HwRec, CtxRec
    <3>5. /\ ctx'[c] = [s EXCEPT !.isUsed = FALSE, !.open = FALSE, !.isSaved = s.isSaved \/ s.isUsed,
                                 !.fpu = IF s.isUsed THEN r.fpu ELSE s.fpu,
                                 !.lrs = r.lrs, !.en = r.en, !.timer = r.timer]
          /\ \A d \in Rec \ {c} : ctx'[d] = ctx[d]
          /\ ctx' = [ctx EXCEPT ![c] = ctx'[c]]
      BY <3>3, <3>4, ZenonT(60) DEF SimdSaved, TimerSaved, GicSaved, SaveFpu, IInv, TypeInv, HwRec, CtxRec
    <3>6. /\ hw'[p].fpu = nsSimd[p] /\ hw'[p].open = TRUE /\ hw'[p].en = FALSE
          /\ \A q \in Cpu \ {p} : hw'[q] = hw[q]
      BY <3>3, ZenonT(60) DEF IInv, TypeInv, HwRec, CtxRec
    <3>7. /\ ctx'[c].isUsed = FALSE /\ ctx'[c].open = FALSE
          /\ ctx'[c].isSaved = (s.isSaved \/ s.isUsed)
          /\ ctx'[c].fpu = (IF s.isUsed THEN r.fpu ELSE s.fpu)
          /\ ctx'[c].lrs = r.lrs /\ ctx'[c].en = r.en /\ ctx'[c].timer = r.timer
      BY <3>4, <3>5, SMTT(30)
    <3>8. RealmSide(p) /\ SavedSide(c) /\ SoundLrs(ctx[c].lrs)
      BY <3>1 DEF IInv, RegistersInv
    <3>9. TypeInv'
      <4>1. ctx'[c] \in CtxRec
        <5> DEFINE saved == s.isSaved \/ s.isUsed
                   fpu == IF s.isUsed THEN r.fpu ELSE s.fpu
        <5>1. saved \in BOOLEAN /\ fpu \in Value
          BY <3>4 DEF HwRec, CtxRec
        <5>2. r.lrs \in Lrs /\ r.en \in BOOLEAN /\ r.timer \in Value
          BY <3>4 DEF HwRec
        <5>3. ctx'[c] = [s EXCEPT !.isUsed = FALSE, !.open = FALSE, !.isSaved = saved,
                                  !.fpu = fpu, !.lrs = r.lrs, !.en = r.en, !.timer = r.timer]
          BY <3>5
        <5> HIDE DEF saved, fpu, r, s
        <5> QED
          BY <3>4, <5>1, <5>2, <5>3 DEF CtxRec
      <4>2. ctx' \in [Rec -> CtxRec]
        BY <3>5, <4>1, ZenonT(60) DEF IInv, TypeInv, HwRec, CtxRec
      <4>3. hw' \in [Cpu -> HwRec]
        <5> DEFINE h == [hw[p] EXCEPT !.en = FALSE, !.open = TRUE, !.fpu = nsSimd[p]]
        <5>1. hw \in [Cpu -> HwRec] /\ nsSimd[p] \in Value
          BY DEF IInv, TypeInv
        <5>2. h \in HwRec
          BY <3>4, <5>1 DEF HwRec
        <5>3. hw' = [hw EXCEPT ![p] = h]
          BY <3>3
        <5> HIDE DEF h
        <5> QED
          BY <5>1, <5>2, <5>3
      <4> QED
        BY <3>2, <3>3, <4>2, <4>3 DEF IInv, TypeInv
    <3>10. CpuSide(p)'
      BY <3>2, <3>3, <3>6, <3>8 DEF CpuSide, HostSide, Runs, RealmSide
    <3>11. RecSide(c)'
      <4>1. SoundLrs(ctx'[c].lrs) /\ RestSide(c)'
        BY <3>0, <3>3, <3>7, <3>8 DEF RealmSide, RestSide
      <4>2. left[c].fpu # None => ctx'[c].isSaved /\ ctx'[c].fpu = left[c].fpu
        BY <3>0, <3>4, <3>7, <3>8 DEF RealmSide, SavedSide
      <4>3. SavedSide(c)'
        BY <3>0, <3>3, <3>7, <3>8, <4>2 DEF RealmSide, SavedSide
      <4> QED
        BY <4>1, <4>3 DEF RecSide
    <3>12. RegistersInv'
      BY <3>0, <3>2, <3>3, <3>5, <3>6, <3>10, <3>11, <2>OthersKeep, ZenonT(60)
    <3> QED
      BY <3>2, <3>9, <3>12 DEF IInv
  \* The realm's own steps and the SIMD trap, which goes back to the realm.
  <2>RealmRunsInv. ASSUME IInv, NEW p \in Cpu, RealmRuns(p)
                   PROVE  IInv'
    <3> USE <2>RealmRunsInv
    <3>0. PICK c \in Rec : at[p].rec = c
      BY <2>EnteredRec DEF RealmRuns, Entered
    <3>1. Runs(p) /\ at' = at
      BY DEF RealmRuns, Runs, mapVars
    <3>2. RealmSide(p) /\ SavedSide(c) /\ SoundLrs(ctx[c].lrs)
      BY <3>1 DEF IInv, RegistersInv
    <3>3. RecLocked' /\ at' \in [Cpu -> Call]
      BY <3>1 DEF IInv, RecLocked, TypeInv, HwRec, CtxRec
    <3>4. CASE SimdTrap(p, c)
      <4>1. /\ ~hw[p].open
            /\ hw' = [hw EXCEPT ![p] = [@ EXCEPT !.open = TRUE,
                                                 !.fpu = IF ctx[c].isSaved THEN ctx[c].fpu ELSE hw[p].fpu]]
            /\ ctx' = [ctx EXCEPT ![c].isUsed = TRUE]
            /\ UNCHANGED <<nsSimd, hostFpu, left>>
        <5>1. hw[p] \in HwRec
          BY DEF IInv, TypeInv
        <5>2. [hw[p] EXCEPT !.open = TRUE]
                = [hw[p] EXCEPT !.open = TRUE, !.fpu = hw[p].fpu]
          BY <5>1 DEF HwRec
        <5> QED
          BY <3>4, <5>2 DEF SimdTrap, RestoreFpu
      <4>2. hw' \in [Cpu -> HwRec]
        <5>1. hw[p] \in HwRec /\ ctx[c] \in CtxRec
          BY DEF IInv, TypeInv
        <5>2. [hw[p] EXCEPT !.open = TRUE, !.fpu = IF ctx[c].isSaved THEN ctx[c].fpu ELSE hw[p].fpu] \in HwRec
          BY <5>1 DEF HwRec, CtxRec
        <5> QED
          BY <4>1, <5>2 DEF IInv, TypeInv
      <4>3. ctx' \in [Rec -> CtxRec]
        <5>1. ctx[c] \in CtxRec
          BY DEF IInv, TypeInv
        <5>2. [ctx[c] EXCEPT !.isUsed = TRUE] \in CtxRec
          BY <5>1 DEF CtxRec
        <5> QED
          BY <4>1, <5>2 DEF IInv, TypeInv
      <4>4. TypeInv'
        BY <3>3, <4>1, <4>2, <4>3 DEF IInv, TypeInv, HwRec, CtxRec
      <4>5. /\ \A q \in Cpu \ {p} : hw'[q] = hw[q]
            /\ hw'[p].open = TRUE /\ hw'[p].en = hw[p].en /\ hw'[p].timer = hw[p].timer
            /\ hw'[p].lrs = hw[p].lrs
            /\ hw'[p].fpu = (IF ctx[c].isSaved THEN ctx[c].fpu ELSE hw[p].fpu)
        <5>1. hw[p] \in HwRec
          BY DEF IInv, TypeInv
        <5>2. hw'[p] = [hw[p] EXCEPT !.open = TRUE, !.fpu = IF ctx[c].isSaved THEN ctx[c].fpu ELSE hw[p].fpu]
              /\ \A q \in Cpu \ {p} : hw'[q] = hw[q]
          BY <4>1 DEF IInv, TypeInv
        <5> QED
          BY <5>1, <5>2 DEF HwRec
      <4>6. /\ \A d \in Rec \ {c} : ctx'[d] = ctx[d]
            /\ ctx'[c].isUsed = TRUE /\ ctx'[c].isSaved = ctx[c].isSaved /\ ctx'[c].fpu = ctx[c].fpu
            /\ ctx'[c].open = ctx[c].open /\ ctx'[c].lrs = ctx[c].lrs /\ ctx'[c].en = ctx[c].en
        BY <4>1, ZenonT(60) DEF IInv, TypeInv, HwRec, CtxRec
      <4>7. CpuSide(p)'
        <5>1. left[c].fpu # None => hw'[p].fpu = left[c].fpu
          BY <3>0, <3>2, <4>1, <4>5 DEF RealmSide, SavedSide
        <5>2. at'[p].rec = c /\ nsSimd' = nsSimd /\ hostFpu' = hostFpu /\ left' = left
          BY <3>0, <3>1, <4>1
        <5>3. /\ nsSimd[p] = hostFpu[p] /\ hw[p].en /\ hw[p].timer = left[c].timer
              /\ hw[p].lrs = ctx[c].lrs
          BY <3>0, <3>2 DEF RealmSide
        <5>4. /\ hw'[p].en /\ hw'[p].timer = left[c].timer /\ hw'[p].lrs = ctx'[c].lrs
              /\ hw'[p].open = ctx'[c].isUsed
          BY <4>5, <4>6, <5>3
        <5>5. RealmSide(p)'
          BY <5>1, <5>2, <5>3, <5>4 DEF RealmSide
        <5> QED
          BY <3>1, <5>5 DEF CpuSide, Runs
      <4>8. RecSide(c)'
        <5>1. SavedSide(c)' /\ SoundLrs(ctx'[c].lrs)
          BY <3>2, <4>1, <4>6 DEF SavedSide
        <5> QED
          BY <3>0, <3>1, <5>1 DEF RecSide, Runs
      <4>9. RegistersInv'
        BY <3>0, <3>1, <4>1, <4>5, <4>6, <4>7, <4>8, <2>OthersKeep, ZenonT(60)
      <4> QED
        BY <3>3, <4>4, <4>9 DEF IInv
    <3>5. CASE RealmWrites(p, c)
      <4> DEFINE v == Flip(left[c].timer)
      <4>1. /\ hw' = [hw EXCEPT ![p] = [@ EXCEPT !.timer = v, !.fpu = IF hw[p].open THEN v ELSE hw[p].fpu]]
            /\ left' = [left EXCEPT ![c] = [fpu |-> IF hw[p].open THEN v ELSE left[c].fpu, timer |-> v]]
            /\ UNCHANGED <<nsSimd, ctx, hostFpu>>
        BY <3>5 DEF RealmWrites
      <4>2. v \in Owned /\ v \in Value
        BY <2>FlipOwned DEF IInv, TypeInv, HwRec, CtxRec, Value
      <4> HIDE DEF v
      <4>3. hw' \in [Cpu -> HwRec]
        <5>1. hw[p] \in HwRec
          BY DEF IInv, TypeInv
        <5>2. [hw[p] EXCEPT !.timer = v, !.fpu = IF hw[p].open THEN v ELSE hw[p].fpu] \in HwRec
          BY <4>2, <5>1 DEF HwRec
        <5> QED
          BY <4>1, <5>2 DEF IInv, TypeInv
      <4>4. left' \in [Rec -> [fpu : Value, timer : Owned]]
        BY <4>1, <4>2 DEF IInv, TypeInv, HwRec, CtxRec
      <4>5. TypeInv'
        BY <3>3, <4>1, <4>3, <4>4 DEF IInv, TypeInv, HwRec, CtxRec
      <4>6. /\ \A q \in Cpu \ {p} : hw'[q] = hw[q]
            /\ hw'[p].open = hw[p].open /\ hw'[p].en = hw[p].en /\ hw'[p].timer = v
            /\ hw'[p].lrs = hw[p].lrs
            /\ hw'[p].fpu = (IF hw[p].open THEN v ELSE hw[p].fpu)
        BY <4>1, ZenonT(60) DEF IInv, TypeInv, HwRec, CtxRec
      <4>7. /\ \A d \in Rec \ {c} : left'[d] = left[d]
            /\ left'[c].timer = v /\ left'[c].fpu = (IF hw[p].open THEN v ELSE left[c].fpu)
        BY <4>1 DEF IInv, TypeInv, HwRec, CtxRec
      <4>8. CpuSide(p)'
        BY <3>0, <3>1, <3>2, <4>1, <4>6, <4>7, SMTT(30) DEF CpuSide, RealmSide, Runs
      <4>9. RecSide(c)'
        <5>1. SavedSide(c)' /\ SoundLrs(ctx'[c].lrs)
          BY <3>0, <3>2, <4>1, <4>7 DEF SavedSide, RealmSide
        <5> QED
          BY <3>0, <3>1, <5>1 DEF RecSide, Runs
      <4>10. RegistersInv'
        BY <3>0, <3>1, <4>1, <4>6, <4>7, <4>8, <4>9, <2>OthersKeep
      <4> QED
        BY <3>3, <4>5, <4>10 DEF IInv
    <3> QED
      BY <3>0, <3>4, <3>5 DEF RealmRuns
  \* REC_ENTER returns, and the host goes on with its own registers.
  <2>UnmapOutInv. ASSUME IInv, NEW p \in Cpu, UnmapOut(p)
                  PROVE  IInv'
    <3> USE <2>UnmapOutInv
    <3>0. PICK c \in Rec : at[p].rec = c
      BY <2>EnteredRec DEF UnmapOut, Entered
    <3>1. at[p].pc = "unmap_out" /\ at[p].pc \in Entered /\ ~Runs(p)
      BY DEF UnmapOut, Entered, Runs
    <3>2. at' \in [Cpu -> Call] /\ at'[p] = AtHost /\ \A q \in Cpu \ {p} : at'[q] = at[q]
      BY DEF UnmapOut, Return, AtHost, IInv, TypeInv, HwRec, CtxRec, Call, Pc, Kind
    <3>3. RecLocked'
      BY <3>2, ContextAssumption, SMTT(30) DEF IInv, RecLocked, AtHost, Entered
    <3> DEFINE v == Flip(hostFpu[p])
    <3>4. /\ hw' = [hw EXCEPT ![p] = [@ EXCEPT !.fpu = v, !.timer = <<p, 0>>, !.lrs = NoLrs]]
          /\ hostFpu' = [hostFpu EXCEPT ![p] = v]
          /\ UNCHANGED <<nsSimd, ctx, left>>
      BY DEF UnmapOut, HostRuns
    <3>5. v \in Owned /\ v \in Value /\ <<p, 0>> \in Value /\ NoLrs \in Lrs
      BY <2>FlipOwned, ContextAssumption DEF IInv, TypeInv, HwRec, CtxRec, Value, Owned, NoLrs, Lrs, LrValue
    <3> HIDE DEF v
    <3>6. hw' \in [Cpu -> HwRec]
      <4>1. hw[p] \in HwRec
        BY DEF IInv, TypeInv
      <4>2. [hw[p] EXCEPT !.fpu = v, !.timer = <<p, 0>>, !.lrs = NoLrs] \in HwRec
        BY <3>5, <4>1 DEF HwRec
      <4> QED
        BY <3>4, <4>2 DEF IInv, TypeInv
    <3>7. TypeInv'
      BY <3>2, <3>4, <3>5, <3>6 DEF IInv, TypeInv, HwRec, CtxRec
    <3>8. /\ \A q \in Cpu \ {p} : hw'[q] = hw[q] /\ hostFpu'[q] = hostFpu[q]
          /\ hw'[p].fpu = v /\ hw'[p].open = hw[p].open /\ hw'[p].en = hw[p].en /\ hostFpu'[p] = v
      BY <3>4, ZenonT(60) DEF IInv, TypeInv, HwRec, CtxRec
    <3>9. HostSide(p)
      BY <3>1 DEF IInv, RegistersInv
    <3>10. CpuSide(p)'
      BY <3>2, <3>8, <3>9, SMTT(30) DEF CpuSide, HostSide, Runs, AtHost
    <3>11. RecSide(c)'
      <4>1. \A q \in Cpu : Runs(q) => at[q].rec # c
        BY <3>0, <3>1, <2>EnteredRec
      <4>2. SavedSide(c) /\ RestSide(c) /\ SoundLrs(ctx[c].lrs)
        BY <4>1 DEF IInv, RegistersInv
      <4> QED
        BY <3>4, <4>2 DEF RecSide, SavedSide, RestSide
    <3>12. RegistersInv'
      BY <3>0, <3>2, <3>4, <3>8, <3>10, <3>11, <2>OthersKeep
    <3> QED
      BY <3>3, <3>7, <3>12 DEF IInv
  <2> SUFFICES ASSUME IInv, [Next]_vars PROVE IInv'
    OBVIOUS
  <2>0. at \in [Cpu -> Call]
    BY DEF IInv, TypeInv, HwRec, CtxRec
  <2>1. CASE UNCHANGED vars
    BY <2>1, SMTT(30) DEF vars, mapVars, ctxVars, IInv, TypeInv, HwRec, CtxRec, RecLocked, RegistersInv, Runs, RealmSide,
                HostSide, SavedSide, RestSide
  <2>2. ASSUME NEW p \in Cpu, MapStep(p), UNCHANGED ctxVars PROVE IInv'
    BY <2>0, <2>2, <2>MapStepOut, <2>OutStepInv
  <2>3. ASSUME NEW p \in Cpu, EnterStep(p) PROVE IInv'
    <3>1. ASSUME NEW c \in Rec, NEW run \in Page, EnterBegin(p, c, run) PROVE IInv'
      BY <3>1, <2>EnterBeginInv
    <3>2. CASE EnterRefused(p)
      <4>1. OutStep(p)
        BY <2>0, <3>2, <2>ReturnOut DEF EnterRefused, Runs
      <4> QED
        BY <3>2, <4>1, <2>OutStepInv DEF EnterRefused
    <3>3. ASSUME NEW lrs \in HostLrs, EnterAccepted(p, lrs) PROVE IInv'
      BY <3>3, <2>EnterAcceptedInv
    <3>4. CASE RunPrepare(p)
      BY <3>4, <2>RunPrepareInv
    <3>5. CASE RealmExit(p)
      BY <3>5, <2>RealmExitInv
    <3>6. CASE RealmRuns(p)
      BY <3>6, <2>RealmRunsInv
    <3>7. CASE MapOut(p) \/ CheckOut(p) \/ CopyOut(p)
      <4>1. UNCHANGED ctxVars
        BY <3>7 DEF MapOut, CheckOut, CopyOut
      <4>2. OutStep(p)
        BY <2>0, <3>7, <2>GotoOut DEF MapOut, CheckOut, CopyOut, Runs, Pc, Entered
      <4> QED
        BY <4>1, <4>2, <2>OutStepInv
    <3>8. CASE UnmapOut(p)
      BY <3>8, <2>UnmapOutInv
    <3> QED
      BY <2>3, <3>1, <3>2, <3>3, <3>4, <3>5, <3>6, <3>7, <3>8 DEF EnterStep
  <2> QED
    BY <2>1, <2>2, <2>3 DEF Next
<1>InitInv. Init => IInv
  <2> USE Zenon
  <2> SUFFICES ASSUME Init PROVE IInv
    OBVIOUS
  <2> USE DEF Init, RmmMapInit, RecContextInit, AtHost, NewContext
  <2>1. NoLrs \in Lrs /\ SoundLrs(NoLrs)
    BY ContextAssumption, SMTT(30) DEF NoLrs, Lrs, Lr, LrValue, SoundLrs
  <2>2. TypeInv
    <3>1. at \in [Cpu -> Call]
      BY DEF Call, Pc, Kind
    <3>2. hw \in [Cpu -> HwRec]
      BY <2>1 DEF Value, Owned, HwRec, CtxRec
    <3>3. nsSimd \in [Cpu -> Value] /\ hostFpu \in [Cpu -> Owned]
      BY DEF Value, Owned
    <3>4. ctx \in [Rec -> CtxRec]
      BY <2>1 DEF Value, Owned, HwRec, CtxRec
    <3>5. left \in [Rec -> [fpu : Value, timer : Owned]]
      BY DEF Value, Owned
    <3> QED
      BY <3>1, <3>2, <3>3, <3>4, <3>5 DEF TypeInv, HwRec, CtxRec
  <2>3. RecLocked
    BY ContextAssumption DEF RecLocked, Entered
  <2>4. RegistersInv
    BY <2>1 DEF RegistersInv, Runs, HostSide, SavedSide, RestSide
  <2> QED
    BY <2>2, <2>3, <2>4 DEF IInv
<1> QED
    BY <1>InitInv, <1>NextInv, PTL DEF Spec

\* For every number of CPUs and RECs, the host finds its SIMD registers as it left
\* them (simd::restore_state and save_state with NS_SIMD of the CPU).
THEOREM HostSimdSafe == Spec => []HostSimdPreserved
<1>1. IInv => HostSimdPreserved
  BY Zenon DEF IInv, RegistersInv, Runs, HostSide, HostSimdPreserved
<1> QED
  BY <1>1, RegistersInvariant, PTL

\* For every number of CPUs and RECs, a REC finds its timer and its SIMD registers
\* as it left them, on whatever CPU (into_current, from_current, the SIMD trap).
THEOREM ContextSafe == Spec => []ContextPreserved
<1>1. IInv => ContextPreserved
  BY Zenon DEF IInv, RegistersInv, Runs, RealmSide, ContextPreserved
<1> QED
  BY <1>1, RegistersInvariant, PTL

\* For every number of list registers and whatever the host writes into its run
\* page, the list registers of a running REC are well formed and name no vINTID
\* twice (gic::validate_state, receive_state_from_host, restore_state).
THEOREM ListRegistersSafe == Spec => []ListRegistersSound
<1>1. IInv => ListRegistersSound
  <2> USE Zenon
  <2> SUFFICES ASSUME IInv, NEW p \in Cpu
               PROVE  /\ hw[p].en <=> at[p].pc = "realm"
                      /\ at[p].pc = "realm" => SoundLrs(hw[p].lrs)
    BY DEF ListRegistersSound, SoundLrs
  <2>1. CASE Runs(p)
    <3>1. at[p].rec \in Rec
      BY <2>1 DEF IInv, RecLocked, Runs, Entered
    <3>2. RealmSide(p) /\ SoundLrs(ctx[at[p].rec].lrs)
      BY <2>1, <3>1 DEF IInv, RegistersInv
    <3> QED
      BY <2>1, <3>2 DEF RealmSide, Runs
  <2>2. CASE ~Runs(p)
    BY <2>2 DEF IInv, RegistersInv, HostSide, Runs
  <2> QED
    BY <2>1, <2>2
<1> QED
  BY <1>1, RegistersInvariant, PTL
=============================================================================
