------------------------- MODULE RmiHandlersProofs -------------------------
(***************************************************************************)
(* The handlers of RmiHandlers, for any number of CPUs, granules, tables   *)
(* and auxiliary granules.                                                 *)
(***************************************************************************)
EXTENDS RmiHandlers, TLAPS

CreateL == {"create_check", "create_vmid", "create_init", "create_roots"}
DestroyL == {"destroy_meta", "destroy_check", "destroy_roots"}
RecNewL == {"rec_check", "rec_lock_rd", "rec_lock_rec", "rec_aux"}
RecDelL == {"recdel_aux", "recdel_rd", "recdel_end"}
EnterL == {"enter_check", "enter_run", "enter_realm", "enter_off"}
RdL == DestroyL \cup {"activate_meta", "set_metadata", "set_ripas", "rec_lock_rec", "rec_aux"}

CallRec ==
    [r : Granule \cup {None}, c : Granule \cup {None}, all : SUBSET Granule,
     todo : SUBSET Granule, v : Vmid \cup {None}, m : MetaContent]

\* The granules that a handler at l, with the local variables f, has locked.
HeldBy(l, f) ==
    (IF l \in CreateL \cup RdL \cup {"psci_complete"} THEN {f.r} ELSE {})
    \cup (IF l \in RecDelL \cup EnterL \cup {"rec_aux"} THEN {f.c} ELSE {})

\* What REALM_CREATE and REC_CREATE know of their arguments from the start.
RealmArgs(f) ==
    f.r \in Granule /\ f.v \in Vmid /\ f.all # {} /\ Cardinality(f.all) \in RootCounts
RecArgs(f) ==
    /\ f.r \in Granule /\ f.c \in Granule /\ f.c # f.r
    /\ f.c \notin f.all /\ f.r \notin f.all
    /\ Cardinality(f.all) = NumAux

\* What a handler at l knows of its arguments.
CallOK(l, f) ==
    /\ l \in Labels
    /\ f \in CallRec
    /\ f.todo \subseteq f.all
    /\ HeldBy(l, f) \subseteq Granule
    /\ l \in CreateL => RealmArgs(f)
    /\ l \in CreateL /\ f.r \in f.all => l = "create_check" /\ f.r \in f.todo
    /\ l \in RecNewL => RecArgs(f)
    /\ l = "set_metadata" => f.c \in Granule /\ f.m \in [rim : Rim, algo : Algo]
    /\ l \in {"recdel_rd", "recdel_end"} => f.todo = {}

\* HeldBy and CallOK, label by label.
Fact(l, f, H, C) ==
    /\ HeldBy(l, f) = H
    /\ f \in CallRec => (CallOK(l, f) <=> f.todo \subseteq f.all /\ H \subseteq Granule /\ C)
IdleFacts == \A f : Fact("idle", f, {}, TRUE)
MetaFacts ==
    \A f : /\ Fact("activate_meta", f, {f.r}, TRUE)
           /\ Fact("set_metadata", f, {f.r}, f.c \in Granule /\ f.m \in [rim : Rim, algo : Algo])
CreateFacts ==
    \A f : /\ Fact("create_check", f, {f.r}, RealmArgs(f) /\ (f.r \in f.all => f.r \in f.todo))
           /\ Fact("create_vmid", f, {f.r}, RealmArgs(f) /\ f.r \notin f.all)
           /\ Fact("create_init", f, {f.r}, RealmArgs(f) /\ f.r \notin f.all)
           /\ Fact("create_roots", f, {f.r}, RealmArgs(f) /\ f.r \notin f.all)
DestroyFacts ==
    \A f : /\ Fact("destroy_meta", f, {f.r}, TRUE)
           /\ Fact("destroy_check", f, {f.r}, TRUE)
           /\ Fact("destroy_roots", f, {f.r}, TRUE)
RecFacts ==
    \A f : /\ Fact("rec_check", f, {}, RecArgs(f))
           /\ Fact("rec_lock_rd", f, {}, RecArgs(f))
           /\ Fact("rec_lock_rec", f, {f.r}, RecArgs(f))
           /\ Fact("rec_aux", f, {f.r, f.c}, RecArgs(f))
RecDelFacts ==
    \A f : /\ Fact("recdel_aux", f, {f.c}, TRUE)
           /\ Fact("recdel_rd", f, {f.c}, f.todo = {})
           /\ Fact("recdel_end", f, {f.c}, f.todo = {})
EnterFacts ==
    \A f : /\ Fact("enter_check", f, {f.c}, TRUE)
           /\ Fact("enter_run", f, {f.c}, TRUE)
           /\ Fact("enter_realm", f, {f.c}, TRUE)
           /\ Fact("enter_off", f, {f.c}, TRUE)
SecondFacts ==
    \A f : /\ Fact("set_ripas", f, {f.r}, TRUE)
           /\ Fact("psci_complete", f, {f.r}, TRUE)

\* Every lock is held by the handler that took it and has not dropped it.
LockInv ==
    /\ lock \in [Granule -> Cpu \cup {None}]
    /\ pc \in [Cpu -> Labels]
    /\ call \in [Cpu -> CallRec]
    /\ \A p \in Cpu : CallOK(pc[p], call[p])
    /\ \A p \in Cpu, g \in Granule : lock[g] = p <=> g \in HeldBy(pc[p], call[p])

\* The REC index checked under the RD's lock still holds when it is used.
IndexInv ==
    /\ \A g \in Granule : rd[g].rim <= rd[g].recIndex + 1
    /\ \A p \in Cpu : pc[p] = "rec_lock_rec" => rd[call[p].r].recIndex < MaxRecIndex

TypeLock == TypeOK /\ LockInv /\ IndexInv

\* The handler on p goes on, and takes no lock, or the free lock of g.
Moves(p, l, f) ==
    /\ Proceed(p, l, f)
    /\ \/ lock' = lock
       \/ \E g \in Granule : Free(g) /\ Holds(p, g)

\* Only the handler on p has moved.
Others(p) ==
    /\ \A q \in Cpu : q # p => pc'[q] = pc[q] /\ call'[q] = call[q]
    /\ \A g \in Granule : lock'[g] # lock[g] => lock[g] \in {p, None} /\ lock'[g] \in {p, None}

\* The handler on p is now at l with the local variables f.
Now(p, l, f) == LockInv' /\ Others(p) /\ pc'[p] = l /\ call'[p] = f

\* No Rd has more RECs than before.
SameIndex ==
    \A g \in Granule : rd'[g].rim <= rd'[g].recIndex + 1 /\ rd'[g].recIndex <= rd[g].recIndex

Left(f, t) == [f EXCEPT !.todo = t]

LeftFacts ==
    \A f \in CallRec, t \in SUBSET Granule :
       /\ Left(f, t) \in CallRec /\ Left(f, t).todo = t
       /\ Left(f, t).r = f.r /\ Left(f, t).c = f.c /\ Left(f, t).all = f.all /\ Left(f, t).v = f.v

\* A loop at a goes on to b, with the granules t to visit.
Onward(a, b, f, t) ==
    CallOK(a, f) => CallOK(b, Left(f, t)) /\ HeldBy(b, Left(f, t)) = HeldBy(a, f)
LoopFacts ==
    \A f \in CallRec : \A t \in SUBSET f.all :
       /\ Onward("create_init", "create_roots", f, t) /\ Onward("create_roots", "create_roots", f, t)
       /\ Onward("destroy_check", "destroy_check", f, t) /\ Onward("destroy_check", "destroy_roots", f, t)
       /\ Onward("destroy_roots", "destroy_roots", f, t)
       /\ Onward("rec_check", "rec_check", f, t) /\ Onward("rec_check", "rec_lock_rd", f, t)
       /\ Onward("rec_aux", "rec_aux", f, t)
       /\ Onward("recdel_aux", "recdel_aux", f, t)
       /\ t = {} => Onward("recdel_aux", "recdel_rd", f, t)

\* HeldBy and CallOK at each label, and what a loop changes of the local variables.
LEMMA LabelFacts ==
    /\ IdleFacts /\ MetaFacts /\ CreateFacts /\ DestroyFacts
    /\ RecFacts /\ RecDelFacts /\ EnterFacts /\ SecondFacts
    /\ LeftFacts /\ LoopFacts
<1>9. LeftFacts
  BY DEF LeftFacts, Left, CallRec
<1> USE DEF Fact, HeldBy, CallOK, CreateL, RdL, DestroyL, RecDelL, EnterL, RecNewL, Labels
<1>1. IdleFacts
  BY DEF IdleFacts
<1>2. MetaFacts
  BY DEF MetaFacts
<1>3. CreateFacts
  BY DEF CreateFacts, RealmArgs
<1>4. DestroyFacts
  BY DEF DestroyFacts
<1>5. RecFacts
  BY DEF RecFacts, RecArgs
<1>6. RecDelFacts
  BY DEF RecDelFacts
<1>7. EnterFacts
  BY DEF EnterFacts
<1>8. SecondFacts
  BY DEF SecondFacts
<1> HIDE DEF Fact, HeldBy, CallOK, CreateL, RdL, DestroyL, RecDelL, EnterL, RecNewL, Labels
<1>10. LoopFacts
  <2> SUFFICES ASSUME NEW f \in CallRec, NEW t \in SUBSET f.all
               PROVE  /\ Onward("create_init", "create_roots", f, t) /\ Onward("create_roots", "create_roots", f, t)
                      /\ Onward("destroy_check", "destroy_check", f, t)
                      /\ Onward("destroy_check", "destroy_roots", f, t)
                      /\ Onward("destroy_roots", "destroy_roots", f, t)
                      /\ Onward("rec_check", "rec_check", f, t) /\ Onward("rec_check", "rec_lock_rd", f, t)
                      /\ Onward("rec_aux", "rec_aux", f, t)
                      /\ Onward("recdel_aux", "recdel_aux", f, t)
                      /\ t = {} => Onward("recdel_aux", "recdel_rd", f, t)
    BY DEF LoopFacts
  <2> DEFINE h == Left(f, t)
  <2>1. f.all \subseteq Granule /\ t \subseteq Granule
    BY DEF CallRec
  <2>2. h \in CallRec /\ h.r = f.r /\ h.c = f.c /\ h.all = f.all /\ h.v = f.v /\ h.todo = t /\ h.todo \subseteq h.all
    BY <1>9, <2>1 DEF LeftFacts
  <2> HIDE DEF h
  <2>3. (RealmArgs(f) => RealmArgs(h)) /\ (RecArgs(f) => RecArgs(h))
    BY <2>2 DEF RealmArgs, RecArgs
  <2>4. \A l \in {"create_init", "create_roots"} :
           CallOK(l, f) => CallOK("create_roots", h) /\ HeldBy("create_roots", h) = HeldBy(l, f)
    BY <1>3, <2>2, <2>3, ZenonT(60) DEF CreateFacts, Fact
  <2>5. \A l, k \in {"destroy_check", "destroy_roots"} :
           CallOK(l, f) => CallOK(k, h) /\ HeldBy(k, h) = HeldBy(l, f)
    BY <1>4, <2>2, ZenonT(60) DEF DestroyFacts, Fact
  <2>6. /\ CallOK("rec_check", f) => /\ CallOK("rec_check", h) /\ HeldBy("rec_check", h) = HeldBy("rec_check", f)
                                     /\ CallOK("rec_lock_rd", h) /\ HeldBy("rec_lock_rd", h) = HeldBy("rec_check", f)
        /\ CallOK("rec_aux", f) => CallOK("rec_aux", h) /\ HeldBy("rec_aux", h) = HeldBy("rec_aux", f)
    BY <1>5, <2>2, <2>3, ZenonT(60) DEF RecFacts, Fact
  <2>7. \A l \in {"recdel_aux", "recdel_rd"} :
           CallOK("recdel_aux", f) /\ (l = "recdel_rd" => t = {})
              => CallOK(l, h) /\ HeldBy(l, h) = HeldBy("recdel_aux", f)
    BY <1>6, <2>2, ZenonT(60) DEF RecDelFacts, Fact
  <2> QED
    BY <2>4, <2>5, <2>6, <2>7 DEF Onward, h
<1> QED
  BY <1>1, <1>2, <1>3, <1>4, <1>5, <1>6, <1>7, <1>8, <1>9, <1>10
\* Locks, arguments and types fit together at every step.
LEMMA TypeLockInvariant == HSpec => []TypeLock
<1>0. /\ ZeroRd \in RdContent /\ ZeroRec \in RecContent /\ ZeroMeta \in MetaContent
      /\ ZeroRd.rim = 0 /\ ZeroRd.recIndex = 0
      /\ NoCall \in CallRec /\ HeldBy("idle", NoCall) = {} /\ CallOK("idle", NoCall)
  <2>1. /\ ZeroRd \in RdContent /\ ZeroRec \in RecContent /\ ZeroMeta \in MetaContent
        /\ ZeroRd.rim = 0 /\ ZeroRd.recIndex = 0
    BY CountAssumption DEF ZeroRd, ZeroRec, ZeroMeta, RdContent, RecContent, MetaContent, RdState, Rim
  <2>2. NoCall \in CallRec /\ NoCall.todo = {}
    BY <2>1 DEF NoCall, CallRec
  <2> QED
    BY <2>1, <2>2, LabelFacts DEF IdleFacts, Fact
<1>1. HInit => TypeLock
  <2> SUFFICES ASSUME HInit PROVE TypeLock
    OBVIOUS
  <2>2. TypeOK
    BY <1>0 DEF HInit, Init, TypeOK, GranuleState, U8
  <2>5. LockInv
    BY <1>0, CpuAssumption DEF HInit, LockInv, Labels
  <2>6. IndexInv
    BY <1>0 DEF HInit, Init, IndexInv
  <2> QED
    BY <2>2, <2>5, <2>6 DEF TypeLock
<1>2. TypeLock /\ [HNext]_hvars => TypeLock'
  <2> SUFFICES ASSUME TypeLock, [HNext]_hvars PROVE TypeLock'
    OBVIOUS
  <2> USE Zenon
  <2>t. TypeOK /\ LockInv /\ IndexInv
    BY DEF TypeLock
  <2>call. \A p \in Cpu : pc[p] \in Labels /\ call[p] \in CallRec /\ CallOK(pc[p], call[p])
    BY <2>t DEF LockInv
  <2>rd. \A g \in Granule : /\ rd[g] \in RdContent /\ rd[g].recIndex \in Nat
                            /\ rd[g].rim \in Rim /\ rd[g].rim <= rd[g].recIndex + 1
    BY <2>t, CountAssumption, SMTT(30) DEF TypeOK, RdContent, IndexInv
  <2>ret. ASSUME NEW p \in Cpu, Return(p)
          PROVE  Now(p, "idle", NoCall)
    <3>2. /\ lock' \in [Granule -> Cpu \cup {None}]
          /\ \A g \in Granule : lock'[g] = IF lock[g] = p THEN None ELSE lock[g]
      BY <2>t, <2>ret DEF Return, LockInv
    <3>3. pc' = [pc EXCEPT ![p] = "idle"] /\ call' = [call EXCEPT ![p] = NoCall]
      BY <2>ret DEF Return, Goto
    <3>0. "idle" \in Labels
      BY DEF Labels
    <3>4. pc' \in [Cpu -> Labels] /\ call' \in [Cpu -> CallRec] /\ pc'[p] = "idle" /\ call'[p] = NoCall
      BY <1>0, <2>t, <3>0, <3>3 DEF LockInv
    <3>5. \A q \in Cpu : q # p => pc'[q] = pc[q] /\ call'[q] = call[q]
      BY <2>t, <3>3, SMTT(30) DEF LockInv
    <3>6. \A q \in Cpu : CallOK(pc'[q], call'[q])
      BY <1>0, <2>call, <3>4, <3>5
    <3>7. ASSUME NEW q \in Cpu, NEW g \in Granule
          PROVE  lock'[g] = q <=> g \in HeldBy(pc'[q], call'[q])
      <4>1. CASE q = p
        BY <1>0, <3>2, <3>4, <4>1, CpuAssumption
      <4>2. CASE q # p
        BY <2>t, <3>2, <3>5, <4>2, CpuAssumption, SMTT(30) DEF LockInv
      <4> QED
        BY <4>1, <4>2
    <3>8. LockInv'
      BY <3>2, <3>4, <3>6, <3>7 DEF LockInv
    <3>9. Others(p)
      BY <3>2, <3>5 DEF Others
    <3> QED
      BY <3>4, <3>8, <3>9 DEF Now
  <2>move. ASSUME NEW p \in Cpu, NEW l, NEW f, Moves(p, l, f), CallOK(l, f),
                  \A g \in Granule : lock'[g] = p <=> g \in HeldBy(l, f)
           PROVE  Now(p, l, f)
    <3>1. pc' = [pc EXCEPT ![p] = l] /\ call' = [call EXCEPT ![p] = f]
      BY <2>move DEF Moves, Proceed, Goto
    <3>2. /\ lock' \in [Granule -> Cpu \cup {None}]
          /\ \A g \in Granule : lock'[g] = lock[g] \/ (lock[g] = None /\ lock'[g] = p)
      BY <2>t, <2>move, SMTT(30) DEF Moves, LockInv, Free, Holds
    <3>0. l \in Labels /\ f \in CallRec
      BY <2>move DEF CallOK
    <3>3. pc' \in [Cpu -> Labels] /\ call' \in [Cpu -> CallRec] /\ pc'[p] = l /\ call'[p] = f
      BY <2>t, <3>0, <3>1 DEF LockInv
    <3>4. \A q \in Cpu : q # p => pc'[q] = pc[q] /\ call'[q] = call[q]
      BY <2>t, <3>1, SMTT(30) DEF LockInv
    <3>5. \A q \in Cpu : CallOK(pc'[q], call'[q])
      BY <2>call, <2>move, <3>3, <3>4
    <3>6. ASSUME NEW q \in Cpu, NEW g \in Granule
          PROVE  lock'[g] = q <=> g \in HeldBy(pc'[q], call'[q])
      <4>1. CASE q = p
        BY <2>move, <3>3, <4>1
      <4>2. CASE q # p
        BY <2>t, <3>2, <3>4, <4>2, CpuAssumption, SMTT(30) DEF LockInv
      <4> QED
        BY <4>1, <4>2
    <3>7. LockInv'
      BY <3>2, <3>3, <3>5, <3>6 DEF LockInv
    <3>8. Others(p)
      BY <3>2, <3>4 DEF Others
    <3> QED
      BY <3>3, <3>7, <3>8 DEF Now
  <2>go. ASSUME NEW p \in Cpu, NEW l, NEW f, Proceed(p, l, f), lock' = lock, CallOK(l, f),
                HeldBy(l, f) = HeldBy(pc[p], call[p])
         PROVE  Now(p, l, f)
    BY <2>move, <2>go, <2>t DEF Moves, LockInv
  \* A loop at pc[p] goes on to l.
  <2>loop. ASSUME NEW p \in Cpu, NEW l, NEW t \in SUBSET call[p].all, Onward(pc[p], l, call[p], t),
                  Proceed(p, l, Left(call[p], t)), lock' = lock
           PROVE  Now(p, l, Left(call[p], t))
    BY <2>loop, <2>go, <2>call DEF Onward
  <2>all. \A p \in Cpu : call[p].todo \subseteq call[p].all /\ call[p].all \subseteq Granule
    BY <2>call DEF CallOK, CallRec
  <2>take. ASSUME NEW p \in Cpu, NEW l, NEW f, NEW g \in Granule, Proceed(p, l, f), Free(g), Holds(p, g),
                  CallOK(l, f), HeldBy(l, f) = HeldBy(pc[p], call[p]) \cup {g}
           PROVE  Now(p, l, f)
    <3>1. \A h \in Granule : lock'[h] = p <=> h = g \/ lock[h] = p
      BY <2>t, <2>take DEF Holds, LockInv
    <3>2. \A h \in Granule : lock[h] = p <=> h \in HeldBy(pc[p], call[p])
      BY <2>t DEF LockInv
    <3>3. Moves(p, l, f)
      BY <2>take DEF Moves
    <3> QED
      BY <2>move, <2>take, <3>1, <3>2, <3>3
  \* A step of p leaves the other handlers' REC indices in range.
  <2>index. ASSUME NEW p \in Cpu, NEW l, NEW f, Now(p, l, f), TypeOK',
                   \A g \in Granule : rd'[g].rim <= rd'[g].recIndex + 1,
                   \A g \in Granule : lock[g] # p => rd'[g].recIndex <= rd[g].recIndex,
                   l = "rec_lock_rec" => rd'[f.r].recIndex < MaxRecIndex
            PROVE  TypeLock'
    <3>0. LockInv' /\ Others(p) /\ pc'[p] = l /\ call'[p] = f
      BY <2>index DEF Now
    <3>9. ASSUME NEW q \in Cpu, pc'[q] = "rec_lock_rec"
          PROVE  rd'[call'[q].r].recIndex < MaxRecIndex
      <4>1. CASE q = p
        BY <2>index, <3>0, <3>9, <4>1
      <4>2. CASE q # p
        <5>1. pc[q] = "rec_lock_rec" /\ call'[q] = call[q]
          BY <3>0, <3>9, <4>2 DEF Others
        <5> DEFINE r == call[q].r
        <5>2. r \in Granule /\ r \in HeldBy(pc[q], call[q])
          BY <2>call, <5>1, LabelFacts DEF RecFacts, Fact, RecArgs
        <5>3. lock[r] = q
          BY <2>t, <5>2 DEF LockInv
        <5> HIDE DEF r
        <5>4. rd'[r].recIndex <= rd[r].recIndex
          BY <2>index, <4>2, <5>2, <5>3
        <5>5. rd[r].recIndex < MaxRecIndex
          BY <2>t, <5>1 DEF IndexInv, r
        <5>6. rd[r].recIndex \in Nat /\ rd'[r].recIndex \in Nat
          BY <2>rd, <2>index, <5>2, CountAssumption, SMTT(30) DEF TypeOK, RdContent
        <5>7. rd'[r].recIndex < MaxRecIndex
          BY <5>4, <5>5, <5>6, CountAssumption, SMTT(30)
        <5> QED
          BY <5>1, <5>7 DEF r
      <4> QED
        BY <4>1, <4>2
    <3> QED
      BY <2>index, <3>0, <3>9 DEF IndexInv, TypeLock
  <2>on. ASSUME NEW p \in Cpu, NEW l, NEW f, Now(p, l, f), l # "rec_lock_rec", TypeOK', SameIndex
         PROVE  TypeLock'
    BY <2>index, <2>on DEF SameIndex
  <2>keep. rd' = rd => SameIndex
    BY <2>rd, SMTT(30) DEF SameIndex
  \* A step that changes nothing but locks, labels and arguments.
  <2>quiet. ASSUME NEW p \in Cpu, NEW l, NEW f, Now(p, l, f), l # "rec_lock_rec", UNCHANGED vars
            PROVE  TypeLock'
    <3>1. TypeOK' /\ rd' = rd
      BY <2>quiet, <2>t DEF TypeOK, vars
    <3> QED
      BY <2>keep, <2>on, <2>quiet, <3>1
  <2>giveup. ASSUME NEW p \in Cpu, Return(p), UNCHANGED vars PROVE TypeLock'
    BY <2>ret, <2>quiet, <2>giveup
  \* The handler on p returns with an Rd changed.
  <2>end. ASSUME NEW p \in Cpu, Return(p), TypeOK', SameIndex PROVE TypeLock'
    BY <2>ret, <2>on, <2>end
  <2>start. ASSUME NEW p \in Cpu, pc[p] = "idle", NEW l, NEW f, NEW g \in Granule, Proceed(p, l, f),
                   Free(g), Holds(p, g), CallOK(l, f), HeldBy(l, f) = {g}, l # "rec_lock_rec", UNCHANGED vars
            PROVE  TypeLock'
    <3>1. HeldBy(pc[p], call[p]) = {}
      BY <2>start, LabelFacts DEF IdleFacts, Fact
    <3>2. Now(p, l, f)
      BY <2>start, <2>take, <3>1
    <3> QED
      BY <2>quiet, <2>start, <3>2
  <2>same. ASSUME UNCHANGED <<lock, pc, call>> PROVE LockInv' /\ \A p \in Cpu : Now(p, pc[p], call[p])
    BY <2>t, <2>same DEF LockInv, Now, Others
  <2>zero. ASSUME NEW r \in Granule, rd' = [rd EXCEPT ![r] = ZeroRd]
           PROVE  rd' \in [Granule -> RdContent] /\ SameIndex
    <3>1. \A g \in Granule : rd'[g] = rd[g] \/ rd'[g] = ZeroRd
      BY <2>t, <2>zero DEF TypeOK
    <3>2. rd' \in [Granule -> RdContent]
      BY <1>0, <2>t, <2>zero DEF TypeOK
    <3> QED
      BY <1>0, <2>rd, <3>1, <3>2, SMTT(30) DEF SameIndex
  \* A field of an Rd other than its REC index and its RIM is written.
  <2>field. ASSUME NEW r, \/ \E s \in RdState : rd' = [rd EXCEPT ![r].state = s]
                          \/ \E m \in Granule \cup {None} : rd' = [rd EXCEPT ![r].metadata = m]
            PROVE  rd' \in [Granule -> RdContent] /\ SameIndex
    <3>1. ASSUME NEW d \in RdContent, NEW s \in RdState
          PROVE  LET e == [d EXCEPT !.state = s] IN e \in RdContent /\ e.rim = d.rim /\ e.recIndex = d.recIndex
      BY DEF RdContent
    <3>2. ASSUME NEW d \in RdContent, NEW m \in Granule \cup {None}
          PROVE  LET e == [d EXCEPT !.metadata = m] IN e \in RdContent /\ e.rim = d.rim /\ e.recIndex = d.recIndex
      BY DEF RdContent
    <3>3. \A g \in Granule : \/ rd'[g] = rd[g]
                             \/ \E s \in RdState : rd'[g] = [rd[g] EXCEPT !.state = s]
                             \/ \E m \in Granule \cup {None} : rd'[g] = [rd[g] EXCEPT !.metadata = m]
      BY <2>t, <2>field DEF TypeOK
    <3>4. ASSUME NEW g \in Granule
          PROVE  rd'[g] \in RdContent /\ rd'[g].rim = rd[g].rim /\ rd'[g].recIndex = rd[g].recIndex
      <4>0. rd[g] \in RdContent
        BY <2>rd
      <4>1. CASE rd'[g] = rd[g]
        BY <4>0, <4>1
      <4>2. ASSUME NEW s \in RdState, rd'[g] = [rd[g] EXCEPT !.state = s]
            PROVE  rd'[g] \in RdContent /\ rd'[g].rim = rd[g].rim /\ rd'[g].recIndex = rd[g].recIndex
        BY <3>1, <4>0, <4>2, SMTT(30)
      <4>3. ASSUME NEW m \in Granule \cup {None}, rd'[g] = [rd[g] EXCEPT !.metadata = m]
            PROVE  rd'[g] \in RdContent /\ rd'[g].rim = rd[g].rim /\ rd'[g].recIndex = rd[g].recIndex
        BY <3>2, <4>0, <4>3, SMTT(30)
      <4> QED
        BY <3>3, <4>1, <4>2, <4>3
    <3>5. rd' = [g \in Granule |-> rd'[g]]
      BY <2>t, <2>field DEF TypeOK
    <3>6. rd' \in [Granule -> RdContent]
      BY <3>4, <3>5
    <3> QED
      BY <2>rd, <3>4, <3>6, SMTT(30) DEF SameIndex
  <2>cnt. ASSUME NEW x, \/ refcnt' = [refcnt EXCEPT ![x] = (@ + 1) % 256]
                        \/ refcnt' = [refcnt EXCEPT ![x] = (@ + 255) % 256]
          PROVE  refcnt' \in [Granule -> U8]
    <3>0. \A n \in U8 : (n + 1) % 256 \in U8 /\ (n + 255) % 256 \in U8
      BY SMTT(30) DEF U8
    <3>1. refcnt \in [Granule -> U8]
      BY <2>t DEF TypeOK
    <3>2. refcnt' = [g \in Granule |-> refcnt'[g]]
      BY <2>cnt, <3>1, SMTT(30)
    <3>3. \A g \in Granule : refcnt'[g] \in U8
      BY <2>cnt, <3>0, <3>1, SMTT(30)
    <3> QED
      BY <3>2, <3>3
  \* Handlers of one step, and the metadata.
  <2>1. ASSUME NEW g \in Granule, HGptChange(g) PROVE TypeLock'
    <3>1. TypeOK' /\ rd' = rd
      BY <2>1, <2>t DEF HGptChange, GptChange, TypeOK
    <3>2. UNCHANGED <<pc, call>> /\ LockInv'
      BY <2>1, <2>same DEF HGptChange
    <3> QED
      BY <2>t, <3>1, <3>2 DEF IndexInv, TypeLock
  <2>2. ASSUME NEW p \in Cpu, NEW g \in Granule, HGranuleDelegate(p, g) \/ HGranuleUndelegate(p, g)
        PROVE  TypeLock'
    <3>1. TypeOK' /\ rd' = rd
      BY <2>2, <2>t DEF HGranuleDelegate, GranuleDelegate, HGranuleUndelegate, GranuleUndelegate,
         Zeroize, GranuleState, TypeOK
    <3>2. UNCHANGED <<pc, call>> /\ LockInv'
      BY <2>2, <2>same DEF HGranuleDelegate, HGranuleUndelegate
    <3> QED
      BY <2>t, <3>1, <3>2 DEF IndexInv, TypeLock
  <2>act. ASSUME NEW r \in Granule, RealmActivate(r) PROVE TypeOK' /\ SameIndex
    <3>1. /\ rd' = [rd EXCEPT ![r].state = "Active"] /\ "Active" \in RdState
          /\ UNCHANGED <<gst, gpt, refcnt, rec, meta, dirty, vmids>>
      BY <2>act DEF RealmActivate, RdState
    <3>2. rd' \in [Granule -> RdContent] /\ SameIndex
      BY <2>field, <3>1
    <3> QED
      BY <2>t, <3>1, <3>2 DEF TypeOK
  <2>4. ASSUME NEW p \in Cpu, NEW r \in Granule, Activate(p, r) PROVE TypeLock'
    <3>0. pc[p] = "idle" /\ Free(r)
      BY <2>4 DEF Activate
    <3>1. CASE rd[r].metadata = None
      <4>1. RealmActivate(r) /\ UNCHANGED <<lock, pc, call>>
        BY <2>4, <3>1 DEF Activate
      <4>2. Now(p, "idle", call[p])
        BY <2>same, <3>0, <4>1
      <4> QED
        BY <2>on, <2>act, <4>1, <4>2
    <3>2. CASE rd[r].metadata # None
      <4> DEFINE f == [NoCall EXCEPT !.r = r]
      <4>1. Holds(p, r) /\ Proceed(p, "activate_meta", f) /\ UNCHANGED vars
        BY <2>4, <3>2 DEF Activate
      <4>2. f \in CallRec /\ f.r = r /\ f.todo = {}
        BY <1>0 DEF NoCall, CallRec
      <4> HIDE DEF f
      <4>3. CallOK("activate_meta", f) /\ HeldBy("activate_meta", f) = {r}
        BY <4>2, LabelFacts DEF MetaFacts, Fact
      <4> QED
        BY <2>start, <3>0, <4>1, <4>3
    <3> QED
      BY <3>1, <3>2
  <2>5. ASSUME NEW p \in Cpu, ActivateMeta(p) PROVE TypeLock'
    <3>0. pc[p] = "activate_meta" /\ Return(p) /\ (RealmActivate(call[p].r) \/ UNCHANGED vars)
      BY <2>5 DEF ActivateMeta
    <3>1. call[p].r \in Granule
      BY <2>call, <3>0, LabelFacts DEF MetaFacts, Fact
    <3> QED
      BY <2>giveup, <2>end, <2>act, <3>0, <3>1
  <2>6. ASSUME NEW p \in Cpu, NEW r \in Granule, NEW g \in Granule, NEW m \in [rim : Rim, algo : Algo],
               SetMetadata(p, r, g, m)
        PROVE  TypeLock'
    <3> DEFINE f == [NoCall EXCEPT !.r = r, !.c = g, !.m = m]
    <3>1. pc[p] = "idle" /\ Free(r) /\ Holds(p, r) /\ Proceed(p, "set_metadata", f) /\ UNCHANGED vars
      BY <2>6 DEF SetMetadata
    <3>2. m \in MetaContent
      BY DEF MetaContent
    <3>3. f \in CallRec /\ f.r = r /\ f.c = g /\ f.m = m /\ f.todo = {}
      BY <1>0, <3>2 DEF NoCall, CallRec
    <3> HIDE DEF f
    <3>4. CallOK("set_metadata", f) /\ HeldBy("set_metadata", f) = {r}
      BY <3>3, LabelFacts DEF MetaFacts, Fact
    <3> QED
      BY <2>start, <3>1, <3>4
  <2>7. ASSUME NEW p \in Cpu, SetMetadataGranule(p) PROVE TypeLock'
    <3> DEFINE r == call[p].r
               g == call[p].c
               m == call[p].m
    <3>0. pc[p] = "set_metadata" /\ Return(p) /\ (RealmSetMetadata(r, g, m) \/ UNCHANGED vars)
      BY <2>7 DEF SetMetadataGranule
    <3>1. r \in Granule /\ g \in Granule /\ m \in [rim : Rim, algo : Algo]
      BY <2>call, <3>0, LabelFacts DEF MetaFacts, Fact
    <3>2. CASE UNCHANGED vars
      BY <2>giveup, <3>0, <3>2
    <3>3. CASE RealmSetMetadata(r, g, m)
      <4> HIDE DEF r, g, m
      <4>1. m \in MetaContent
        BY <3>1 DEF MetaContent
      <4>2. /\ rd' = [rd EXCEPT ![r].metadata = g] /\ meta' = [meta EXCEPT ![g] = m]
            /\ gst' = [gst EXCEPT ![g] = "Metadata"] /\ dirty' = dirty \cup {g}
            /\ UNCHANGED <<gpt, refcnt, rec, vmids>>
        BY <3>3 DEF RealmSetMetadata
      <4>3. rd' \in [Granule -> RdContent] /\ SameIndex
        BY <2>field, <3>1, <4>2
      <4>4. TypeOK'
        BY <2>t, <3>1, <4>1, <4>2, <4>3 DEF TypeOK, GranuleState
      <4> QED
        BY <2>end, <3>0, <4>3, <4>4
    <3> QED
      BY <3>0, <3>2, <3>3
  \* REALM_CREATE
  <2>8. ASSUME NEW p \in Cpu, NEW r \in Granule, NEW v \in Vmid, NEW roots \in SUBSET Granule,
               Create(p, r, v, roots)
        PROVE  TypeLock'
    <3> DEFINE f == [NoCall EXCEPT !.r = r, !.v = v, !.all = roots, !.todo = roots]
    <3>1. /\ pc[p] = "idle" /\ Free(r) /\ Holds(p, r) /\ Proceed(p, "create_check", f) /\ UNCHANGED vars
          /\ Cardinality(roots) \in RootCounts /\ roots # {}
      BY <2>8 DEF Create
    <3>2. f \in CallRec /\ f.r = r /\ f.v = v /\ f.all = roots /\ f.todo = roots
      BY <1>0 DEF NoCall, CallRec
    <3> HIDE DEF f
    <3>3. CallOK("create_check", f) /\ HeldBy("create_check", f) = {r}
      BY <3>1, <3>2, LabelFacts DEF CreateFacts, Fact, RealmArgs
    <3> QED
      BY <2>start, <3>1, <3>3
  <2>look. ASSUME NEW p \in Cpu, NEW g \in Granule, NEW l, LookAt(p, g, l), l # "rec_lock_rec",
                  pc[p] # "rec_lock_rec"
           PROVE  LET h == Left(call[p], call[p].todo \ {g})
                      n == IF h.todo = {} THEN l ELSE pc[p]
                  IN  CallOK(n, h) /\ HeldBy(n, h) = HeldBy(pc[p], call[p]) => TypeLock'
    <3> DEFINE h == Left(call[p], call[p].todo \ {g})
               n == IF h.todo = {} THEN l ELSE pc[p]
    <3>1. SUFFICES ASSUME CallOK(n, h), HeldBy(n, h) = HeldBy(pc[p], call[p]) PROVE TypeLock'
      OBVIOUS
    <3>2. UNCHANGED vars /\ (Return(p) \/ (Visited(p, g, l) /\ lock' = lock))
      BY <2>look DEF LookAt, KeepLocks
    <3>3. CASE Return(p)
      BY <2>giveup, <3>2, <3>3
    <3>4. CASE Visited(p, g, l) /\ lock' = lock
      <4>1. h.todo = call[p].todo \ {g}
        BY <2>call, <2>all, LabelFacts, SMTT(30) DEF LeftFacts
      <4>2. Proceed(p, n, h) /\ n # "rec_lock_rec"
        BY <2>look, <3>4, <4>1 DEF Visited, Left
      <4> HIDE DEF h, n
      <4> QED
        BY <2>go, <2>quiet, <3>1, <3>2, <3>4, <4>2
    <3> QED
      BY <3>2, <3>3, <3>4
  <2>9. ASSUME NEW p \in Cpu, NEW g \in Granule, CreateCheck(p, g) PROVE TypeLock'
    <3> DEFINE h == Left(call[p], call[p].todo \ {g})
    <3>1. pc[p] = "create_check" /\ LookAt(p, g, "create_vmid") /\ Free(g)
      BY <2>9 DEF CreateCheck, LookAt
    <3>2. CallOK("create_check", call[p]) /\ call[p] \in CallRec /\ call[p].todo \subseteq Granule
      BY <2>call, <3>1 DEF CallRec
    <3>3. call[p].r # g
      <4>1. call[p].r \in Granule /\ call[p].r \in HeldBy(pc[p], call[p])
        BY <3>1, <3>2, LabelFacts DEF CreateFacts, Fact
      <4> QED
        BY <2>t, <3>1, <4>1, CpuAssumption, SMTT(30) DEF LockInv, Free
    <3>4. h \in CallRec /\ h.r = call[p].r /\ h.all = call[p].all /\ h.v = call[p].v /\ h.todo = call[p].todo \ {g}
      BY <3>2, LabelFacts, SMTT(30) DEF LeftFacts
    <3> HIDE DEF h
    <3>5. /\ RealmArgs(call[p]) /\ call[p].todo \subseteq call[p].all
          /\ call[p].r \in call[p].all => call[p].r \in call[p].todo
          /\ HeldBy("create_check", call[p]) = {call[p].r}
      BY <3>2, LabelFacts DEF CreateFacts, Fact
    <3>6. RealmArgs(h) /\ h.r \in Granule /\ h.todo \subseteq h.all /\ (h.r \in h.all => h.r \in h.todo)
      BY <3>3, <3>4, <3>5 DEF RealmArgs
    <3>7. CallOK("create_check", h) /\ HeldBy("create_check", h) = {h.r}
      BY <3>4, <3>6, LabelFacts DEF CreateFacts, Fact
    <3>8. ASSUME h.todo = {} PROVE CallOK("create_vmid", h) /\ HeldBy("create_vmid", h) = {h.r}
      BY <3>4, <3>6, <3>8, LabelFacts DEF CreateFacts, Fact
    <3> QED
      BY <2>look, <3>1, <3>4, <3>5, <3>7, <3>8 DEF h
  <2>10. ASSUME NEW p \in Cpu, CreateVmid(p) PROVE TypeLock'
    <3>0. pc[p] = "create_vmid" /\ call[p] \in CallRec /\ CallOK("create_vmid", call[p])
      BY <2>10, <2>call DEF CreateVmid
    <3>1. CASE Return(p) /\ UNCHANGED vmids
      BY <2>10, <2>giveup, <3>1 DEF CreateVmid, vars, objects
    <3>2. CASE vmids' = vmids \cup {call[p].v} /\ Proceed(p, "create_init", call[p]) /\ KeepLocks
      <4>0. CallOK("create_init", call[p]) /\ HeldBy("create_init", call[p]) = HeldBy("create_vmid", call[p])
        BY <3>0, LabelFacts DEF CreateFacts, Fact
      <4>1. call[p].v \in Vmid
        BY <3>0, LabelFacts DEF CreateFacts, Fact, RealmArgs
      <4>2. Now(p, "create_init", call[p])
        BY <2>go, <3>0, <3>2, <4>0 DEF KeepLocks
      <4>3. TypeOK' /\ rd' = rd
        BY <2>t, <2>10, <3>2, <4>1 DEF CreateVmid, TypeOK, objects
      <4> QED
        BY <2>on, <2>keep, <4>2, <4>3
    <3> QED
      BY <2>10, <3>1, <3>2 DEF CreateVmid
  <2>11. ASSUME NEW p \in Cpu, NEW a \in Algo, CreateInit(p, a) PROVE TypeLock'
    <3> DEFINE f == call[p]
               n == NewRd(f.v, f.all, a)
    <3>0. pc[p] = "create_init" /\ f \in CallRec /\ CallOK("create_init", f)
      BY <2>11, <2>call DEF CreateInit
    <3>1. Proceed(p, "create_roots", Left(f, f.all)) /\ lock' = lock
      BY <2>11 DEF CreateInit, KeepLocks, Left
    <3>2. /\ rd' = [g \in Granule |-> IF g = f.r THEN n ELSE IF g \in f.all THEN ZeroRd ELSE rd[g]]
          /\ rec' = [g \in Granule |-> IF g \in f.all THEN ZeroRec ELSE rec[g]]
          /\ meta' = [g \in Granule |-> IF g \in f.all THEN ZeroMeta ELSE meta[g]]
          /\ UNCHANGED <<gst, gpt, refcnt, dirty, vmids>>
      BY <2>11 DEF CreateInit
    <3>3. Onward("create_init", "create_roots", f, f.all)
      BY <3>0, LabelFacts DEF LoopFacts
    <3>4. Now(p, "create_roots", Left(f, f.all))
      BY <2>loop, <3>0, <3>1, <3>3
    <3>5. f.r \in Granule /\ f.v \in Vmid /\ f.all \subseteq Granule /\ f.r \in HeldBy("create_init", f)
      BY <2>all, <3>0, LabelFacts DEF CreateFacts, Fact, RealmArgs
    <3>6. lock[f.r] = p
      BY <2>t, <3>0, <3>5 DEF LockInv
    <3> HIDE DEF f
    <3>7. n \in RdContent /\ n.rim = 1 /\ n.recIndex = 0
      BY <3>5, CountAssumption, SMTT(30) DEF NewRd, RdContent, RdState, Rim
    <3> HIDE DEF n
    <3>8. TypeOK'
      BY <1>0, <2>t, <3>2, <3>7 DEF TypeOK
    <3>9. rd'[f.r] = n /\ \A g \in Granule : g # f.r => rd'[g] = rd[g] \/ rd'[g] = ZeroRd
      BY <3>2, <3>5
    <3>10. \A g \in Granule : /\ rd'[g].rim <= rd'[g].recIndex + 1
                              /\ lock[g] # p => rd'[g].recIndex <= rd[g].recIndex
      BY <1>0, <2>rd, <3>6, <3>7, <3>9, SMTT(30)
    <3> QED
      BY <2>index, <3>4, <3>8, <3>10
  <2>12. ASSUME NEW p \in Cpu, NEW g \in Granule, CreateRoot(p, g) PROVE TypeLock'
    <3> DEFINE f == call[p]
               t == f.todo \ {g}
    <3>0. pc[p] = "create_roots" /\ f \in CallRec /\ CallOK("create_roots", f)
      BY <2>12, <2>call DEF CreateRoot
    <3>1. \/ /\ gst' = [gst EXCEPT ![g] = "RTT"] /\ Proceed(p, "create_roots", Left(f, t)) /\ lock' = lock
             /\ UNCHANGED <<gpt, refcnt, rd, rec, meta, dirty, vmids>>
          \/ /\ Return(p) /\ vmids' = vmids \ {f.v} /\ rd' = [rd EXCEPT ![f.r] = ZeroRd]
             /\ dirty' = dirty \cup {f.r} \cup (f.all \ f.todo)
             /\ UNCHANGED <<gst, gpt, refcnt, rec, meta>>
      BY <2>12 DEF CreateRoot, KeepLocks, Left
    <3>2. t \subseteq f.all /\ f.all \subseteq Granule /\ f.r \in Granule
      BY <2>all, <3>0, LabelFacts DEF CreateFacts, Fact
    <3>3. Onward("create_roots", "create_roots", f, t)
      BY <3>0, <3>2, LabelFacts DEF LoopFacts
    <3>4. CASE Proceed(p, "create_roots", Left(f, t)) /\ lock' = lock
               /\ gst' = [gst EXCEPT ![g] = "RTT"] /\ UNCHANGED <<gpt, refcnt, rd, rec, meta, dirty, vmids>>
      <4>1. Now(p, "create_roots", Left(f, t))
        BY <2>loop, <3>0, <3>2, <3>3, <3>4
      <4>2. TypeOK' /\ rd' = rd
        BY <2>t, <3>4 DEF TypeOK, GranuleState
      <4> QED
        BY <2>keep, <2>on, <4>1, <4>2
    <3> HIDE DEF f, t
    <3>5. CASE /\ Return(p) /\ vmids' = vmids \ {f.v} /\ rd' = [rd EXCEPT ![f.r] = ZeroRd]
               /\ dirty' = dirty \cup {f.r} \cup (f.all \ f.todo)
               /\ UNCHANGED <<gst, gpt, refcnt, rec, meta>>
      <4>1. rd' \in [Granule -> RdContent] /\ SameIndex
        BY <2>zero, <3>2, <3>5
      <4>2. TypeOK'
        BY <2>t, <3>2, <3>5, <4>1 DEF TypeOK
      <4> QED
        BY <2>end, <3>5, <4>1, <4>2
    <3> QED
      BY <3>1, <3>4, <3>5
  <2>13. ASSUME NEW p \in Cpu, CreateEnd(p) PROVE TypeLock'
    <3>0. CallOK("create_roots", call[p]) /\ call[p] \in CallRec
      BY <2>13, <2>call DEF CreateEnd
    <3>1. call[p].r \in Granule /\ call[p].all \subseteq Granule
      BY <3>0, LabelFacts DEF CreateFacts, Fact, CallRec
    <3>2. TypeOK' /\ rd' = rd /\ Return(p)
      BY <2>t, <2>13, <3>1 DEF CreateEnd, TypeOK, GranuleState, objects
    <3> QED
      BY <2>keep, <2>end, <3>2
  \* REALM_DESTROY
  <2>14. ASSUME NEW p \in Cpu, NEW r \in Granule, Destroy(p, r) PROVE TypeLock'
    <3> DEFINE f == [NoCall EXCEPT !.r = r, !.all = rd[r].roots, !.todo = rd[r].roots]
               l == IF rd[r].metadata = None THEN "destroy_check" ELSE "destroy_meta"
    <3>1. pc[p] = "idle" /\ Free(r) /\ Holds(p, r) /\ Proceed(p, l, f) /\ UNCHANGED vars
      BY <2>14 DEF Destroy
    <3>2. rd[r].roots \subseteq Granule
      BY <2>rd DEF RdContent
    <3>3. f \in CallRec /\ f.r = r /\ f.todo = f.all
      BY <1>0, <3>2 DEF NoCall, CallRec
    <3> HIDE DEF f
    <3>4. /\ CallOK("destroy_check", f) /\ HeldBy("destroy_check", f) = {r}
          /\ CallOK("destroy_meta", f) /\ HeldBy("destroy_meta", f) = {r}
      BY <3>3, LabelFacts DEF DestroyFacts, Fact
    <3> QED
      BY <2>start, <3>1, <3>4
  <2>15. ASSUME NEW p \in Cpu, DestroyMeta(p) PROVE TypeLock'
    <3> DEFINE f == call[p]
               r == f.r
               m == rd[r].metadata
               h == [f EXCEPT !.c = m]
    <3>0. pc[p] = "destroy_meta" /\ f \in CallRec /\ CallOK("destroy_meta", f)
      BY <2>15, <2>call DEF DestroyMeta
    <3>1. r \in Granule /\ m \in Granule \cup {None} /\ f.todo \subseteq f.all /\ HeldBy("destroy_meta", f) = {r}
      <4>1. r \in Granule /\ f.todo \subseteq f.all /\ HeldBy("destroy_meta", f) = {r}
        BY <3>0, LabelFacts DEF DestroyFacts, Fact
      <4> QED
        BY <2>rd, <4>1 DEF RdContent
    <3>2. CASE UNCHANGED vars /\ Return(p)
      BY <2>giveup, <3>2
    <3>3. CASE /\ gst' = [gst EXCEPT ![m] = "Delegated"]
               /\ Zeroize({m})
               /\ meta' = [meta EXCEPT ![m] = ZeroMeta]
               /\ rd' = [rd EXCEPT ![r].metadata = None]
               /\ Proceed(p, "destroy_check", h)
               /\ KeepLocks
               /\ UNCHANGED <<gpt, refcnt, rec, vmids>>
      <4>1. h \in CallRec /\ h.r = r /\ h.all = f.all /\ h.todo = f.todo
        BY <3>0, <3>1 DEF CallRec
      <4> HIDE DEF h, f
      <4>2. CallOK("destroy_check", h) /\ HeldBy("destroy_check", h) = {r}
        BY <3>1, <4>1, LabelFacts DEF DestroyFacts, Fact
      <4>3. Now(p, "destroy_check", h)
        BY <2>go, <3>0, <3>1, <3>3, <4>2 DEF KeepLocks, f
      <4> HIDE DEF r, m
      <4>4. rd' \in [Granule -> RdContent] /\ SameIndex
        BY <2>field, <3>3
      <4>5. gst' \in [Granule -> GranuleState] /\ meta' \in [Granule -> MetaContent]
        BY <1>0, <2>t, <3>3 DEF TypeOK, GranuleState
      <4>6. TypeOK'
        BY <2>t, <3>3, <4>4, <4>5 DEF TypeOK, Zeroize
      <4> QED
        BY <2>on, <4>3, <4>4, <4>6
    <3> QED
      BY <2>15, <3>2, <3>3 DEF DestroyMeta
  <2>16. ASSUME NEW p \in Cpu, NEW g \in Granule, DestroyCheck(p, g) PROVE TypeLock'
    <3> DEFINE f == call[p]
               t == f.todo \ {g}
    <3>0. pc[p] = "destroy_check" /\ f \in CallRec /\ CallOK("destroy_check", f) /\ UNCHANGED vars
      BY <2>16, <2>call DEF DestroyCheck
    <3>1. \/ Return(p)
          \/ Proceed(p, "destroy_roots", Left(f, f.all)) /\ lock' = lock
          \/ Proceed(p, "destroy_check", Left(f, t)) /\ lock' = lock
      BY <2>16 DEF DestroyCheck, Left, KeepLocks
    <3>2. t \subseteq f.all
      BY <2>all
    <3>3. Onward("destroy_check", "destroy_roots", f, f.all) /\ Onward("destroy_check", "destroy_check", f, t)
      BY <3>0, <3>2, LabelFacts DEF LoopFacts
    <3>4. Return(p) \/ Now(p, "destroy_roots", Left(f, f.all)) \/ Now(p, "destroy_check", Left(f, t))
      BY <2>loop, <3>0, <3>1, <3>2, <3>3
    <3> QED
      BY <2>giveup, <2>quiet, <3>0, <3>4
  <2>17. ASSUME NEW p \in Cpu, NEW g \in Granule, DestroyRoot(p, g) PROVE TypeLock'
    <3> DEFINE f == call[p]
               t == f.todo \ {g}
    <3>0. pc[p] = "destroy_roots" /\ f \in CallRec /\ t \subseteq f.all
      BY <2>17, <2>call, <2>all DEF DestroyRoot
    <3>1. /\ gst' = [gst EXCEPT ![g] = "Delegated"] /\ Proceed(p, "destroy_roots", Left(f, t)) /\ lock' = lock
          /\ dirty' = dirty \ {g} /\ UNCHANGED <<gpt, refcnt, rd, rec, meta, vmids>>
      BY <2>17 DEF DestroyRoot, KeepLocks, Zeroize, objects, Left
    <3>2. Onward("destroy_roots", "destroy_roots", f, t)
      BY <3>0, LabelFacts DEF LoopFacts
    <3>3. Now(p, "destroy_roots", Left(f, t))
      BY <2>loop, <3>0, <3>1, <3>2
    <3>4. TypeOK' /\ rd' = rd
      BY <2>t, <3>1 DEF TypeOK, GranuleState
    <3> QED
      BY <2>keep, <2>on, <3>3, <3>4
  <2>18. ASSUME NEW p \in Cpu, DestroyEnd(p) PROVE TypeLock'
    <3>0. CallOK("destroy_roots", call[p]) /\ call[p] \in CallRec
      BY <2>18, <2>call DEF DestroyEnd
    <3>1. call[p].r \in Granule
      BY <3>0, LabelFacts DEF DestroyFacts, Fact
    <3>2. TypeOK' /\ rd' = [rd EXCEPT ![call[p].r] = ZeroRd] /\ Return(p)
      BY <1>0, <2>t, <2>18, <3>1 DEF DestroyEnd, TypeOK, GranuleState, Zeroize
    <3> QED
      BY <2>zero, <2>end, <3>1, <3>2
  \* REC_CREATE
  <2>19. ASSUME NEW p \in Cpu, NEW aux \in SUBSET Granule, NEW r \in Granule, NEW c \in Granule,
                NEW g \in aux, CreateRec(p, r, c, aux, g)
         PROVE  TypeLock'
    <3> DEFINE f == [NoCall EXCEPT !.r = r, !.c = c, !.all = aux, !.todo = aux \ {g}]
               l == IF aux \ {g} = {} THEN "rec_lock_rd" ELSE "rec_check"
    <3>1. pc[p] = "idle" /\ Proceed(p, l, f) /\ lock' = lock /\ UNCHANGED vars
      BY <2>19 DEF CreateRec, KeepLocks
    <3>2. Cardinality(aux) = NumAux /\ c # r /\ c \notin aux /\ r \notin aux
      BY <2>19 DEF CreateRec
    <3>3. f \in CallRec /\ f.r = r /\ f.c = c /\ f.all = aux /\ f.todo = aux \ {g}
      BY <1>0 DEF NoCall, CallRec
    <3> HIDE DEF f
    <3>4. RecArgs(f)
      BY <3>2, <3>3 DEF RecArgs
    <3>5. /\ CallOK("rec_lock_rd", f) /\ HeldBy("rec_lock_rd", f) = {}
          /\ CallOK("rec_check", f) /\ HeldBy("rec_check", f) = {}
      BY <3>3, <3>4, LabelFacts DEF RecFacts, Fact
    <3>6. HeldBy("idle", call[p]) = {}
      BY LabelFacts DEF IdleFacts, Fact
    <3>7. Now(p, l, f)
      BY <2>go, <3>1, <3>5, <3>6
    <3> QED
      BY <2>quiet, <3>1, <3>7
  <2>20. ASSUME NEW p \in Cpu, NEW g \in Granule, CreateRecCheck(p, g) PROVE TypeLock'
    <3> DEFINE f == call[p]
               t == f.todo \ {g}
    <3>1. pc[p] = "rec_check" /\ LookAt(p, g, "rec_lock_rd")
      BY <2>20 DEF CreateRecCheck
    <3>2. CallOK("rec_check", f) /\ f \in CallRec /\ t \subseteq f.all
      BY <2>call, <2>all, <3>1
    <3>3. Onward("rec_check", "rec_check", f, t) /\ Onward("rec_check", "rec_lock_rd", f, t)
      BY <3>2, LabelFacts DEF LoopFacts
    <3> QED
      BY <2>look, <3>1, <3>2, <3>3 DEF Onward
  <2>21. ASSUME NEW p \in Cpu, CreateRecLockRd(p) PROVE TypeLock'
    <3> DEFINE f == call[p]
    <3>0. pc[p] = "rec_lock_rd" /\ f \in CallRec /\ CallOK("rec_lock_rd", f) /\ UNCHANGED vars /\ Free(f.r)
      BY <2>21, <2>call DEF CreateRecLockRd
    <3>1. CASE Return(p)
      BY <2>giveup, <3>0, <3>1
    <3>2. CASE rd[f.r].recIndex < MaxRecIndex /\ Holds(p, f.r) /\ Proceed(p, "rec_lock_rec", f)
      <4> HIDE DEF f
      <4>1. f.r \in Granule
        BY <3>0, LabelFacts DEF RecFacts, Fact, RecArgs
      <4>2. CallOK("rec_lock_rec", f) /\ HeldBy("rec_lock_rec", f) = HeldBy("rec_lock_rd", f) \cup {f.r}
        BY <3>0, <4>1, LabelFacts DEF RecFacts, Fact
      <4>3. Now(p, "rec_lock_rec", f)
        BY <2>take, <3>0, <3>2, <4>1, <4>2 DEF f
      <4>4. TypeOK' /\ rd' = rd
        BY <3>0, <2>t DEF vars, TypeOK
      <4>5. \A g \in Granule : rd'[g].rim <= rd'[g].recIndex + 1 /\ rd'[g].recIndex <= rd[g].recIndex
        BY <2>keep, <4>4 DEF SameIndex
      <4> QED
        BY <2>index, <3>2, <4>3, <4>4, <4>5
    <3> QED
      BY <2>21, <3>1, <3>2 DEF CreateRecLockRd
  <2>22. ASSUME NEW p \in Cpu, CreateRecLockRec(p) PROVE TypeLock'
    <3> DEFINE f == call[p]
               h == Left(f, f.all)
    <3>0. pc[p] = "rec_lock_rec" /\ f \in CallRec /\ CallOK("rec_lock_rec", f) /\ Free(f.c)
          /\ UNCHANGED <<gst, gpt, refcnt, meta, dirty, vmids>>
      BY <2>22, <2>call DEF CreateRecLockRec
    <3>1. CASE Return(p) /\ UNCHANGED <<rd, rec>>
      BY <2>giveup, <3>0, <3>1 DEF vars
    <3>2. CASE /\ Holds(p, f.c) /\ rec' = [rec EXCEPT ![f.c] = NewRec(f.r, f.all)]
               /\ RecIndexAdvances(f.r) /\ Proceed(p, "rec_aux", h)
      <4> HIDE DEF f
      <4>1. RecArgs(f) /\ f.todo \subseteq f.all /\ HeldBy("rec_lock_rec", f) = {f.r} /\ f.all \subseteq Granule
        BY <3>0, LabelFacts DEF RecFacts, Fact, CallRec
      <4>2. f.c \in Granule /\ f.r \in Granule
        BY <4>1 DEF RecArgs
      <4>3. lock[f.r] = p /\ rd[f.r].recIndex < MaxRecIndex
        BY <2>t, <3>0, <4>1, <4>2, SMTT(30) DEF LockInv, IndexInv, f
      <4>4. h \in CallRec /\ h.r = f.r /\ h.c = f.c /\ h.all = f.all /\ h.todo = f.all
        BY <3>0, <4>1, LabelFacts DEF LeftFacts
      <4> HIDE DEF h
      <4>5. RecArgs(h)
        BY <4>1, <4>4 DEF RecArgs
      <4>6. CallOK("rec_aux", h) /\ HeldBy("rec_aux", h) = {f.r} \cup {f.c}
        <5>1. h.todo \subseteq h.all /\ {h.r, h.c} \subseteq Granule
          BY <4>2, <4>4
        <5> QED
          BY <4>4, <4>5, <5>1, LabelFacts, SMTT(30) DEF RecFacts, Fact
      <4>7. Now(p, "rec_aux", h)
        BY <2>take, <3>0, <3>2, <4>1, <4>2, <4>6 DEF f
      <4>8. /\ rd[f.r] \in RdContent /\ rd[f.r].recIndex \in 0 .. MaxRecIndex
            /\ rd[f.r].rim \in Rim /\ rd[f.r].rim <= rd[f.r].recIndex + 1
        BY <2>rd, <4>2 DEF RdContent
      <4>9. rd[f.r].recIndex + 1 \in 0 .. MaxRecIndex /\ rd[f.r].rim + 1 \in Rim
        BY <4>3, <4>8, CountAssumption, SMTT(30) DEF Rim
      <4>10. NewRec(f.r, f.all) \in RecContent
        BY <4>1, <4>2, <4>8 DEF NewRec, RecContent
      <4> DEFINE d == [rd[f.r] EXCEPT !.recIndex = rd[f.r].recIndex + 1, !.rim = rd[f.r].rim + 1]
      <4>11. d \in RdContent /\ d.recIndex = rd[f.r].recIndex + 1 /\ d.rim = rd[f.r].rim + 1
        <5>1. ASSUME NEW x \in RdContent, x.recIndex + 1 \in 0 .. MaxRecIndex, x.rim + 1 \in Rim
              PROVE  LET y == [x EXCEPT !.recIndex = x.recIndex + 1, !.rim = x.rim + 1]
                     IN  y \in RdContent /\ y.recIndex = x.recIndex + 1 /\ y.rim = x.rim + 1
          BY <5>1 DEF RdContent
        <5> QED
          BY <4>8, <4>9, <5>1
      <4>12. rd' = [rd EXCEPT ![f.r] = d]
        BY <2>t, <3>2, <4>2, <4>8 DEF RecIndexAdvances, TypeOK, RdContent
      <4> HIDE DEF d
      <4>13. rd' \in [Granule -> RdContent] /\ rd'[f.r] = d /\ \A g \in Granule : g # f.r => rd'[g] = rd[g]
        BY <2>t, <4>2, <4>11, <4>12 DEF TypeOK
      <4>14. TypeOK'
        BY <2>t, <3>0, <3>2, <4>2, <4>10, <4>13 DEF TypeOK
      <4>15. d.rim <= d.recIndex + 1
        BY <4>8, <4>11, CountAssumption, SMTT(30) DEF Rim
      <4>16. \A g \in Granule : /\ rd'[g].rim <= rd'[g].recIndex + 1
                                /\ lock[g] # p => rd'[g].recIndex <= rd[g].recIndex
        BY <2>rd, <4>3, <4>13, <4>15, SMTT(30)
      <4> QED
        BY <2>index, <4>7, <4>14, <4>16
    <3> QED
      BY <2>22, <3>1, <3>2 DEF CreateRecLockRec, Left
  <2>23. ASSUME NEW p \in Cpu, NEW g \in Granule, CreateRecAux(p, g) PROVE TypeLock'
    <3> DEFINE f == call[p]
               t == f.todo \ {g}
    <3>0. pc[p] = "rec_aux" /\ f \in CallRec /\ CallOK("rec_aux", f)
      BY <2>23, <2>call DEF CreateRecAux
    <3>1. \/ /\ gst' = [gst EXCEPT ![g] = "RecAux"] /\ Proceed(p, "rec_aux", Left(f, t)) /\ lock' = lock
             /\ UNCHANGED <<gpt, refcnt, rd, rec, meta, dirty, vmids>>
          \/ /\ Return(p) /\ rec' = [rec EXCEPT ![f.c] = ZeroRec]
             /\ dirty' = dirty \cup {f.c} \cup (f.all \ f.todo)
             /\ UNCHANGED <<gst, gpt, refcnt, rd, meta, vmids>>
      BY <2>23 DEF CreateRecAux, KeepLocks, Left
    <3>2. t \subseteq f.all /\ f.all \subseteq Granule /\ f.c \in Granule
      BY <2>all, <3>0, LabelFacts DEF RecFacts, Fact
    <3>3. Onward("rec_aux", "rec_aux", f, t)
      BY <3>0, <3>2, LabelFacts DEF LoopFacts
    <3>4. CASE /\ gst' = [gst EXCEPT ![g] = "RecAux"] /\ Proceed(p, "rec_aux", Left(f, t)) /\ lock' = lock
               /\ UNCHANGED <<gpt, refcnt, rd, rec, meta, dirty, vmids>>
      <4>1. Now(p, "rec_aux", Left(f, t))
        BY <2>loop, <3>0, <3>2, <3>3, <3>4
      <4>2. TypeOK' /\ rd' = rd
        BY <2>t, <3>4 DEF TypeOK, GranuleState
      <4> QED
        BY <2>keep, <2>on, <4>1, <4>2
    <3> HIDE DEF f, t
    <3>5. CASE /\ Return(p) /\ rec' = [rec EXCEPT ![f.c] = ZeroRec]
               /\ dirty' = dirty \cup {f.c} \cup (f.all \ f.todo)
               /\ UNCHANGED <<gst, gpt, refcnt, rd, meta, vmids>>
      <4>1. TypeOK' /\ rd' = rd
        BY <1>0, <2>t, <3>2, <3>5 DEF TypeOK
      <4> QED
        BY <2>keep, <2>end, <3>5, <4>1
    <3> QED
      BY <3>1, <3>4, <3>5
  <2>24. ASSUME NEW p \in Cpu, CreateRecEnd(p) PROVE TypeLock'
    <3>0. CallOK("rec_aux", call[p]) /\ call[p] \in CallRec
      BY <2>24, <2>call DEF CreateRecEnd
    <3>1. call[p].c \in Granule /\ call[p].all \subseteq Granule
      BY <3>0, LabelFacts DEF RecFacts, Fact, RecArgs, CallRec
    <3>2. refcnt' \in [Granule -> U8]
      BY <2>24, <2>cnt, ZenonT(60) DEF CreateRecEnd
    <3>3. TypeOK' /\ rd' = rd /\ Return(p)
      BY <2>t, <2>24, <3>1, <3>2, SMTT(30) DEF CreateRecEnd, TypeOK, GranuleState, objects
    <3> QED
      BY <2>keep, <2>end, <3>3
  \* REC_DESTROY
  <2>25. ASSUME NEW p \in Cpu, NEW c \in Granule, DestroyRec(p, c) PROVE TypeLock'
    <3> DEFINE f == [NoCall EXCEPT !.r = rec[c].owner, !.c = c, !.all = rec[c].aux, !.todo = rec[c].aux]
               l == IF rec[c].aux = {} THEN "recdel_rd" ELSE "recdel_aux"
    <3>1. pc[p] = "idle" /\ Free(c) /\ Holds(p, c) /\ Proceed(p, l, f) /\ UNCHANGED vars
      BY <2>25 DEF DestroyRec
    <3>2. rec[c].aux \subseteq Granule /\ rec[c].owner \in Granule \cup {None}
      BY <2>t DEF TypeOK, RecContent
    <3>3. f \in CallRec /\ f.c = c /\ f.todo = f.all /\ f.all = rec[c].aux
      BY <1>0, <3>2 DEF NoCall, CallRec
    <3> HIDE DEF f
    <3>4. /\ CallOK("recdel_aux", f) /\ HeldBy("recdel_aux", f) = {c}
          /\ HeldBy("recdel_rd", f) = {c} /\ (rec[c].aux = {} => CallOK("recdel_rd", f))
      BY <3>3, LabelFacts DEF RecDelFacts, Fact
    <3> QED
      BY <2>start, <3>1, <3>4
  <2>26. ASSUME NEW p \in Cpu, NEW g \in Granule, DestroyRecAux(p, g) PROVE TypeLock'
    <3> DEFINE f == call[p]
               t == f.todo \ {g}
               n == IF t = {} THEN "recdel_rd" ELSE "recdel_aux"
    <3>0. pc[p] = "recdel_aux" /\ f \in CallRec /\ t \subseteq f.all
      BY <2>26, <2>call, <2>all DEF DestroyRecAux
    <3>1. CASE Return(p) /\ UNCHANGED <<gst, dirty>>
      BY <2>26, <2>giveup, <3>1 DEF DestroyRecAux, vars, objects
    <3>2. CASE /\ gst' = [gst EXCEPT ![g] = "Delegated"] /\ Zeroize({g})
               /\ Visited(p, g, "recdel_rd") /\ KeepLocks
      <4>1. Proceed(p, n, Left(f, t)) /\ lock' = lock
        BY <3>0, <3>2 DEF Visited, KeepLocks, Left
      <4>2. TypeOK' /\ rd' = rd
        BY <2>t, <2>26, <3>2 DEF DestroyRecAux, TypeOK, GranuleState, objects, Zeroize
      <4>3. Onward("recdel_aux", n, f, t)
        BY <3>0, LabelFacts DEF LoopFacts
      <4>4. Now(p, n, Left(f, t))
        BY <2>loop, <3>0, <4>1, <4>3
      <4> QED
        BY <2>keep, <2>on, <4>2, <4>4
    <3> QED
      BY <2>26, <3>1, <3>2 DEF DestroyRecAux
  <2>27. ASSUME NEW p \in Cpu, DestroyRecRd(p) PROVE TypeLock'
    <3>0. pc[p] = "recdel_rd" /\ call[p] \in CallRec /\ CallOK("recdel_rd", call[p])
      BY <2>27, <2>call DEF DestroyRecRd
    <3>1. CASE Return(p) /\ UNCHANGED refcnt
      BY <2>27, <2>giveup, <3>1 DEF DestroyRecRd, vars, objects
    <3>2. CASE /\ refcnt' = [refcnt EXCEPT ![call[p].r] = (@ + 255) % 256]
               /\ Proceed(p, "recdel_end", call[p]) /\ KeepLocks
      <4>1. CallOK("recdel_end", call[p]) /\ HeldBy("recdel_end", call[p]) = HeldBy("recdel_rd", call[p])
        BY <3>0, LabelFacts DEF RecDelFacts, Fact
      <4>2. Now(p, "recdel_end", call[p])
        BY <2>go, <3>0, <3>2, <4>1 DEF KeepLocks
      <4>3. refcnt' \in [Granule -> U8]
        BY <2>cnt, <3>2, ZenonT(60)
      <4>4. TypeOK' /\ rd' = rd
        BY <2>t, <2>27, <4>3 DEF DestroyRecRd, TypeOK, objects
      <4> QED
        BY <2>keep, <2>on, <4>2, <4>4
    <3> QED
      BY <2>27, <3>1, <3>2 DEF DestroyRecRd
  <2>28. ASSUME NEW p \in Cpu, DestroyRecEnd(p) PROVE TypeLock'
    <3>1. TypeOK' /\ rd' = rd /\ Return(p)
      BY <1>0, <2>t, <2>28 DEF DestroyRecEnd, TypeOK, GranuleState, Zeroize
    <3> QED
      BY <2>keep, <2>end, <3>1
  \* REC_ENTER, and the handlers that take a second lock.
  <2>29. ASSUME NEW p \in Cpu, NEW c \in Granule, Enter(p, c) PROVE TypeLock'
    <3> DEFINE f == [NoCall EXCEPT !.r = rec[c].owner, !.c = c]
    <3>1. pc[p] = "idle" /\ Free(c) /\ Holds(p, c) /\ Proceed(p, "enter_check", f) /\ UNCHANGED vars
      BY <2>29 DEF Enter
    <3>2. rec[c].owner \in Granule \cup {None}
      BY <2>t DEF TypeOK, RecContent
    <3>3. f \in CallRec /\ f.c = c /\ f.todo = {} /\ f.all = {}
      BY <1>0, <3>2 DEF NoCall, CallRec
    <3> HIDE DEF f
    <3>4. CallOK("enter_check", f) /\ HeldBy("enter_check", f) = {c}
      BY <3>3, LabelFacts DEF EnterFacts, Fact
    <3> QED
      BY <2>start, <3>1, <3>4
  <2>onward. ASSUME NEW p \in Cpu, pc[p] \in EnterL, NEW l \in EnterL, Proceed(p, l, call[p]), KeepLocks,
                    UNCHANGED vars
             PROVE  TypeLock'
    <3>1. CallOK(pc[p], call[p]) /\ call[p] \in CallRec
      BY <2>call
    <3>2. \A k \in EnterL : /\ CallOK(k, call[p]) <=> CallOK("enter_run", call[p])
                            /\ HeldBy(k, call[p]) = {call[p].c} /\ k # "rec_lock_rec"
      BY <3>1, LabelFacts DEF EnterFacts, Fact, EnterL
    <3>3. Now(p, l, call[p])
      BY <2>go, <2>onward, <3>1, <3>2 DEF KeepLocks
    <3> QED
      BY <2>quiet, <2>onward, <3>2, <3>3
  <2>30. ASSUME NEW p \in Cpu, EnterCheck(p) \/ EnterRun(p) PROVE TypeLock'
    BY <2>30, <2>giveup, <2>onward DEF EnterCheck, EnterRun, EnterL
  <2>32. ASSUME NEW p \in Cpu, EnterRealm(p) PROVE TypeLock'
    BY <2>32, <2>giveup, <2>onward DEF EnterRealm, EnterL
  <2>33. ASSUME NEW p \in Cpu, EnterOff(p) PROVE TypeLock'
    <3>1. rd' \in [Granule -> RdContent] /\ SameIndex
      <4>1. rd' = rd \/ rd' = [rd EXCEPT ![call[p].r].state = "SystemOff"]
        BY <2>33 DEF EnterOff
      <4>2. "SystemOff" \in RdState /\ rd \in [Granule -> RdContent]
        BY <2>t DEF RdState, TypeOK
      <4> QED
        BY <2>field, <2>keep, <4>1, <4>2
    <3>2. TypeOK' /\ Return(p)
      BY <2>t, <2>33, <3>1 DEF EnterOff, TypeOK
    <3> QED
      BY <2>end, <3>1, <3>2
  <2>34. ASSUME NEW p \in Cpu, NEW r \in Granule, NEW c \in Granule, SetRipas(p, r, c) \/ PsciComplete(p, r, c)
         PROVE  TypeLock'
    <3> DEFINE f == [NoCall EXCEPT !.r = r, !.c = c]
    <3>1. /\ pc[p] = "idle" /\ Free(r) /\ Holds(p, r) /\ UNCHANGED vars
          /\ Proceed(p, "set_ripas", f) \/ Proceed(p, "psci_complete", f)
      BY <2>34 DEF SetRipas, PsciComplete
    <3>2. f \in CallRec /\ f.r = r /\ f.todo = {}
      BY <1>0 DEF NoCall, CallRec
    <3> HIDE DEF f
    <3>3. /\ CallOK("set_ripas", f) /\ HeldBy("set_ripas", f) = {r}
          /\ CallOK("psci_complete", f) /\ HeldBy("psci_complete", f) = {r}
      BY <3>2, LabelFacts DEF SecondFacts, Fact
    <3> QED
      BY <2>start, <3>1, <3>3
  <2>36. ASSUME NEW p \in Cpu, SecondLock(p) PROVE TypeLock'
    BY <2>36, <2>giveup DEF SecondLock
  <2>37. CASE UNCHANGED hvars
    BY <2>t, <2>37, <2>same DEF hvars, vars, TypeOK, IndexInv, TypeLock
  <2>38. ASSUME NEW p \in Cpu, Step(p) PROVE TypeLock'
    BY SMTT(30), <2>38, <2>5, <2>7, <2>9, <2>10, <2>11, <2>12, <2>13, <2>15, <2>16, <2>17, <2>18, <2>20, <2>21,
       <2>22, <2>23, <2>24, <2>26, <2>27, <2>28, <2>30, <2>32, <2>33, <2>36 DEF Step
  <2>39. ASSUME NEW p \in Cpu, Begin(p) PROVE TypeLock'
    BY <2>39, <2>2, <2>4, <2>6, <2>8, <2>14, <2>19, <2>25, <2>29, <2>34 DEF Begin
  <2> QED
    BY <2>1, <2>37, <2>38, <2>39 DEF HNext
<1> QED
  BY <1>1, <1>2, PTL DEF HSpec

\* Every variable holds a value of its type, whatever the handlers on the other CPUs do
\* in between: a handler that has returned holds no lock.
THEOREM HTypeCorrect == HSpec => []HTypeOK
<1>1. TypeLock => HTypeOK
  <2> SUFFICES ASSUME TypeLock PROVE HTypeOK
    OBVIOUS
  <2>1. ASSUME NEW p \in Cpu
        PROVE  /\ call[p].r \in Granule \cup {None} /\ call[p].c \in Granule \cup {None}
               /\ call[p].todo \subseteq call[p].all /\ call[p].all \subseteq Granule
               /\ pc[p] = "idle" => \A g \in Granule : lock[g] # p
    <3>1. call[p] \in CallRec /\ CallOK(pc[p], call[p])
      BY DEF TypeLock, LockInv
    <3>2. pc[p] = "idle" => HeldBy(pc[p], call[p]) = {}
      BY LabelFacts DEF IdleFacts, Fact
    <3>3. \A g \in Granule : lock[g] = p <=> g \in HeldBy(pc[p], call[p])
      BY DEF TypeLock, LockInv
    <3> QED
      BY <3>1, <3>2, <3>3 DEF CallRec, CallOK
  <2> QED
    BY <2>1 DEF TypeLock, LockInv, HTypeOK
<1> QED
  BY <1>1, TypeLockInvariant, PTL
=============================================================================
