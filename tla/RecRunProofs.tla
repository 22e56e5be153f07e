---------------------------- MODULE RecRunProofs ----------------------------
(***************************************************************************)
(* The safety properties of RecRun for any number of realms, RECs and      *)
(* pages.                                                                  *)
(*                                                                         *)
(* None of them is inductive alone.  RecInv says what a REC may wait for   *)
(* when its x0, its runnable flag, its saved ELR and the history of what   *)
(* its realm asked for are as they are; the lock that REC_ENTER holds      *)
(* appears as AtHost in the guards of the handlers that change a REC of    *)
(* another CPU.                                                            *)
(***************************************************************************)
EXTENDS RecRun, FiniteSetTheorems, TLAPS

Waits(q) == q.psci \/ q.host \/ q.abort \/ q.ripas.end > 0

\* A Rec by itself: it waits for one thing, only while it is runnable, and a command
\* in x0 is one that it waits for.
ContentInv(q) ==
    /\ q.psci => ~q.host /\ ~q.abort /\ ~(q.ripas.end > 0)
    /\ q.host => ~q.abort /\ ~(q.ripas.end > 0)
    /\ q.abort => ~(q.ripas.end > 0)
    /\ Waits(q) => q.runnable
    /\ q.x0 \in {"CPU_ON", "AFFINITY_INFO"} => q.psci
    /\ q.x0 = "IPA_STATE_SET" => q.ripas.end > 0
    /\ q.x0 = "CPU_OFF" => ~q.runnable

\* The request in a Rec against what the realm asked for.
RequestInv(s, a) ==
    s.end > 0 =>
       /\ s.start <= s.addr /\ s.addr <= s.end
       /\ a.pages = s.start .. s.end - 1
       /\ a.to = s.to /\ a.change = s.change
       /\ a.done = s.start .. s.addr - 1

\* A REC with the Rec q, in the state l of REC_ENTER, with the saved ELR e, the
\* request a of its realm and w wakes.
RecInv(q, l, e, a, w) ==
    /\ ContentInv(q)
    /\ RequestInv(q.ripas, a)
    /\ l = "realm" => q.runnable /\ q.x0 = "value" /\ ~Waits(q)
    /\ q.running <=> l = "realm"
    /\ q.abort => e = "fault"
    /\ e # "lost"
    /\ w = IF q.runnable THEN 1 ELSE 0

IInv == TypeOK /\ \A c \in Rec : RecInv(rec[c], at[c], elr[c], asked[c], wakes[c])

Loc == {"host", "checked", "realm"}
Elr == {"next", "fault", "lost"}

\* The step changes nothing of a REC but of c, which it leaves with these values.
Becomes(c, q, l, e, a, w) ==
    /\ rec' = [rec EXCEPT ![c] = q]
    /\ at' = [at EXCEPT ![c] = l]
    /\ elr' = [elr EXCEPT ![c] = e]
    /\ asked' = [asked EXCEPT ![c] = a]
    /\ wakes' = [wakes EXCEPT ![c] = w]

\* The fields of a Rec have their types, and its request is one of set_ripas.
LEMMA Fields ==
    ASSUME IInv, NEW c \in Rec
    PROVE  /\ rec[c] \in RecContent /\ rec[c].ripas \in Request /\ at[c] \in Loc /\ elr[c] \in Elr
           /\ asked[c] \in Ask /\ wakes[c] \in Nat
           /\ RecInv(rec[c], at[c], elr[c], asked[c], wakes[c])
BY Zenon DEF IInv, TypeOK, RecContent, Loc, Elr

\* The inductive invariant holds in every behaviour.
THEOREM RecRunInvariant == Spec => []IInv
<1>InitInv. Init => IInv
  <2> USE Zenon
  <2> SUFFICES ASSUME Init PROVE IInv
    OBVIOUS
  <2>1. PICK on \in SUBSET Worked : /\ rec = [c \in Rec |-> NewRec(c \in on)]
                                    /\ wakes = [c \in Rec |-> IF c \in on THEN 1 ELSE 0]
    BY DEF Init
  <2>2. NoRequest \in Request /\ NotAsked \in Ask
    BY PagesAssumption, SMTT(30) DEF NoRequest, Request, NotAsked, Ask
  <2>3. NewRec(TRUE) \in RecContent /\ NewRec(FALSE) \in RecContent
    BY <2>2 DEF NewRec, RecContent, X0
  <2>4. ASSUME NEW c \in Rec
        PROVE  \/ rec[c] = NewRec(TRUE) /\ wakes[c] = 1
               \/ rec[c] = NewRec(FALSE) /\ wakes[c] = 0
    <3>1. CASE c \in on
      <4>1. (c \in on) = TRUE
        BY <3>1
      <4> QED
        BY <2>1, <4>1
    <3>2. CASE c \notin on
      <4>1. (c \in on) = FALSE
        BY <3>2, SMTT(30)
      <4> QED
        BY <2>1, <4>1
    <3> QED
      BY <3>1, <3>2
  <2>5. TypeOK
    <3>1. rec \in [Rec -> RecContent] /\ wakes \in [Rec -> Nat]
      BY <2>1, <2>3, <2>4
    <3>2. \A c \in Rec : ~rec[c].running /\ at[c] = "host"
      BY <2>4, SMTT(30) DEF Init, NewRec
    <3> QED
      BY <2>2, <3>1, <3>2 DEF Init, TypeOK
  <2>6. ASSUME NEW c \in Rec PROVE RecInv(rec[c], at[c], elr[c], asked[c], wakes[c])
    BY <2>4, SMTT(30) DEF Init, NewRec, NoRequest, RecInv, ContentInv, RequestInv, Waits
  <2> QED
    BY <2>5, <2>6 DEF IInv
<1>NextInv. IInv /\ [Next]_vars => IInv'
\* A step changes one REC: the invariant of the others is not disturbed.
  <2> USE Zenon
  <2>OneRec. ASSUME IInv, NEW c \in Rec, NEW q \in RecContent, NEW l \in Loc, NEW e \in Elr,
                    NEW a \in Ask, NEW w \in Nat,
                    realm' \in [Realm -> {"New", "Active", "SystemOff"}],
                    ripas' \in [Realm -> [Page -> {"EMPTY", "RAM", "DESTROYED"}]],
                    alive' \subseteq Rec,
                    Becomes(c, q, l, e, a, w), RecInv(q, l, e, a, w)
             PROVE  IInv'
    <3> USE <2>OneRec
    <3>1. /\ rec' \in [Rec -> RecContent] /\ at' \in [Rec -> Loc] /\ elr' \in [Rec -> Elr]
          /\ asked' \in [Rec -> Ask] /\ wakes' \in [Rec -> Nat]
      BY DEF IInv, TypeOK, Becomes, Loc, Elr
    <3>2. /\ rec'[c] = q /\ at'[c] = l /\ elr'[c] = e /\ asked'[c] = a /\ wakes'[c] = w
          /\ \A d \in Rec \ {c} : /\ rec'[d] = rec[d] /\ at'[d] = at[d] /\ elr'[d] = elr[d]
                                  /\ asked'[d] = asked[d] /\ wakes'[d] = wakes[d]
      BY ZenonT(60) DEF IInv, TypeOK, Becomes, Loc, Elr
    <3>3. \A d \in Rec : RecInv(rec'[d], at'[d], elr'[d], asked'[d], wakes'[d])
      BY <3>2 DEF IInv
    <3>4. \A d \in Rec : rec'[d].running <=> at'[d] = "realm"
      BY <3>3 DEF RecInv
    <3> QED
      BY <3>1, <3>3, <3>4 DEF IInv, TypeOK, Loc, Elr
  <2> SUFFICES ASSUME IInv, [Next]_vars PROVE IInv'
    OBVIOUS
  <2>0. /\ realm \in [Realm -> {"New", "Active", "SystemOff"}]
        /\ ripas \in [Realm -> [Page -> {"EMPTY", "RAM", "DESTROYED"}]]
        /\ alive \subseteq Rec /\ Owner \in [Rec -> Realm]
    BY RecAssumption DEF IInv, TypeOK
  \* A step that changes nothing of the RECs but whether they are there.
  <2>a. ASSUME UNCHANGED <<at, rec, history>>,
               realm' \in [Realm -> {"New", "Active", "SystemOff"}],
               ripas' \in [Realm -> [Page -> {"EMPTY", "RAM", "DESTROYED"}]],
               alive' \subseteq Rec
        PROVE  IInv'
    BY <2>a DEF IInv, TypeOK, history
  \* A step that changes the Rec and where REC_ENTER is with it.
  <2>b. ASSUME NEW c \in Rec, NEW q \in RecContent, NEW l \in Loc,
               rec' = [rec EXCEPT ![c] = q], at' = [at EXCEPT ![c] = l],
               UNCHANGED <<ripas, alive, history>>,
               realm' \in [Realm -> {"New", "Active", "SystemOff"}],
               RecInv(q, l, elr[c], asked[c], wakes[c])
        PROVE  IInv'
    <3>1. Becomes(c, q, l, elr[c], asked[c], wakes[c])
      BY <2>b DEF IInv, TypeOK, history, Becomes
    <3> QED
      BY <2>0, <2>b, <3>1, Fields, <2>OneRec
  <2>1. ASSUME NEW r \in Activated,
               \/ RealmActivate(r)
               \/ \E i \in Page : InitRipas(r, i) \/ Destroyed(r, i)
        PROVE  IInv'
    <3>1. r \in Realm
      BY RecAssumption
    <3>2. CASE RealmActivate(r)
      BY <2>0, <2>a, <3>1, <3>2 DEF RealmActivate
    <3>3. ASSUME NEW i \in Page, InitRipas(r, i) PROVE IInv'
      BY <2>0, <2>a, <3>1, <3>3 DEF InitRipas
    <3>4. ASSUME NEW i \in Page, Destroyed(r, i) PROVE IInv'
      BY <2>0, <2>a, <3>1, <3>4 DEF Destroyed
    <3> QED
      BY <2>1, <3>2, <3>3, <3>4
  <2>2. ASSUME NEW c \in Rec, RecDestroy(c) PROVE IInv'
    BY <2>0, <2>a, <2>2 DEF RecDestroy
  <2>3. ASSUME NEW c \in Rec, EnterBegin(c) \/ EnterRefused(c) PROVE IInv'
    <3> DEFINE l == IF EnterBegin(c) THEN "checked" ELSE "host"
    <3>1. /\ at[c] # "realm" /\ l \in Loc /\ l # "realm"
          /\ at' = [at EXCEPT ![c] = l] /\ UNCHANGED <<realm, ripas, alive, rec, history>>
      BY <2>3 DEF EnterBegin, EnterRefused, AtHost, Goto, Loc
    <3> HIDE DEF l
    <3>2. RecInv(rec[c], l, elr[c], asked[c], wakes[c])
      BY <3>1, Fields DEF RecInv
    <3>3. rec' = [rec EXCEPT ![c] = rec[c]]
      BY <3>1 DEF IInv, TypeOK
    <3> QED
      BY <2>0, <2>b, <3>1, <3>2, <3>3, Fields
  <2>4. ASSUME NEW c \in Rec, EnterMmioRefused(c) PROVE IInv'
    <3> DEFINE q == HostCallDone(rec[c])
    <3>1. q \in RecContent
      BY Fields, ZenonT(60) DEF HostCallDone, RecContent, X0
    <3>2. RecInv(q, "host", elr[c], asked[c], wakes[c])
      BY <2>4, Fields, ZenonT(60)
        DEF EnterMmioRefused, HostCallDone, RecInv, ContentInv, RequestInv, Waits, RecContent
    <3>3. /\ rec' = [rec EXCEPT ![c] = q] /\ at' = [at EXCEPT ![c] = "host"]
          /\ UNCHANGED <<realm, ripas, alive, history>>
      BY <2>4 DEF EnterMmioRefused, Goto
    <3> HIDE DEF q
    <3> QED
      BY <2>0, <2>b, <3>1, <3>2, <3>3 DEF Loc
  <2>5. ASSUME NEW c \in Rec, NEW emul \in BOOLEAN, EnterRun(c, emul) PROVE IInv'
    <3> DEFINE h == HostCallDone(rec[c])
               d == RipasDone(h)
               q == [d EXCEPT !.running = TRUE, !.abort = FALSE]
               e == IF emul /\ elr[c] # "fault" THEN "lost" ELSE "next"
    <3>1. h \in RecContent
      BY Fields, ZenonT(60) DEF HostCallDone, RecContent, X0
    <3>2. d \in RecContent
      <4> HIDE DEF h
      <4>1. NoRequest \in Request
        BY PagesAssumption, SMTT(30) DEF NoRequest, Request
      <4> QED
        BY <3>1, <4>1 DEF RipasDone, RecContent, X0
    <3>3. q \in RecContent
      <4> HIDE DEF d
      <4> QED
        BY <3>2 DEF RecContent
    <3>4. e = "next"
      BY <2>5, Fields DEF EnterRun, RecInv
    <3>5. /\ rec[c].runnable /\ ~rec[c].psci
      BY <2>5 DEF EnterRun, Enterable
    <3>6. /\ h.runnable /\ ~h.psci /\ ~h.host /\ h.x0 \in {"value", "IPA_STATE_SET"}
          /\ h.x0 = "IPA_STATE_SET" => h.ripas.end > 0
      BY <3>5, Fields, SMTT(30) DEF RecInv, ContentInv, HostCallDone, RecContent, X0
    <3>7. d.runnable /\ ~d.psci /\ ~d.host /\ d.x0 = "value" /\ ~(d.ripas.end > 0)
      <4> HIDE DEF h
      <4> QED
        BY <3>1, <3>6, SMTT(30) DEF RipasDone, NoRequest, RecContent, Request
    <3>8. /\ q.runnable /\ ~q.psci /\ ~q.host /\ ~q.abort /\ q.running /\ q.x0 = "value"
          /\ ~(q.ripas.end > 0)
      <4> HIDE DEF d
      <4> QED
        BY <3>2, <3>7 DEF RecContent
    <3>9. wakes[c] = 1
      BY <3>5, Fields DEF RecInv
    <3>10. /\ rec' = [rec EXCEPT ![c] = q] /\ elr' = [elr EXCEPT ![c] = e]
           /\ asked' = [asked EXCEPT ![c] = NotAsked] /\ at' = [at EXCEPT ![c] = "realm"]
           /\ UNCHANGED <<realm, ripas, alive, wakes>>
      BY <2>5 DEF EnterRun, Goto
    <3>11. Becomes(c, q, "realm", "next", NotAsked, wakes[c])
      BY <3>4, <3>10 DEF IInv, TypeOK, Becomes
    <3>12. NotAsked \in Ask
      BY DEF NotAsked, Ask
    <3> HIDE DEF q, e
    <3>13. RecInv(q, "realm", "next", NotAsked, wakes[c])
      BY <3>8, <3>9 DEF RecInv, ContentInv, RequestInv, Waits
    <3> QED
      BY <2>0, <3>3, <3>4, <3>10, <3>11, <3>12, <3>13, Fields, <2>OneRec, ZenonT(60) DEF Loc, Elr
  \* What the exits of a realm have in common.
  <2>6. ASSUME NEW c \in Rec, at[c] = "realm"
        PROVE  /\ rec[c].runnable /\ rec[c].x0 = "value" /\ wakes[c] = 1 /\ elr[c] # "lost"
               /\ ~rec[c].psci /\ ~rec[c].host /\ ~rec[c].abort /\ ~(rec[c].ripas.end > 0)
    BY <2>6, Fields DEF RecInv, Waits
  <2>7. ASSUME NEW c \in Rec, NEW q \in RecContent, at[c] = "realm", Exit(c, q),
               realm' \in [Realm -> {"New", "Active", "SystemOff"}],
               UNCHANGED <<ripas, alive, history>>,
               q.runnable, q.ripas = rec[c].ripas, ~q.abort, q.psci => ~q.host,
               q.x0 # "value" => q.psci /\ q.x0 \in {"CPU_ON", "AFFINITY_INFO"}
        PROVE  IInv'
    <3> DEFINE n == [q EXCEPT !.running = FALSE]
    <3>1. n \in RecContent
      BY DEF RecContent
    <3>2. /\ n.runnable = q.runnable /\ n.ripas = q.ripas /\ n.abort = q.abort /\ n.host = q.host
          /\ n.psci = q.psci /\ n.x0 = q.x0 /\ n.running = FALSE
      BY DEF RecContent
    <3> HIDE DEF n
    <3>3. RecInv(n, "host", elr[c], asked[c], wakes[c])
      BY <2>6, <2>7, <3>2, ZenonT(60) DEF RecInv, ContentInv, RequestInv, Waits
    <3> QED
      BY <2>b, <2>7, <3>1, <3>3 DEF n, Loc, Exit, Goto
  <2>8. ASSUME NEW c \in Rec, GoOn(c) PROVE IInv'
    <3> DEFINE q == [rec[c] EXCEPT !.x0 = "value"]
    <3>1. q \in RecContent
      BY Fields, ZenonT(60) DEF RecContent, X0
    <3>2. q = rec[c]
      BY <2>6, <2>8, Fields DEF GoOn, RecContent
    <3>3. rec' = [rec EXCEPT ![c] = q] /\ UNCHANGED <<realm, ripas, alive, at, history>>
      BY <2>8, Fields DEF GoOn, IInv, TypeOK
    <3>4. rec' = rec
      BY <3>2, <3>3, SMTT(30) DEF IInv, TypeOK
    <3> QED
      BY <2>0, <2>a, <3>3, <3>4
  <2>9. ASSUME NEW c \in Rec, Irq(c) \/ HostCall(c) \/ CpuSuspend(c) \/ SystemOff(c) PROVE IInv'
    <3>1. CASE Irq(c)
      <4>1. at[c] = "realm"
        BY <3>1 DEF Irq, Exit
      <4> QED
        BY <2>0, <2>6, <2>7, <3>1, <4>1, Fields DEF Irq
    <3>2. ASSUME NEW b \in BOOLEAN, NEW s \in [Realm -> {"New", "Active", "SystemOff"}], realm' = s,
                 Exit(c, [rec[c] EXCEPT !.x0 = "value", !.host = b]),
                 UNCHANGED <<ripas, alive, history>>
          PROVE  IInv'
      <4> DEFINE q == [rec[c] EXCEPT !.x0 = "value", !.host = b]
      <4>1. q \in RecContent
        BY Fields, ZenonT(60) DEF RecContent, X0
      <4>2. at[c] = "realm"
        BY <3>2 DEF Exit
      <4>3. /\ q.runnable /\ q.ripas = rec[c].ripas /\ ~q.abort /\ (q.psci => ~q.host)
            /\ q.x0 # "value" => q.psci /\ q.x0 \in {"CPU_ON", "AFFINITY_INFO"}
        BY <2>6, <4>2, Fields, SMTT(30) DEF RecContent
      <4>4. Exit(c, q)
        BY <3>2
      <4> HIDE DEF q
      <4> QED
        BY <2>7, <3>2, <4>1, <4>2, <4>3, <4>4
    <3>3. ASSUME at[c] = "realm"
          PROVE  [rec[c] EXCEPT !.x0 = "value"] = [rec[c] EXCEPT !.x0 = "value", !.host = FALSE]
      BY <2>6, <3>3, Fields DEF RecContent
    <3>4. CASE HostCall(c)
      BY <2>0, <2>8, <3>2, <3>4 DEF HostCall
    <3>5. CASE CpuSuspend(c)
      BY <2>0, <3>2, <3>3, <3>5 DEF CpuSuspend, Exit
    <3>6. CASE SystemOff(c)
      <4>1. realm' \in [Realm -> {"New", "Active", "SystemOff"}]
        BY <2>0, <3>6 DEF SystemOff
      <4> QED
        BY <3>2, <3>3, <3>6, <4>1 DEF SystemOff, Exit
    <3> QED
      BY <2>9, <3>1, <3>4, <3>5, <3>6
  <2>10. ASSUME NEW c \in Rec, NEW t \in Index, CpuOn(c, t) \/ AffinityInfo(c, t) PROVE IInv'
    <3>1. ASSUME NEW cmd \in {"CPU_ON", "AFFINITY_INFO"}, PsciExit(c, cmd, t) PROVE IInv'
      <4> DEFINE q == [rec[c] EXCEPT !.psci = TRUE, !.x0 = cmd, !.x1 = t]
      <4>1. q \in RecContent
        BY Fields DEF RecContent, X0
      <4>2. at[c] = "realm"
        BY <3>1 DEF PsciExit, Exit
      <4>3. /\ q.runnable /\ q.ripas = rec[c].ripas /\ ~q.abort /\ ~q.host /\ q.psci
            /\ q.x0 \in {"CPU_ON", "AFFINITY_INFO"}
        BY <2>6, <4>2, Fields, ZenonT(60) DEF RecContent
      <4>4. Exit(c, q) /\ UNCHANGED <<realm, ripas, alive, history>>
        BY <3>1 DEF PsciExit
      <4> HIDE DEF q
      <4> QED
        BY <2>0, <2>7, <4>1, <4>2, <4>3, <4>4
    <3> QED
      BY <2>8, <2>10, <3>1 DEF CpuOn, AffinityInfo
  <2>11. ASSUME NEW c \in Rec, CpuOff(c) PROVE IInv'
    <3> DEFINE q == [rec[c] EXCEPT !.runnable = FALSE, !.x0 = "CPU_OFF"]
               n == [q EXCEPT !.running = FALSE]
    <3>1. at[c] = "realm"
      BY <2>11 DEF CpuOff, Exit
    <3>2. q \in RecContent
      BY Fields DEF RecContent, X0
    <3>3. /\ ~q.runnable /\ q.x0 = "CPU_OFF" /\ ~q.psci /\ ~q.host /\ ~q.abort
          /\ ~(q.ripas.end > 0)
      BY <2>6, <3>1, Fields, ZenonT(60) DEF RecContent
    <3>4. /\ n \in RecContent /\ ~n.runnable /\ n.x0 = "CPU_OFF" /\ ~n.psci /\ ~n.host /\ ~n.abort
          /\ ~(n.ripas.end > 0) /\ ~n.running
      <4> HIDE DEF q
      <4> QED
        BY <3>2, <3>3 DEF RecContent
    <3>5. /\ rec' = [rec EXCEPT ![c] = n] /\ at' = [at EXCEPT ![c] = "host"]
          /\ wakes' = [wakes EXCEPT ![c] = 0] /\ UNCHANGED <<realm, ripas, alive, elr, asked>>
      BY <2>11 DEF CpuOff, Exit, Goto
    <3>6. Becomes(c, n, "host", elr[c], asked[c], 0)
      BY <3>5 DEF IInv, TypeOK, Becomes
    <3> HIDE DEF n
    <3>7. RecInv(n, "host", elr[c], asked[c], 0)
      BY <2>6, <3>1, <3>4 DEF RecInv, ContentInv, RequestInv, Waits
    <3> QED
      BY <2>0, <3>4, <3>5, <3>6, <3>7, Fields, <2>OneRec DEF Loc
  <2>12. ASSUME NEW c \in Rec, NEW emulatable \in BOOLEAN, DataAbort(c, emulatable) PROVE IInv'
    <3>1. at[c] = "realm"
      BY <2>12 DEF DataAbort, Exit
    <3>2. CASE ~emulatable
      <4>1. [rec[c] EXCEPT !.abort = emulatable] = rec[c]
        BY <2>6, <3>1, <3>2, Fields DEF RecContent
      <4>2. UNCHANGED <<realm, ripas, alive, history>>
        BY <2>12, <3>2 DEF DataAbort, IInv, TypeOK, history
      <4> QED
        BY <2>0, <2>6, <2>7, <2>12, <3>1, <4>1, <4>2, Fields DEF DataAbort
    <3>3. CASE emulatable = TRUE
      <4> DEFINE n == [rec[c] EXCEPT !.abort = TRUE, !.running = FALSE]
      <4>1. /\ n \in RecContent /\ n.runnable /\ n.x0 = "value" /\ ~n.psci /\ ~n.host /\ ~n.running
            /\ ~(n.ripas.end > 0)
        <5>1. rec[c] \in RecContent
          BY Fields
        <5>2. /\ n \in RecContent /\ ~n.running
              /\ n.runnable = rec[c].runnable /\ n.x0 = rec[c].x0 /\ n.psci = rec[c].psci
              /\ n.host = rec[c].host /\ n.ripas = rec[c].ripas
          BY <5>1 DEF RecContent
        <5> HIDE DEF n
        <5> QED
          BY <2>6, <3>1, <5>2
      <4>2. /\ rec' = [rec EXCEPT ![c] = n] /\ at' = [at EXCEPT ![c] = "host"]
            /\ elr' = [elr EXCEPT ![c] = "fault"] /\ UNCHANGED <<realm, ripas, alive, asked, wakes>>
        BY <2>12, <3>3 DEF DataAbort, Exit, Goto
      <4>3. Becomes(c, n, "host", "fault", asked[c], wakes[c])
        BY <4>2 DEF IInv, TypeOK, Becomes
      <4> HIDE DEF n
      <4>4. RecInv(n, "host", "fault", asked[c], wakes[c])
        BY <2>6, <3>1, <4>1 DEF RecInv, ContentInv, RequestInv, Waits
      <4> QED
        BY <2>0, <4>1, <4>2, <4>3, <4>4, Fields, <2>OneRec DEF Loc, Elr
    <3> QED
      BY <3>2, <3>3
  <2>13. ASSUME NEW c \in Rec, NEW start \in Page, NEW end \in 0 .. Pages + 1,
                NEW to \in {"EMPTY", "RAM"}, NEW change \in BOOLEAN,
                IpaStateSet(c, start, end, to, change)
         PROVE  IInv'
    <3>1. CASE end <= start \/ end > Pages
      BY <2>8, <2>13, <3>1 DEF IpaStateSet
    <3>2. CASE ~(end <= start \/ end > Pages)
      <4> DEFINE s == [start |-> start, end |-> end, addr |-> start, to |-> to, change |-> change]
                 a == [pages |-> start .. end - 1, to |-> to, change |-> change, done |-> {}]
                 n == [rec[c] EXCEPT !.x0 = "IPA_STATE_SET", !.ripas = s, !.running = FALSE]
      <4>1. start \in 0 .. Pages /\ end \in 1 .. Pages /\ start < end
        BY <3>2, PagesAssumption, SMTT(30) DEF Page
      <4>2. s \in Request /\ s.end > 0
        BY <4>1, PagesAssumption, SMTT(30) DEF Request
      <4>3. a \in Ask
        <5>1. start .. end - 1 \subseteq Page
          BY <4>1, PagesAssumption, SMTT(30) DEF Page
        <5> QED
          BY <5>1 DEF Ask
      <4>4. RequestInv(s, a)
        BY <4>1, SMTT(30) DEF RequestInv
      <4>5. at[c] = "realm"
        BY <2>13, <3>2 DEF IpaStateSet, Exit
      <4>6. /\ rec' = [rec EXCEPT ![c] = n] /\ at' = [at EXCEPT ![c] = "host"]
            /\ asked' = [asked EXCEPT ![c] = a] /\ UNCHANGED <<realm, ripas, alive, elr, wakes>>
        BY <2>13, <3>2 DEF IpaStateSet, Exit, Goto
      <4> HIDE DEF s, a
      <4>7. /\ n \in RecContent /\ n.runnable /\ n.x0 = "IPA_STATE_SET" /\ n.ripas = s
            /\ ~n.psci /\ ~n.host /\ ~n.abort /\ ~n.running
        <5>1. n \in RecContent
          BY <4>2, Fields DEF RecContent, X0
        <5>2. /\ n.runnable = rec[c].runnable /\ n.x0 = "IPA_STATE_SET" /\ n.ripas = s
              /\ n.psci = rec[c].psci /\ n.host = rec[c].host /\ n.abort = rec[c].abort
              /\ n.running = FALSE
          BY Fields DEF RecContent
        <5> HIDE DEF n
        <5> QED
          BY <2>6, <4>5, <5>1, <5>2
      <4>8. Becomes(c, n, "host", elr[c], a, wakes[c])
        BY <4>6 DEF IInv, TypeOK, Becomes
      <4> HIDE DEF n
      <4>9. RecInv(n, "host", elr[c], a, wakes[c])
        BY <2>6, <4>2, <4>4, <4>5, <4>7 DEF RecInv, ContentInv, Waits
      <4> QED
        BY <2>0, <4>3, <4>6, <4>7, <4>8, <4>9, Fields, <2>OneRec DEF Loc
    <3> QED
      BY <3>1, <3>2
  <2>14. ASSUME NEW c \in Rec, NEW base \in 0 .. Pages, NEW top \in 0 .. Pages, NEW out \in 0 .. Pages,
                RttSetRipas(c, base, top, out)
         PROVE  IInv'
    <3> DEFINE s == rec[c].ripas
               t == [s EXCEPT !.addr = out]
               a == [asked[c] EXCEPT !.done = @ \cup (base .. out - 1)]
               n == [rec[c] EXCEPT !.ripas = t]
               changed == [i \in Page |-> IF i \in base .. out - 1 THEN s.to ELSE ripas[Owner[c]][i]]
    <3>1. /\ s.addr = base /\ s.end > 0 /\ base < out /\ out <= s.end /\ at[c] = "host"
      BY <2>14, Fields, SMTT(30) DEF RttSetRipas, AtHost, Request
    <3>2. /\ t \in Request /\ t.end = s.end /\ t.start = s.start /\ t.to = s.to
          /\ t.change = s.change /\ t.addr = out
      BY Fields DEF Request
    <3>3. /\ a.pages = asked[c].pages /\ a.to = asked[c].to /\ a.change = asked[c].change
          /\ a.done = asked[c].done \cup (base .. out - 1)
      BY Fields DEF Ask
    <3>4. a \in Ask
      <4>1. base .. out - 1 \subseteq Page
        BY PagesAssumption, SMTT(30) DEF Page
      <4> QED
        BY <4>1, Fields DEF Ask
    <3>5. RequestInv(t, a)
      <4>1. RequestInv(s, asked[c])
        BY Fields DEF RecInv
      <4>2. (s.start .. base - 1) \cup (base .. out - 1) = s.start .. out - 1
        BY <3>1, <4>1, Fields, SMTT(30) DEF RequestInv, Request
      <4>3. s.start \in Nat /\ s.addr \in Nat /\ s.end \in Nat /\ out \in Nat
        BY Fields, SMTT(30) DEF Request
      <4>4. s.start <= base /\ asked[c].done = s.start .. base - 1
        BY <3>1, <4>1 DEF RequestInv
      <4> HIDE DEF s, t, a
      <4>5. a.done = s.start .. out - 1
        BY <3>3, <4>2, <4>4
      <4> QED
        BY <3>1, <3>2, <3>3, <4>1, <4>3, <4>4, <4>5, SMTT(30) DEF RequestInv
    <3>6. /\ rec' = [rec EXCEPT ![c] = n] /\ asked' = [asked EXCEPT ![c] = a]
          /\ ripas' = [ripas EXCEPT ![Owner[c]] = changed] /\ UNCHANGED <<realm, alive, at, elr, wakes>>
      BY <2>14 DEF RttSetRipas
    <3>7. changed \in [Page -> {"EMPTY", "RAM", "DESTROYED"}]
      <4>1. s.to \in {"EMPTY", "RAM", "DESTROYED"}
        BY Fields DEF Request
      <4>2. Owner[c] \in Realm
        BY <2>0
      <4> HIDE DEF s
      <4> QED
        BY <2>0, <4>1, <4>2, ZenonT(60)
    <3>8. ripas' \in [Realm -> [Page -> {"EMPTY", "RAM", "DESTROYED"}]]
      <4> HIDE DEF changed
      <4> QED
        BY <2>0, <3>6, <3>7
    <3> HIDE DEF t, a
    <3>9. /\ n \in RecContent /\ n.ripas = t /\ n.runnable = rec[c].runnable /\ n.psci = rec[c].psci
          /\ n.host = rec[c].host /\ n.abort = rec[c].abort /\ n.x0 = rec[c].x0
          /\ n.running = rec[c].running
      BY <3>2, Fields DEF RecContent
    <3> HIDE DEF n
    <3>10. Becomes(c, n, "host", elr[c], a, wakes[c])
      BY <3>1, <3>6 DEF IInv, TypeOK, Becomes
    <3>11. RecInv(n, "host", elr[c], a, wakes[c])
      BY <3>1, <3>2, <3>5, <3>9, Fields, ZenonT(60) DEF RecInv, ContentInv, Waits
    <3> QED
      BY <2>0, <3>4, <3>6, <3>8, <3>9, <3>10, <3>11, Fields, <2>OneRec DEF Loc
  <2>15. ASSUME NEW c \in Rec, NEW t \in Rec, NEW status \in {"SUCCESS", "DENIED"},
                PsciComplete(c, t, status)
         PROVE  IInv'
    <3> DEFINE wake == rec[c].x0 = "CPU_ON" /\ PsciAnswer(c, t, status) = "SUCCESS"
               caller == [rec[c] EXCEPT !.psci = FALSE, !.x0 = "value", !.x1 = 0]
               target == [rec[t] EXCEPT !.runnable = TRUE, !.x0 = "value"]
    <3>1. /\ c # t /\ at[c] = "host" /\ at[t] = "host" /\ rec[c].psci
          /\ UNCHANGED <<realm, ripas, alive, at, asked>>
      BY <2>15 DEF PsciComplete, AtHost
    <3>2. /\ caller \in RecContent /\ caller.running = rec[c].running /\ caller.psci = FALSE
          /\ caller.runnable = rec[c].runnable /\ caller.host = rec[c].host
          /\ caller.abort = rec[c].abort /\ caller.ripas = rec[c].ripas /\ caller.x0 = "value"
      BY Fields, ZenonT(60) DEF RecContent, X0
    <3>3. RecInv(caller, "host", elr[c], asked[c], wakes[c])
      <4> HIDE DEF caller
      <4> QED
        BY <3>1, <3>2, Fields DEF RecInv, ContentInv, Waits
    <3>4. CASE ~wake
      <4>1. rec' = [rec EXCEPT ![c] = caller] /\ UNCHANGED <<elr, wakes>>
        BY <2>15, <3>4 DEF PsciComplete
      <4>2. at' = [at EXCEPT ![c] = "host"]
        BY <3>1 DEF IInv, TypeOK
      <4> HIDE DEF caller
      <4> QED
        BY <2>0, <2>b, <3>1, <3>2, <3>3, <4>1, <4>2 DEF Loc, history
    <3>5. CASE wake
      <4>1. /\ rec' = [rec EXCEPT ![c] = caller, ![t] = target]
            /\ wakes' = [wakes EXCEPT ![t] = @ + 1]
            /\ elr' = [elr EXCEPT ![t] = "next"]
        BY <2>15, <3>5 DEF PsciComplete
      <4>2. ~rec[t].runnable
        BY <3>5 DEF PsciAnswer
      <4>3. /\ target \in RecContent /\ target.running = rec[t].running /\ target.psci = rec[t].psci
            /\ target.runnable = TRUE /\ target.host = rec[t].host
            /\ target.abort = rec[t].abort /\ target.ripas = rec[t].ripas /\ target.x0 = "value"
        BY Fields DEF RecContent, X0
      <4>4. wakes[t] + 1 = 1
        BY <4>2, Fields, SMTT(30) DEF RecInv
      <4> HIDE DEF caller, target
      <4>5. RecInv(target, "host", "next", asked[t], 1)
        BY <3>1, <4>2, <4>3, Fields DEF RecInv, ContentInv, Waits
      <4>6. /\ rec' \in [Rec -> RecContent] /\ wakes' \in [Rec -> Nat] /\ elr' \in [Rec -> Elr]
        BY <3>2, <4>1, <4>3, SMTT(30) DEF IInv, TypeOK, Elr
      <4>7. /\ rec'[c] = caller /\ rec'[t] = target /\ wakes'[t] = 1 /\ elr'[t] = "next"
            /\ wakes'[c] = wakes[c] /\ elr'[c] = elr[c]
        BY <3>1, <4>1, <4>4, ZenonT(60) DEF IInv, TypeOK
      <4>8. \A d \in Rec \ {c, t} : rec'[d] = rec[d] /\ wakes'[d] = wakes[d] /\ elr'[d] = elr[d]
        BY <4>1, ZenonT(60) DEF IInv, TypeOK
      <4>9. ASSUME NEW d \in Rec PROVE RecInv(rec'[d], at'[d], elr'[d], asked'[d], wakes'[d])
        <5>1. CASE d = c
          BY <3>1, <3>3, <4>7, <5>1
        <5>2. CASE d = t
          BY <3>1, <4>5, <4>7, <5>2
        <5>3. CASE d \notin {c, t}
          BY <3>1, <4>8, <5>3, Fields
        <5> QED
          BY <5>1, <5>2, <5>3
      <4>10. \A d \in Rec : rec'[d].running <=> at'[d] = "realm"
        BY <4>9 DEF RecInv
      <4> QED
        BY <3>1, <4>6, <4>9, <4>10 DEF IInv, TypeOK, Elr
    <3> QED
      BY <3>4, <3>5
  <2>16. CASE UNCHANGED vars
    BY <2>0, <2>16, <2>a DEF vars, history
  <2> QED
    BY <2>1, <2>2, <2>3, <2>4, <2>5, <2>9, <2>10, <2>11, <2>12, <2>13, <2>14, <2>15, <2>16, ZenonT(60)
      DEF Next, HostStep, RmmStep, RealmStep
<1> QED
  BY <1>InitInv, <1>NextInv, PTL DEF Spec

\* The types of RecRun, and Running exactly while REC_ENTER has the REC in the realm.
THEOREM RecTypeCorrect == Spec => []TypeOK
BY RecRunInvariant, PTL DEF IInv

\* A REC never waits for two of PSCI_COMPLETE, a host call, an MMIO access and
\* RTT_SET_RIPAS, and never while it is off or while its realm runs.
THEOREM OneRequestCorrect == Spec => []OneRequest
<1>1. ASSUME IInv PROVE OneRequest
  <2> USE Zenon
  <2> SUFFICES ASSUME NEW c \in Rec
               PROVE  /\ Cardinality(Pending(rec[c])) <= 1
                      /\ Pending(rec[c]) # {} => rec[c].runnable
                      /\ at[c] = "realm" => Pending(rec[c]) = {}
    BY DEF OneRequest
  <2> DEFINE q == rec[c]
  <2>1. q \in RecContent /\ ContentInv(q) /\ (at[c] = "realm" => ~Waits(q))
    BY <1>1, Fields DEF RecInv
  <2> HIDE DEF q
  <2>2. Pending(q) # {} => Waits(q)
    BY DEF Pending, Waits
  <2>3. Waits(q) => \E k \in {"psci", "host", "abort", "ripas"} : Pending(q) \subseteq {k}
    BY <2>1 DEF Pending, Waits, ContentInv
  <2>4. Cardinality(Pending(q)) <= 1
    <3>1. Pending(q) = {} \/ \E k : Pending(q) = {k}
      BY <2>2, <2>3
    <3>2. CASE Pending(q) = {}
      BY <3>2, FS_EmptySet, SMTT(30)
    <3>3. ASSUME NEW k, Pending(q) = {k} PROVE Cardinality(Pending(q)) <= 1
      <4>1. Cardinality({k}) = 1
        BY FS_Singleton
      <4> QED
        BY <3>3, <4>1, SMTT(30)
    <3> QED
      BY <3>1, <3>2, <3>3
  <2> QED
    BY <2>1, <2>2, <2>4 DEF q, ContentInv
<1> QED
  BY <1>1, RecRunInvariant, PTL

\* The realm does not run before its last command has its answer in x0.
THEOREM AnsweredCorrect == Spec => []Answered
<1>1. IInv => Answered
  BY Fields, Zenon DEF Answered, RecInv
<1> QED
  BY <1>1, RecRunInvariant, PTL

\* CPU_ON succeeds once for a REC that is off.
THEOREM OneWakeCorrect == Spec => []OneWake
<1>1. IInv => OneWake
  BY Fields, Zenon DEF OneWake, RecInv
<1> QED
  BY <1>1, RecRunInvariant, PTL

\* emulate_mmio advances the ELR of an instruction that faulted, and only once.
THEOREM MmioOnceCorrect == Spec => []MmioOnce
<1>1. IInv => MmioOnce
  BY Fields, Zenon DEF MmioOnce, RecInv
<1> QED
  BY <1>1, RecRunInvariant, PTL

\* complete_ripas reports just the pages that RTT_SET_RIPAS changed for the request.
THEOREM RipasReportedCorrect == Spec => []RipasReported
<1>1. IInv => RipasReported
  BY Fields, Zenon DEF RipasReported, RecInv, RequestInv
<1> QED
  BY <1>1, RecRunInvariant, PTL

\* Which handlers change the state of a realm and its RIPAS, and which move REC_ENTER.
Authors ==
    /\ realm' = realm \/ (\E r \in Activated : RealmActivate(r)) \/ \E c \in Rec : SystemOff(c)
    /\ \/ ripas' = ripas
       \/ \E r \in Activated, i \in Page : InitRipas(r, i) \/ Destroyed(r, i)
       \/ \E c \in Rec, base, top, out \in 0 .. Pages : RttSetRipas(c, base, top, out)
    /\ \/ at' = at
       \/ \E c \in Rec, l \in Loc : /\ at[c] # "host" \/ realm[Owner[c]] = "Active"
                                    /\ at' = [at EXCEPT ![c] = l]

LEMMA WhoActs == [Next]_vars => Authors
<1> USE Zenon
<1> SUFFICES ASSUME [Next]_vars PROVE Authors
  OBVIOUS
<1>1. CASE UNCHANGED vars
  BY <1>1 DEF vars, Authors
<1>2. ASSUME NEW r \in Activated, RealmActivate(r) PROVE Authors
  BY <1>2 DEF RealmActivate, Authors
<1>3. ASSUME NEW r \in Activated, NEW i \in Page, InitRipas(r, i) \/ Destroyed(r, i) PROVE Authors
  <2>1. realm' = realm /\ at' = at
    BY <1>3 DEF InitRipas, Destroyed
  <2> QED
    BY <1>3, <2>1 DEF Authors
<1>4. ASSUME NEW c \in Rec, EnterBegin(c) \/ RecDestroy(c) PROVE Authors
  BY <1>4 DEF EnterBegin, RecDestroy, Goto, Loc, Authors
<1>5. ASSUME NEW c \in Rec, NEW base \in 0 .. Pages, NEW top \in 0 .. Pages, NEW out \in 0 .. Pages,
             RttSetRipas(c, base, top, out)
      PROVE  Authors
  <2>1. realm' = realm /\ at' = at
    BY <1>5 DEF RttSetRipas
  <2> QED
    BY <1>5, <2>1 DEF Authors
<1>6. ASSUME NEW c \in Rec, NEW t \in Rec, NEW status \in {"SUCCESS", "DENIED"},
             PsciComplete(c, t, status)
      PROVE  Authors
  BY <1>6 DEF PsciComplete, Authors
<1>7. ASSUME NEW c \in Rec, RmmStep(c) PROVE Authors
  BY <1>7 DEF RmmStep, EnterRefused, EnterMmioRefused, EnterRun, Goto, Loc, Authors
<1>8. ASSUME NEW c \in Rec, RealmStep(c) PROVE Authors
  <2> DEFINE Exits == at[c] = "realm" /\ at' = [at EXCEPT ![c] = "host"]
  <2>1. ASSUME Exits \/ at' = at, realm' = realm, ripas' = ripas PROVE Authors
    BY <2>1 DEF Loc, Authors
  <2>2. ASSUME NEW q, Exit(c, q) PROVE Exits
    BY <2>2 DEF Exit, Goto
  <2> HIDE DEF Exits
  <2>3. CASE GoOn(c)
    BY <2>1, <2>3 DEF GoOn
  <2>4. CASE Irq(c) \/ HostCall(c) \/ CpuOff(c) \/ CpuSuspend(c)
    BY <2>1, <2>2, <2>3, <2>4 DEF Irq, HostCall, CpuOff, CpuSuspend
  <2>5. CASE SystemOff(c)
    <3>1. Exits /\ ripas' = ripas
      BY <2>2, <2>5 DEF SystemOff
    <3> QED
      BY <2>5, <3>1 DEF Exits, Loc, Authors
  <2>6. ASSUME NEW emulatable \in BOOLEAN, DataAbort(c, emulatable) PROVE Authors
    BY <2>1, <2>2, <2>6 DEF DataAbort
  <2>7. ASSUME NEW t \in Index, CpuOn(c, t) \/ AffinityInfo(c, t) PROVE Authors
    BY <2>1, <2>2, <2>3, <2>7 DEF CpuOn, AffinityInfo, PsciExit
  <2>8. ASSUME NEW start \in Page, NEW end \in 0 .. Pages + 1, NEW to \in {"EMPTY", "RAM"},
               NEW change \in BOOLEAN, IpaStateSet(c, start, end, to, change)
        PROVE  Authors
    BY <2>1, <2>2, <2>3, <2>8 DEF IpaStateSet
  <2> QED
    BY <1>8, <2>4, <2>5, <2>6, <2>7, <2>8 DEF RealmStep
<1> QED
  BY <1>1, <1>2, <1>3, <1>4, <1>5, <1>6, <1>7, <1>8 DEF Next, HostStep

\* Once a realm is active, a page of it becomes EMPTY or RAM only where one of its
\* RECs waits for that change, and leaves DESTROYED only where the REC agreed.
THEOREM RipasConsentCorrect == Spec => RipasConsent
<1>1. ASSUME IInv, [Next]_vars PROVE RipasStep
  <2> USE Zenon
  <2> SUFFICES ASSUME NEW r \in Realm, NEW i \in Page, ripas'[r][i] # ripas[r][i],
                      ripas'[r][i] # "DESTROYED", realm[r] # "New"
               PROVE  \E c \in Rec :
                         /\ Owner[c] = r /\ i \in asked[c].pages /\ asked[c].to = ripas'[r][i]
                         /\ ripas[r][i] = "DESTROYED" => asked[c].change
    BY ZenonT(60) DEF RipasStep
  <2>0. ripas \in [Realm -> [Page -> {"EMPTY", "RAM", "DESTROYED"}]]
    BY <1>1 DEF IInv, TypeOK
  <2>1. PICK c \in Rec, base \in 0 .. Pages, top \in 0 .. Pages, out \in 0 .. Pages :
               RttSetRipas(c, base, top, out)
    <3>1. ASSUME NEW s \in Activated, NEW j \in Page, InitRipas(s, j) \/ Destroyed(s, j) PROVE FALSE
      <4>1. s \in Realm
        BY RecAssumption
      <4> QED
        BY <2>0, <3>1, <4>1, SMTT(30) DEF InitRipas, Destroyed
    <3> QED
      BY <1>1, <3>1, WhoActs DEF Authors
  <2> DEFINE s == rec[c].ripas
  <2>2. /\ s.addr = base /\ s.end >= top /\ out <= top /\ base < out /\ s.end > 0
        /\ \A j \in base .. out - 1 : ripas[Owner[c]][j] = "DESTROYED" => s.change
    BY <1>1, <2>1, Fields, SMTT(30) DEF RttSetRipas, Request
  <2>3. /\ r = Owner[c] /\ i \in base .. out - 1 /\ ripas'[r][i] = s.to
    <3>1. ripas' = [ripas EXCEPT ![Owner[c]] =
                      [j \in Page |-> IF j \in base .. out - 1 THEN s.to ELSE @[j]]]
      BY <2>1 DEF RttSetRipas
    <3> HIDE DEF s
    <3> QED
      BY <2>0, <3>1
  <2>4. /\ asked[c].pages = s.start .. s.end - 1 /\ s.start <= s.addr
        /\ asked[c].to = s.to /\ asked[c].change = s.change
    BY <1>1, <2>2, Fields DEF RecInv, RequestInv
  <2>5. i \in s.start .. s.end - 1
    <3>1. s.start \in Nat /\ s.addr \in Nat /\ s.end \in Nat
      BY <1>1, Fields, RecAssumption, SMTT(30) DEF Request
    <3>2. out \in Nat /\ base \in Nat /\ top \in Nat
      BY RecAssumption, SMTT(30)
    <3> HIDE DEF s
    <3> QED
      BY <2>2, <2>3, <2>4, <3>1, <3>2, SMTT(30)
  <2> QED
    BY <2>2, <2>3, <2>4, <2>5
<1>2. IInv /\ [Next]_vars => [RipasStep]_vars
  BY <1>1, Zenon
<1> QED
  BY <1>2, RecRunInvariant, PTL DEF Spec, RipasConsent

\* SYSTEM_OFF and SYSTEM_RESET are final for the realm and for its RECs at the host.
THEOREM OffIsFinalCorrect == Spec => OffIsFinal
<1> DEFINE Final == \A c \in Rec : realm[Owner[c]] = "SystemOff" =>
                       /\ realm'[Owner[c]] = "SystemOff"
                       /\ at[c] = "host" => at'[c] = "host"
<1>1. ASSUME IInv, [Next]_vars PROVE Final
  <2> USE Zenon
  <2> SUFFICES ASSUME NEW c \in Rec, realm[Owner[c]] = "SystemOff"
               PROVE  /\ realm'[Owner[c]] = "SystemOff"
                      /\ at[c] = "host" => at'[c] = "host"
    OBVIOUS
  <2>0. /\ realm \in [Realm -> {"New", "Active", "SystemOff"}] /\ Owner[c] \in Realm
        /\ at \in [Rec -> {"host", "checked", "realm"}]
    BY <1>1, RecAssumption DEF IInv, TypeOK
  <2>1. realm'[Owner[c]] = "SystemOff"
    BY <1>1, <2>0, WhoActs DEF Authors, RealmActivate, SystemOff
  <2>2. at[c] = "host" => at'[c] = "host"
    BY <1>1, <2>0, WhoActs DEF Authors
  <2> QED
    BY <2>1, <2>2
<1>2. IInv /\ [Next]_vars => [Final]_vars
  BY <1>1, Zenon
<1> QED
  BY <1>2, RecRunInvariant, PTL DEF Spec, OffIsFinal
=============================================================================
