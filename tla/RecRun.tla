------------------------------- MODULE RecRun -------------------------------
(***************************************************************************)
(* A REC (vCPU) between its realm, the RMM and the host: REC_ENTER with    *)
(* the completions that it does on the way in, the exits of the realm and  *)
(* what they leave pending in the Rec, PSCI_COMPLETE, and the RIPAS change *)
(* protocol with RTT_SET_RIPAS (rmi/rec/handlers.rs, rmi/rec/exit.rs,      *)
(* rsi/psci.rs, rsi/ripas.rs, rsi/mod.rs, mmio.rs).                        *)
(*                                                                         *)
(* REC_ENTER holds the lock of the REC from its first step to its return,  *)
(* so no other handler touches a REC that is not at the host; it looks at  *)
(* the state of the realm and then lets go of the RD.  The RECs of a realm *)
(* have been created (RealmLifecycle) when the behaviour begins.  An IPA   *)
(* is a page number; of the registers x0 and x1 are kept, as far as a      *)
(* handler looks at them.                                                  *)
(***************************************************************************)
EXTENDS Naturals, FiniteSets

CONSTANTS
    Realm,      \* the realms
    Activated,  \* bound of the model: the realms that the host works on
    Rec,        \* the RECs
    Owner,      \* rec.owner()
    Vcpuid,     \* rec.vcpuid()
    Pages       \* the pages of the protected half of the IPA space (PAR)

ASSUME RecAssumption ==
    /\ Activated \subseteq Realm
    /\ Owner \in [Rec -> Realm]
    /\ Vcpuid \in [Rec -> Nat]
    /\ \A c, d \in Rec : Owner[c] = Owner[d] /\ Vcpuid[c] = Vcpuid[d] => c = d
ASSUME PagesAssumption == Pages \in Nat \ {0}

VARIABLES
    realm,   \* rd.state of every realm
    ripas,   \* RIPAS of every page of a realm, in its RTT
    alive,   \* the RECs that are not destroyed
    at,      \* where REC_ENTER is with a REC
    rec,     \* the fields of the Rec
    elr,     \* history: what the saved ELR points at
    asked,   \* history: the RIPAS change the realm waits for
    wakes    \* history: answers CPU_ON has given SUCCESS for since the REC was off

vars == <<realm, ripas, alive, at, rec, elr, asked, wakes>>
history == <<elr, asked, wakes>>

Page == 0 .. Pages - 1
\* rd.rec_index(): no REC of the realm has a larger index
RecIndex(r) == Cardinality({c \in Rec : Owner[c] = r})
Index == {Vcpuid[c] : c \in Rec} \cup {RecIndex(r) : r \in Realm}

\* set_ripas(start, end, state, flags); end = 0 when nothing is pending
NoRequest == [start |-> 0, end |-> 0, addr |-> 0, to |-> "EMPTY", change |-> FALSE]
Request == [start : 0 .. Pages, end : 0 .. Pages, addr : 0 .. Pages,
            to : {"EMPTY", "RAM"}, change : BOOLEAN]
NotAsked == [pages |-> {}, to |-> "EMPTY", change |-> FALSE, done |-> {}]
Ask == [pages : SUBSET Page, to : {"EMPTY", "RAM"}, change : BOOLEAN, done : SUBSET Page]

\* x0: a command whose answer the realm waits for, or any other value
X0 == {"CPU_ON", "AFFINITY_INFO", "IPA_STATE_SET", "CPU_OFF", "value"}

RecContent ==
    [running : BOOLEAN, runnable : BOOLEAN, psci : BOOLEAN, host : BOOLEAN, abort : BOOLEAN,
     ripas : Request, x0 : X0, x1 : Index \cup {0}]
NewRec(on) ==
    [running |-> FALSE, runnable |-> on, psci |-> FALSE, host |-> FALSE, abort |-> FALSE,
     ripas |-> NoRequest, x0 |-> "value", x1 |-> 0]

\* The RECs of the realms the host works on; the others were created with the
\* runnable flag clear, and nothing is done with them but to name or destroy them.
Worked == {c \in Rec : Owner[c] \in Activated}

Init ==
    /\ realm = [r \in Realm |-> "New"]
    /\ ripas = [r \in Realm |-> [i \in Page |-> "EMPTY"]]
    /\ alive = Rec
    /\ at = [c \in Rec |-> "host"]
    /\ \E on \in SUBSET Worked :
          /\ rec = [c \in Rec |-> NewRec(c \in on)]
          /\ wakes = [c \in Rec |-> IF c \in on THEN 1 ELSE 0]
    /\ elr = [c \in Rec |-> "next"]
    /\ asked = [c \in Rec |-> NotAsked]

AtHost(c) == c \in alive /\ at[c] = "host"

-----------------------------------------------------------------------------
(* The host prepares a realm and takes memory away from it.                 *)

\* RTT_INIT_RIPAS
InitRipas(r, i) ==
    /\ realm[r] = "New"
    /\ ripas[r][i] = "EMPTY"
    /\ ripas' = [ripas EXCEPT ![r][i] = "RAM"]
    /\ UNCHANGED <<realm, alive, at, rec, history>>

RealmActivate(r) ==
    /\ realm[r] = "New"
    /\ realm' = [realm EXCEPT ![r] = "Active"]
    /\ UNCHANGED <<ripas, alive, at, rec, history>>

\* DATA_DESTROY and RTT_DESTROY
Destroyed(r, i) ==
    /\ ripas[r][i] # "DESTROYED"
    /\ ripas' = [ripas EXCEPT ![r][i] = "DESTROYED"]
    /\ UNCHANGED <<realm, alive, at, rec, history>>

RecDestroy(c) ==
    /\ AtHost(c)
    /\ ~rec[c].running
    /\ alive' = alive \ {c}
    /\ UNCHANGED <<realm, ripas, at, rec, history>>

-----------------------------------------------------------------------------
(* REC_ENTER                                                               *)

Goto(c, l) == at' = [at EXCEPT ![c] = l]

\* Variant: only a realm that is still New is refused.
EnterBeginUnlessNew(c) ==
    /\ AtHost(c)
    /\ realm[Owner[c]] # "New"
    /\ Goto(c, "checked")
    /\ UNCHANGED <<realm, ripas, alive, rec, history>>

\* The lock of the REC is taken, and the state of the realm is read under the
\* RD's, which is then dropped.
EnterBegin(c) ==
    /\ AtHost(c)
    /\ realm[Owner[c]] = "Active"
    /\ Goto(c, "checked")
    /\ UNCHANGED <<realm, ripas, alive, rec, history>>

\* Variant: psci_pending() is not looked at.
EnterableWithPsci(c) == rec[c].runnable /\ ~rec[c].running

\* runnable(), get_state() and psci_pending()
Enterable(c) == rec[c].runnable /\ ~rec[c].running /\ ~rec[c].psci

\* Variant: host_call_pending is not reset.
HostCallStays(q) == IF q.host THEN [q EXCEPT !.x0 = "value"] ELSE q

\* do_host_call for a pending call: its page must still be mapped.
HostCallDone(q) ==
    IF q.host THEN [q EXCEPT !.host = FALSE, !.x0 = "value"] ELSE q

\* Variant: the request is not reset.
RipasStays(q) == IF q.ripas.end > 0 THEN [q EXCEPT !.x0 = "value"] ELSE q

\* complete_ripas: x1 tells the realm how far the change went, ripas.addr
RipasDone(q) ==
    IF q.ripas.end > 0 THEN [q EXCEPT !.x0 = "value", !.ripas = NoRequest] ELSE q

\* The REC may not be entered, the host's GIC state is not valid, or the page of
\* the host call is gone.
EnterRefused(c) ==
    /\ at[c] = "checked"
    /\ Goto(c, "host")
    /\ UNCHANGED <<realm, ripas, alive, rec, history>>

\* emulate_mmio finds no emulatable abort: the host call, if one was pending, is
\* complete by then.
EnterMmioRefused(c) ==
    /\ at[c] = "checked"
    /\ Enterable(c)
    /\ ~rec[c].abort
    /\ rec' = [rec EXCEPT ![c] = HostCallDone(@)]
    /\ Goto(c, "host")
    /\ UNCHANGED <<realm, ripas, alive, history>>

\* Variant: set_emulatable_abort(NotEmulatableAbort) is missing from the loop.
EnterRunKeepsAbort(c, emul) ==
    /\ at[c] = "checked"
    /\ Enterable(c)
    /\ emul => rec[c].abort
    /\ rec' = [rec EXCEPT ![c] = [RipasDone(HostCallDone(@)) EXCEPT !.running = TRUE]]
    /\ elr' = [elr EXCEPT ![c] = IF emul /\ @ # "fault" THEN "lost" ELSE "next"]
    /\ asked' = [asked EXCEPT ![c] = NotAsked]
    /\ Goto(c, "realm")
    /\ UNCHANGED <<realm, ripas, alive, wakes>>

\* The host call, the MMIO access and the RIPAS change are completed, and the
\* realm runs.  emul is REC_ENTRY_FLAG_EMUL_MMIO.
EnterRun(c, emul) ==
    /\ at[c] = "checked"
    /\ Enterable(c)
    /\ emul => rec[c].abort
    /\ rec' = [rec EXCEPT ![c] = [RipasDone(HostCallDone(@)) EXCEPT
                                    !.running = TRUE, !.abort = FALSE]]
    /\ elr' = [elr EXCEPT ![c] = IF emul /\ @ # "fault" THEN "lost" ELSE "next"]
    /\ asked' = [asked EXCEPT ![c] = NotAsked]
    /\ Goto(c, "realm")
    /\ UNCHANGED <<realm, ripas, alive, wakes>>

-----------------------------------------------------------------------------
(* The realm runs on c.  It exits to the host with q in its Rec, or the     *)
(* RMM answers and it goes on.                                              *)

\* Variant: the handler leaves the loop before set_state(Ready).
ExitStaysRunning(c, q) ==
    /\ at[c] = "realm"
    /\ rec' = [rec EXCEPT ![c] = q]
    /\ Goto(c, "host")

Exit(c, q) ==
    /\ at[c] = "realm"
    /\ rec' = [rec EXCEPT ![c] = [q EXCEPT !.running = FALSE]]
    /\ Goto(c, "host")

GoOn(c) ==
    /\ at[c] = "realm"
    /\ rec' = [rec EXCEPT ![c].x0 = "value"]
    /\ UNCHANGED <<realm, ripas, alive, at, history>>

Irq(c) == Exit(c, rec[c]) /\ UNCHANGED <<realm, ripas, alive, history>>

\* handle_data_abort
DataAbort(c, emulatable) ==
    /\ Exit(c, [rec[c] EXCEPT !.abort = emulatable])
    /\ elr' = [elr EXCEPT ![c] = IF emulatable THEN "fault" ELSE @]
    /\ UNCHANGED <<realm, ripas, alive, asked, wakes>>

\* RSI_IPA_STATE_SET
IpaStateSet(c, start, end, to, change) ==
    IF end <= start \/ end > Pages THEN GoOn(c) ELSE
    /\ Exit(c, [rec[c] EXCEPT !.x0 = "IPA_STATE_SET",
                  !.ripas = [start |-> start, end |-> end, addr |-> start,
                             to |-> to, change |-> change]])
    /\ asked' = [asked EXCEPT ![c] = [pages |-> start .. end - 1, to |-> to,
                                      change |-> change, done |-> {}]]
    /\ UNCHANGED <<realm, ripas, alive, elr, wakes>>

\* RSI_HOST_CALL: an address outside the PAR is refused; when the page is not
\* mapped the handler fails and the REC exits with nothing pending.
HostCall(c) ==
    \/ GoOn(c)
    \/ \E mapped \in BOOLEAN :
          /\ Exit(c, [rec[c] EXCEPT !.x0 = "value", !.host = mapped])
          /\ UNCHANGED <<realm, ripas, alive, history>>

PsciExit(c, cmd, t) ==
    /\ Exit(c, [rec[c] EXCEPT !.psci = TRUE, !.x0 = cmd, !.x1 = t])
    /\ UNCHANGED <<realm, ripas, alive, history>>

CpuOn(c, t) ==
    IF t >= RecIndex(Owner[c]) \/ t = Vcpuid[c] THEN GoOn(c) ELSE PsciExit(c, "CPU_ON", t)

\* In the array build of the GST the index is not compared with rec_index.
AffinityInfo(c, t) ==
    IF t = Vcpuid[c] THEN GoOn(c) ELSE PsciExit(c, "AFFINITY_INFO", t)

CpuOff(c) ==
    /\ Exit(c, [rec[c] EXCEPT !.runnable = FALSE, !.x0 = "CPU_OFF"])
    /\ wakes' = [wakes EXCEPT ![c] = 0]
    /\ UNCHANGED <<realm, ripas, alive, elr, asked>>

CpuSuspend(c) ==
    /\ Exit(c, [rec[c] EXCEPT !.x0 = "value"])
    /\ UNCHANGED <<realm, ripas, alive, history>>

\* PSCI_SYSTEM_OFF and PSCI_SYSTEM_RESET
SystemOff(c) ==
    /\ Exit(c, [rec[c] EXCEPT !.x0 = "value"])
    /\ realm' = [realm EXCEPT ![Owner[c]] = "SystemOff"]
    /\ UNCHANGED <<ripas, alive, history>>

-----------------------------------------------------------------------------
(* The host serves what is pending.                                        *)

\* Variant: base is not compared with ripas_addr().
RttSetRipasAnyBase(c, base, top, out) ==
    LET q == rec[c].ripas
        r == Owner[c]
        changed == base .. out - 1
    IN  /\ AtHost(c)
        /\ q.end >= top
        /\ base \in Page /\ top > 0 /\ top - 1 \in Page
        /\ out > base /\ out <= top
        /\ \A i \in changed : ripas[r][i] = "DESTROYED" => q.change
        /\ ripas' = [ripas EXCEPT ![r] = [i \in Page |-> IF i \in changed THEN q.to ELSE @[i]]]
        /\ rec' = [rec EXCEPT ![c].ripas.addr = out]
        /\ asked' = [asked EXCEPT ![c].done = @ \cup changed]
        /\ UNCHANGED <<realm, alive, at, elr, wakes>>

\* Of the pages from base on, set_ripas changes those before out: it stops at top,
\* at the end of a table, or at a page it may not change.
RttSetRipas(c, base, top, out) ==
    LET q == rec[c].ripas
        r == Owner[c]
        changed == base .. out - 1
    IN  /\ AtHost(c)
        /\ q.addr = base /\ q.end >= top
        /\ base \in Page /\ top > 0 /\ top - 1 \in Page
        /\ out > base /\ out <= top
        /\ \A i \in changed : ripas[r][i] = "DESTROYED" => q.change
        /\ ripas' = [ripas EXCEPT ![r] = [i \in Page |-> IF i \in changed THEN q.to ELSE @[i]]]
        /\ rec' = [rec EXCEPT ![c].ripas.addr = out]
        /\ asked' = [asked EXCEPT ![c].done = @ \cup changed]
        /\ UNCHANGED <<realm, alive, at, elr, wakes>>

\* Variant: CPU_ON does not ask whether the target is on.
PsciAnswerBlind(c, t, status) ==
    CASE rec[c].x0 = "AFFINITY_INFO" -> IF rec[t].runnable THEN "ON" ELSE "OFF"
      [] status = "DENIED"           -> "DENIED"
      [] OTHER                       -> "SUCCESS"

\* complete_psci
PsciAnswer(c, t, status) ==
    CASE rec[c].x0 = "AFFINITY_INFO" -> IF rec[t].runnable THEN "ON" ELSE "OFF"
      [] rec[t].runnable             -> "ALREADY_ON"
      [] status = "DENIED"           -> "DENIED"
      [] OTHER                       -> "SUCCESS"

PsciComplete(c, t, status) ==
    LET answer == PsciAnswer(c, t, status)
        wake == rec[c].x0 = "CPU_ON" /\ answer = "SUCCESS"
        caller == [rec[c] EXCEPT !.psci = FALSE, !.x0 = "value", !.x1 = 0]
        target == [rec[t] EXCEPT !.runnable = TRUE, !.x0 = "value"]
    IN  /\ c # t /\ AtHost(c) /\ AtHost(t)
        /\ rec[c].psci
        /\ Owner[c] = Owner[t]
        /\ rec[c].x1 = Vcpuid[t]
        /\ status = "DENIED" => rec[c].x0 = "CPU_ON" /\ answer # "ALREADY_ON"
        /\ rec' = IF wake THEN [rec EXCEPT ![c] = caller, ![t] = target]
                          ELSE [rec EXCEPT ![c] = caller]
        /\ wakes' = IF wake THEN [wakes EXCEPT ![t] = @ + 1] ELSE wakes
        /\ elr' = IF wake THEN [elr EXCEPT ![t] = "next"] ELSE elr
        /\ UNCHANGED <<realm, ripas, alive, at, asked>>

-----------------------------------------------------------------------------
RealmStep(c) ==
    \/ Irq(c) \/ HostCall(c) \/ CpuOff(c) \/ CpuSuspend(c) \/ SystemOff(c)
    \/ \E emulatable \in BOOLEAN : DataAbort(c, emulatable)
    \/ \E t \in Index : CpuOn(c, t) \/ AffinityInfo(c, t)
    \/ \E start \in Page, end \in 0 .. Pages + 1, to \in {"EMPTY", "RAM"}, change \in BOOLEAN :
          IpaStateSet(c, start, end, to, change)

RmmStep(c) ==
    EnterRefused(c) \/ EnterMmioRefused(c) \/ \E e \in BOOLEAN : EnterRun(c, e)

HostStep ==
    \/ \E r \in Activated : RealmActivate(r) \/ \E i \in Page : InitRipas(r, i) \/ Destroyed(r, i)
    \/ \E c \in Rec :
          \/ EnterBegin(c) \/ RecDestroy(c)
          \/ \E base, top, out \in 0 .. Pages : RttSetRipas(c, base, top, out)
          \/ \E t \in Rec, status \in {"SUCCESS", "DENIED"} : PsciComplete(c, t, status)

Next == HostStep \/ \E c \in Rec : RmmStep(c) \/ RealmStep(c)

Spec == Init /\ [][Next]_vars

-----------------------------------------------------------------------------
(* Properties.                                                             *)

Pending(q) == {k \in {"psci", "host", "abort"} : q[k]}
              \cup (IF q.ripas.end > 0 THEN {"ripas"} ELSE {})

\* Every variable holds a value of its type, and the state of a REC is Running
\* exactly while REC_ENTER has it in the realm: the handler has no way out that
\* leaves set_state(Running) behind.
TypeOK ==
    /\ realm \in [Realm -> {"New", "Active", "SystemOff"}]
    /\ ripas \in [Realm -> [Page -> {"EMPTY", "RAM", "DESTROYED"}]]
    /\ alive \subseteq Rec
    /\ at \in [Rec -> {"host", "checked", "realm"}]
    /\ rec \in [Rec -> RecContent]
    /\ elr \in [Rec -> {"next", "fault", "lost"}]
    /\ asked \in [Rec -> Ask]
    /\ wakes \in [Rec -> Nat]
    /\ \A c \in Rec : rec[c].running <=> at[c] = "realm"

\* A REC waits for one thing at a time, and only while it is on: what REC_ENTER and
\* PSCI_COMPLETE write into x0 is never an answer to something else, and a REC that
\* CPU_ON starts has its context_id there.
OneRequest ==
    \A c \in Rec :
       /\ Cardinality(Pending(rec[c])) <= 1
       /\ Pending(rec[c]) # {} => rec[c].runnable
       /\ at[c] = "realm" => Pending(rec[c]) = {}

\* When a realm runs, its last CPU_ON, AFFINITY_INFO or IPA_STATE_SET has been
\* answered: x0 no longer holds the command.
Answered ==
    \A c \in Rec :
       at[c] = "realm" => rec[c].x0 \notin {"CPU_ON", "AFFINITY_INFO", "IPA_STATE_SET", "CPU_OFF"}

\* Of several CPU_ON for the same REC one succeeds, however the host orders their
\* PSCI_COMPLETE; the others are told that it is on already.
OneWake == \A c \in Rec : wakes[c] = IF rec[c].runnable THEN 1 ELSE 0

\* The ELR is advanced by emulate_mmio once for an emulatable abort, never past an
\* instruction that did not fault, whatever entries the host retries.
MmioOnce == \A c \in Rec : elr[c] # "lost"

\* What complete_ripas reports: the pages before ripas.addr are the ones that
\* RTT_SET_RIPAS has changed for this request.
RipasReported ==
    \A c \in Rec : rec[c].ripas.end > 0 =>
       asked[c].done = rec[c].ripas.start .. rec[c].ripas.addr - 1

\* The RIPAS of an active realm becomes EMPTY or RAM only where one of its RECs
\* waits for just that change, and a DESTROYED page only where it agreed to it.
RipasStep ==
    \A r \in Realm, i \in Page :
       LET now == ripas[r][i]
           new == ripas'[r][i]
       IN  new # now /\ new # "DESTROYED" /\ realm[r] # "New" =>
             \E c \in Rec :
                /\ Owner[c] = r /\ i \in asked[c].pages /\ asked[c].to = new
                /\ now = "DESTROYED" => asked[c].change
RipasConsent == [][RipasStep]_vars

\* SYSTEM_OFF is final: the realm stays off, and a REC that is at the host then is
\* never entered again.
OffIsFinal ==
    [][\A c \in Rec :
          realm[Owner[c]] = "SystemOff" =>
              /\ realm'[Owner[c]] = "SystemOff"
              /\ at[c] = "host" => at'[c] = "host"]_vars

\* A REC that waits for PSCI_COMPLETE has asked about an index of its realm:
\* "check if target_index is in the range" (rsi/psci.rs).
TargetInRange == \A c \in Rec : rec[c].psci => rec[c].x1 < RecIndex(Owner[c])
=============================================================================
