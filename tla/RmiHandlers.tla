----------------------------- MODULE RmiHandlers -----------------------------
(***************************************************************************)
(* The RMI handlers of RealmLifecycle step by step, on several CPUs.       *)
(*                                                                         *)
(* A step ends where the handler takes the spinlock of one more granule or *)
(* lets go of one, so that every order in which two CPUs can get at the    *)
(* granules is a behaviour.  get_granule_if! waits for the lock and only   *)
(* then looks at the state: a step is not enabled while another CPU (or    *)
(* the same one) holds the lock, and a granule in the wrong state ends the *)
(* handler with an error.  The first lock of a handler is taken by its     *)
(* first step; a call refused there changes nothing and is left out.       *)
(*                                                                         *)
(* The code visits the tables and the auxiliary granules in the order of   *)
(* the host's arguments; here they are sets and every order is allowed.    *)
(***************************************************************************)
EXTENDS RealmLifecycle

CONSTANTS
    Cpu,
    TablesStable   \* assumption on the host: it leaves the tables of a
                   \* REALM_CREATE alone until they are initialised
ASSUME CpuAssumption == IsFiniteSet(Cpu) /\ None \notin Cpu /\ TablesStable \in BOOLEAN

VARIABLES
    lock,   \* the CPU that holds the spinlock of a granule
    pc,     \* where the handler on a CPU is
    call    \* its arguments and local variables

hvars == <<vars, lock, pc, call>>
objects == <<rd, rec, meta>>

\* r: the RD; c: the other object; all, todo: the granules of a loop and the ones
\* still to visit; v: the VMID; m: the metadata.
NoCall == [r |-> None, c |-> None, all |-> {}, todo |-> {}, v |-> None, m |-> ZeroMeta]

Labels ==
    {"idle", "create_check", "create_vmid", "create_init", "create_roots",
     "destroy_meta", "destroy_check", "destroy_roots", "activate_meta", "set_metadata",
     "rec_check", "rec_lock_rd", "rec_lock_rec", "rec_aux",
     "recdel_aux", "recdel_rd", "recdel_end",
     "enter_check", "enter_run", "enter_realm", "enter_off", "set_ripas", "psci_complete"}

HInit ==
    /\ Init
    /\ lock = [g \in Granule |-> None]
    /\ pc = [p \in Cpu |-> "idle"]
    /\ call = [p \in Cpu |-> NoCall]

Free(g) == lock[g] = None
Holds(p, g) == lock' = [lock EXCEPT ![g] = p]
KeepLocks == UNCHANGED lock
Goto(p, l) == pc' = [pc EXCEPT ![p] = l]

\* Variant: a guard outlives the handler.
ReturnKeepsLocks(p) ==
    /\ Goto(p, "idle")
    /\ call' = [call EXCEPT ![p] = NoCall]
    /\ UNCHANGED lock

\* The handler on p returns and its guards are dropped.
Return(p) ==
    /\ Goto(p, "idle")
    /\ call' = [call EXCEPT ![p] = NoCall]
    /\ lock' = [g \in Granule |-> IF lock[g] = p THEN None ELSE lock[g]]

\* The handler on p goes on to l with the local variables f.
Proceed(p, l, f) == Goto(p, l) /\ call' = [call EXCEPT ![p] = f]

\* It has visited g; after the last granule of the loop it goes on to l.
Visited(p, g, l) ==
    LET rest == call[p].todo \ {g}
    IN  Proceed(p, IF rest = {} THEN l ELSE pc[p], [call[p] EXCEPT !.todo = rest])

\* One turn of a loop that only looks at its granules: each must be Delegated.
LookAt(p, g, l) ==
    /\ g \in call[p].todo
    /\ Free(g)
    /\ \/ gst[g] = "Delegated" /\ Visited(p, g, l) /\ KeepLocks
       \/ gst[g] # "Delegated" /\ Return(p)
    /\ UNCHANGED vars

-----------------------------------------------------------------------------
(* Handlers that hold one lock, or whose first lock is the only one they    *)
(* need.                                                                    *)

HGptChange(g) == GptChange(g) /\ UNCHANGED <<lock, pc, call>>

HGranuleDelegate(p, g) ==
    /\ pc[p] = "idle" /\ Free(g)
    /\ GranuleDelegate(g)
    /\ UNCHANGED <<lock, pc, call>>

HGranuleUndelegate(p, g) ==
    /\ pc[p] = "idle" /\ Free(g)
    /\ GranuleUndelegate(g)
    /\ UNCHANGED <<lock, pc, call>>

\* REALM_ACTIVATE takes the lock of the metadata while it holds the RD's.
Activate(p, r) ==
    /\ pc[p] = "idle" /\ Free(r) /\ gst[r] = "RD"
    /\ IF rd[r].metadata = None
         THEN RealmActivate(r) /\ UNCHANGED <<lock, pc, call>>
         ELSE /\ Holds(p, r)
              /\ Proceed(p, "activate_meta", [NoCall EXCEPT !.r = r])
              /\ UNCHANGED vars

ActivateMeta(p) ==
    LET r == call[p].r
    IN  /\ pc[p] = "activate_meta" /\ Free(rd[r].metadata)
        /\ \/ RealmActivate(r)
           \/ ~(MetadataAgrees(r) /\ rd[r].state = "New") /\ UNCHANGED vars
        /\ Return(p)

\* ISLET_REALM_SET_METADATA
SetMetadata(p, r, g, m) ==
    /\ pc[p] = "idle" /\ Free(r) /\ gst[r] = "RD"
    /\ rd[r].state = "New" /\ rd[r].metadata = None
    /\ Holds(p, r)
    /\ Proceed(p, "set_metadata", [NoCall EXCEPT !.r = r, !.c = g, !.m = m])
    /\ UNCHANGED vars

SetMetadataGranule(p) ==
    LET f == call[p]
    IN  /\ pc[p] = "set_metadata" /\ Free(f.c)
        /\ \/ RealmSetMetadata(f.r, f.c, f.m)
           \/ gst[f.c] # "Delegated" /\ UNCHANGED vars
        /\ Return(p)

-----------------------------------------------------------------------------
(* REALM_CREATE                                                            *)

\* verify_compliance compares only the first table with the RD.
Create(p, r, v, roots) ==
    /\ pc[p] = "idle" /\ Free(r) /\ gst[r] = "Delegated"
    /\ Cardinality(roots) \in RootCounts /\ roots # {} /\ roots # {r}
    /\ Holds(p, r)
    /\ Proceed(p, "create_check", [NoCall EXCEPT !.r = r, !.v = v, !.all = roots, !.todo = roots])
    /\ UNCHANGED vars

CreateCheck(p, g) == pc[p] = "create_check" /\ LookAt(p, g, "create_vmid")

\* create_realm()
CreateVmid(p) ==
    LET f == call[p]
    IN  /\ pc[p] = "create_vmid"
        /\ \/ f.v \in vmids /\ Return(p) /\ UNCHANGED vmids
           \/ /\ f.v \notin vmids
              /\ vmids' = vmids \cup {f.v}
              /\ Proceed(p, "create_init", f)
              /\ KeepLocks
        /\ UNCHANGED <<gst, gpt, refcnt, objects, dirty>>

\* Stage2Translation::new writes empty entries into the tables, whose locks it
\* does not hold, and Rd::init fills in the RD.
CreateInit(p, algo) ==
    LET f == call[p]
    IN  /\ pc[p] = "create_init"
        /\ TablesStable => \A g \in f.all : gst[g] = "Delegated" /\ Free(g)
        /\ rd' = [g \in Granule |-> IF g = f.r THEN NewRd(f.v, f.all, algo)
                                    ELSE IF g \in f.all THEN ZeroRd ELSE rd[g]]
        /\ rec' = [g \in Granule |-> IF g \in f.all THEN ZeroRec ELSE rec[g]]
        /\ meta' = [g \in Granule |-> IF g \in f.all THEN ZeroMeta ELSE meta[g]]
        /\ Proceed(p, "create_roots", [f EXCEPT !.todo = f.all])
        /\ KeepLocks
        /\ UNCHANGED <<gst, gpt, refcnt, dirty, vmids>>

\* epilogue: one table after the other, then the RD.
CreateRoot(p, g) ==
    LET f == call[p]
    IN  /\ pc[p] = "create_roots" /\ g \in f.todo /\ Free(g)
        /\ \/ /\ gst[g] = "Delegated"
              /\ gst' = [gst EXCEPT ![g] = "RTT"]
              /\ Proceed(p, "create_roots", [f EXCEPT !.todo = @ \ {g}])
              /\ KeepLocks
              /\ UNCHANGED <<rd, dirty, vmids>>
           \/ /\ gst[g] # "Delegated"
              /\ vmids' = vmids \ {f.v}
              /\ dirty' = dirty \cup {f.r} \cup (f.all \ f.todo)
              /\ rd' = [rd EXCEPT ![f.r] = ZeroRd]
              /\ Return(p)
              /\ UNCHANGED gst
        /\ UNCHANGED <<gpt, refcnt, rec, meta>>

CreateEnd(p) ==
    LET f == call[p]
    IN  /\ pc[p] = "create_roots" /\ f.todo = {}
        /\ gst' = [gst EXCEPT ![f.r] = "RD"]
        /\ dirty' = dirty \cup {f.r} \cup f.all
        /\ Return(p)
        /\ UNCHANGED <<gpt, refcnt, objects, vmids>>

-----------------------------------------------------------------------------
(* REALM_DESTROY                                                           *)

Destroy(p, r) ==
    /\ pc[p] = "idle" /\ Free(r) /\ gst[r] = "RD"
    /\ refcnt[r] = 0
    /\ Holds(p, r)
    /\ Proceed(p, IF rd[r].metadata = None THEN "destroy_check" ELSE "destroy_meta",
               [NoCall EXCEPT !.r = r, !.all = rd[r].roots, !.todo = rd[r].roots])
    /\ UNCHANGED vars

DestroyMeta(p) ==
    LET r == call[p].r
        m == rd[r].metadata
    IN  /\ pc[p] = "destroy_meta" /\ Free(m)
        /\ \/ gst[m] # "Metadata" /\ Return(p) /\ UNCHANGED vars
           \/ /\ gst[m] = "Metadata"
              /\ gst' = [gst EXCEPT ![m] = "Delegated"]
              /\ Zeroize({m})
              /\ meta' = [meta EXCEPT ![m] = ZeroMeta]
              /\ rd' = [rd EXCEPT ![r].metadata = None]
              /\ Proceed(p, "destroy_check", [call[p] EXCEPT !.c = m])
              /\ KeepLocks
              /\ UNCHANGED <<gpt, refcnt, rec, vmids>>

\* num_children() of the tables, whatever state they are in
DestroyCheck(p, g) ==
    LET f == call[p]
        rest == f.todo \ {g}
    IN  /\ pc[p] = "destroy_check" /\ g \in f.todo /\ Free(g)
        /\ \/ refcnt[g] > 0 /\ Return(p)
           \/ /\ refcnt[g] = 0
              /\ IF rest = {} THEN Proceed(p, "destroy_roots", [f EXCEPT !.todo = f.all])
                              ELSE Proceed(p, "destroy_check", [f EXCEPT !.todo = rest])
              /\ KeepLocks
        /\ UNCHANGED vars

DestroyRoot(p, g) ==
    LET f == call[p]
    IN  /\ pc[p] = "destroy_roots" /\ g \in f.todo /\ Free(g)
        /\ gst' = [gst EXCEPT ![g] = "Delegated"]
        /\ Zeroize({g})
        /\ Proceed(p, "destroy_roots", [f EXCEPT !.todo = @ \ {g}])
        /\ KeepLocks
        /\ UNCHANGED <<gpt, refcnt, objects, vmids>>

\* Variant: the loop over the tables ends one table early.
DestroyEndEarly(p) ==
    LET f == call[p]
    IN  /\ pc[p] = "destroy_roots" /\ Cardinality(f.todo) <= 1
        /\ gst' = [gst EXCEPT ![f.r] = "Delegated"]
        /\ Zeroize({f.r})
        /\ vmids' = vmids \ {rd[f.r].vmid}
        /\ rd' = [rd EXCEPT ![f.r] = ZeroRd]
        /\ Return(p)
        /\ UNCHANGED <<gpt, refcnt, rec, meta>>

DestroyEnd(p) ==
    LET f == call[p]
    IN  /\ pc[p] = "destroy_roots" /\ f.todo = {}
        /\ gst' = [gst EXCEPT ![f.r] = "Delegated"]
        /\ Zeroize({f.r})
        /\ vmids' = vmids \ {rd[f.r].vmid}
        /\ rd' = [rd EXCEPT ![f.r] = ZeroRd]
        /\ Return(p)
        /\ UNCHANGED <<gpt, refcnt, rec, meta>>

-----------------------------------------------------------------------------
(* REC_CREATE                                                              *)

\* verify_compliance sorts the auxiliary granules and looks at one after the
\* other; the call begins with the first of them, g.
CreateRec(p, r, c, aux, g) ==
    LET rest == aux \ {g}
    IN  /\ pc[p] = "idle"
        /\ Cardinality(aux) = NumAux
        /\ c # r /\ c \notin aux /\ r \notin aux
        /\ g \in aux /\ Free(g) /\ gst[g] = "Delegated"
        /\ Proceed(p, IF rest = {} THEN "rec_lock_rd" ELSE "rec_check",
                   [NoCall EXCEPT !.r = r, !.c = c, !.all = aux, !.todo = rest])
        /\ KeepLocks
        /\ UNCHANGED vars

CreateRecCheck(p, g) == pc[p] = "rec_check" /\ LookAt(p, g, "rec_lock_rd")

CreateRecLockRd(p) ==
    LET f == call[p]
        ok == gst[f.r] = "RD" /\ rd[f.r].state = "New" /\ rd[f.r].recIndex < MaxRecIndex
    IN  /\ pc[p] = "rec_lock_rd" /\ Free(f.r)
        /\ \/ ok /\ Holds(p, f.r) /\ Proceed(p, "rec_lock_rec", f)
           \/ ~ok /\ Return(p)
        /\ UNCHANGED vars

\* Variant: the granule of the REC is not checked under its lock.
CreateRecLockRecUnchecked(p) ==
    LET f == call[p]
    IN  /\ pc[p] = "rec_lock_rec" /\ Free(f.c)
        /\ Holds(p, f.c)
        /\ rec' = [rec EXCEPT ![f.c] = NewRec(f.r, f.all)]
        /\ RecIndexAdvances(f.r)
        /\ Proceed(p, "rec_aux", [f EXCEPT !.todo = f.all])
        /\ UNCHANGED <<gst, gpt, refcnt, meta, dirty, vmids>>

\* The lock of the new REC is taken under the RD's; index, RIM and the REC are
\* written before the auxiliary granules are taken.
CreateRecLockRec(p) ==
    LET f == call[p]
    IN  /\ pc[p] = "rec_lock_rec" /\ Free(f.c)
        /\ \/ gst[f.c] # "Delegated" /\ Return(p) /\ UNCHANGED <<rd, rec>>
           \/ /\ gst[f.c] = "Delegated"
              /\ Holds(p, f.c)
              /\ rec' = [rec EXCEPT ![f.c] = NewRec(f.r, f.all)]
              /\ RecIndexAdvances(f.r)
              /\ Proceed(p, "rec_aux", [f EXCEPT !.todo = f.all])
        /\ UNCHANGED <<gst, gpt, refcnt, meta, dirty, vmids>>

CreateRecAux(p, g) ==
    LET f == call[p]
    IN  /\ pc[p] = "rec_aux" /\ g \in f.todo /\ Free(g)
        /\ \/ /\ gst[g] = "Delegated"
              /\ gst' = [gst EXCEPT ![g] = "RecAux"]
              /\ Proceed(p, "rec_aux", [f EXCEPT !.todo = @ \ {g}])
              /\ KeepLocks
              /\ UNCHANGED <<rec, dirty>>
           \/ /\ gst[g] # "Delegated"
              /\ dirty' = dirty \cup {f.c} \cup (f.all \ f.todo)
              /\ rec' = [rec EXCEPT ![f.c] = ZeroRec]
              /\ Return(p)
              /\ UNCHANGED gst
        /\ UNCHANGED <<gpt, refcnt, rd, meta, vmids>>

CreateRecEnd(p) ==
    LET f == call[p]
    IN  /\ pc[p] = "rec_aux" /\ f.todo = {}
        /\ refcnt' = [refcnt EXCEPT ![f.r] = (@ + 1) % 256]
        /\ gst' = [gst EXCEPT ![f.c] = "Rec"]
        /\ dirty' = dirty \cup {f.c} \cup f.all
        /\ Return(p)
        /\ UNCHANGED <<gpt, objects, vmids>>

-----------------------------------------------------------------------------
(* REC_DESTROY                                                             *)

DestroyRec(p, c) ==
    /\ pc[p] = "idle" /\ Free(c) /\ gst[c] = "Rec"
    /\ Holds(p, c)
    /\ Proceed(p, IF rec[c].aux = {} THEN "recdel_rd" ELSE "recdel_aux",
               [NoCall EXCEPT !.r = rec[c].owner, !.c = c,
                              !.all = rec[c].aux, !.todo = rec[c].aux])
    /\ UNCHANGED vars

DestroyRecAux(p, g) ==
    /\ pc[p] = "recdel_aux" /\ g \in call[p].todo /\ Free(g)
    /\ \/ gst[g] # "RecAux" /\ Return(p) /\ UNCHANGED <<gst, dirty>>
       \/ /\ gst[g] = "RecAux"
          /\ gst' = [gst EXCEPT ![g] = "Delegated"]
          /\ Zeroize({g})
          /\ Visited(p, g, "recdel_rd")
          /\ KeepLocks
    /\ UNCHANGED <<gpt, refcnt, objects, vmids>>

\* The RD's lock is dropped after dec_count(), before the REC's granule is freed.
DestroyRecRd(p) ==
    LET f == call[p]
    IN  /\ pc[p] = "recdel_rd" /\ Free(f.r)
        /\ \/ gst[f.r] # "RD" /\ Return(p) /\ UNCHANGED refcnt
           \/ /\ gst[f.r] = "RD"
              /\ refcnt' = [refcnt EXCEPT ![f.r] = (@ + 255) % 256]
              /\ Proceed(p, "recdel_end", f)
              /\ KeepLocks
        /\ UNCHANGED <<gst, gpt, objects, dirty, vmids>>

DestroyRecEnd(p) ==
    LET c == call[p].c
    IN  /\ pc[p] = "recdel_end"
        /\ gst' = [gst EXCEPT ![c] = "Delegated"]
        /\ Zeroize({c})
        /\ rec' = [rec EXCEPT ![c] = ZeroRec]
        /\ Return(p)
        /\ UNCHANGED <<gpt, refcnt, rd, meta, vmids>>

-----------------------------------------------------------------------------
(* REC_ENTER holds the lock of the REC while the realm runs, and takes and  *)
(* drops the RD's.                                                         *)

\* Variant: the lock of the REC is not held while the realm runs.
EnterUnlocked(p, c) ==
    /\ pc[p] = "idle" /\ Free(c) /\ gst[c] = "Rec"
    /\ KeepLocks
    /\ Proceed(p, "enter_check", [NoCall EXCEPT !.r = rec[c].owner, !.c = c])
    /\ UNCHANGED vars

Enter(p, c) ==
    /\ pc[p] = "idle" /\ Free(c) /\ gst[c] = "Rec"
    /\ Holds(p, c)
    /\ Proceed(p, "enter_check", [NoCall EXCEPT !.r = rec[c].owner, !.c = c])
    /\ UNCHANGED vars

EnterCheck(p) ==
    LET r == call[p].r
        ok == gst[r] = "RD" /\ rd[r].state = "Active"
    IN  /\ pc[p] = "enter_check" /\ Free(r)
        /\ \/ ok /\ Proceed(p, "enter_run", call[p]) /\ KeepLocks
           \/ ~ok /\ Return(p)
        /\ UNCHANGED vars

\* run_prepare()
EnterRun(p) ==
    LET r == call[p].r
    IN  /\ pc[p] = "enter_run" /\ Free(r)
        /\ \/ gst[r] = "RD" /\ Proceed(p, "enter_realm", call[p]) /\ KeepLocks
           \/ gst[r] # "RD" /\ Return(p)
        /\ UNCHANGED vars

\* The realm runs, then is resumed, exits to the host or asks for SYSTEM_OFF.
EnterRealm(p) ==
    /\ pc[p] = "enter_realm"
    /\ \/ \E l \in {"enter_run", "enter_off"} : Proceed(p, l, call[p]) /\ KeepLocks
       \/ Return(p)
    /\ UNCHANGED vars

\* PSCI_SYSTEM_OFF and PSCI_SYSTEM_RESET
EnterOff(p) ==
    LET r == call[p].r
    IN  /\ pc[p] = "enter_off" /\ Free(r)
        /\ rd' = IF gst[r] = "RD" THEN [rd EXCEPT ![r].state = "SystemOff"] ELSE rd
        /\ Return(p)
        /\ UNCHANGED <<gst, gpt, refcnt, rec, meta, dirty, vmids>>

-----------------------------------------------------------------------------
(* The handlers that take a second lock and leave these objects alone.     *)

\* RTT_SET_RIPAS: the REC's lock under the RD's
SetRipas(p, r, c) ==
    /\ pc[p] = "idle" /\ r # c /\ Free(r) /\ gst[r] = "RD"
    /\ Holds(p, r)
    /\ Proceed(p, "set_ripas", [NoCall EXCEPT !.r = r, !.c = c])
    /\ UNCHANGED vars

\* PSCI_COMPLETE: the target's lock under the caller's
PsciComplete(p, c, d) ==
    /\ pc[p] = "idle" /\ c # d /\ Free(c) /\ gst[c] = "Rec"
    /\ Holds(p, c)
    /\ Proceed(p, "psci_complete", [NoCall EXCEPT !.r = c, !.c = d])
    /\ UNCHANGED vars

SecondLock(p) ==
    /\ pc[p] \in {"set_ripas", "psci_complete"} /\ Free(call[p].c)
    /\ Return(p)
    /\ UNCHANGED vars

Step(p) ==
    \/ ActivateMeta(p) \/ SetMetadataGranule(p)
    \/ CreateVmid(p) \/ CreateEnd(p) \/ \E a \in Algo : CreateInit(p, a)
    \/ DestroyMeta(p) \/ DestroyEnd(p)
    \/ CreateRecLockRd(p) \/ CreateRecLockRec(p) \/ CreateRecEnd(p)
    \/ DestroyRecRd(p) \/ DestroyRecEnd(p)
    \/ EnterCheck(p) \/ EnterRun(p) \/ EnterRealm(p) \/ EnterOff(p)
    \/ SecondLock(p)
    \/ \E g \in Granule :
          \/ CreateCheck(p, g) \/ CreateRoot(p, g)
          \/ DestroyCheck(p, g) \/ DestroyRoot(p, g)
          \/ CreateRecCheck(p, g) \/ CreateRecAux(p, g) \/ DestroyRecAux(p, g)

Begin(p) ==
    \/ \E g \in Granule :
          \/ HGranuleDelegate(p, g) \/ HGranuleUndelegate(p, g)
          \/ Activate(p, g) \/ Destroy(p, g) \/ DestroyRec(p, g) \/ Enter(p, g)
    \/ \E r, g \in Granule :
          \/ \E m \in [rim : Rim, algo : Algo] : SetMetadata(p, r, g, m)
          \/ SetRipas(p, r, g) \/ PsciComplete(p, r, g)
    \/ \E r \in Granule, v \in Vmid, roots \in SUBSET Granule : Create(p, r, v, roots)
    \/ \E aux \in SUBSET Granule : \E r, c \in Granule, g \in aux :
          CreateRec(p, r, c, aux, g)

HNext ==
    \/ \E g \in Granule : HGptChange(g)
    \/ \E p \in Cpu : Step(p) \/ Begin(p)

HSpec == HInit /\ [][HNext]_hvars

-----------------------------------------------------------------------------
(* Properties.                                                             *)

\* Every variable holds a value of its type.
HTypeOK ==
    /\ TypeOK
    /\ lock \in [Granule -> Cpu \cup {None}]
    /\ pc \in [Cpu -> Labels]
    /\ \A p \in Cpu :
          /\ call[p].r \in Granule \cup {None} /\ call[p].c \in Granule \cup {None}
          /\ call[p].todo \subseteq call[p].all /\ call[p].all \subseteq Granule
          /\ pc[p] = "idle" => \A g \in Granule : lock[g] # p

\* While a realm runs on a CPU its REC and its RD stay, and the realm is not New:
\* REC_ENTER drops the RD's lock before it runs the realm.
RunningSafe ==
    \A p \in Cpu : pc[p] \in {"enter_run", "enter_realm", "enter_off"} =>
       /\ gst[call[p].c] = "Rec"
       /\ gst[call[p].r] = "RD"
       /\ rd[call[p].r].state \in {"Active", "SystemOff"}

\* A host that makes one call at a time never loses a granule: outside a handler
\* every RTT granule is a table of a realm and every RecAux granule belongs to a
\* REC.  (With two CPUs a REALM_CREATE or REC_CREATE can fail half way.)
NoOrphans ==
    (\A p \in Cpu : pc[p] = "idle") =>
       \A g \in Granule :
          /\ gst[g] = "RTT" => \E r \in Granule : IsRd(r) /\ g \in rd[r].roots
          /\ gst[g] = "RecAux" => \E c \in Granule : IsRec(c) /\ g \in rec[c].aux

\* The granule whose lock the handler on p spins for, if its next step names one.
\* A granule of a kind that the handler would refuse is left out: a host that
\* names its granules correctly is enough.
Wants(p) ==
    CASE pc[p] \in {"set_ripas", "psci_complete"} /\ gst[call[p].c] = "Rec" -> call[p].c
      [] pc[p] \in {"recdel_rd", "enter_check", "enter_run", "enter_off", "rec_lock_rd"} -> call[p].r
      [] pc[p] \in {"activate_meta", "destroy_meta"} -> rd[call[p].r].metadata
      [] OTHER -> None

\* No two CPUs wait for each other: REC_ENTER releases the RD "to avoid a
\* deadlock" (rmi/rec/handlers.rs).
NoLockCycle ==
    \A p, q \in Cpu : p # q /\ Wants(p) # None /\ Wants(q) # None =>
       ~(lock[Wants(p)] = q /\ lock[Wants(q)] = p)

\* An RD that is in use holds an initialised Rd: it is "accessed only within the
\* lock scope" (realm/rd.rs).
RdIntact == \A r \in Granule : IsRd(r) => rd[r].state # "Null"
=============================================================================
