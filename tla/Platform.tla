------------------------------- MODULE Platform -------------------------------
(***************************************************************************)
(* The chain of attestation: the HES and its host application, EL3, and    *)
(* the RMM with its realms.  EL3 (external) measures the firmware with     *)
(* requests of its own and passes the RMM's boot calls to the HES.         *)
(***************************************************************************)
EXTENDS HesHost, RmmAttest

CONSTANTS
    Requests,      \* the requests EL3 makes on its own account
    Misread,       \* what a message that is cut short may be taken for
    MaxOwn,        \* bound: the number of these requests
    MaxEvents,     \* bound: its requests, split messages and connections together,
    MaxEventsUp    \* and once there are realms

(* The lock of a measurement is a bool. *)
ASSUME PlatformAssumption ==
    /\ MaxOwn \in Nat
    /\ \A req \in Requests \cup Misread :
          req.op = "ExtendMeasurement" => req.lock \in BOOLEAN

VARIABLES
    smc,           \* the RMM waits for the answer to its SMC
    own            \* EL3's own requests so far

vars == <<hesVars, rmmVars, smc, own>>

Init == HesHostInit /\ RmmInit /\ smc = FALSE /\ own = 0

(* What the RMM's next call of EL3 asks of the HES. *)
BootRequest ==
    CASE rmmBoot = "key" ->
           [handle |-> "known", op |-> "GetDAK", form |-> "good", out |-> "large"]
      [] rmmBoot = "token" ->
           [handle |-> "known", op |-> "GetPlatformToken", form |-> "good",
            out |-> "large", hash |-> DakPubHash]
      [] OTHER ->
           [handle |-> "known", op |-> "GetVHuk", form |-> "good",
            out |-> "large", id |-> rmmBoot]

Booting == rmmBoot \in {"key", "token"} \cup Vhuk

SmcCalls ==
    /\ Booting /\ ~smc
    /\ smc' = TRUE /\ ClientSends(BootRequest)
    /\ UNCHANGED <<rmmVars, own>>

(* The SMC returns to the RMM, with what the HES answered or with an error. *)
SmcReturns(ok, resp) ==
    \/ GetRealmAttestKey(ok /\ "key" \in DOMAIN resp, resp.key)
    \/ GetPlatToken(ok /\ "token" \in DOMAIN resp, resp.token)
    \/ \E id \in Vhuk : GetVhuk(id, ok /\ "vhuk" \in DOMAIN resp, resp.vhuk)
    \/ ~ok /\ UnknownErrorCode

SmcAnswered ==
    /\ smc /\ smc' = FALSE /\ ClientReceives /\ UNCHANGED own
    /\ SmcReturns(Head(s2c).ret = "Ok" /\ Head(s2c).resp # None, Head(s2c).resp)

(* External: there is no connection, or no longer, and EL3 reports an error. *)
SmcFails ==
    /\ IF smc THEN client.waiting = None ELSE Booting /\ link # "up"
    /\ smc' = FALSE
    /\ SmcReturns(FALSE, None)
    /\ UNCHANGED <<hesVars, own>>

El3Sends ==
    /\ ~smc /\ own < MaxOwn /\ own' = own + 1
    /\ \E req \in Requests : ClientSends(req)
    /\ UNCHANGED <<rmmVars, smc>>
El3Receives == ~smc /\ ClientReceives /\ UNCHANGED <<rmmVars, smc, own>>

RealmStep ==
    \/ \E r \in Realm : \/ \E p \in Params, v \in Rpv, m \in Metadata \cup {None} :
                              RealmCreate(r, p, v, m)
                        \/ \E d \in Desc : RealmMeasure(r, d)
                        \/ RealmActivate(r)
    \/ \E c \in Rec : \/ \E i \in Rem : MeasurementExtend(c, i, "v")
                      \/ \E ch \in Challenge : AttestTokenInit(c, ch)
                      \/ \E size \in 0 .. TokenLen : AttestTokenContinue(c, size)

Hes == HesStep(Misread) /\ UNCHANGED <<rmmVars, smc, own>>
Peer == PeerStep /\ UNCHANGED <<rmmVars, smc, own>>
Bounded ==
    own + client.splits + links <=
        IF \E r \in Realm : rlm[r].state # "Null" THEN MaxEventsUp ELSE MaxEvents
Next ==
    /\ \/ Hes \/ Peer \/ SmcCalls \/ SmcAnswered \/ SmcFails \/ El3Sends \/ El3Receives
       \/ RealmStep /\ UNCHANGED <<hesVars, smc, own>>
    /\ Bounded'

Spec == Init /\ [][Next]_vars
(* The host application runs whenever it has something to read or to do. *)
FairSpec == Spec /\ WF_vars(Hes)

-----------------------------------------------------------------------------
(* Properties *)

(* The state stays what the code's types and asserts allow, in particular: a slot is
   populated exactly when something was measured into it (MeasurementSlot), and the
   offset of a token in progress never passes its end (attest_token_offset, from
   which get_token_part computes a length that would wrap). *)
TypeOK == HesTypeOK /\ RmmTypeOK /\ smc \in BOOLEAN /\ own \in 0 .. MaxOwn

(* setup_el3_ifc, get_platform_token and get_token: the platform part of every
   token that a realm gets is over the key that signs the realm part, or EL3
   reported an error when the RMM asked for it; neither changes once it is
   there, whatever happens to the connection, the HES or its slots. *)
TokenBound ==
    /\ platToken \notin {None, Junk} => platToken.challenge = PublicKeyHash("Sha256", attestKey)
    /\ \A c \in Rec : \A i \in 1 .. Len(got[c]) :
          /\ got[c][i].token.platform = platToken
          /\ got[c][i].token.realm.claims.rak = attestKey

(* process_requests: a request that has arrived whole, for a service the HES has,
   is answered with its number, unless the connection ends, the process ends, or
   an earlier message of the connection was cut short. *)
Ended == link # "up" \/ short \/ app \in {"stopped", "panicked"}
Pending ==
    /\ ~Ended /\ client.waiting # None /\ client.unsent = <<>>
    /\ \E i \in 1 .. Len(buf \o c2s) :
          (buf \o c2s)[i].seq = client.waiting /\ (buf \o c2s)[i].req.handle = "known"
Replied == \E i \in 1 .. Len(s2c) : s2c[i].seq = client.waiting
Answered == Pending ~> (Replied \/ Ended)
=============================================================================
