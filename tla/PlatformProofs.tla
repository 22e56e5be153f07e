--------------------------- MODULE PlatformProofs ---------------------------
(***************************************************************************)
(* The HES, its connection and the chain of attestation, for any boot      *)
(* measurements, slots, requests and misreadings, under any values of the  *)
(* bounds.                                                                 *)
(*                                                                         *)
(* HesInv says what the slots are made of, that a key in use was delegated *)
(* on this connection, and, as long as no message was cut short, that all  *)
(* that is in flight belongs to the one request the client waits on.       *)
(* Bound, a part of it, ties the platform token to the RMM's key.          *)
(***************************************************************************)
EXTENDS RmmAttestProofs

\* What has been sent and not been served yet, and the answers on their way.
InFlight == Range(c2s) \cup Range(buf) \cup Range(client.unsent)
Answers == Range(s2c)

IsToken(a) == a.ret = "Ok" /\ a.resp # None /\ "token" \in DOMAIN a.resp

SlotField == {"populated", "locked", "algorithm", "signer", "swType", "swVersion", "value"}
SlotOK(s) ==
    /\ DOMAIN s = SlotField
    /\ s.populated \in BOOLEAN /\ s.locked \in BOOLEAN
    /\ IsSeq(s.value) /\ (s.populated <=> s.value # <<>>)

\* Slot s may become t: a locked one stays, a populated one is only added to.
SlotStep(s, t) ==
    /\ s.locked => t = s
    /\ s.populated => /\ t.signer = s.signer /\ t.algorithm = s.algorithm
                      /\ Len(s.value) <= Len(t.value)
                      /\ SubSeq(t.value, 1, Len(s.value)) = s.value

\* The queues: each request counts for at most two pieces, or one answer.
QueuesOK ==
    /\ IsSeq(c2s) /\ IsSeq(s2c) /\ IsSeq(buf) /\ IsSeq(client.unsent)
    /\ DOMAIN client = {"seq", "unsent", "waiting", "splits"}
    /\ client.seq \in 0 .. MaxSeq
    /\ Len(s2c) + Len(c2s) + Len(buf) + Len(client.unsent) <= 2 * client.seq

\* Where the process is, and what it holds there.
AppOK ==
    /\ app \in AppState /\ link \in {"down", "listening", "up", "eof", "broken"}
    /\ links \in 0 .. MaxLinks
    /\ app = "reading" <=> buf # <<>>
    /\ link # "up" => s2c = <<>>
    /\ link = "listening" => /\ app \in {"connecting", "stopped"} /\ c2s = <<>>
                             /\ client.unsent = <<>> /\ client.waiting = None
    /\ app = "connecting" => link # "up" /\ slots = BootSlots(boot) /\ dak = None

\* A key in use, and one that a token is over, was handed out on this connection.
GivenOK ==
    /\ dak # None => dak.key \in given
    /\ \A a \in Answers : IsToken(a) => a.resp.token.challenge.of \in given

SlotsOK ==
    /\ DOMAIN slots = Slot /\ \A i \in Slot : SlotOK(slots[i])
    /\ \A p \in InFlight : p.req.op = "ExtendMeasurement" => p.req.lock \in BOOLEAN

\* All that is in flight is the one request that the client waits on, or its answer.
Matched ==
    ~short /\ link = "up" =>
        /\ \A p \in InFlight : p.seq = client.waiting
        /\ \A a \in Answers : a.seq = client.waiting
        /\ client.waiting = None => InFlight = {} /\ s2c = <<>>
        /\ s2c # <<>> => InFlight = {} /\ Len(s2c) = 1
        /\ Len(buf) + Len(c2s) + Len(client.unsent) <= 2

\* EL3 asks for a platform token for the RMM alone.
TokensForRmm == \A req \in Requests \cup Misread : req.op # "GetPlatformToken"

\* Then every platform token, asked for, on its way or stored, is over the RMM's key.
Bound ==
    /\ \A p \in InFlight : p.req.op = "GetPlatformToken" =>
          rmmBoot # "key" /\ p.req.hash = DakPubHash
    /\ \A a \in Answers : IsToken(a) => rmmBoot # "key" /\ a.resp.token.challenge = DakPubHash
    /\ rmmBoot = "key" => platToken = None
    /\ platToken \notin {None, Junk} => platToken.challenge = DakPubHash

HesCore == QueuesOK /\ AppOK /\ GivenOK /\ SlotsOK /\ Matched
HesInv == HesCore /\ own \in 0 .. MaxOwn /\ smc \in BOOLEAN /\ (TokensForRmm => Bound)

\* A step that puts nothing new on the connection.
Kept == InFlight' \subseteq InFlight /\ Answers' \subseteq Answers

\* What serving request req, number n, leaves behind.
Served(req, n) ==
    /\ app' \in {"waiting", "panicked"}
    /\ \/ UNCHANGED s2c
       \/ \E a : /\ link = "up" /\ s2c' = Append(s2c, a) /\ a.seq = n
                 /\ IsToken(a) => /\ req.op = "GetPlatformToken" /\ req.hash.of \in given
                                  /\ a.resp.token.challenge = req.hash
    /\ given \subseteq given' /\ (dak' # None => dak'.key \in given')
    /\ \/ UNCHANGED slots
       \/ \E i \in Slot : \E t : /\ slots' = [slots EXCEPT ![i] = t]
                               /\ SlotOK(t) /\ SlotStep(slots[i], t)

LEMMA HesInvariant == Spec => []HesInv /\ [][SlotsStep]_hesVars
<1>0. /\ \A a, b, c \in Nat : a + b + c <= 2 /\ a >= 2 => c = 0
      /\ \A a \in Nat : a <= 0 + 1 /\ a # 0 => a = 1
      /\ \A a, b, c, d, e, n \in Nat : a + b + c + d <= 2 * n /\ e <= a + 1 /\ c >= 1
                                      => e + b + 0 + d <= 2 * n
  BY SMTT(30), Zenon
\* What extend_measurement and initialize make of a slot.
<1>1. ASSUME NEW e, DOMAIN e = SlotField, IsSeq(e.value), NEW v, NEW lock \in BOOLEAN
      PROVE  /\ SlotOK(ExtendValue(e, v, lock))
             /\ ExtendValue(e, v, lock).signer = e.signer
             /\ ExtendValue(e, v, lock).algorithm = e.algorithm
             /\ ExtendValue(e, v, lock).value = Append(e.value, v)
  <2> USE Zenon
  <2> DEFINE t == ExtendValue(e, v, lock)
  <2>1. /\ DOMAIN t = SlotField /\ t.signer = e.signer /\ t.algorithm = e.algorithm
        /\ t.value = Append(e.value, v) /\ t.populated = TRUE /\ t.locked = lock
    BY <1>1 DEF ExtendValue, SlotField
  <2>2. IsSeq(Append(e.value, v)) /\ Append(e.value, v) # <<>>
    <3>1. IsSeq(Append(e.value, v)) /\ Len(Append(e.value, v)) = Len(e.value) + 1 /\ Len(e.value) \in Nat
      BY <1>1, SeqFacts
    <3>2. Len(e.value) + 1 # 0
      BY <3>1, SMTT(30)
    <3> QED
      BY <3>1, <3>2, SeqFacts
  <2> HIDE DEF t
  <2>3. SlotOK(t)
    BY <2>1, <2>2 DEF SlotOK
  <2> QED
    BY <2>1, <2>3 DEF t
<1>2. ASSUME NEW s, SlotOK(s), NEW m, NEW lock \in BOOLEAN
      PROVE  /\ SlotOK(InitializeSlot(s, m, lock)) /\ SlotOK(ExtendSlot(s, m, lock))
             /\ ExtendSlot(s, m, lock).signer = s.signer
             /\ ExtendSlot(s, m, lock).algorithm = s.algorithm
             /\ ExtendSlot(s, m, lock).value = Append(s.value, m.value)
  <2> USE Zenon
  <2> DEFINE e == [s EXCEPT !.swType = m.swType, !.swVersion = m.swVersion]
             f == [s EXCEPT !.algorithm = m.algorithm, !.signer = m.signer,
                            !.swType = m.swType, !.swVersion = m.swVersion, !.value = <<>>]
  <2>1. /\ DOMAIN e = SlotField /\ e.value = s.value /\ e.signer = s.signer
        /\ e.algorithm = s.algorithm
    BY <1>2 DEF SlotOK, SlotField
  <2>2. DOMAIN f = SlotField /\ f.value = <<>>
    BY <1>2 DEF SlotOK, SlotField
  <2>3. InitializeSlot(s, m, lock) = ExtendValue(f, m.value, lock)
    BY DEF InitializeSlot
  <2>4. ExtendSlot(s, m, lock) = ExtendValue(e, m.value, lock)
    BY DEF ExtendSlot
  <2>5. IsSeq(<<>>) /\ IsSeq(s.value)
    BY <1>2, SeqFacts DEF SlotOK
  <2> HIDE DEF e, f
  <2> QED
    BY <1>1, <1>2, <2>1, <2>2, <2>3, <2>4, <2>5, SMTT(30)
<1>3. ASSUME NEW b PROVE DOMAIN BootSlots(b) = Slot /\ \A i \in Slot : SlotOK(BootSlots(b)[i])
  <2> USE Zenon
  <2>1. SlotOK(EmptySlot)
    BY SeqFacts DEF EmptySlot, SlotOK, SlotField
  <2>2. \A m : SlotOK(InitializeSlot(EmptySlot, m, FALSE))
    BY <1>2, <2>1
  <2> QED
    BY <2>1, <2>2 DEF BootSlots
<1>4. Init => HesInv
  <2> USE Zenon
  <2> SUFFICES ASSUME Init PROVE HesInv
    OBVIOUS
  <2>1. /\ InFlight = {} /\ Answers = {}
        /\ QueuesOK
    BY SeqFacts, HesAssumption, SMTT(30) DEF Init, HesHostInit, InFlight, Answers, QueuesOK
  <2>2. AppOK
    BY HesAssumption, SMTT(30) DEF Init, HesHostInit, HesInit, AppOK, AppState
  <2>3. SlotsOK
    BY <1>3, <2>1 DEF Init, HesHostInit, HesInit, SlotsOK
  <2>4. GivenOK /\ Matched /\ Bound
    BY <2>1 DEF Init, HesHostInit, HesInit, RmmInit, GivenOK, Matched, Bound
  <2> QED
    <3>1. own \in 0 .. MaxOwn
      BY PlatformAssumption, SMTT(30) DEF Init
    <3>2. smc \in BOOLEAN
      BY Zenon DEF Init
    <3> QED
      BY <2>1, <2>2, <2>3, <2>4, <3>1, <3>2 DEF HesInv, HesCore
<1> SUFFICES ASSUME HesInv, [Next]_vars PROVE HesInv' /\ [SlotsStep]_hesVars
  BY <1>4, PTL DEF Spec
<1> USE DEF HesInv, HesCore
<1>5. /\ DOMAIN slots = Slot
      /\ \A i \in Slot : SlotOK(slots[i]) /\ SlotStep(slots[i], slots[i])
  <2> USE Zenon
  <2> SUFFICES ASSUME NEW i \in Slot PROVE SlotOK(slots[i]) /\ SlotStep(slots[i], slots[i])
    BY DEF SlotsOK
  <2>1. SlotOK(slots[i]) /\ IsSeq(slots[i].value)
    BY DEF SlotsOK, SlotOK
  <2>2. Len(slots[i].value) \in Nat /\ SubSeq(slots[i].value, 1, Len(slots[i].value)) = slots[i].value
    BY <2>1, SeqFacts
  <2> QED
    BY <2>1, <2>2, SMTT(30) DEF SlotStep
\* The answer that send_response gives.
<1>6. ASSUME NEW req, NEW n, NEW ret, NEW resp, NEW op,
             SendResponse(ret, resp, op, StoreMetadata(n, req)),
             ret = "Ok" /\ resp # None /\ "token" \in DOMAIN resp =>
                /\ req.op = "GetPlatformToken" /\ req.hash.of \in given
                /\ resp.token.challenge = req.hash
      PROVE  /\ app' \in {"waiting", "panicked"}
             /\ \/ UNCHANGED s2c
                \/ \E a : /\ link = "up" /\ s2c' = Append(s2c, a) /\ a.seq = n
                          /\ IsToken(a) => /\ req.op = "GetPlatformToken" /\ req.hash.of \in given
                                           /\ a.resp.token.challenge = req.hash
  <2> USE Zenon
  <2> DEFINE a == PSAResponse(ret, resp, StoreMetadata(n, req))
  <2>1. a.seq = n /\ a.ret = ret /\ a.resp = resp
    BY DEF PSAResponse, StoreMetadata
  <2>2. /\ app' \in {"waiting", "panicked"}
        /\ UNCHANGED s2c \/ (link = "up" /\ s2c' = Append(s2c, a))
    BY <1>6 DEF SendResponse
  <2> HIDE DEF a
  <2> QED
    BY <1>6, <2>1, <2>2 DEF IsToken
<1>7. ASSUME NEW req, NEW n, Serve(req, n), req.op = "ExtendMeasurement" => req.lock \in BOOLEAN
      PROVE  Served(req, n)
  <2> USE Zenon
  <2> DEFINE meta == StoreMetadata(n, req)
             op == req.op
  <2>1. ASSUME UNCHANGED <<dak, given>>
        PROVE  given \subseteq given' /\ (dak' # None => dak'.key \in given')
    BY <2>1 DEF GivenOK
  <2>2. ASSUME NEW err, Refuse(err, op, meta) PROVE Served(req, n)
    BY <1>6, <2>1, <2>2, SMTT(30) DEF Refuse, Served
  <2>3. CASE ServeGetDAK(req, meta)
    <3> DEFINE k == DelegatedKey("Bits384", "Sha256")
    <3>1. SendResponse("Ok", [key |-> k.key], op, meta) /\ dak' = k /\ k.key \in given'
          /\ given \subseteq given' /\ UNCHANGED slots
      BY <2>3 DEF ServeGetDAK
    <3> HIDE DEF k
    <3>2. "token" \notin DOMAIN [key |-> k.key]
      OBVIOUS
    <3> QED
      BY <1>6, <3>1, <3>2, SMTT(30) DEF Served
  <2>4. CASE ServeGetPlatformToken(req, meta)
    <3>1. CASE GetPlatformTokenError(req.hash) # "Ok"
      BY <2>2, <2>4, <3>1 DEF ServeGetPlatformToken
    <3>2. CASE GetPlatformTokenError(req.hash) = "Ok"
      <4> DEFINE resp == [token |-> PlatformToken(req.hash)]
      <4>1. op = "GetPlatformToken" /\ SendResponse("Ok", resp, op, meta) /\ UNCHANGED <<slots, dak, given>>
        BY <2>4, <3>2 DEF ServeGetPlatformToken
      <4>2. dak # None /\ req.hash = PublicKeyHash(dak.hashAlgo, dak.key)
        BY <3>2 DEF GetPlatformTokenError
      <4>3. req.hash.of \in given
        BY <4>2, SMTT(30) DEF PublicKeyHash, GivenOK
      <4>4. resp.token.challenge = req.hash
        BY DEF PlatformToken
      <4> HIDE DEF resp
      <4> QED
        BY <1>6, <2>1, <4>1, <4>3, <4>4, SMTT(30) DEF Served
    <3> QED
      BY <3>1, <3>2
  <2>5. CASE ServeExtendMeasurement(req, meta)
    <3>1. CASE ExtendMeasurementError(req.slot, req.m) # "Ok"
      BY <2>2, <2>5, <3>1 DEF ServeExtendMeasurement
    <3>2. CASE ExtendMeasurementError(req.slot, req.m) = "Ok"
      <4> DEFINE i == req.slot
                 s == slots[i]
                 t == IF s.populated THEN ExtendSlot(s, req.m, req.lock)
                                     ELSE InitializeSlot(s, req.m, req.lock)
      <4>1. /\ op = "ExtendMeasurement" /\ SendResponse("Ok", None, op, meta)
            /\ slots' = [slots EXCEPT ![i] = t] /\ UNCHANGED <<dak, given>>
        BY <2>5, <3>2 DEF ServeExtendMeasurement, ExtendMeasurement
      <4>2. i \in Slot /\ ~s.locked
        BY <3>2 DEF ExtendMeasurementError
      <4>3. SlotOK(s) /\ req.lock \in BOOLEAN /\ IsSeq(s.value)
        BY <1>5, <1>7, <4>1, <4>2, ZenonT(60) DEF SlotOK
      <4>4. /\ Len(s.value) <= Len(Append(s.value, req.m.value))
            /\ SubSeq(Append(s.value, req.m.value), 1, Len(s.value)) = s.value
        <5>1. /\ Len(s.value) \in Nat /\ Len(Append(s.value, req.m.value)) = Len(s.value) + 1
              /\ SubSeq(Append(s.value, req.m.value), 1, Len(s.value)) = s.value
          BY <4>3, SeqFacts, ZenonT(60)
        <5> QED
          BY <5>1, SMTT(30)
      <4>5. SlotOK(t) /\ SlotStep(s, t)
        <5> HIDE DEF s
        <5>1. CASE s.populated
          BY <1>2, <4>2, <4>3, <4>4, <5>1, SMTT(30) DEF SlotStep
        <5>2. CASE ~s.populated
          BY <1>2, <4>2, <4>3, <5>2 DEF SlotStep
        <5> QED
          BY <5>1, <5>2
      <4> HIDE DEF t
      <4> QED
        BY <1>6, <2>1, <4>1, <4>2, <4>5 DEF Served
    <3> QED
      BY <3>1, <3>2
  <2>6. CASE ServeReadMeasurement(req, meta)
    <3> DEFINE resp == [m |-> EncodeMeasurement(slots[req.slot]), locked |-> slots[req.slot].locked]
    <3>1. \/ \E err : Refuse(err, op, meta)
          \/ SendResponse("Ok", resp, op, meta) /\ UNCHANGED <<slots, dak, given>>
      BY <2>6 DEF ServeReadMeasurement
    <3>2. "token" \notin DOMAIN resp
      OBVIOUS
    <3> HIDE DEF resp
    <3> QED
      BY <1>6, <2>1, <2>2, <3>1, <3>2, SMTT(30) DEF Served
  <2>7. CASE ServeGetVHuk(req, meta)
    <3> DEFINE resp == [vhuk |-> IF req.id = "VHUK_A" THEN AuthorityVhuk ELSE MeasurementVhuk]
    <3>1. SendResponse("Ok", resp, op, meta) /\ UNCHANGED <<slots, dak, given>>
      BY <2>7 DEF ServeGetVHuk
    <3>2. "token" \notin DOMAIN resp
      OBVIOUS
    <3> HIDE DEF resp
    <3> QED
      BY <1>6, <2>1, <3>1, <3>2, SMTT(30) DEF Served
  <2>8. ASSUME NEW err, ServeUnconverted(err, meta) PROVE Served(req, n)
    BY <2>1, <2>8 DEF ServeUnconverted, Served
  <2> QED
    BY <1>7, <2>2, <2>3, <2>4, <2>5, <2>6, <2>7, <2>8 DEF Serve
<1>8. ASSUME UNCHANGED slots PROVE SlotsStep
  BY <1>5, <1>8, Zenon DEF SlotsStep, SlotStep
<1>9. /\ Kept /\ UNCHANGED slots => SlotsOK'
      /\ Kept /\ UNCHANGED <<dak, given>> => GivenOK'
  BY Zenon DEF Kept, SlotsOK, GivenOK
\* Lengths, and what is in an empty queue.
<1>10. /\ Len(c2s) \in Nat /\ Len(s2c) \in Nat /\ Len(buf) \in Nat /\ Len(client.unsent) \in Nat
       /\ (c2s = <<>> <=> Len(c2s) = 0) /\ (s2c = <<>> <=> Len(s2c) = 0)
       /\ (buf = <<>> <=> Len(buf) = 0) /\ (client.unsent = <<>> <=> Len(client.unsent) = 0)
       /\ IsSeq(<<>>) /\ Len(<<>>) = 0 /\ Range(<<>>) = {}
       /\ MaxSeq \in Nat /\ MaxLinks \in Nat /\ client.seq \in Nat
  BY SeqFacts, HesAssumption, SMTT(30), Zenon DEF QueuesOK
<1>11. ASSUME Connect \/ ConnectFails PROVE HesCore' /\ Kept /\ SlotsStep
  <2> USE Zenon
  <2>1. UNCHANGED <<slots, dak, boot, persistent, msgMetadata, buf, c2s, s2c, client, links>>
    BY <1>11 DEF Connect, ConnectFails
  <2>2. QueuesOK' /\ Kept /\ SlotsStep /\ SlotsOK'
    BY <1>8, <1>9, <2>1 DEF QueuesOK, Kept, InFlight, Answers
  <2>3. CASE /\ app = "connecting" /\ link = "listening" /\ link' = "up" /\ app' = "waiting"
             /\ given' = {} /\ short' = FALSE
    <3>1. /\ buf = <<>> /\ c2s = <<>> /\ s2c = <<>> /\ client.unsent = <<>> /\ client.waiting = None
          /\ dak = None
      BY <2>3 DEF AppOK
    <3>2. InFlight' = {} /\ Answers' = {}
      BY <1>10, <2>1, <3>1 DEF InFlight, Answers
    <3>3. Matched'
      BY <1>10, <2>1, <3>1, <3>2, SMTT(30) DEF Matched
    <3> QED
      BY <2>1, <2>2, <2>3, <3>1, <3>2, <3>3 DEF AppOK, AppState, GivenOK
  <2>4. CASE app = "connecting" /\ app' = "stopped" /\ UNCHANGED <<link, given, short>>
    <3>1. Matched' /\ GivenOK'
      BY <1>9, <2>1, <2>2, <2>4 DEF Matched, InFlight, Answers
    <3> QED
      BY <2>1, <2>2, <2>4, <3>1 DEF AppOK, AppState
  <2>5. HesCore' /\ Kept /\ SlotsStep
    BY <1>11, <2>2, <2>3, <2>4 DEF Connect, ConnectFails
  <2> QED
    BY <2>5
<1>12. ASSUME PeerListens PROVE HesCore' /\ Kept /\ SlotsStep
  <2> USE Zenon
  <2>1. /\ UNCHANGED <<slots, dak, boot, persistent, app, msgMetadata, buf, given, short>>
        /\ c2s' = <<>> /\ s2c' = <<>> /\ link' = "listening" /\ links' = links + 1
        /\ links < MaxLinks /\ app = "connecting"
        /\ client' = [client EXCEPT !.unsent = <<>>, !.waiting = None]
    BY <1>12 DEF PeerListens
  <2>2. /\ DOMAIN client' = {"seq", "unsent", "waiting", "splits"} /\ client'.seq = client.seq
        /\ client'.unsent = <<>> /\ client'.waiting = None
    BY <2>1 DEF QueuesOK
  <2>3. QueuesOK'
    BY <1>10, <2>1, <2>2, SMTT(30) DEF QueuesOK
  <2>4. Kept
    BY <1>10, <2>1, <2>2 DEF Kept, InFlight, Answers
  <2>5. AppOK'
    BY <1>10, <2>1, <2>2, SMTT(30) DEF AppOK
  <2>6. Matched'
    BY <2>1 DEF Matched
  <2> QED
    BY <1>8, <1>9, <2>1, <2>3, <2>4, <2>5, <2>6
<1>13. ASSUME PeerLeaves PROVE HesCore' /\ Kept /\ SlotsStep
  <2> USE Zenon
  <2>1. /\ UNCHANGED <<slots, dak, boot, persistent, app, msgMetadata, buf, links, given, short>>
        /\ c2s' \in {c2s, <<>>} /\ s2c' = <<>> /\ link = "up" /\ link' \in {"eof", "broken"}
        /\ client' = [client EXCEPT !.unsent = <<>>, !.waiting = None]
    BY <1>13 DEF PeerLeaves
  <2>2. /\ DOMAIN client' = {"seq", "unsent", "waiting", "splits"} /\ client'.seq = client.seq
        /\ client'.unsent = <<>> /\ client'.waiting = None
    BY <2>1 DEF QueuesOK
  <2>3. QueuesOK'
    BY <1>10, <2>1, <2>2, SMTT(30) DEF QueuesOK
  <2>4. Kept
    BY <1>10, <2>1, <2>2 DEF Kept, InFlight, Answers
  <2>5. AppOK'
    BY <2>1 DEF AppOK
  <2>6. Matched'
    BY <2>1 DEF Matched
  <2> QED
    BY <1>8, <1>9, <2>1, <2>3, <2>4, <2>5, <2>6
<1>14. ASSUME ClientSendsRest PROVE HesCore' /\ Kept /\ SlotsStep
  <2> USE Zenon
  <2>1. /\ UNCHANGED <<slots, dak, boot, persistent, app, msgMetadata, buf, link, s2c, links, given, short>>
        /\ c2s' = c2s \o client.unsent /\ client' = [client EXCEPT !.unsent = <<>>]
        /\ link = "up"
    BY <1>14 DEF ClientSendsRest
  <2>2. /\ DOMAIN client' = {"seq", "unsent", "waiting", "splits"} /\ client'.seq = client.seq
        /\ client'.unsent = <<>> /\ client'.waiting = client.waiting
    BY <2>1 DEF QueuesOK
  <2>3. /\ IsSeq(c2s') /\ Len(c2s') = Len(c2s) + Len(client.unsent)
        /\ Range(c2s') = Range(c2s) \cup Range(client.unsent)
    BY <2>1, SeqFacts, SMTT(30) DEF QueuesOK
  <2>4. QueuesOK'
    BY <1>10, <2>1, <2>2, <2>3, SMTT(30) DEF QueuesOK
  <2>5. Kept
    BY <1>10, <2>1, <2>2, <2>3 DEF Kept, InFlight, Answers
  <2>6. AppOK'
    BY <2>1 DEF AppOK
  <2>7. Matched'
    BY <1>10, <2>1, <2>2, <2>3, <2>5, SMTT(30) DEF Matched, Kept
  <2> QED
    BY <1>8, <1>9, <2>1, <2>4, <2>5, <2>6, <2>7
<1>15. ASSUME ClientReceives PROVE HesCore' /\ Kept /\ SlotsStep
  <2> USE Zenon
  <2>1. /\ UNCHANGED <<slots, dak, boot, persistent, app, msgMetadata, buf, link, c2s, links, given, short>>
        /\ s2c # <<>> /\ s2c' = Tail(s2c) /\ client' = [client EXCEPT !.waiting = None]
        /\ link = "up"
    BY <1>15 DEF ClientReceives
  <2>2. /\ DOMAIN client' = {"seq", "unsent", "waiting", "splits"} /\ client'.seq = client.seq
        /\ client'.unsent = client.unsent /\ client'.waiting = None
    BY <2>1 DEF QueuesOK
  <2>3. IsSeq(s2c') /\ Len(s2c') = Len(s2c) - 1 /\ Range(s2c') \subseteq Range(s2c)
    BY <2>1, SeqFacts DEF QueuesOK
  <2>4. QueuesOK'
    BY <1>10, <2>1, <2>2, <2>3, SMTT(30) DEF QueuesOK
  <2>5. Kept
    BY <2>1, <2>2, <2>3 DEF Kept, InFlight, Answers
  <2>6. AppOK'
    BY <2>1 DEF AppOK
  <2>7. Matched'
    <3> SUFFICES ASSUME ~short PROVE Matched'
      BY <2>1 DEF Matched
    <3>1. InFlight = {} /\ Len(s2c) = 1 /\ Len(buf) + Len(c2s) + Len(client.unsent) <= 2
      BY <2>1 DEF Matched
    <3>2. InFlight' = {} /\ s2c' = <<>> /\ Answers' = {}
      <4>1. s2c' = <<>>
        BY <2>3, <3>1, SeqFacts, SMTT(30)
      <4> QED
        BY <1>10, <2>5, <3>1, <4>1 DEF Kept, Answers
    <3> QED
      BY <2>1, <2>2, <3>1, <3>2, ZenonT(60) DEF Matched
  <2> QED
    BY <1>8, <1>9, <2>1, <2>4, <2>5, <2>6, <2>7
<1>16. ASSUME NEW req, ClientSends(req), req.op = "ExtendMeasurement" => req.lock \in BOOLEAN
       PROVE  /\ HesCore' /\ SlotsStep /\ Answers' = Answers
              /\ \A p \in InFlight' : p \in InFlight \/ p.req = req
  <2> USE Zenon
  <2> DEFINE n == client.seq + 1
             head == [seq |-> n, req |-> req, part |-> "head"]
             tail == [seq |-> n, req |-> req, part |-> "tail"]
  <2>1. /\ UNCHANGED <<slots, dak, boot, persistent, app, msgMetadata, buf, link, s2c, links, given, short>>
        /\ link = "up" /\ client.waiting = None /\ client.unsent = <<>> /\ client.seq < MaxSeq
    BY <1>16 DEF ClientSends
  <2>2. \/ /\ c2s' = Append(c2s, head)
           /\ client' = [seq |-> n, unsent |-> <<tail>>, waiting |-> n, splits |-> client.splits + 1]
        \/ /\ c2s' = c2s \o <<head, tail>>
           /\ client' = [client EXCEPT !.seq = n, !.waiting = n]
    BY <1>16 DEF ClientSends
  <2>3. head.seq = n /\ head.req = req /\ tail.seq = n /\ tail.req = req
    OBVIOUS
  <2>4. /\ n \in 0 .. MaxSeq /\ n = client.seq + 1 /\ n # None
    BY <1>10, <2>1, HesAssumption, SMTT(30)
  <2> HIDE DEF n, head, tail
  <2>5. /\ DOMAIN client' = {"seq", "unsent", "waiting", "splits"} /\ client'.seq = n
        /\ client'.waiting = n
        /\ IsSeq(c2s') /\ IsSeq(client'.unsent)
        /\ Len(c2s') + Len(client'.unsent) = Len(c2s) + 2
        /\ Len(c2s') \in Nat /\ Len(client'.unsent) \in Nat
        /\ Range(c2s') \cup Range(client'.unsent) = Range(c2s) \cup {head, tail}
    <3>0. ASSUME NEW s, NEW x, IsSeq(s)
          PROVE  IsSeq(Append(s, x)) /\ Len(Append(s, x)) = Len(s) + 1
                 /\ Range(Append(s, x)) = Range(s) \cup {x}
      BY <3>0, SeqFacts
    <3> DEFINE none == <<>>
               h1 == Append(none, head)
               t1 == Append(none, tail)
               ht == Append(h1, tail)
    <3>1. /\ IsSeq(none) /\ Len(none) = 0 /\ Range(none) = {}
          /\ t1 = <<tail>> /\ ht = <<head, tail>>
      <4>1. t1 = <<tail>>
        BY SMTT(30)
      <4>2. ht = <<head, tail>>
        <5>1. <<head, tail>> = Append(Append(<<>>, head), tail)
          BY SMTT(30)
        <5> QED
          BY <5>1
      <4> QED
        BY <1>10, <4>1, <4>2
    <3> HIDE DEF none
    <3>2. /\ IsSeq(t1) /\ Len(t1) = 1 /\ Range(t1) = {tail}
          /\ IsSeq(ht) /\ Len(ht) = 2 /\ Range(ht) = {head, tail}
      <4>1. IsSeq(h1) /\ IsSeq(t1)
        BY <3>0, <3>1
      <4>2. Len(h1) = Len(none) + 1 /\ Len(t1) = Len(none) + 1
        BY <3>0, <3>1
      <4>3. Range(h1) = Range(none) \cup {head} /\ Range(t1) = Range(none) \cup {tail}
        BY <3>0, <3>1
      <4> HIDE DEF h1, t1
      <4>4. IsSeq(ht)
        BY <3>0, <4>1
      <4>5. Len(ht) = Len(h1) + 1
        BY <3>0, <4>1
      <4>6. Range(ht) = Range(h1) \cup {tail}
        BY <3>0, <4>1
      <4> HIDE DEF ht
      <4>7. Len(t1) = 1 /\ Len(ht) = 2
        BY <3>1, <4>2, <4>5
      <4>8. Range(t1) = {tail} /\ Range(ht) = {head, tail}
        BY <3>1, <4>3, <4>6
      <4> QED
        BY <4>1, <4>4, <4>7, <4>8
    <3> HIDE DEF t1, ht
    <3>3. CASE /\ c2s' = Append(c2s, head)
               /\ client' = [seq |-> n, unsent |-> <<tail>>, waiting |-> n, splits |-> client.splits + 1]
      <4>1. IsSeq(c2s') /\ Len(c2s') = Len(c2s) + 1 /\ Range(c2s') = Range(c2s) \cup {head}
        BY <3>0, <3>3 DEF QueuesOK
      <4>2. /\ DOMAIN client' = {"seq", "unsent", "waiting", "splits"} /\ client'.seq = n
            /\ client'.waiting = n /\ client'.unsent = t1
        BY <3>1, <3>3
      <4>3. Len(c2s') + Len(client'.unsent) = Len(c2s) + 2
        <5>1. Len(client'.unsent) = 1 /\ Len(c2s') = Len(c2s) + 1 /\ Len(c2s) \in Nat
          BY <1>10, <3>2, <4>1, <4>2
        <5> QED
          BY <5>1, SMTT(30)
      <4>4. Range(c2s') \cup Range(client'.unsent) = Range(c2s) \cup {head, tail}
        BY <3>2, <4>1, <4>2, ZenonT(60)
      <4> QED
        BY <1>10, <3>2, <4>1, <4>2, <4>3, <4>4, SMTT(30)
    <3>4. CASE /\ c2s' = c2s \o <<head, tail>>
               /\ client' = [client EXCEPT !.seq = n, !.waiting = n]
      <4>1. c2s' = c2s \o ht /\ IsSeq(c2s)
        BY <3>1, <3>4 DEF QueuesOK
      <4>2. IsSeq(c2s') /\ Len(c2s') = Len(c2s) + Len(ht)
        <5>1. ASSUME NEW s, NEW t, IsSeq(s), IsSeq(t) PROVE IsSeq(s \o t) /\ Len(s \o t) = Len(s) + Len(t)
          BY <5>1, SeqFacts, SMTT(30)
        <5> QED
          BY <3>2, <4>1, <5>1
      <4>3. Range(c2s') = Range(c2s) \cup Range(ht)
        BY <3>2, <4>1, SeqFacts
      <4>4. /\ DOMAIN client' = {"seq", "unsent", "waiting", "splits"} /\ client'.seq = n
            /\ client'.waiting = n /\ client'.unsent = <<>>
        BY <2>1, <3>4 DEF QueuesOK
      <4> QED
        BY <1>10, <3>2, <4>2, <4>3, <4>4, SMTT(30)
    <3> QED
      BY <2>2, <3>3, <3>4
  <2>6. QueuesOK'
    <3>1. Len(s2c) + Len(c2s) + Len(buf) <= 2 * client.seq
      BY <1>10, SMTT(30) DEF QueuesOK
    <3>2. Len(s2c) + Len(c2s') + Len(buf) + Len(client'.unsent) <= 2 * n
      <4>1. /\ Len(s2c) + (Len(c2s') + Len(client'.unsent)) + Len(buf) <= 2 * client.seq + 2
            /\ 2 * n = 2 * client.seq + 2
        <5>1. 2 * n = 2 * client.seq + 2
          BY <1>10, <2>4, SMTT(30)
        <5>2. Len(s2c) + (Len(c2s) + 2) + Len(buf) <= 2 * client.seq + 2
          BY <1>10, <3>1, SMTT(30)
        <5> QED
          BY <2>5, <5>1, <5>2
      <4> QED
        BY <1>10, <2>5, <4>1, SMTT(30)
    <3> QED
      BY <2>1, <2>4, <2>5, <3>2 DEF QueuesOK
  <2>7. InFlight' = InFlight \cup {head, tail} /\ Answers' = Answers
    BY <1>10, <2>1, <2>5 DEF InFlight, Answers
  <2>8. AppOK'
    BY <2>1 DEF AppOK
  <2>9. SlotsOK' /\ GivenOK'
    BY <1>16, <2>1, <2>3, <2>7 DEF SlotsOK, GivenOK
  <2>10. Matched'
    <3> SUFFICES ASSUME ~short PROVE Matched'
      BY <2>1 DEF Matched
    <3>1. InFlight = {} /\ s2c = <<>>
      BY <2>1 DEF Matched
    <3>2. Range(c2s) = {} /\ Range(buf) = {} /\ Answers' = {}
      BY <1>10, <2>7, <3>1 DEF InFlight, Answers
    <3>3. Len(c2s) = 0 /\ Len(buf) = 0
      <4>1. IsSeq(c2s) /\ IsSeq(buf)
        BY DEF QueuesOK
      <4>2. ASSUME NEW s, IsSeq(s), Range(s) = {}, Len(s) \in Nat PROVE Len(s) = 0
        <5>1. 1 \notin 1 .. Len(s)
          BY <4>2, SeqFacts
        <5> QED
          BY <4>2, <5>1, SMTT(30)
      <4> QED
        BY <1>10, <3>2, <4>1, <4>2
    <3>4. \A p \in InFlight' : p.seq = client'.waiting
      BY <2>3, <2>5, <2>7, <3>1
    <3>5. Len(buf') + Len(c2s') + Len(client'.unsent) <= 2
      BY <2>1, <2>5, <3>3, SMTT(30)
    <3> QED
      BY <2>1, <2>4, <2>5, <3>1, <3>2, <3>4, <3>5 DEF Matched
  <2> QED
    BY <1>8, <2>1, <2>3, <2>6, <2>7, <2>8, <2>9, <2>10
\* The connection has ended.
<1>17. ASSUME ResetAndReconnect, link \in {"eof", "broken"},
              UNCHANGED <<boot, c2s, link, s2c, client, links, given, short>>
       PROVE  HesCore' /\ Kept /\ SlotsStep
  <2> USE Zenon
  <2>1. /\ buf' = <<>> /\ app' \in {"connecting", "stopped"}
        /\ \/ app' = "connecting" /\ slots' = BootSlots(boot) /\ dak' = None
           \/ app' = "stopped" /\ UNCHANGED <<slots, dak>>
    BY <1>17 DEF ResetAndReconnect, HesReset
  <2>2. QueuesOK'
    BY <1>10, <1>17, <2>1, SMTT(30) DEF QueuesOK
  <2>3. Kept
    BY <1>10, <1>17, <2>1 DEF Kept, InFlight, Answers
  <2>4. SlotsOK' /\ SlotsStep
    <3>1. CASE app' = "connecting" /\ slots' = BootSlots(boot)
      BY <1>3, <2>3, <3>1 DEF SlotsOK, SlotsStep, Kept
    <3> QED
      BY <1>8, <1>9, <2>1, <2>3, <3>1
  <2>5. GivenOK'
    BY <1>17, <2>1, <2>3 DEF GivenOK, Kept
  <2>6. AppOK' /\ Matched'
    BY <1>17, <2>1 DEF AppOK, AppState, Matched
  <2> QED
    BY <2>2, <2>3, <2>4, <2>5, <2>6
<1>18. ASSUME c2s # <<>>, app \in {"waiting", "reading"}, app' = "reading", c2s' = <<>>,
              buf' = IF app = "reading" THEN buf \o c2s ELSE c2s,
              UNCHANGED <<slots, dak, boot, link, s2c, client, links, given, short>>
       PROVE  HesCore' /\ Kept /\ SlotsStep
  <2> USE Zenon
  <2>1. IsSeq(c2s) /\ IsSeq(buf)
    BY DEF QueuesOK
  <2>2. IsSeq(buf') /\ Len(buf') = Len(buf) + Len(c2s) /\ Range(buf') = Range(buf) \cup Range(c2s)
    <3>1. CASE app = "reading"
      BY <1>18, <2>1, <3>1, SeqFacts, SMTT(30)
    <3>2. CASE app = "waiting"
      <4>1. buf = <<>>
        BY <3>2 DEF AppOK
      <4> QED
        BY <1>10, <1>18, <2>1, <3>2, <4>1, SMTT(30)
    <3> QED
      BY <1>18, <3>1, <3>2
  <2>3. buf' # <<>>
    BY <1>10, <1>18, <2>2, SMTT(30)
  <2>4. QueuesOK'
    <3>1. Len(s2c) + Len(c2s) + Len(buf) + Len(client.unsent) <= 2 * client.seq
      BY DEF QueuesOK
    <3>2. /\ Len(s2c) \in Nat /\ Len(c2s) \in Nat /\ Len(buf) \in Nat /\ Len(client.unsent) \in Nat
          /\ Len(buf') \in Nat /\ client.seq \in Nat
      BY <1>10, <2>2, HesAssumption, SMTT(30) DEF QueuesOK
    <3>3. Len(s2c) + 0 + Len(buf') + Len(client.unsent) <= 2 * client.seq
      <4>1. Len(buf') = Len(buf) + Len(c2s)
        BY <2>2
      <4>2. \A a, b, c, d, e, n \in Nat : a + b + c + d <= 2 * n /\ e = c + b => a + 0 + e + d <= 2 * n
        BY SMTT(30)
      <4> QED
        BY <3>1, <3>2, <4>1, <4>2
    <3>4. UNCHANGED <<s2c, client>> /\ IsSeq(c2s') /\ Len(c2s') = 0
      BY <1>10, <1>18
    <3> QED
      BY <2>2, <3>3, <3>4 DEF QueuesOK
  <2>5. Kept
    BY <1>10, <1>18, <2>2 DEF Kept, InFlight, Answers
  <2>6. AppOK'
    BY <1>18, <2>3 DEF AppOK, AppState
  <2>7. Matched'
    <3> SUFFICES ASSUME ~short, link = "up" PROVE Matched'
      BY <1>18 DEF Matched
    <3>1. Len(buf') + Len(c2s') + Len(client'.unsent) = Len(buf) + Len(c2s) + Len(client.unsent)
      <4>1. Len(c2s') = 0 /\ Len(client'.unsent) = Len(client.unsent)
        BY <1>10, <1>18
      <4> QED
        BY <1>10, <2>2, <4>1, SMTT(30)
    <3>2. Len(buf) + Len(c2s) + Len(client.unsent) <= 2
      BY Zenon DEF Matched
    <3> QED
      BY <1>18, <2>5, <3>1, <3>2 DEF Matched, Kept
  <2> QED
    BY <1>8, <1>9, <1>18, <2>4, <2>5, <2>6, <2>7
<1>19. ASSUME ReadFirst \/ ReadMore PROVE HesCore' /\ Kept /\ SlotsStep
  <2> USE Zenon
  <2>1. CASE ReadFirst
    BY <1>17, <1>18, <2>1 DEF ReadFirst
  <2>2. CASE ReadMore
    BY <1>17, <1>18, <2>2 DEF ReadMore
  <2> QED
    BY <1>19, <2>1, <2>2
<1>20. ASSUME ReadEnds(Misread)
       PROVE  /\ HesCore' /\ InFlight' \subseteq InFlight /\ SlotsStep
              /\ \A a \in Answers' : a \in Answers \/ (IsToken(a) =>
                    \/ \E p \in InFlight : p.req.op = "GetPlatformToken" /\ a.resp.token.challenge = p.req.hash
                    \/ \E req \in Misread : req.op = "GetPlatformToken")
  <2> USE Zenon
  <2>1. /\ app = "reading" /\ c2s = <<>> /\ buf' = <<>> /\ buf # <<>>
        /\ UNCHANGED <<boot, persistent, link, c2s, client, links>>
    BY <1>20 DEF ReadEnds, AppOK
  <2>2. InFlight' \subseteq InFlight
    BY <1>10, <2>1 DEF InFlight
  <2>3. buf[1] \in InFlight
    <3>1. 1 \in 1 .. Len(buf) /\ IsSeq(buf)
      BY <1>10, <2>1, SMTT(30) DEF QueuesOK
    <3>2. buf[1] \in Range(buf)
      BY <3>1, SeqFacts
    <3> QED
      BY <3>2 DEF InFlight
  \* One request is served.
  <2>4. ASSUME NEW req, NEW n, Serve(req, n), req.op = "ExtendMeasurement" => req.lock \in BOOLEAN,
               ~short' /\ link = "up" => n = client.waiting /\ ~short /\ client.unsent = <<>>
        PROVE  /\ HesCore' /\ SlotsStep
               /\ \A a \in Answers' : a \in Answers \/ (IsToken(a) =>
                     req.op = "GetPlatformToken" /\ a.resp.token.challenge = req.hash)
    <3>1. Served(req, n)
      BY <1>7, <2>4
    <3>2. /\ IsSeq(s2c') /\ Len(s2c') \in Nat /\ Len(s2c') <= Len(s2c) + 1
          /\ \A a \in Answers' : a \in Answers \/ (a.seq = n /\ (IsToken(a) =>
                /\ req.op = "GetPlatformToken" /\ a.resp.token.challenge = req.hash
                /\ req.hash.of \in given))
          /\ link # "up" => s2c' = s2c
      <4>1. CASE UNCHANGED s2c
        <5>1. IsSeq(s2c') /\ Answers' = Answers
          BY <4>1 DEF QueuesOK, Answers
        <5>2. Len(s2c') \in Nat /\ Len(s2c') <= Len(s2c) + 1
          BY <1>10, <4>1, SMTT(30)
        <5> QED
          BY <4>1, <5>1, <5>2
      <4>2. ASSUME NEW a, link = "up", s2c' = Append(s2c, a), a.seq = n,
                   IsToken(a) => /\ req.op = "GetPlatformToken" /\ req.hash.of \in given
                                 /\ a.resp.token.challenge = req.hash
            PROVE  IsSeq(s2c') /\ Len(s2c') = Len(s2c) + 1 /\ Answers' = Answers \cup {a}
        BY <4>2, SeqFacts DEF QueuesOK, Answers
      <4>3. ASSUME NEW a, link = "up", s2c' = Append(s2c, a), a.seq = n,
                   IsToken(a) => /\ req.op = "GetPlatformToken" /\ req.hash.of \in given
                                 /\ a.resp.token.challenge = req.hash
            PROVE  Len(s2c') \in Nat /\ Len(s2c') <= Len(s2c) + 1
        BY <1>10, <4>2, <4>3, SMTT(30)
      <4>4. CASE \E a : /\ link = "up" /\ s2c' = Append(s2c, a) /\ a.seq = n
                        /\ IsToken(a) => /\ req.op = "GetPlatformToken" /\ req.hash.of \in given
                                         /\ a.resp.token.challenge = req.hash
        <5> PICK a : /\ link = "up" /\ s2c' = Append(s2c, a) /\ a.seq = n
                     /\ IsToken(a) => /\ req.op = "GetPlatformToken" /\ req.hash.of \in given
                                      /\ a.resp.token.challenge = req.hash
          BY <4>4
        <5>1. IsSeq(s2c') /\ Answers' = Answers \cup {a}
          BY <4>2
        <5>2. Len(s2c') \in Nat /\ Len(s2c') <= Len(s2c) + 1
          BY <4>3
        <5> QED
          BY <5>1, <5>2
      <4> QED
        BY <3>1, <4>1, <4>4 DEF Served
    <3>3. QueuesOK'
      <4>1. Len(buf) >= 1
        BY <1>10, <2>1, SMTT(30)
      <4> QED
        <5>1. Len(s2c) + Len(c2s) + Len(buf) + Len(client.unsent) <= 2 * client.seq
          BY DEF QueuesOK
        <5>2. Len(s2c') + Len(c2s) + 0 + Len(client.unsent) <= 2 * client.seq
          <6>1. /\ Len(s2c) \in Nat /\ Len(c2s) \in Nat /\ Len(buf) \in Nat
                /\ Len(client.unsent) \in Nat /\ client.seq \in Nat
            BY <1>10, HesAssumption DEF QueuesOK
          <6>2. Len(s2c') \in Nat /\ Len(s2c') <= Len(s2c) + 1
            BY <3>2
          <6> QED
            BY <1>0, <4>1, <5>1, <6>1, <6>2
        <5>3. UNCHANGED <<c2s, client>> /\ buf' = <<>> /\ IsSeq(buf') /\ Len(buf') = 0
          BY <1>10, <2>1
        <5> QED
          BY <3>2, <5>2, <5>3 DEF QueuesOK
    <3>4. SlotsOK' /\ SlotsStep
      <4>1. CASE UNCHANGED slots
        BY <1>8, <2>2, <4>1 DEF SlotsOK
      <4>2. ASSUME NEW i \in Slot, NEW t, slots' = [slots EXCEPT ![i] = t], SlotOK(t),
                   SlotStep(slots[i], t)
            PROVE  SlotsOK' /\ SlotsStep
        <5>1. /\ DOMAIN slots' = Slot
              /\ \A j \in Slot : SlotOK(slots'[j]) /\ SlotStep(slots[j], slots'[j])
          BY <1>5, <4>2
        <5> QED
          BY <2>2, <5>1 DEF SlotsOK, SlotsStep, SlotStep
      <4> QED
        BY <3>1, <4>1, <4>2 DEF Served
    <3>5. GivenOK'
      BY <3>1, <3>2 DEF GivenOK, Served
    <3>6. AppOK'
      BY <2>1, <3>1, <3>2 DEF AppOK, AppState, Served
    <3>7. Matched'
      <4> SUFFICES ASSUME ~short', link = "up" PROVE Matched'
        BY <2>1 DEF Matched
      <4>1. n = client.waiting /\ ~short /\ client.unsent = <<>>
        BY <2>4
      <4>2. InFlight' = {} /\ Len(buf') + Len(c2s') + Len(client'.unsent) <= 2
        <5>1. buf' = <<>> /\ c2s' = <<>> /\ client'.unsent = <<>>
          BY <2>1, <4>1
        <5> QED
          BY <1>10, <5>1, SMTT(30) DEF InFlight
      <4>3. client.waiting # None /\ s2c = <<>> /\ Answers = {}
        BY <1>10, <2>3, <4>1 DEF Matched, Answers
      <4>4. \A a \in Answers' : a.seq = client.waiting
        BY <3>2, <4>1, <4>3
      <4>5. s2c' # <<>> => Len(s2c') = 1
        <5>1. Len(s2c') \in Nat /\ Len(s2c') <= 0 + 1
          BY <1>10, <3>2, <4>3
        <5>2. s2c' # <<>> => Len(s2c') # 0
          BY <3>2, SeqFacts
        <5> QED
          BY <1>0, <5>1, <5>2
      <4> QED
        BY <2>1, <4>2, <4>3, <4>4, <4>5 DEF Matched
    <3> QED
      BY <3>2, <3>3, <3>4, <3>5, <3>6, <3>7
  <2>5. CASE Whole(buf) /\ Serve(buf[1].req, buf[1].seq) /\ UNCHANGED short
    <3>1. buf[1].req.op = "ExtendMeasurement" => buf[1].req.lock \in BOOLEAN
      BY <2>3 DEF SlotsOK
    <3>2. ~short /\ link = "up" => buf[1].seq = client.waiting /\ client.unsent = <<>>
      <4> SUFFICES ASSUME ~short, link = "up" PROVE buf[1].seq = client.waiting /\ client.unsent = <<>>
        OBVIOUS
      <4>1. buf[1].seq = client.waiting /\ Len(buf) + Len(c2s) + Len(client.unsent) <= 2
        BY <2>3 DEF Matched
      <4>2. Len(buf) >= 2
        BY <2>5 DEF Whole
      <4>3. Len(client.unsent) = 0
        <5>1. Len(client.unsent) \in Nat /\ Len(c2s) \in Nat /\ Len(buf) \in Nat
          BY <1>10
        <5> QED
          BY <1>0, <4>1, <4>2, <5>1
      <4> QED
        BY <1>10, <4>1, <4>3
    <3> QED
      BY <2>2, <2>3, <2>4, <2>5, <3>1, <3>2
  <2>6. ASSUME NEW req \in Misread, Serve(req, 0), short' = TRUE
        PROVE  /\ HesCore' /\ SlotsStep
               /\ \A a \in Answers' : a \in Answers \/ (IsToken(a) => req.op = "GetPlatformToken")
    BY <2>4, <2>6, PlatformAssumption
  <2>7. CASE short' = TRUE /\ app' = "panicked" /\ UNCHANGED <<slots, dak, given, s2c, msgMetadata>>
    <3>1. Kept
      BY <2>2, <2>7 DEF Kept, Answers
    <3>2. QueuesOK'
      <4>1. UNCHANGED <<c2s, s2c, client>> /\ buf' = <<>> /\ IsSeq(buf') /\ Len(buf') = 0
        BY <1>10, <2>1, <2>7
      <4>2. Len(s2c) + Len(c2s) + 0 + Len(client.unsent) <= 2 * client.seq
        BY <1>10, SMTT(30) DEF QueuesOK
      <4> QED
        BY <4>1, <4>2 DEF QueuesOK
    <3>3. AppOK' /\ Matched'
      BY <2>1, <2>7 DEF AppOK, AppState, Matched
    <3> QED
      BY <1>8, <1>9, <2>7, <3>1, <3>2, <3>3 DEF Kept
  <2> QED
    BY <1>20, <2>2, <2>5, <2>6, <2>7 DEF ReadEnds
\* The calls of setup_el3_ifc: the key comes first, and a token is the one asked for.
<1>21. ASSUME NEW ok, NEW resp, SmcReturns(ok, resp), TokensForRmm, Kept,
              ok /\ "token" \in DOMAIN resp =>
                 rmmBoot # "key" /\ resp.token.challenge = DakPubHash
       PROVE  Bound'
  <2> USE Zenon
  <2>1. /\ rmmBoot = "key" => UNCHANGED platToken
        /\ rmmBoot # "key" => rmmBoot' # "key" /\ UNCHANGED attestKey
        /\ platToken' \in {platToken, Junk} \/ (ok /\ "token" \in DOMAIN resp /\ platToken' = resp.token)
    BY <1>21 DEF SmcReturns, GetRealmAttestKey, GetPlatToken, GetVhuk, UnknownErrorCode, Vhuk
  <2>2. Bound
    BY <1>21
  <2>3. CASE rmmBoot = "key"
    BY <1>21, <2>1, <2>2, <2>3 DEF Bound, Kept
  <2>4. CASE rmmBoot # "key"
    <3>1. UNCHANGED DakPubHash
      BY <2>1, <2>4 DEF DakPubHash
    <3>2. platToken' \notin {None, Junk} => platToken'.challenge = DakPubHash
      BY <1>21, <2>1, <2>2 DEF Bound
    <3> QED
      BY <1>21, <2>1, <2>2, <2>4, <3>1, <3>2 DEF Bound, Kept
  <2> QED
    BY <2>3, <2>4
<1>22. ASSUME UNCHANGED <<rmmBoot, attestKey, platToken>>, Kept, TokensForRmm PROVE Bound'
  BY <1>22, Zenon DEF Bound, Kept, DakPubHash
<1>23. ASSUME UNCHANGED hesVars, TokensForRmm => Bound', own' \in 0 .. MaxOwn, smc' \in BOOLEAN
       PROVE  HesInv' /\ [SlotsStep]_hesVars
  <2> USE Zenon
  <2>1. UNCHANGED <<slots, dak, boot, app, buf, link, c2s, s2c, client, links, given, short>>
    BY <1>23 DEF hesVars
  <2>2. HesCore'
    BY <2>1 DEF QueuesOK, AppOK, GivenOK, SlotsOK, Matched, InFlight, Answers
  <2> QED
    BY <1>23, <2>2
<1>24. ASSUME UNCHANGED hesVars PROVE Kept
  BY <1>24, Zenon DEF hesVars, Kept, InFlight, Answers
<1>25. ASSUME UNCHANGED vars PROVE HesInv' /\ [SlotsStep]_hesVars
  BY <1>22, <1>23, <1>24, <1>25, Zenon DEF vars, rmmVars
<1>26. ASSUME RealmStep /\ UNCHANGED <<hesVars, smc, own>> PROVE HesInv' /\ [SlotsStep]_hesVars
  <2> USE Zenon
  <2>1. UNCHANGED <<rmmBoot, attestKey, platToken>>
    BY <1>26 DEF RealmStep, RealmCreate, RealmMeasure, RealmActivate, MeasurementExtend,
                 AttestTokenInit, AttestTokenContinue
  <2> QED
    <3>1. TokensForRmm => Bound'
      BY <1>22, <1>24, <1>26, <2>1
    <3> QED
      BY <1>23, <1>26, <3>1
<1>27. ASSUME SmcFails PROVE HesInv' /\ [SlotsStep]_hesVars
  <2> USE Zenon
  <2>1. SmcReturns(FALSE, None) /\ UNCHANGED hesVars /\ UNCHANGED own /\ smc' = FALSE
    BY <1>27 DEF SmcFails
  <2>2. TokensForRmm => Bound'
    BY <1>21, <1>24, <2>1
  <2> QED
    BY <1>23, <2>1, <2>2
<1>28. ASSUME SmcAnswered \/ El3Receives PROVE HesInv' /\ [SlotsStep]_hesVars
  <2> USE Zenon
  <2>1. ClientReceives /\ UNCHANGED own /\ smc' \in BOOLEAN
    BY <1>28 DEF SmcAnswered, El3Receives
  <2>2. HesCore' /\ Kept /\ SlotsStep
    BY <1>15, <2>1
  <2>3. ASSUME SmcAnswered, TokensForRmm PROVE Bound'
    <3> DEFINE ok == Head(s2c).ret = "Ok" /\ Head(s2c).resp # None
               resp == Head(s2c).resp
    <3>1. SmcReturns(ok, resp)
      BY <2>3 DEF SmcAnswered
    <3>2. Head(s2c) \in Answers
      <4>1. s2c # <<>> /\ IsSeq(s2c)
        BY <2>1 DEF ClientReceives, QueuesOK
      <4>2. Head(s2c) = s2c[1] /\ 1 \in 1 .. Len(s2c)
        <5>1. Head(s2c) = s2c[1]
          BY <4>1, SeqFacts
        <5> QED
          BY <1>10, <4>1, <5>1, SMTT(30)
      <4>3. s2c[1] \in Range(s2c)
        BY <4>1, <4>2, SeqFacts
      <4> QED
        BY <4>2, <4>3 DEF Answers
    <3>3. ok /\ "token" \in DOMAIN resp => rmmBoot # "key" /\ resp.token.challenge = DakPubHash
      BY <2>3, <3>2 DEF Bound, IsToken
    <3> HIDE DEF ok, resp
    <3> QED
      BY <1>21, <2>2, <2>3, <3>1, <3>3
  <2>4. ASSUME El3Receives, TokensForRmm PROVE Bound'
    BY <1>22, <2>2, <2>4 DEF El3Receives, rmmVars
  <2> QED
    BY <1>28, <2>1, <2>2, <2>3, <2>4
<1>29. ASSUME Peer PROVE HesInv' /\ [SlotsStep]_hesVars
  <2> USE Zenon
  <2>1. HesCore' /\ Kept /\ SlotsStep
    BY <1>11, <1>12, <1>13, <1>14, <1>29 DEF Peer, PeerStep
  <2> QED
    BY <1>22, <1>29, <2>1 DEF Peer, rmmVars
<1>30. ASSUME Hes PROVE HesInv' /\ [SlotsStep]_hesVars
  <2> USE Zenon
  <2>1. UNCHANGED <<rmmBoot, attestKey, platToken, smc, own>>
    BY <1>30 DEF Hes, rmmVars
  <2>2. CASE Connect \/ ReadFirst \/ ReadMore
    BY <1>11, <1>19, <1>22, <2>1, <2>2
  <2>3. CASE ReadEnds(Misread)
    <3>1. ASSUME TokensForRmm PROVE Bound'
      BY <1>20, <2>1, <2>3, <3>1 DEF Bound, TokensForRmm, DakPubHash
    <3> QED
      BY <1>20, <2>1, <2>3, <3>1
  <2> QED
    BY <1>30, <2>2, <2>3 DEF Hes, HesStep
<1>31. ASSUME NEW req, ClientSends(req), req.op = "ExtendMeasurement" => req.lock \in BOOLEAN,
              TokensForRmm => (req.op = "GetPlatformToken" => rmmBoot # "key" /\ req.hash = DakPubHash),
              UNCHANGED rmmVars, own' \in 0 .. MaxOwn, smc' \in BOOLEAN
       PROVE  HesInv' /\ [SlotsStep]_hesVars
  <2> USE Zenon
  <2>1. HesCore' /\ SlotsStep /\ Answers' = Answers /\ \A p \in InFlight' : p \in InFlight \/ p.req = req
    BY <1>16, <1>31
  <2>2. TokensForRmm => Bound'
    BY <1>31, <2>1 DEF Bound, DakPubHash, rmmVars
  <2> QED
    BY <1>31, <2>1, <2>2
<1>32. ASSUME SmcCalls PROVE HesInv' /\ [SlotsStep]_hesVars
  <2> USE Zenon
  <2>1. /\ BootRequest.op # "ExtendMeasurement"
        /\ BootRequest.op = "GetPlatformToken" => rmmBoot # "key" /\ BootRequest.hash = DakPubHash
    BY DEF BootRequest
  <2> QED
    BY <1>31, <1>32, <2>1 DEF SmcCalls
<1>33. ASSUME El3Sends PROVE HesInv' /\ [SlotsStep]_hesVars
  <2> USE Zenon
  <2>1. PICK req \in Requests : ClientSends(req)
    BY <1>33 DEF El3Sends
  <2>2. own' \in 0 .. MaxOwn /\ UNCHANGED <<rmmVars, smc>>
    BY <1>33, PlatformAssumption, SMTT(30) DEF El3Sends
  <2>3. TokensForRmm => req.op # "GetPlatformToken"
    BY DEF TokensForRmm
  <2> QED
    BY <1>31, <2>1, <2>2, <2>3, PlatformAssumption
<1> QED
  BY <1>25, <1>26, <1>27, <1>28, <1>29, <1>30, <1>32, <1>33, Zenon DEF Next

\* For any boot measurements, requests and misreadings, the state of the HES, of
\* its connection, of EL3 and of the RMM is what the code's types and asserts allow.
THEOREM PlatformTypeCorrect == Spec => []TypeOK
<1>1. HesInv /\ RmmInv => TypeOK
  <2> USE Zenon
  <2> SUFFICES ASSUME HesInv, RmmInv PROVE TypeOK
    OBVIOUS
  <2>1. /\ Len(c2s) \in Nat /\ Len(s2c) \in Nat /\ Len(buf) \in Nat /\ Len(client.unsent) \in Nat
        /\ Len(s2c) + Len(c2s) + Len(buf) + Len(client.unsent) <= 2 * client.seq
        /\ client.seq \in 0 .. MaxSeq /\ MaxSeq \in Nat
    BY SeqFacts, HesAssumption DEF HesInv, HesCore, QueuesOK
  <2>2. Len(s2c) + Len(c2s) + Len(buf) <= 2 * MaxSeq
    <3>1. \A a, b, c, d, n, k \in Nat : a + b + c + d <= 2 * n /\ n <= k => a + b + c <= 2 * k
      BY SMTT(30)
    <3>2. client.seq \in Nat /\ client.seq <= MaxSeq
      BY <2>1, SMTT(30)
    <3> QED
      BY <2>1, <3>1, <3>2
  <2>3. HesTypeOK
    BY <2>1, <2>2 DEF HesTypeOK, HesInv, HesCore, AppOK, SlotsOK, SlotOK
  <2>4. RmmTypeOK
    BY DEF RmmTypeOK, RmmInv, RealmRec, AttRec
  <2> QED
    BY <2>3, <2>4 DEF TypeOK, HesInv
<1> QED
  BY <1>1, HesInvariant, RmmInvariant, PTL

\* For any requests, a platform token on its way to the client is over a key that
\* the HES delegated on the same connection, and every connection starts from what
\* the hardware reported.
THEOREM TokenOfThisConnectionCorrect == Spec => []TokenOfThisConnection
<1>1. HesInv => TokenOfThisConnection
  <2> USE Zenon
  <2> SUFFICES ASSUME HesInv, NEW i \in 1 .. Len(s2c) PROVE s2c[i] \in Answers
    BY DEF TokenOfThisConnection, HesInv, HesCore, GivenOK, AppOK, IsToken
  <2> QED
    BY SeqFacts DEF HesInv, HesCore, QueuesOK, Answers
<1> QED
  BY <1>1, HesInvariant, PTL

\* For any requests, split or not, and any losses of the connection, the answer that
\* reaches the client is to the request it waits on, as long as no read of the
\* connection was cut short.
THEOREM ReplyMatchesCorrect == Spec => []ReplyMatches
<1>1. HesInv => ReplyMatches
  <2> USE Zenon
  <2> SUFFICES ASSUME HesInv, NEW i \in 1 .. Len(s2c) PROVE s2c[i] \in Answers
    BY Zenon DEF ReplyMatches, HesInv, HesCore, Matched
  <2> QED
    BY SeqFacts DEF HesInv, HesCore, QueuesOK, Answers
<1> QED
  BY <1>1, HesInvariant, PTL

\* For any number of slots and any requests, also misread ones, a locked slot does
\* not change while a connection lasts, and a populated one is only ever added to.
THEOREM SlotsOnlyExtendedCorrect == Spec => SlotsOnlyExtended
BY HesInvariant, PTL DEF SlotsOnlyExtended

\* If EL3 asks for platform tokens only for the RMM (external), the platform part of
\* every token that a realm gets is over the key that signs the realm part.
THEOREM TokenBoundCorrect == ASSUME TokensForRmm PROVE Spec => []TokenBound
<1>1. HesInv /\ RmmInv => TokenBound
  <2> USE Zenon
  <2> SUFFICES ASSUME HesInv, RmmInv PROVE TokenBound
    OBVIOUS
  <2>1. platToken \notin {None, Junk} => platToken.challenge = PublicKeyHash("Sha256", attestKey)
    BY TokensForRmm DEF HesInv, Bound, DakPubHash
  <2>2. ASSUME NEW c \in Rec, NEW i \in 1 .. Len(got[c])
        PROVE  /\ got[c][i].token.platform = platToken
               /\ got[c][i].token.realm.claims.rak = attestKey
    <3> DEFINE a == att[c]
               r == rlm[OwnerOf[c]]
               m == RemsIn(got[c][i])
    <3>1. got[c] # <<>> /\ PartsOK(got[c], a, r, platToken, attestKey)
      BY SeqFacts DEF RmmInv
    <3>2. got[c][i].token = TokenOf(platToken, attestKey, a.challenge, r, m)
      BY <3>1 DEF PartsOK
    <3>3. ASSUME NEW p, NEW k, NEW ch, NEW x, NEW y
          PROVE  TokenOf(p, k, ch, x, y).platform = p /\ TokenOf(p, k, ch, x, y).realm.claims.rak = k
      BY DEF TokenOf
    <3> HIDE DEF m, r, a
    <3>4. /\ TokenOf(platToken, attestKey, a.challenge, r, m).platform = platToken
          /\ TokenOf(platToken, attestKey, a.challenge, r, m).realm.claims.rak = attestKey
      BY <3>3, SMTT(30)
    <3> QED
      BY <3>2, <3>4
  <2> QED
    BY <2>1, <2>2 DEF TokenBound
<1> QED
  BY <1>1, HesInvariant, RmmInvariant, PTL
=============================================================================
