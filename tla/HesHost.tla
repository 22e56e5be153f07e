------------------------------- MODULE HesHost -------------------------------
(***************************************************************************)
(* islet-hes-host-app: the process that serves the HES to the simulated    *)
(* machine over one TCP connection.  One thread reads a request, calls the *)
(* library and writes the answer; when the connection ends it resets the   *)
(* HES and connects again (persistent mode) or stops.                      *)
(*                                                                         *)
(* A message travels in two pieces, and read_stream takes whatever arrives *)
(* before 50 ms of silence as one request.  The machine at the other end   *)
(* (EL3's PSA client) is external: it sends one request and waits.         *)
(***************************************************************************)
EXTENDS IsletHes

CONSTANTS
    MaxSeq,        \* bound: requests sent
    MaxSplits,     \* bound: requests whose pieces are sent apart
    MaxLinks       \* bound: connections

ASSUME HesAssumption ==
    /\ None \notin Nat
    /\ SlotCount \in Nat /\ MaxSeq \in Nat /\ MaxSplits \in Nat /\ MaxLinks \in Nat

VARIABLES
    boot,          \* the boot measurements of the hardware
    persistent,    \* the option --persistent
    app,           \* where the process is
    msgMetadata,   \* CommsChannel.msg_metadata
    buf,           \* what read_stream has collected
    link,          \* the connection
    c2s, s2c,      \* the bytes in flight, as pieces, and the answers
    client,        \* EL3's PSA client: its last request, the piece unsent, what it waits for
    links,         \* connections so far
    given,         \* history: keys handed out over this connection
    short          \* history: a read of this connection ended inside a message

hesVars == <<slots, dak, boot, persistent, app, msgMetadata, buf, link, c2s, s2c, client, links,
             given, short>>

(* The hardware of the application: two boot measurements. *)
DummyHW ==
    <<[signer |-> "signer1", signerLen |-> 32, swType |-> "BL1", swVersion |-> "0.1.0",
       algorithm |-> "Sha256", value |-> "bl1", valueLen |-> 32, utf8 |-> TRUE],
      [signer |-> "signer2", signerLen |-> 32, swType |-> "BL2", swVersion |-> "1.9.0+0",
       algorithm |-> "Sha512", value |-> "bl2", valueLen |-> 64, utf8 |-> TRUE]>>

AppState == {"connecting", "waiting", "reading", "stopped", "panicked"}

HesHostInit ==
    /\ boot \in BootTables /\ persistent \in BOOLEAN
    /\ HesInit(boot)
    /\ app = IF BootTableAccepted(boot) THEN "connecting" ELSE "panicked"
    /\ msgMetadata = None /\ buf = <<>> /\ link = "down" /\ c2s = <<>> /\ s2c = <<>>
    /\ client = [seq |-> 0, unsent |-> <<>>, waiting |-> None, splits |-> 0]
    /\ links = 0 /\ given = {} /\ short = FALSE

-----------------------------------------------------------------------------
(* The other end of the connection, and the network *)

(* External: the machine starts, or opens its port again. *)
PeerListens ==
    /\ app = "connecting" /\ link # "listening" /\ links < MaxLinks
    /\ link' = "listening" /\ links' = links + 1
    /\ client' = [client EXCEPT !.unsent = <<>>, !.waiting = None]
    /\ c2s' = <<>> /\ s2c' = <<>>
    /\ UNCHANGED <<slots, dak, boot, persistent, app, msgMetadata, buf, given, short>>

(* External: the machine is shut down ("eof"), or the connection breaks. *)
PeerLeaves ==
    /\ link = "up"
    /\ \/ link' = "eof" /\ UNCHANGED c2s
       \/ link' = "broken" /\ c2s' = <<>>
    /\ client' = [client EXCEPT !.unsent = <<>>, !.waiting = None]
    /\ s2c' = <<>>
    /\ UNCHANGED <<slots, dak, boot, persistent, app, msgMetadata, buf, links, given, short>>

(* External: a request is sent; its first piece may travel alone. *)
ClientSends(req) ==
    /\ link = "up" /\ client.waiting = None /\ client.unsent = <<>> /\ client.seq < MaxSeq
    /\ LET n == client.seq + 1
           piece(p) == [seq |-> n, req |-> req, part |-> p]
       IN  \/ /\ client.splits < MaxSplits /\ c2s' = Append(c2s, piece("head"))
              /\ client' = [seq |-> n, unsent |-> <<piece("tail")>>, waiting |-> n,
                            splits |-> client.splits + 1]
           \/ /\ c2s' = c2s \o <<piece("head"), piece("tail")>>
              /\ client' = [client EXCEPT !.seq = n, !.waiting = n]
    /\ UNCHANGED <<slots, dak, boot, persistent, app, msgMetadata, buf, link, s2c, links,
                   given, short>>

ClientSendsRest ==
    /\ link = "up" /\ client.unsent # <<>>
    /\ c2s' = c2s \o client.unsent /\ client' = [client EXCEPT !.unsent = <<>>]
    /\ UNCHANGED <<slots, dak, boot, persistent, app, msgMetadata, buf, link, s2c, links,
                   given, short>>

ClientReceives ==
    /\ link = "up" /\ s2c # <<>>
    /\ s2c' = Tail(s2c) /\ client' = [client EXCEPT !.waiting = None]
    /\ UNCHANGED <<slots, dak, boot, persistent, app, msgMetadata, buf, link, c2s, links,
                   given, short>>

-----------------------------------------------------------------------------
(* CommsChannel *)

(* connect(): in persistent mode a refused connection is tried again. *)
Connect ==
    /\ app = "connecting" /\ link = "listening"
    /\ link' = "up" /\ app' = "waiting" /\ given' = {} /\ short' = FALSE
    /\ UNCHANGED <<slots, dak, boot, persistent, msgMetadata, buf, c2s, s2c, client, links>>

(* Otherwise the process ends, and so it does, in either mode, with any other error of
   the network. *)
ConnectFails ==
    /\ app = "connecting" /\ app' = "stopped"
    /\ UNCHANGED <<slots, dak, boot, persistent, msgMetadata, buf, link, c2s, s2c, client, links,
                   given, short>>

(* The connection has ended: main() resets the HES before it connects again. *)
ResetAndReconnect ==
    /\ IF persistent THEN HesReset(boot) /\ app' = "connecting"
                     ELSE UNCHANGED <<slots, dak>> /\ app' = "stopped"
    /\ buf' = <<>>

(* read_stream(): the first read blocks; end of stream or an error ends it. *)
ReadFirst ==
    /\ app = "waiting"
    /\ \/ /\ c2s # <<>> /\ app' = "reading" /\ buf' = c2s /\ c2s' = <<>>
          /\ UNCHANGED <<slots, dak>>
       \/ /\ c2s = <<>> /\ link \in {"eof", "broken"} /\ ResetAndReconnect /\ UNCHANGED c2s
    /\ UNCHANGED <<boot, persistent, msgMetadata, link, s2c, client, links, given, short>>

(* The reads that follow wait for 50 ms each. *)
ReadMore ==
    /\ app = "reading"
    /\ \/ /\ c2s # <<>> /\ buf' = buf \o c2s /\ c2s' = <<>>
          /\ UNCHANGED <<slots, dak, app>>
       \/ /\ c2s = <<>> /\ link = "broken" /\ ResetAndReconnect /\ UNCHANGED c2s
    /\ UNCHANGED <<boot, persistent, msgMetadata, link, s2c, client, links, given, short>>

(* PSARequest::de takes the first message of the buffer and does not look at
   its length: cut short, it is completed with whatever lies behind it. *)
Whole(b) == Len(b) >= 2 /\ b[1].part = "head" /\ b[2] = [b[1] EXCEPT !.part = "tail"]

(* A request's form: "good", with a "value" that is refused, or of a "length" that
   is (text that is not UTF-8 counts with it).  The two requests for measured boot
   are structures of their own, and nothing is answered if they do not parse. *)
SerdeFails(req) == req.form = "length"

(* The parameters of the key are not looked at. *)
ConvertAttestationRequest(req) ==
    IF req.form # "length" THEN "Ok"
    ELSE IF req.op = "GetDAK" THEN "GenericError" ELSE "InvalidArgument"
ConvertVhukRequest(req) ==
    CASE req.form = "length" -> "GenericError"
      [] req.form = "value"  -> "InvalidArgument"
      [] OTHER               -> "Ok"
ConvertMeasuredBootRequest(req) ==
    IF SerdeFails(req) THEN "PsaSerdeError"
    ELSE IF req.form = "value" \/ (req.op = "ReadMeasurement" /\ req.slot \notin Slot)
    THEN "InvalidArgument" ELSE "Ok"

(* convert_request(): the errors that are found before the HES is called. *)
ConvertRequest(req) ==
    CASE req.handle = "unknown"                             -> "ServiceHandleError"
      [] req.op \in {"GetDAK", "GetPlatformToken"}          -> ConvertAttestationRequest(req)
      [] req.op \in {"ReadMeasurement", "ExtendMeasurement"} -> ConvertMeasuredBootRequest(req)
      [] req.op = "GetVHuk"                                 -> ConvertVhukRequest(req)
      [] OTHER                                              -> "ProgrammerError"

(* Variant: metadata left by a request that was ignored is kept. *)
StoreMetadataOnce(n, req) ==
    IF msgMetadata # None THEN msgMetadata ELSE [seq |-> n, out |-> req.out]
(* convert_request() stores what the answer will need before anything else. *)
StoreMetadata(n, req) == [seq |-> n, out |-> req.out]

(* The texts of a measurement have fields of a fixed size to fill. *)
ReadResponse(m) ==
    TextLen[m.title] = SW_TYPE_MAX_SIZE /\ TextLen[m.version] = VERSION_MAX_SIZE

(* convert_response(): a panic if the answer does not fit the client's buffers,
   if none is due but one is expected, or if the texts of a measurement that is
   read do not fill their fields exactly. *)
ConvertResponsePanics(ret, resp, op, meta) ==
    /\ ret = "Ok"
    /\ IF resp = None THEN meta.out # "none"
       ELSE meta.out # "large" \/ (op = "ReadMeasurement" /\ ~ReadResponse(resp.m))

PSAResponse(ret, resp, meta) == [seq |-> meta.seq, ret |-> ret, resp |-> resp]

(* send_response() takes the metadata.  What is written after the peer has left
   is lost; an error of the write shows in the next read as well. *)
SendResponse(ret, resp, op, meta) ==
    /\ msgMetadata' = None
    /\ IF ConvertResponsePanics(ret, resp, op, meta)
       THEN app' = "panicked" /\ UNCHANGED s2c
       ELSE /\ app' = "waiting"
            /\ s2c' = IF link = "up" THEN Append(s2c, PSAResponse(ret, resp, meta)) ELSE s2c

-----------------------------------------------------------------------------
(* process_requests(): one request, from the parsed message to the answer *)

(* Variant: a request that cannot be served is dropped. *)
RefuseSilently(ret, op, meta) ==
    app' = "waiting" /\ msgMetadata' = meta /\ UNCHANGED <<s2c, slots, dak, given>>
Refuse(ret, op, meta) == SendResponse(ret, None, op, meta) /\ UNCHANGED <<slots, dak, given>>

(* The key's parameters in the request are ignored. *)
ServeGetDAK(req, meta) ==
    LET k == DelegatedKey("Bits384", "Sha256")
    IN  /\ req.op = "GetDAK"
        /\ dak' = k /\ given' = given \cup {k.key}
        /\ SendResponse("Ok", [key |-> k.key], req.op, meta)
        /\ UNCHANGED slots

ServeGetPlatformToken(req, meta) ==
    /\ req.op = "GetPlatformToken"
    /\ LET err == GetPlatformTokenError(req.hash)
       IN  IF err # "Ok" THEN Refuse(err, req.op, meta)
           ELSE /\ SendResponse("Ok", [token |-> PlatformToken(req.hash)], req.op, meta)
                /\ UNCHANGED <<slots, dak, given>>

ServeExtendMeasurement(req, meta) ==
    /\ req.op = "ExtendMeasurement"
    /\ LET err == ExtendMeasurementError(req.slot, req.m)
       IN  IF err # "Ok" THEN Refuse(err, req.op, meta)
           ELSE /\ ExtendMeasurement(req.slot, req.m, req.lock)
                /\ SendResponse("Ok", None, req.op, meta)
                /\ UNCHANGED <<dak, given>>

ServeReadMeasurement(req, meta) ==
    /\ req.op = "ReadMeasurement"
    /\ LET err == ReadMeasurementError(req.slot)
       IN  IF err # "Ok" THEN Refuse(err, req.op, meta)
           ELSE IF \/ req.swTypeLen < TextLen[slots[req.slot].swType]
                   \/ req.versionLen < TextLen[slots[req.slot].swVersion]
           THEN Refuse("InvalidArgument", req.op, meta)
           ELSE /\ SendResponse("Ok", [m |-> EncodeMeasurement(slots[req.slot]),
                                       locked |-> slots[req.slot].locked], req.op, meta)
                /\ UNCHANGED <<slots, dak, given>>

ServeGetVHuk(req, meta) ==
    /\ req.op = "GetVHuk"
    /\ SendResponse("Ok", [vhuk |-> IF req.id = "VHUK_A" THEN AuthorityVhuk
                                                         ELSE MeasurementVhuk], req.op, meta)
    /\ UNCHANGED <<slots, dak, given>>

(* A request for another service is dropped without an answer; one that does not
   parse, or that the code calls a programmer's error, ends the process. *)
ServeUnconverted(err, meta) ==
    /\ app' = IF err = "ServiceHandleError" THEN "waiting" ELSE "panicked"
    /\ msgMetadata' = meta
    /\ UNCHANGED <<slots, dak, given, s2c>>

Serve(req, n) ==
    LET meta == StoreMetadata(n, req)
        err  == ConvertRequest(req)
    IN  CASE err = "Ok" -> \/ ServeGetDAK(req, meta)
                           \/ ServeGetPlatformToken(req, meta)
                           \/ ServeExtendMeasurement(req, meta)
                           \/ ServeReadMeasurement(req, meta)
                           \/ ServeGetVHuk(req, meta)
          [] err \in {"InvalidArgument", "GenericError"} -> Refuse(err, req.op, meta)
          [] OTHER -> ServeUnconverted(err, meta)

(* 50 ms of silence, or the end of the stream: the buffer is a request. *)
ReadEnds(requests) ==
    /\ app = "reading" /\ c2s = <<>> /\ link # "broken"
    /\ buf' = <<>>
    /\ \/ /\ Whole(buf) /\ Serve(buf[1].req, buf[1].seq) /\ UNCHANGED short
       \/ /\ ~Whole(buf) /\ short' = TRUE
          /\ \/ \E req \in requests : Serve(req, 0)
             \/ /\ app' = "panicked"
                /\ UNCHANGED <<slots, dak, given, s2c, msgMetadata>>
    /\ UNCHANGED <<boot, persistent, link, c2s, client, links>>

HesStep(requests) == Connect \/ ReadFirst \/ ReadMore \/ ReadEnds(requests)
PeerStep == PeerListens \/ PeerLeaves \/ ClientSendsRest \/ ConnectFails

-----------------------------------------------------------------------------
(* Properties *)

HesTypeOK ==
    /\ app \in AppState
    /\ link \in {"down", "listening", "up", "eof", "broken"}
    /\ DOMAIN slots = Slot
    /\ \A i \in Slot : /\ slots[i].populated \in BOOLEAN /\ slots[i].locked \in BOOLEAN
                        /\ slots[i].populated <=> slots[i].value # <<>>
    /\ client.seq \in 0 .. MaxSeq /\ links \in 0 .. MaxLinks
    /\ Len(s2c) + Len(c2s) + Len(buf) <= 2 * MaxSeq

(* MeasurementMgr::extend_measurement: while a connection lasts, a locked slot
   does not change at all, and a populated one keeps its signer and its algorithm
   and only ever has values added to those it was made of. *)
SlotsStep ==
    app' = "connecting" \/
    \A i \in Slot :
        /\ slots[i].locked => slots'[i] = slots[i]
        /\ slots[i].populated =>
              /\ slots'[i].signer = slots[i].signer
              /\ slots'[i].algorithm = slots[i].algorithm
              /\ Len(slots[i].value) <= Len(slots'[i].value)
              /\ SubSeq(slots'[i].value, 1, Len(slots[i].value)) = slots[i].value
SlotsOnlyExtended == [][SlotsStep]_hesVars

(* IsletHES::reset and get_platform_token: a platform token on its way to the
   client is over a key that was delegated on the same connection, never over one
   of an earlier connection, and the HES starts each connection from what the
   hardware reported. *)
TokenOfThisConnection ==
    /\ \A i \in 1 .. Len(s2c) :
          (s2c[i].ret = "Ok" /\ s2c[i].resp # None /\ "token" \in DOMAIN s2c[i].resp)
             => s2c[i].resp.token.challenge.of \in given
    /\ app = "connecting" => slots = BootSlots(boot) /\ dak = None

(* CommsChannel: as long as no read was cut short, the answer that reaches the
   client carries the number of the request the client is waiting on, also after
   requests that were ignored and left their metadata behind. *)
ReplyMatches ==
    (~short /\ link = "up") => \A i \in 1 .. Len(s2c) : s2c[i].seq = client.waiting
=============================================================================
