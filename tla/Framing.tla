------------------------------ MODULE Framing ------------------------------
(***************************************************************************)
(* Four loops that cut messages out of a TCP stream, which hands over what *)
(* was written in chunks of its own choice: the broker's handler on the    *)
(* signalling port and on the HTTP port (ziot_fake_cloud.py), the bridge's *)
(* RelayStream (ziot_rtp_bridge.py) and the relay's side of a publishing   *)
(* camera (ziot_relay.py).  One behaviour is one connection of one of them. *)
(*                                                                         *)
(* A byte is a small number and headers are shortened: a field is one       *)
(* symbol, so a signalling header is magic, cmd, len, seq (10 bytes in the *)
(* code, 5 here), a uid is one symbol in front of the body, a text line is *)
(* one symbol per token the code looks at.  What keeps its structure is    *)
(* all a boundary can cut: the two-byte magic, the blank line, the length, *)
(* the payload, the checksum and the end symbol.                           *)
(*                                                                         *)
(* A loop works through its buffer in passes, a message each, and reads    *)
(* again when a pass would change nothing.                                 *)
(***************************************************************************)
EXTENDS Integers, Sequences, SequencesExt

CONSTANT Conversations  \* what may be sent on a connection (bound), by loop

Lanes == {"sig", "http", "stream", "publisher"}

\* What a peer writes: its bytes, and its messages in order, the first and the
\* last byte of each and, in `said`, all that is owed once it was read.
Said(c, k) == IF k = 0 THEN <<>> ELSE c.messages[k].said
End(c, k) == IF k = 0 THEN 0 ELSE c.messages[k].last

IsConversation(c) ==
  /\ c.bytes \in Seq(Nat) /\ Len(c.messages) \in Nat
  /\ \A k \in 1..Len(c.messages) :
       /\ c.messages[k].last \in 1..Len(c.bytes)
       /\ c.messages[k].first \in 1..c.messages[k].last
       /\ \A j \in 1..(k - 1) : c.messages[j].last < c.messages[k].first

ASSUME ConversationAssumption ==
  \A ln \in Lanes : \A c \in Conversations[ln] : IsConversation(c)

M == 8              \* 0x86
EndSymbol == 7      \* 0x0D after the checksum
Blank == 5          \* half of the blank line that ends a head
Dollar == 6         \* "$"
Rtsp == 9           \* "R", of an RTSP status line
Verb == 11          \* GET, POST, ...
Target == 12        \* the target and HTTP/1.x
CloseHeader == 13   \* Connection: close
Announce == 14
Record == 15
Teardown == 16

\* Commands of the camera; 1 to 4 are the code's own numbers.
Register == 1
PullVideo == 2
AddressReport == 3
StatusQuery == 4
Clock == 17         \* 0x0021
PushVideo == 18     \* 0x0020
Config == 19        \* 0x1601

\* Status of an RTSP response.
Ok == 0
Unauthorized == 1
NotFound == 2

HeaderLen == 5
FrameMax == 13      \* SIG_FRAME_MAX

LowestOf(S) == CHOOSE x \in S : \A y \in S : x <= y
HighestOf(S) == CHOOSE x \in S : \A y \in S : y <= x

FirstOf(n, data) == SubSeq(data, 1, IF n <= Len(data) THEN n ELSE Len(data))
Beyond(n, data) == SubSeq(data, n + 1, Len(data))

-----------------------------------------------------------------------------
(* Signalling frames: the camera's connection to the broker.               *)

\* _xor, as a checksum of the same use.
Xor(bytes) == FoldSeq(LAMBDA b, sum : (b + sum) % 3, 0, bytes)

SignallingFrame(cmd, seq, body) ==
  LET head == <<M, M, cmd, Len(body), seq>> \o body
  IN  head \o <<Xor(head), EndSymbol>>

MagicsOf(data) == {i \in 1..(Len(data) - 1) : data[i] = M /\ data[i + 1] = M}

\* Not even a header after this magic: it may complete later.
ShortAt(data, i) == Len(data) - i + 1 < HeaderLen

\* The last byte of the frame whose header is at i.
EndAt(data, i) == i + HeaderLen + data[i + 3] + 1

FrameAt(data, i) ==
  /\ ~ShortAt(data, i)
  /\ HeaderLen + data[i + 3] + 2 <= FrameMax
  /\ EndAt(data, i) <= Len(data)
  /\ data[EndAt(data, i)] = EndSymbol
  /\ data[EndAt(data, i) - 1] = Xor(SubSeq(data, i, EndAt(data, i) - 2))

\* Where the scan stops: at a frame, or where one may still come.
StartsOf(data) == {i \in MagicsOf(data) : ShortAt(data, i) \/ FrameAt(data, i)}
StartOf(data) == LowestOf(StartsOf(data))
HasFrame(data) == StartsOf(data) # {} /\ ~ShortAt(data, StartOf(data))

\* Mutant of Waiting: the first half of a magic is dropped.
MutWaitingNoHalf(data) ==
  IF MagicsOf(data) # {}
  THEN SubSeq(data, HighestOf(MagicsOf(data)), Len(data))
  ELSE <<>>

\* What waits for the next read when the scan stopped nowhere.
Waiting(data) ==
  IF MagicsOf(data) # {}
  THEN SubSeq(data, HighestOf(MagicsOf(data)), Len(data))
  ELSE IF data # <<>> /\ Last(data) = M THEN <<M>> ELSE <<>>

\* split_signalling, a frame at a time: the frame at the front ...
FrameOf(data) == SubSeq(data, StartOf(data), EndAt(data, StartOf(data)))
AfterFrame(data) == Beyond(EndAt(data, StartOf(data)), data)
\* ... and the tail behind the last one.
TailOf(data) == IF StartsOf(data) = {} THEN Waiting(data)
                ELSE SubSeq(data, StartOf(data), Len(data))

\* The first symbol after the header is the uid.
DecodeSignalling(frame) ==
  LET named == SubSeq(frame, HeaderLen + 1, Len(frame) - 2)
  IN  [cmd |-> frame[3], seq |-> frame[5], uid |-> FirstOf(1, named),
       body |-> SubSeq(named, 2, Len(named))]

\* What goes to the camera: the command, the sequence number in the header and
\* the numbers in the body that name the frame it answers.
Reply(cmd, seq, names) == [reply |-> cmd, seq |-> seq, names |-> names]

VendorRegistrationAnswer(seq) == Reply("8000", seq, <<seq>>)
VendorTimeAnswer(seq) == Reply("8021", seq, <<>>)
VendorPullvideoAnswer(seq) == Reply("8001", seq, <<seq, PullVideo>>)
VendorStatusAnswer(seq) == Reply("8001", seq, <<seq, StatusQuery>>)
VendorPushvideoAnswer(seq) == Reply("8001", seq, <<0, PushVideo>>)
VendorConfigAnswer(seq) == Reply("8601", seq, <<>>)
\* The answer to a command without one of its own.
VendorAck(seq, cmd) == Reply("8001", seq, <<0, seq, cmd>>)

ReplyTo(cmd, seq) ==
  CASE cmd = Register -> VendorRegistrationAnswer(seq)
    [] cmd = Clock -> VendorTimeAnswer(seq)
    [] cmd = PullVideo -> VendorPullvideoAnswer(seq)
    [] cmd = StatusQuery -> VendorStatusAnswer(seq)
    [] cmd = PushVideo -> VendorPushvideoAnswer(seq)
    [] cmd = Config -> VendorConfigAnswer(seq)
    [] OTHER -> VendorAck(seq, cmd)

\* The entries of a status report, an id and a value each, as many as the
\* count says and the body holds; of two of one id the later one stands.
MediaStateId == 3
StatusEntries(body) ==
  {i \in 1..body[1] : 1 + 2 * i <= Len(body) /\ body[2 * i] = MediaStateId}

ParseStatusReport(body) ==
  IF body = <<>> \/ StatusEntries(body) = {} THEN <<>>
  ELSE <<[mediaState |-> body[1 + 2 * HighestOf(StatusEntries(body))]]>>

\* The public pair, the local pair and, from newer cameras, the registration
\* number the report answers.
ParseLocalAddrReport(body) ==
  IF Len(body) < 2 THEN <<>>
  ELSE <<[public |-> body[1], local |-> body[2],
          answers |-> IF Len(body) > 2 THEN body[3] ELSE 0]>>

\* _answer_camera: what one frame makes the broker record and send; a frame
\* that names no uid is ignored, an address report is not answered.
AnswerCamera(frame) ==
  LET d == DecodeSignalling(frame)
  IN  IF d.uid = <<>> THEN <<>>
      ELSE IF d.cmd = AddressReport THEN ParseLocalAddrReport(d.body)
      ELSE (IF d.cmd = StatusQuery THEN ParseStatusReport(d.body) ELSE <<>>)
           \o <<ReplyTo(d.cmd, d.seq)>>

-----------------------------------------------------------------------------
(* Heads: the text before a blank line, in HTTP and in RTSP.               *)

BlankLinesOf(data) == {i \in 1..(Len(data) - 1) :
                         data[i] = Blank /\ data[i + 1] = Blank}
HasHead(data) == BlankLinesOf(data) # {}
HeadOf(data) == SubSeq(data, 1, LowestOf(BlankLinesOf(data)) - 1)
AfterHead(data) == SubSeq(data, LowestOf(BlankLinesOf(data)) + 2, Len(data))

\* Content-Length, 0 without one or with one that is no number.
LengthIn(head, at) ==
  IF at <= Len(head) /\ head[at] \in 0..4 THEN head[at] ELSE 0

HttpRequest(headers, body) ==
  <<Verb, Target, Len(body)>> \o headers \o <<Blank, Blank>> \o body

LooksHttp(data) == Len(data) >= 2 /\ data[1] = Verb /\ data[2] = Target

\* `$`, channel, length, payload.
Interleaved(channel, payload) == <<Dollar, channel, Len(payload)>> \o payload

\* Mutant of HasInterleaved: the payload is what arrived with its header.
MutHasInterleavedHeader(data) == Len(data) >= 3

HasInterleaved(data) == Len(data) >= 3 /\ Len(data) >= 3 + data[3]
PayloadOf(data) == FirstOf(data[3], Beyond(3, data))
AfterInterleaved(data) == Beyond(3 + data[3], data)

RtspResponse(status, body) ==
  <<Rtsp, status, Len(body), Blank, Blank>> \o body
RtspRequest(method, body) == <<method, Len(body), Blank, Blank>> \o body

-----------------------------------------------------------------------------
(* A loop: its buffers, what it made of what it read and how far it is.    *)

Start ==
  [buf |-> <<>>, sigBuf |-> <<>>, stage |-> "first", out |-> <<>>, open |-> TRUE,
   retried |-> FALSE, sdp |-> <<>>, tracks |-> {}, channels |-> <<>>]

Closed(l) == [l EXCEPT !.open = FALSE]
Says(l, message) == [l EXCEPT !.out = Append(@, message)]
Left(l, rest) == [l EXCEPT !.buf = rest]

-----------------------------------------------------------------------------
(* handle: the broker's two ports.                                         *)

\* Mutant of BodyOf: the body is what arrived with the head.
MutBodyOfArrived(rest, length) ==
  [whole |-> TRUE, body |-> FirstOf(length, rest), rest |-> Beyond(length, rest)]

\* A body of the length the head announces.
BodyOf(rest, length) ==
  [whole |-> Len(rest) >= length, body |-> FirstOf(length, rest),
   rest |-> Beyond(length, rest)]

\* A request whose head and body are complete.
AnswerRequest(ln, l) ==
  LET head == HeadOf(l.buf)
      got == BodyOf(AfterHead(l.buf), LengthIn(head, 3))
      answered == Says(Left(l, got.rest), <<"request", got.body>>)
  IN  IF ~HasHead(l.buf) THEN l
      ELSE IF Len(head) < 2 THEN Closed(l)
      ELSE IF ~got.whole THEN l
      ELSE IF ln = "sig" THEN IF LooksHttp(head) THEN Closed(answered) ELSE Closed(l)
      ELSE IF CloseHeader \in ToSet(head) THEN Closed(answered) ELSE answered

\* The signalling port cuts every frame before it looks for a request.
SigPass(l) ==
  IF HasFrame(l.sigBuf)
  THEN [l EXCEPT !.sigBuf = AfterFrame(@), !.out = @ \o AnswerCamera(FrameOf(l.sigBuf))]
  ELSE IF TailOf(l.sigBuf) # l.sigBuf THEN [l EXCEPT !.sigBuf = TailOf(@)]
  ELSE AnswerRequest("sig", l)

-----------------------------------------------------------------------------
(* RelayStream: open negotiates the tracks, then comes interleaved media.  *)

\* The media sections of an SDP, a symbol each.
MediaSection ==
  [x \in 30..34 |->
     CASE x = 30 -> [kind |-> "video", fmts |-> {26}, rtpmap |-> {}]
       [] x = 31 -> [kind |-> "audio", fmts |-> {8, 0}, rtpmap |-> {}]
       [] x = 32 -> [kind |-> "audio", fmts |-> {97}, rtpmap |-> {<<97, "PCMU">>}]
       [] x = 33 -> [kind |-> "video", fmts |-> {96}, rtpmap |-> {<<96, "H264">>}]
       [] x = 34 -> [kind |-> "application", fmts |-> {96}, rtpmap |-> {}]]

\* The static payload type and the encoding the bridge decodes, by kind.
Decodable == [video |-> <<26, "JPEG">>, audio |-> <<0, "PCMU">>]

\* _choose_pt finds one.
Playable(sec) ==
  /\ sec.kind \in DOMAIN Decodable
  /\ \/ Decodable[sec.kind][1] \in sec.fmts
     \/ \E pt \in sec.fmts : <<pt, Decodable[sec.kind][2]>> \in sec.rtpmap

\* The sections to set up, by their place in the SDP.
ParseSdp(body) ==
  {k \in 1..Len(body) : /\ body[k] \in DOMAIN MediaSection
                        /\ Playable(MediaSection[body[k]])}

\* The interleaved channel of the k-th track set up is 2 * (k - 1).
KindOf(l, channel) ==
  IF channel % 2 = 0 /\ channel \div 2 < Len(l.channels)
  THEN l.channels[channel \div 2 + 1] ELSE "none"

RtpHeaderLen == 3   \* CSRC count, extension flag, padding flag

\* The payload behind the CSRCs and the extension, without the padding; empty
\* for a packet that is malformed.
RtpPayload(pkt) ==
  LET csrcs == RtpHeaderLen + pkt[1]
      cut == pkt[2] = 1 /\ Len(pkt) < csrcs + 1
      off == IF pkt[2] = 1 THEN csrcs + 1 + pkt[csrcs + 1] ELSE csrcs
      payload == Beyond(off, pkt)
      pad == Last(payload)
  IN  IF Len(pkt) < RtpHeaderLen \/ cut \/ Len(pkt) <= off THEN <<>>
      ELSE IF pkt[3] = 0 THEN payload
      ELSE IF pad = 0 \/ pad > Len(payload) THEN <<>>
      ELSE FirstOf(Len(payload) - pad, payload)

\* ingest_rtp_media, up to what the reassembler makes of a video packet.
IngestRtpMedia(l, kind, pkt) ==
  IF kind = "none" \/ RtpPayload(pkt) = <<>> THEN l
  ELSE Says(l, <<kind, RtpPayload(pkt)>>)

Consumes(l) ==
  IF ~HasInterleaved(l.buf) THEN l
  ELSE IngestRtpMedia(Left(l, AfterInterleaved(l.buf)), KindOf(l, l.buf[2]),
                      PayloadOf(l.buf))

\* open, at a 200: the next request is sent, or there is nothing to play.
Granted(l, body) ==
  LET k == LowestOf(l.tracks)
  IN  IF l.stage = "first" THEN [l EXCEPT !.stage = "describe"]
      ELSE IF l.stage = "describe"
      THEN IF ParseSdp(body) = {} THEN Closed(l)
           ELSE [l EXCEPT !.stage = "setup", !.sdp = body, !.tracks = ParseSdp(body)]
      ELSE IF l.stage = "setup"
      THEN [l EXCEPT !.channels = Append(@, MediaSection[l.sdp[k]].kind),
                     !.tracks = @ \ {k},
                     !.stage = IF l.tracks = {k} THEN "play" ELSE "setup"]
      ELSE [l EXCEPT !.stage = "pump"]

\* A challenge is answered once, any other refusal gives the stream up.
Answered(l, status, body) ==
  IF status = Ok THEN Granted([l EXCEPT !.retried = FALSE], body)
  ELSE IF status = Unauthorized /\ ~l.retried THEN [l EXCEPT !.retried = TRUE]
  ELSE Closed(l)

\* _read_response: what a request waits for or, in the pump, the reply to a
\* keepalive.
ReadsResponse(l) ==
  LET head == HeadOf(l.buf)
      got == BodyOf(AfterHead(l.buf), LengthIn(head, 3))
  IN  IF ~HasHead(l.buf) THEN l
      ELSE IF Len(head) < 2 THEN Closed(l)
      ELSE IF ~got.whole THEN l
      ELSE IF l.stage = "pump" THEN Left(l, got.rest)
      ELSE Answered(Left(l, got.rest), head[2], got.body)

Pump(l) ==
  IF l.buf = <<>> THEN l
  ELSE IF l.buf[1] = Dollar THEN Consumes(l) ELSE ReadsResponse(l)

-----------------------------------------------------------------------------
(* The relay's side of a camera: ANNOUNCE, RECORD, then interleaved media. *)

Announced(l) ==
  LET head == HeadOf(l.buf)
      got == BodyOf(AfterHead(l.buf), LengthIn(head, 2))
  IN  IF ~HasHead(l.buf) \/ ~got.whole THEN l
      ELSE Says([Left(l, got.rest) EXCEPT !.stage = "loop"], <<"sdp", got.body>>)

\* A request before RECORD; what is not known is answered 501.
Requested(l) ==
  LET head == HeadOf(l.buf)
      rest == Left(l, AfterHead(l.buf))
  IN  IF ~HasHead(l.buf) THEN l
      ELSE IF head[1] = Record THEN [rest EXCEPT !.stage = "pump"]
      ELSE IF head[1] = Teardown THEN Closed(rest)
      ELSE rest

\* Whatever is in front of a `$`: the head of a response, or a byte.
Skips(l) ==
  IF l.buf[1] # Rtsp THEN Left(l, Beyond(1, l.buf))
  ELSE IF HasHead(l.buf) THEN Left(l, AfterHead(l.buf))
  ELSE l

Publishes(l) ==
  IF ~HasInterleaved(l.buf) THEN l
  ELSE Says(Left(l, AfterInterleaved(l.buf)), <<l.buf[2], PayloadOf(l.buf)>>)

PumpInterleaved(l) ==
  IF l.buf = <<>> THEN l
  ELSE IF l.stage = "first" THEN Announced(l)
  ELSE IF l.stage = "loop" THEN Requested(l)
  ELSE IF l.buf[1] = Dollar THEN Publishes(l) ELSE Skips(l)

-----------------------------------------------------------------------------
(* A connection.                                                           *)

VARIABLES lane, sent, read, loop

vars == <<lane, sent, read, loop>>

Pass(ln, l) ==
  IF ln = "sig" THEN SigPass(l)
  ELSE IF ln = "http" THEN AnswerRequest(ln, l)
  ELSE IF ln = "stream" THEN Pump(l) ELSE PumpInterleaved(l)

Init ==
  /\ lane \in Lanes
  /\ sent \in Conversations[lane]
  /\ read = 0
  /\ loop = Start

Passes ==
  /\ loop.open
  /\ loop' = Pass(lane, loop) /\ loop' # loop
  /\ UNCHANGED <<lane, sent, read>>

\* Nothing in the buffers can be worked on: the loop waits in recv.
Waits == loop.open /\ Pass(lane, loop) = loop

\* A chunk that looks like HTTP is kept from the signalling buffer.
Handed(l, chunk) ==
  [l EXCEPT !.buf = @ \o chunk,
            !.sigBuf = IF lane # "sig" \/ LooksHttp(chunk) THEN @ ELSE @ \o chunk]

\* recv hands over some of what is there.
Reads ==
  /\ Waits
  /\ \E n \in (read + 1)..Len(sent.bytes) :
       /\ read' = n
       /\ loop' = Handed(loop, SubSeq(sent.bytes, read + 1, n))
  /\ UNCHANGED <<lane, sent>>

\* Mutant of Quiet: the loop goes on with a connection that has ended.
MutQuietStage ==
  /\ Waits
  /\ loop' = [loop EXCEPT !.stage = "closed"]
  /\ UNCHANGED <<lane, sent, read>>

(* The peer is silent for longer than the loop waits: the broker ends the  *)
(* connection, RelayStream only in the middle of a message or before its   *)
(* answer, the relay only before the SDP or in a response's head.          *)

Quiet ==
  /\ Waits
  /\ \/ lane \in {"sig", "http"}
     \/ lane = "stream" /\ (loop.stage # "pump" \/ loop.buf # <<>>)
     \/ lane = "publisher" /\ loop.stage = "first"
     \/ lane = "publisher" /\ loop.stage = "pump" /\ loop.buf # <<>>
          /\ loop.buf[1] = Rtsp
  /\ loop' = Closed(loop)
  /\ UNCHANGED <<lane, sent, read>>

Next == Reads \/ Passes \/ Quiet

Spec == Init /\ [][Next]_vars

-----------------------------------------------------------------------------
(* What is sent, in the terms of the theorems (and of the runs).           *)

MessageOf(c, k) == SubSeq(c.bytes, c.messages[k].first, c.messages[k].last)

\* The messages fill the stream.
Filled(c) ==
  /\ End(c, Len(c.messages)) = Len(c.bytes)
  /\ \A k \in 1..Len(c.messages) : c.messages[k].first = End(c, k - 1) + 1

\* The messages fill the stream, and each of them, handed over by itself after
\* the ones before it, is taken whole by one pass: `after` holds the loop after
\* each.  What is never taken is owed nothing and ends the connection.
TakenWhole(ln, c, after) ==
  /\ after[0] = Start
  /\ Filled(c)
  /\ \A k \in 1..Len(c.messages) :
       after[k - 1].open =>
         /\ after[k] = Pass(ln, Left(after[k - 1], MessageOf(c, k)))
         /\ after[k].out = Said(c, k)
         /\ \/ after[k].buf = <<>>
            \/ ~after[k].open /\ Said(c, k) = Said(c, k - 1)

\* A client's messages are requests, with a body of the length their head gives,
\* and heads of a single line that is none: the broker hangs up on those.
IsRequest(c, k) ==
  LET m == MessageOf(c, k)
  IN  \E n \in 3..(Len(m) - 2) :
        LET headers == SubSeq(m, 4, n)
            body == SubSeq(m, n + 3, Len(m))
        IN  /\ Blank \notin ToSet(headers) /\ Len(body) <= 4
            /\ m = HttpRequest(headers, body)
            /\ c.messages[k].said = Append(Said(c, k - 1), <<"request", body>>)

IsNoRequest(c, k) ==
  LET m == MessageOf(c, k)
  IN  /\ Len(m) = 3 /\ m[2] = Blank /\ m[3] = Blank
      /\ c.messages[k].said = Said(c, k - 1)

RequestStream(c) ==
  /\ Filled(c)
  /\ \A k \in 1..Len(c.messages) : IsRequest(c, k) \/ IsNoRequest(c, k)

\* A publisher's messages: its ANNOUNCE with the SDP, further requests, RECORD
\* and then packets, heads of responses and stray bytes.
IsAnnounce(c, k) ==
  LET m == MessageOf(c, k)
      body == SubSeq(m, 5, Len(m))
  IN  /\ Len(m) >= 4 /\ Len(body) <= 4 /\ m = RtspRequest(Announce, body)
      /\ c.messages[k].said = Append(Said(c, k - 1), <<"sdp", body>>)

IsHead(m) == Len(m) > 2 /\ BlankLinesOf(m) = {Len(m) - 1}

IsPacket(c, k) ==
  LET m == MessageOf(c, k)
      payload == SubSeq(m, 4, Len(m))
  IN  /\ Len(m) >= 3 /\ m = Interleaved(m[2], payload)
      /\ c.messages[k].said = Append(Said(c, k - 1), <<m[2], payload>>)

IsSkipped(c, k) ==
  LET m == MessageOf(c, k)
  IN  /\ \/ IsHead(m) /\ m[1] = Rtsp
         \/ Len(m) = 1 /\ m[1] \notin {Dollar, Rtsp}
      /\ c.messages[k].said = Said(c, k - 1)

PublisherStream(c) ==
  /\ Filled(c)
  /\ \E record \in 2..(Len(c.messages) + 2) :
       \A k \in 1..Len(c.messages) :
         IF k = 1 THEN IsAnnounce(c, k)
         ELSE IF k <= record
         THEN /\ IsHead(MessageOf(c, k)) /\ c.messages[k].said = Said(c, k - 1)
              /\ k = record <=> MessageOf(c, k)[1] = Record
         ELSE IsPacket(c, k) \/ IsSkipped(c, k)

\* The relay's messages to the bridge: an answer to each request that opens the
\* stream, the second with the SDP of the tracks in `order`, then packets on any
\* channel and the answers to keepalives.
IsResponse(c, k) ==
  LET m == MessageOf(c, k)
      body == SubSeq(m, 6, Len(m))
  IN  /\ Len(m) >= 5 /\ Len(body) <= 4 /\ m = RtspResponse(m[2], body)
      /\ m[2] \in {Ok, Unauthorized, NotFound}
      /\ c.messages[k].said = Said(c, k - 1)

SdpOf(c) == SubSeq(MessageOf(c, 2), 6, Len(MessageOf(c, 2)))
KindIn(c, track) == MediaSection[SdpOf(c)[track]].kind

IsMedia(c, k, order) ==
  LET m == MessageOf(c, k)
      packet == SubSeq(m, 4, Len(m))
      kind == IF m[2] % 2 = 0 /\ m[2] \div 2 < Len(order)
              THEN KindIn(c, order[m[2] \div 2 + 1]) ELSE "none"
  IN  /\ Len(m) >= 3 /\ m = Interleaved(m[2], packet)
      /\ c.messages[k].said = IF kind = "none" \/ RtpPayload(packet) = <<>>
                              THEN Said(c, k - 1)
                              ELSE Append(Said(c, k - 1), <<kind, RtpPayload(packet)>>)

PlayedStream(c) ==
  /\ Filled(c) /\ Len(c.messages) >= 2
  /\ \E n \in 1..Len(SdpOf(c)) : \E order \in [1..n -> 1..Len(SdpOf(c))] :
       /\ ParseSdp(SdpOf(c)) = {order[i] : i \in 1..n}
       /\ \A i, j \in 1..n : i < j => order[i] < order[j]
       /\ \A k \in 1..Len(c.messages) :
            IF k <= n + 3 THEN IsResponse(c, k) /\ MessageOf(c, k)[2] = Ok
            ELSE IsResponse(c, k) \/ IsMedia(c, k, order)

\* A camera's messages are its frames; between them may be anything that is no
\* frame, and no magic is inside one.  Nothing in it reads as a request.
CameraStream(c) ==
  /\ BlankLinesOf(c.bytes) = {}
  /\ \A i \in 1..(Len(c.bytes) - 1) : ~(c.bytes[i] = Verb /\ c.bytes[i + 1] = Target)
  /\ \A k \in 1..Len(c.messages) :
       LET first == c.messages[k].first
       IN  /\ first \in MagicsOf(c.bytes) /\ FrameAt(c.bytes, first)
           /\ c.messages[k].last = EndAt(c.bytes, first)
           /\ c.messages[k].said = Said(c, k - 1) \o AnswerCamera(MessageOf(c, k))
           /\ \A i \in MagicsOf(c.bytes) : i \notin (first + 1)..c.messages[k].last
  /\ \A i \in MagicsOf(c.bytes) :
       FrameAt(c.bytes, i) => \E k \in 1..Len(c.messages) : i = c.messages[k].first

-----------------------------------------------------------------------------
(* Properties.                                                             *)

\* While the loop waits it has made of the stream exactly the messages that have
\* arrived whole, in order; before that, and when it ended, a first part.
CutsWhatArrived ==
  \E k \in 0..Len(sent.messages) :
    /\ loop.out = Said(sent, k) /\ End(sent, k) <= read
    /\ Waits /\ k < Len(sent.messages) => End(sent, k + 1) > read

Stages == {"first", "describe", "setup", "play", "loop", "pump"}

\* A loop; what it made of the stream is a sequence of whatever it was sent.
LoopOK(l) ==
  /\ l \in [buf : Seq(Nat), sigBuf : Seq(Nat), stage : Stages, out : {l.out},
            open : BOOLEAN, retried : BOOLEAN, sdp : Seq(Nat),
            tracks : SUBSET ParseSdp(l.sdp), channels : Seq(DOMAIN Decodable)]
  /\ l.stage = "setup" => l.tracks # {}

\* The tracks still to be set up are of the SDP, and there is one as long as
\* RelayStream.open sets tracks up.
TypeOK ==
  /\ lane \in Lanes /\ IsConversation(sent) /\ read \in 0..Len(sent.bytes)
  /\ LoopOK(loop)

\* However the camera's frames are coalesced, split and surrounded by stray
\* bytes, each is cut out and answered as soon as its last byte was read
\* (split_signalling; one bogus answer to fifteen queued pings is what it was
\* written against).
SignallingSurvives == lane = "sig" => CutsWhatArrived

\* A request is answered once its whole body is there, whether the head, the
\* body or the next request came with it or after it (handle).
RequestsAreWhole == lane = "http" => CutsWhatArrived

\* Media and the answers in between are told apart although a payload may hold
\* a "$", an "R" or a blank line, in the bridge and in the relay
\* (RelayStream, _pump_interleaved).
MediaSurvives == lane \in {"stream", "publisher"} => CutsWhatArrived

=============================================================================
