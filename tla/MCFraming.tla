----------------------------- MODULE MCFraming -----------------------------
(***************************************************************************)
(* Framing with up to three messages on a connection, or strays between    *)
(* them.  The bound of the camera's frames: none holds a magic or a blank  *)
(* line of its own.                                                        *)
(***************************************************************************)
EXTENDS Framing

\* Something sent: its bytes and what the reader owes for it; a stray is no
\* message.
Part(bytes, says) == <<[bytes |-> bytes, says |-> says, stray |-> FALSE]>>
Owed(bytes, message) == Part(bytes, <<message>>)
Noise(bytes) == Part(bytes, <<>>)
Stray(bytes) == <<[bytes |-> bytes, says |-> <<>>, stray |-> TRUE]>>

Laid(parts) ==
  LET Lay(c, p) ==
        LET last == Len(c.bytes) + Len(p.bytes)
            said == c.said \o p.says
        IN  [bytes |-> c.bytes \o p.bytes, said |-> said,
             messages |-> IF p.stray THEN c.messages
                          ELSE Append(c.messages, [first |-> Len(c.bytes) + 1,
                                                   last |-> last, said |-> said])]
      laid == FoldLeft(Lay, [bytes |-> <<>>, said |-> <<>>, messages |-> <<>>], parts)
  IN  [bytes |-> laid.bytes, messages |-> laid.messages]

UpTo(max, S) == {FlattenSeq(q) : q \in UNION {[1..n -> S] : n \in 0..max}}
UpTo3(S) == UpTo(3, S)

Uid == 1
Frame(cmd, seq, body) == SignallingFrame(cmd, seq, <<Uid>> \o body)
Query(cmd, seq, body) == Owed(Frame(cmd, seq, body), ReplyTo(cmd, seq))
Asked(headers, body) == Owed(HttpRequest(headers, body), <<"request", body>>)
Sent(channel, packet) == Interleaved(channel, packet)
Rtp(payload) == <<0, 0, 0>> \o payload

\* Two pings, a register with an end symbol and half a magic in its body, a
\* status report, an address report, a frame that names no uid; half a magic, a
\* whole one, an overlong header, a request of ours.
CameraSends ==
  UpTo3({Query(PullVideo, 1, <<>>), Query(PullVideo, 2, <<>>),
         Query(Register, 0, <<EndSymbol, M, 0>>),
         Part(Frame(StatusQuery, 3, <<2, 3, 1, 3, 4>>),
               <<[mediaState |-> 4], ReplyTo(StatusQuery, 3)>>),
         Owed(Frame(AddressReport, 4, <<1, 2, 3>>),
              [public |-> 1, local |-> 2, answers |-> 3]),
         Noise(SignallingFrame(PullVideo, 2, <<>>)), Stray(<<M>>),
         Stray(<<2, M, M>>), Stray(<<M, M, 0, 7, 0>>)})
  \cup {Query(cmd, 1, <<>>) : cmd \in {Clock, PushVideo, Config, 20}}

ClientSends ==
  UpTo3({Asked(<<>>, <<>>), Asked(<<>>, <<1, Blank>>),
         Asked(<<CloseHeader>>, <<Blank, Blank>>), Noise(<<1, Blank, Blank>>)})

\* A late answer to a keepalive, the channels of the tracks and another one, a
\* packet with a CSRC, an extension and padding, one that is padding alone.
Playing ==
  {Noise(RtspResponse(Ok, <<>>)),
   Owed(Sent(0, Rtp(<<Blank, Blank>>)), <<"video", <<Blank, Blank>>>>),
   Owed(Sent(2, <<1, 1, 1, 0, 1, 0, Rtsp, 2, 2>>), <<"audio", <<Rtsp>>>>),
   Noise(Sent(2, <<0, 0, 1, 1>>)), Noise(Sent(1, Rtp(<<Dollar>>)))}

Replies(status, body) == Noise(RtspResponse(status, body))
Opens(sdp, setups) == Replies(Ok, <<>>) \o Replies(Ok, sdp) \o setups
Setup == Replies(Ok, <<>>)

\* Video and audio, set up in full.
RelayPlays ==
  {Opens(<<30, 34, 31>>, Setup \o Setup \o Setup) \o more : more \in UpTo3(Playing)}

\* Also media before the answer to PLAY; audio alone behind a challenge; nothing
\* to play; a refusal; a second challenge.
RelaySends ==
  RelayPlays
  \cup
  {Opens(<<30, 31>>, Setup \o Setup) \o first \o Replies(Ok, <<>>) :
     first \in UpTo(2, Playing \ {Noise(RtspResponse(Ok, <<>>))})}
  \cup
  {Replies(Unauthorized, <<>>) \o Opens(<<33, 32>>, Setup) \o Replies(Ok, <<>>)
     \o Noise(Sent(2, Rtp(<<0>>))) \o Owed(Sent(0, Rtp(<<1>>)), <<"audio", <<1>>>>),
   Opens(<<33, 34>>, Setup), Replies(Ok, <<>>) \o Replies(NotFound, <<>>) \o Setup,
   Replies(Ok, <<>>) \o Replies(Unauthorized, <<>>) \o Replies(Unauthorized, <<>>)
     \o Opens(<<30>>, Setup)}

Publishing ==
  {Noise(RtspResponse(Ok, <<>>)), Noise(<<1>>) \o Noise(<<Blank>>),
   Noise(<<1>>) \o Noise(<<Rtsp, 1, Blank, Blank>>),
   Owed(Sent(0, <<Blank, Blank>>), <<0, <<Blank, Blank>>>>),
   Owed(Sent(1, <<Rtsp, Dollar>>), <<1, <<Rtsp, Dollar>>>>)}

Announces ==
  Owed(RtspRequest(Announce, <<Blank, Blank>>), <<"sdp", <<Blank, Blank>>>>)
Asks(method) == Noise(RtspRequest(method, <<>>))

CameraPublishes ==
  {Announces, Announces \o Asks(Teardown)}
  \cup {Announces \o Asks(1) \o Asks(Record) \o more : more \in UpTo3(Publishing)}

LaidAll(S) == {Laid(parts) : parts \in S}

Sends == [sig |-> LaidAll(CameraSends \cup {Asked(<<>>, <<>>)}),
          http |-> LaidAll(ClientSends), stream |-> LaidAll(RelaySends),
          publisher |-> LaidAll(CameraPublishes)]

\* The loop after each message handed over by itself.
After(ln, c) ==
  LET after[k \in 0..Len(c.messages)] ==
        IF k = 0 THEN Start
        ELSE IF ~after[k - 1].open THEN after[k - 1]
        ELSE Pass(ln, Left(after[k - 1], MessageOf(c, k)))
  IN  after

\* What is sent here is what the theorems are about.
ASSUME SentAsAssumed ==
  /\ \A c \in LaidAll(CameraSends) : CameraStream(c)
  /\ \A c \in Sends.http : RequestStream(c)
  /\ \A c \in Sends.publisher : PublisherStream(c)
  /\ \A c \in LaidAll(RelayPlays) : PlayedStream(c)
  /\ \A ln \in Lanes \ {"sig"} : \A c \in Sends[ln] : TakenWhole(ln, c, After(ln, c))

=============================================================================
