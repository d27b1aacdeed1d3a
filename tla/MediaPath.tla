------------------------------ MODULE MediaPath ------------------------------
(***************************************************************************)
(* The media path of ziot_rtp_bridge.py, direct transport: datagrams that  *)
(* UDP loses, repeats and reorders pass the identity gate of               *)
(* _handle_direct_packet, RtpJpegReassembler makes frames of them, Fanout  *)
(* hands each frame to the queues of the HTTP viewers, whose handlers      *)
(* write them out.  The receive thread owns the reassembler; the queues    *)
(* are shared with the handlers, one step per queue operation.             *)
(***************************************************************************)
EXTENDS Naturals, Sequences, FiniteSets

CONSTANTS
  MaxFrames,   \* bound: frames the camera sends
  Fragments,   \* packets per frame; the last one has the marker
  TsRange,     \* RTP timestamps are modulo this (2^32 in the code)
  MaxPending,  \* _MAX_PENDING_TS
  KeepNewest,  \* _KEEP_NEWEST_TS
  MaxDups,     \* bound: datagrams that arrive twice
  Viewers,     \* HTTP clients of /cam/<uid>
  Watched,     \* any one of them
  QueueSize,   \* Fanout(maxsize)
  IdleLimit,   \* gaps without media that end a viewer's stream
  None

ASSUME MediaAssumption ==
  /\ MaxFrames \in Nat /\ Fragments \in Nat \ {0, 1} /\ MaxDups \in Nat
  /\ TsRange \in Nat /\ MaxFrames < TsRange
  /\ KeepNewest \in Nat \ {0} /\ MaxPending \in Nat /\ KeepNewest <= MaxPending
  /\ QueueSize \in Nat \ {0} /\ IdleLimit \in Nat \ {0}
  /\ Watched \in Viewers
  /\ None \notin Viewers \cup {"uid", "odd", "stray", "echo"}

VARIABLES
  setup,       \* how the bridge runs and what the camera stamps on its RTP
  first,       \* the timestamp of the camera's first frame
  sent,        \* frames sent
  net,         \* datagrams on their way (one that stays for good is lost)
  dups,        \* datagrams repeated so far
  \* the receive thread
  learned,     \* _learned_ssrc
  frags,       \* _frags: per timestamp, the fragments held
  tables,      \* _meta: per timestamp, the packet whose tables are held
  out,         \* the frame that Fanout.publish is handing out, or None
  todo,        \* publish: the queues of its copy still to be served
  full,        \* publish: the queue whose put_nowait raised Full, or None
  \* the viewers
  subs,        \* Fanout._subs
  queue,       \* per viewer, its queue
  handler,     \* per viewer, where its HTTP handler is
  idle,        \* per viewer, gaps in a row
  client,      \* per viewer, the other end: "reads", "closed"
  \* history
  count,       \* frames published so far
  offered,     \* per viewer, the last frame whose publication included it
  taken,       \* per viewer, the last frame its handler took
  run          \* fragments of the newest frame that came in order, at one go

sourceVars == <<setup, first, sent, net, dups>>
rxVars     == <<learned, frags, tables>>
pubVars    == <<out, todo, full>>
viewVars   == <<subs, queue, handler, idle, client>>
histVars   == <<count, offered, taken, run>>
vars == <<sourceVars, rxVars, pubVars, viewVars, histVars>>

-----------------------------------------------------------------------------
\* A datagram: the camera's fragments, a stray RTP packet of another camera, and
\* the echo of our hello, which is not RTP but long enough to hold an SSRC.  The
\* last two may come at any time.
Packets == [ssrc : {"uid", "odd"}, frame : 1..MaxFrames, index : 0..Fragments-1]
Stray == [ssrc |-> "stray", frame |-> 0, index |-> 0]
Echo  == [ssrc |-> "echo",  frame |-> 0, index |-> 0]
Datagrams == Packets \cup {Stray, Echo}

\* None is no packet and no frame.
ASSUME NoneAssumption ==
  None \notin Datagrams \cup [parts : SUBSET Datagrams, tables : Datagrams]

Stamps == 0..TsRange-1

\* The camera's clock wraps; the stray packet's stamp is the one no frame has.
Stamp(p) == IF p.frame = 0 THEN (first + TsRange - 1) % TsRange
                           ELSE (first + p.frame - 1) % TsRange

FrameOf(s, f) == {p \in Packets : p.ssrc = s /\ p.frame = f}
HasMarker(p) == p.index = Fragments - 1
HasTables(p) == p.index = 0

Pending == {t \in Stamps : frags[t] # {}}

RxTypeOK ==
  /\ setup \in [api : BOOLEAN, ssrc : {"uid", "odd"}]
  /\ first \in Stamps /\ sent \in 0..MaxFrames
  /\ net \subseteq Packets /\ dups \in 0..MaxDups
  /\ learned \in {"uid", "odd", "stray", "echo", None}
  /\ frags \in [Stamps -> SUBSET Datagrams]
  /\ tables \in [Stamps -> Datagrams \cup {None}]
  /\ run \in 0..Fragments

FanoutTypeOK ==
  /\ count \in Nat
  /\ out \in [parts : SUBSET Datagrams, tables : Datagrams] \cup {None}
  /\ todo \subseteq Viewers /\ full \in todo \cup {None}
  /\ out = None => todo = {}

ViewTypeOK ==
  /\ subs \subseteq Viewers
  /\ queue \in [Viewers -> Seq(1..count)]
  /\ \A v \in Viewers : Len(queue[v]) <= QueueSize
  /\ handler \in [Viewers -> {"off", "wait", "write"}]
  /\ idle \in [Viewers -> 0..IdleLimit-1]
  /\ client \in [Viewers -> {"reads", "closed"}]
  /\ offered \in [Viewers -> 0..count] /\ taken \in [Viewers -> 0..count]

TypeOK == RxTypeOK /\ FanoutTypeOK /\ ViewTypeOK

\* With a token the camera stamps what its UID maps to; punch-only it may not.
Init ==
  /\ setup \in [api : BOOLEAN, ssrc : {"uid", "odd"}]
  /\ setup.api => setup.ssrc = "uid"
  /\ first \in Stamps /\ sent = 0 /\ net = {} /\ dups = 0
  /\ learned = None
  /\ frags = [t \in Stamps |-> {}] /\ tables = [t \in Stamps |-> None]
  /\ out = None /\ todo = {} /\ full = None
  /\ subs = {} /\ queue = [v \in Viewers |-> <<>>]
  /\ handler = [v \in Viewers |-> "off"] /\ idle = [v \in Viewers |-> 0]
  /\ client = [v \in Viewers |-> "reads"]
  /\ count = 0 /\ offered = [v \in Viewers |-> 0]
  /\ taken = [v \in Viewers |-> 0] /\ run = 0

-----------------------------------------------------------------------------
SendFrame ==
  /\ sent < MaxFrames /\ sent' = sent + 1
  /\ net' = net \cup FrameOf(setup.ssrc, sent + 1)
  /\ run' = 0
  /\ UNCHANGED <<setup, first, dups, rxVars, pubVars, viewVars, count, offered,
                 taken>>

\* The gates a datagram passes before anything is learned from it: RTP version
\* and payload type.
IsMedia(p) == p # Echo

\* The SSRC rule.  Punch-only, the first media packet is believed whatever it
\* says, and what the UID maps to is accepted beside what was learned.
Learns == ~setup.api /\ learned = None
Identified(p) == \/ Learns
                 \/ p.ssrc = "uid"
                 \/ ~setup.api /\ p.ssrc = learned

\* Mutant of Accepted: the media gates run after the SSRC was learned.
MutAcceptedUngated(p) == Identified(p)

Accepted(p) == IsMedia(p) /\ Identified(p)

\* Mutant of Chain: the frame is joined around a hole.
MutChainWithHoles(parts) == parts # {}

\* _scan_data: an unbroken chain of offsets from 0.
Chain(parts) == {p.index : p \in parts} = 0..Cardinality(parts) - 1

\* feed: the fragment is stored under its timestamp and offset.
Stored(p) == {q \in frags[Stamp(p)] : q.index # p.index} \cup {p}
StoredTables(p) == IF HasTables(p) THEN p ELSE tables[Stamp(p)]

\* Mutant of Prune: the oldest timestamps are kept.
MutPruneNewest(held) ==
  IF Cardinality(held) <= MaxPending THEN held
  ELSE {t \in held : Cardinality({u \in held : u < t}) < KeepNewest}

\* Mutant of Prune: one timestamp more is held before anything is dropped.
MutPruneLate(held) ==
  IF Cardinality(held) <= MaxPending + 1 THEN held
  ELSE {t \in held : Cardinality({u \in held : u > t}) < KeepNewest}

\* Which timestamps survive the end of feed: sorted(...)[-_KEEP_NEWEST_TS:].
Prune(held) ==
  IF Cardinality(held) <= MaxPending THEN held
  ELSE {t \in held : Cardinality({u \in held : u > t}) < KeepNewest}

\* The marker ends a frame: it is handed out whole, or dropped.
Emitted(p) ==
  IF HasMarker(p) /\ Chain(Stored(p)) /\ StoredTables(p) # None
  THEN [parts |-> Stored(p), tables |-> StoredTables(p)] ELSE None

\* RtpJpegReassembler.feed.  Fanout.publish is called from it, before the
\* prune; nobody else sees _frags, so the prune is taken with the rest.
Feed(p) ==
  LET t    == Stamp(p)
      ends == HasMarker(p)
      held == IF ends THEN Pending \ {t} ELSE Pending \cup {t}
      kept == Prune(held)
  IN /\ frags' = [u \in Stamps |-> IF u \notin kept THEN {}
                                   ELSE IF u = t THEN Stored(p) ELSE frags[u]]
     /\ tables' = [u \in Stamps |->
                     IF u \in kept THEN IF u = t THEN StoredTables(p)
                                                 ELSE tables[u]
                     ELSE IF u \in held \/ u = t THEN None ELSE tables[u]]
     /\ out' = Emitted(p)

\* How far the newest frame has come without another packet in between.
Ran(p) == IF p.frame = sent /\ sent > 0 /\ p.index = run THEN run + 1
          ELSE IF p.frame = sent /\ sent > 0 /\ p.index = 0 THEN 1 ELSE 0

\* _receive: one datagram, once the last frame has been handed out.
Receive(p) ==
  /\ out = None /\ p \in net \cup {Stray, Echo}
  /\ \/ net' = net \ {p} /\ UNCHANGED dups
     \/ p \in net /\ dups < MaxDups /\ dups' = dups + 1 /\ UNCHANGED net
  /\ IF Accepted(p)
       THEN /\ learned' = IF Learns THEN p.ssrc ELSE learned
            /\ Feed(p) /\ run' = Ran(p)
            /\ todo' = IF out' = None THEN {} ELSE subs
       ELSE UNCHANGED <<rxVars, out, todo, run>>
  /\ IF out' = None THEN UNCHANGED <<count, offered>>
     ELSE /\ count' = count + 1
          /\ offered' = [v \in Viewers |-> IF v \in subs THEN count + 1
                                                         ELSE offered[v]]
  /\ UNCHANGED <<setup, first, sent, full, viewVars, taken>>

-----------------------------------------------------------------------------
\* Fanout.publish: put_nowait.
Put(v) ==
  /\ out # None /\ full = None /\ v \in todo
  /\ IF Len(queue[v]) < QueueSize
       THEN /\ queue' = [queue EXCEPT ![v] = Append(@, count)]
            /\ todo' = todo \ {v} /\ UNCHANGED full
       ELSE full' = v /\ UNCHANGED <<queue, todo>>
  /\ UNCHANGED <<sourceVars, rxVars, out, subs, handler, idle, client, histVars>>

\* Mutant of DropOldest: a full queue keeps what it has.
MutDropNewest ==
  /\ full # None
  /\ todo' = todo \ {full} /\ full' = None
  /\ UNCHANGED <<sourceVars, rxVars, out, viewVars, histVars>>

\* publish: get_nowait and put_nowait on the queue that was full.  If its
\* handler has emptied it since, get_nowait raises and the frame is given up.
\* Only this thread puts, so the two calls are one step.
DropOldest ==
  /\ full # None
  /\ queue' = [queue EXCEPT ![full] = IF @ = <<>> THEN @
                                      ELSE Append(Tail(@), count)]
  /\ todo' = todo \ {full} /\ full' = None
  /\ UNCHANGED <<sourceVars, rxVars, out, subs, handler, idle, client, histVars>>

Published ==
  /\ out # None /\ todo = {}
  /\ out' = None
  /\ UNCHANGED <<sourceVars, rxVars, todo, full, viewVars, histVars>>

-----------------------------------------------------------------------------
\* _mjpeg: the headers, then Fanout.subscribe with a queue of its own.
Subscribe(v) ==
  /\ handler[v] = "off"
  /\ handler' = [handler EXCEPT ![v] = "wait"]
  /\ subs' = subs \cup {v}
  /\ UNCHANGED <<sourceVars, rxVars, pubVars, queue, idle, client, histVars>>

\* _pump: q.get gives a frame ...
Take(v) ==
  /\ handler[v] = "wait" /\ queue[v] # <<>>
  /\ taken' = [taken EXCEPT ![v] = Head(queue[v])]
  /\ queue' = [queue EXCEPT ![v] = Tail(@)]
  /\ idle' = [idle EXCEPT ![v] = 0]
  /\ handler' = [handler EXCEPT ![v] = "write"]
  /\ UNCHANGED <<sourceVars, rxVars, pubVars, subs, client, count, offered, run>>

\* The with statement of subscribe ends: the queue is out of the Fanout.  What
\* a publish still puts into it nobody will see.  The next client is a new one.
Leave(v) ==
  /\ handler' = [handler EXCEPT ![v] = "off"]
  /\ subs' = subs \ {v}
  /\ queue' = [queue EXCEPT ![v] = <<>>]
  /\ idle' = [idle EXCEPT ![v] = 0]
  /\ client' = [client EXCEPT ![v] = "reads"]
  /\ todo' = todo \ {v} /\ full' = IF full = v THEN None ELSE full
  /\ UNCHANGED out

\* Mutant of Idle: the gaps are not counted.
MutIdleForever(v) ==
  /\ handler[v] = "wait" /\ queue[v] = <<>>
  /\ UNCHANGED vars

\* Mutant of Idle: one gap more.
MutIdleOneMore(v) ==
  /\ handler[v] = "wait" /\ queue[v] = <<>>
  /\ IF idle[v] + 1 > IdleLimit
       THEN Leave(v)
       ELSE /\ idle' = [idle EXCEPT ![v] = @ + 1]
            /\ UNCHANGED <<pubVars, subs, queue, handler, client>>
  /\ UNCHANGED <<sourceVars, rxVars, histVars>>

\* ... or raises Empty after ten seconds; the last gap ends the stream.
Idle(v) ==
  /\ handler[v] = "wait" /\ queue[v] = <<>>
  /\ IF idle[v] + 1 >= IdleLimit
       THEN Leave(v)
       ELSE /\ idle' = [idle EXCEPT ![v] = @ + 1]
            /\ UNCHANGED <<pubVars, subs, queue, handler, client>>
  /\ UNCHANGED <<sourceVars, rxVars, histVars>>

\* The write: done, or cut off by a hang-up or by the handler's timeout of
\* thirty seconds on a client that does not read.
Write(v) ==
  /\ handler[v] = "write"
  /\ \/ /\ client[v] = "reads" /\ handler' = [handler EXCEPT ![v] = "wait"]
        /\ UNCHANGED <<pubVars, subs, queue, idle, client>>
     \/ Leave(v)
  /\ UNCHANGED <<sourceVars, rxVars, histVars>>

ClientCloses(v) ==
  /\ handler[v] # "off" /\ client[v] = "reads"
  /\ client' = [client EXCEPT ![v] = "closed"]
  /\ UNCHANGED <<sourceVars, rxVars, pubVars, subs, queue, handler, idle,
                 histVars>>

Publishes == (\E v \in Viewers : Put(v)) \/ DropOldest \/ Published
Handles(v) == Take(v) \/ Idle(v) \/ Write(v)

Next ==
  \/ SendFrame
  \/ \E p \in Datagrams : Receive(p)
  \/ Publishes
  \/ \E v \in Viewers : Subscribe(v) \/ Handles(v) \/ ClientCloses(v)

Spec == Init /\ [][Next]_vars

\* The receive thread gets through its publish and every handler runs; nothing
\* is assumed of the network or of the clients.
FairSpec == /\ Spec
            /\ WF_vars(Publishes)
            /\ \A v \in Viewers : WF_vars(Handles(v))

-----------------------------------------------------------------------------
\* What a viewer is served is a frame of one camera with none of its packets
\* missing and with that frame's own tables, whatever was lost, repeated,
\* reordered or left over: a frame with a hole would decode with smears.
FrameIsWhole ==
  out # None => \E s \in {"uid", "odd"}, f \in 1..MaxFrames :
                  out.parts = FrameOf(s, f) /\ out.tables \in FrameOf(s, f)

\* The bridge takes media for this camera's only if the SSRC says so: with a
\* token the one of the UID, punch-only also the first one any RTP packet had,
\* and never the one that the echo of a hello seems to have.
MediaIsIdentified ==
  /\ learned # "echo"
  /\ \A t \in Stamps : \A p \in frags[t] :
       p.ssrc = "uid" \/ (~setup.api /\ p.ssrc = learned)

\* What is kept of unfinished frames stays bounded, and tables never outlive
\* the fragments they belong to.
PendingIsBounded ==
  /\ Cardinality(Pending) <= MaxPending
  /\ \A t \in Stamps : tables[t] # None => t \in Pending

\* Stale fragments never cost the newest frame: if its packets come at one go,
\* in order, it is handed out, unless the timestamps wrapped and what was left
\* from before sorts as newer.
NewestGetsThrough ==
  [][run' = Fragments /\ run # Fragments =>
       \/ out' # None
       \/ \E t \in Pending : t > (first + sent - 1) % TsRange]_vars

\* One viewer's end of the Fanout as the abstract channel it is meant to be.
Channel == INSTANCE LatestFrames
  WITH Capacity <- QueueSize, open <- Watched \in subs,
       pending <- Watched \in todo, offered <- offered[Watched],
       queue <- queue[Watched], taken <- taken[Watched]

\* Fanout and the handlers implement LatestFrames for the viewer: whatever
\* publish, get and unsubscribe interleave, frames come in order and once, and
\* only the oldest give way.
ViewerGetsLatest == Channel!Spec

\* A client that closed its connection does not hold its queue and its handler
\* thread for good, whether media flow or not.
GoneViewerLeaves ==
  \A v \in Viewers : client[v] = "closed" ~> v \notin subs

=============================================================================
