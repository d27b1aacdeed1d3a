-------------------------- MODULE MediaPathProofs --------------------------
(***************************************************************************)
(* What holds of MediaPath for any number of frames, fragments, repeats    *)
(* and viewers: the types, that only whole frames of one camera are served, *)
(* that the reassembler's memory is bounded and pruning spares the newest  *)
(* frame, and that each viewer's end of the Fanout implements LatestFrames. *)
(***************************************************************************)
EXTENDS MediaPath, TLAPS, FiniteSetTheorems, FunctionTheorems

-----------------------------------------------------------------------------
\* Arithmetic of the wrapping clock.
LEMMA ModType == ASSUME NEW T \in Nat \ {0}, NEW a \in Nat PROVE a % T \in 0..T-1
OBVIOUS

LEMMA ModWrap ==
  ASSUME NEW T \in Nat \ {0}, NEW a \in 0..(T + T - 1)
  PROVE  a % T = IF a < T THEN a ELSE a - T
OBVIOUS

LEMMA ModShift ==
  ASSUME NEW T \in Nat \ {0}, NEW a \in 0..T-1, NEW b \in 0..T-1, NEW c \in 0..T-1,
         (a + b) % T = (a + c) % T
  PROVE  b = c
<1> DEFINE x == a + b
           y == a + c
<1>1. x \in 0..(T + T - 1) /\ y \in 0..(T + T - 1) /\ x % T = y % T
  OBVIOUS
<1>2. b = x - a /\ c = y - a /\ x < y + T /\ y < x + T
  OBVIOUS
<1> HIDE DEF x, y
<1>3. x % T = IF x < T THEN x ELSE x - T
  BY <1>1, ModWrap
<1>4. y % T = IF y < T THEN y ELSE y - T
  BY <1>1, ModWrap
<1>5. x = y
  BY <1>1, <1>2, <1>3, <1>4
<1>6. QED
  BY <1>2, <1>5

LEMMA StampType ==
  ASSUME first \in Stamps, NEW p \in Datagrams PROVE Stamp(p) \in Stamps
<1>1. p.frame \in 0..MaxFrames
  BY MediaAssumption DEF Datagrams, Packets, Stray, Echo
<1>2. (first + TsRange - 1) \in Nat /\ (p.frame # 0 => (first + p.frame - 1) \in Nat)
  BY <1>1, MediaAssumption DEF Stamps
<1>3. TsRange \in Nat \ {0}
  BY MediaAssumption DEF Stamps
<1>4. QED
  BY <1>1, <1>2, <1>3, ModType DEF Stamp, Stamps

\* Two datagrams with one timestamp are of one frame: the clock does not come
\* round within the frames there are.
LEMMA StampsTellFrames ==
  ASSUME first \in Stamps, NEW p \in Datagrams, NEW q \in Datagrams,
         Stamp(p) = Stamp(q)
  PROVE  p.frame = q.frame
<1> DEFINE Offset(d) == IF d.frame = 0 THEN TsRange - 1 ELSE d.frame - 1
<1>1. TsRange \in Nat \ {0} /\ first \in 0..TsRange - 1
  BY MediaAssumption DEF Stamps
<1>2. p.frame \in 0..MaxFrames /\ q.frame \in 0..MaxFrames
  BY MediaAssumption DEF Datagrams, Packets, Stray, Echo
<1>3. /\ Offset(p) \in 0..TsRange - 1 /\ Offset(q) \in 0..TsRange - 1
      /\ Offset(p) = Offset(q) => p.frame = q.frame
  BY <1>1, <1>2, MediaAssumption
<1>4. /\ Stamp(p) = (first + Offset(p)) % TsRange
      /\ Stamp(q) = (first + Offset(q)) % TsRange
  <2>1. first + TsRange - 1 = first + (TsRange - 1)
    BY <1>1
  <2>2. /\ p.frame # 0 => first + p.frame - 1 = first + (p.frame - 1)
        /\ q.frame # 0 => first + q.frame - 1 = first + (q.frame - 1)
    BY <1>1, <1>2
  <2>3. QED
    BY <2>1, <2>2 DEF Stamp
<1> HIDE DEF Offset
<1>5. Offset(p) = Offset(q)
  BY <1>1, <1>3, <1>4, ModShift
<1>6. QED
  BY <1>3, <1>5

-----------------------------------------------------------------------------
\* The reassembler.

\* A fragment of the camera's, or the stray packet.
Genuine(p) == p = Stray \/ (p \in Packets /\ p.ssrc = setup.ssrc)

\* What the reassembler holds under a timestamp belongs there; the set of
\* fragments is finite, tables came with a fragment that is held.
HeldBelongs ==
  \A t \in Stamps :
    /\ IsFiniteSet(frags[t])
    /\ \A p \in frags[t] : Genuine(p) /\ Stamp(p) = t
    /\ tables[t] # None => Genuine(tables[t]) /\ Stamp(tables[t]) = t
                           /\ frags[t] # {}

NetIsCamera == \A p \in net : p.ssrc = setup.ssrc

RxInv == RxTypeOK /\ HeldBelongs /\ NetIsCamera /\ MediaIsIdentified /\ FrameIsWhole

LEMMA DatagramType ==
  ASSUME NEW p \in Datagrams
  PROVE  /\ p.frame \in 0..MaxFrames /\ p.index \in 0..Fragments-1
         /\ p.ssrc \in {"uid", "odd", "stray", "echo"}
BY MediaAssumption DEF Datagrams, Packets, Stray, Echo

\* A packet of the camera's that ends a frame: what is stored with it, in an
\* unbroken chain, is the whole frame, and so are its tables.
LEMMA EmittedIsWhole ==
  ASSUME RxInv, NEW p \in Datagrams, Genuine(p), Emitted(p) # None
  PROVE  \E s \in {"uid", "odd"}, f \in 1..MaxFrames :
           Emitted(p).parts = FrameOf(s, f) /\ Emitted(p).tables \in FrameOf(s, f)
<1>1. /\ HasMarker(p) /\ Chain(Stored(p)) /\ StoredTables(p) # None
      /\ Emitted(p).parts = Stored(p) /\ Emitted(p).tables = StoredTables(p)
  BY DEF Emitted
<1>2. /\ p \in Packets /\ p.ssrc = setup.ssrc /\ p.index = Fragments - 1
      /\ setup.ssrc \in {"uid", "odd"} /\ p.frame \in 1..MaxFrames
      /\ first \in Stamps /\ Stamp(p) \in Stamps
  BY <1>1, StampType, MediaAssumption
     DEF Genuine, HasMarker, Stray, Packets, RxInv, RxTypeOK
<1>3. \A q \in Stored(p) \cup {StoredTables(p)} :
        q \in Datagrams /\ Genuine(q) /\ Stamp(q) = Stamp(p)
  BY <1>1, <1>2 DEF Stored, StoredTables, RxInv, RxTypeOK, HeldBelongs
<1>4. \A q \in Stored(p) \cup {StoredTables(p)} : q \in FrameOf(setup.ssrc, p.frame)
  <2> SUFFICES ASSUME NEW q \in Stored(p) \cup {StoredTables(p)}
               PROVE  q \in FrameOf(setup.ssrc, p.frame)
    OBVIOUS
  <2>1. q.frame = p.frame
    BY <1>2, <1>3, StampsTellFrames
  <2>2. q # Stray
    BY <1>2, <2>1 DEF Stray
  <2>3. QED
    BY <1>3, <2>1, <2>2 DEF Genuine, FrameOf
<1>5. FrameOf(setup.ssrc, p.frame) \subseteq Stored(p)
  <2> SUFFICES ASSUME NEW d \in FrameOf(setup.ssrc, p.frame) PROVE d \in Stored(p)
    OBVIOUS
  <2> DEFINE last == Cardinality(Stored(p)) - 1
  <2>1. IsFiniteSet(Stored(p))
    <3>1. IsFiniteSet({q \in frags[Stamp(p)] : q.index # p.index})
      BY <1>2, FS_Subset DEF RxInv, HeldBelongs
    <3>2. QED
      BY <3>1, FS_AddElement DEF Stored
  <2>2. last \in Int /\ {q.index : q \in Stored(p)} = 0..last
    BY <1>1, <2>1, FS_CardinalityType DEF Chain
  <2>3. Fragments - 1 \in 0..last
    <3>1. p \in Stored(p)
      BY DEF Stored
    <3>2. QED
      BY <1>2, <2>2, <3>1
  <2>4. d \in Packets /\ d.ssrc = setup.ssrc /\ d.frame = p.frame
        /\ d.index \in 0..Fragments - 1
    BY DEF FrameOf, Packets
  <2>5. d.index \in 0..last
    BY <2>2, <2>3, <2>4, MediaAssumption
  <2>6. PICK q \in Stored(p) : q.index = d.index
    BY <2>2, <2>5
  <2>7. q \in Packets /\ q.ssrc = d.ssrc /\ q.frame = d.frame
    BY <1>4, <2>4, <2>6 DEF FrameOf
  <2>8. q = d
    BY <2>4, <2>6, <2>7 DEF Packets
  <2>9. QED
    BY <2>6, <2>8
<1>6. QED
  BY <1>1, <1>2, <1>4, <1>5

\* feed: what it leaves under each timestamp.
LEMMA FedHeld ==
  ASSUME RxInv, NEW p \in Datagrams, Genuine(p), Feed(p),
         UNCHANGED <<setup, first>>
  PROVE  /\ frags' \in [Stamps -> SUBSET Datagrams]
         /\ tables' \in [Stamps -> Datagrams \cup {None}]
         /\ \A t \in Stamps : \A q \in frags'[t] : q = p \/ q \in frags[t]
         /\ HeldBelongs'
<1> DEFINE s == Stamp(p)
           held == IF HasMarker(p) THEN Pending \ {s} ELSE Pending \cup {s}
           kept == Prune(held)
<1>1. /\ s \in Stamps
      /\ frags' = [u \in Stamps |-> IF u \notin kept THEN {}
                                    ELSE IF u = s THEN Stored(p) ELSE frags[u]]
      /\ tables' = [u \in Stamps |->
                      IF u \in kept THEN IF u = s THEN StoredTables(p)
                                                  ELSE tables[u]
                      ELSE IF u \in held \/ u = s THEN None ELSE tables[u]]
  BY StampType DEF Feed, RxInv, RxTypeOK
<1>2. /\ Stored(p) \subseteq Datagrams
      /\ p \in Stored(p) /\ \A q \in Stored(p) : q = p \/ q \in frags[s]
      /\ StoredTables(p) \in {p, tables[s]}
  BY <1>1 DEF Stored, StoredTables, RxInv, RxTypeOK
<1>3. IsFiniteSet(Stored(p))
  <2>1. IsFiniteSet({q \in frags[s] : q.index # p.index})
    BY <1>1, FS_Subset DEF RxInv, HeldBelongs
  <2>2. QED
    BY <2>1, FS_AddElement DEF Stored
<1>4. \A u \in Stamps : u \notin held /\ u # s => tables[u] = None
  BY DEF Pending, RxInv, HeldBelongs
<1> HIDE DEF kept, held, s
<1>5. frags' \in [Stamps -> SUBSET Datagrams]
      /\ tables' \in [Stamps -> Datagrams \cup {None}]
  BY <1>1, <1>2 DEF RxInv, RxTypeOK
<1>6. ASSUME NEW t \in Stamps
      PROVE  /\ IsFiniteSet(frags'[t])
             /\ \A q \in frags'[t] : (q = p \/ q \in frags[t]) /\ Genuine(q)
                                     /\ Stamp(q) = t
             /\ tables'[t] # None => Genuine(tables'[t]) /\ Stamp(tables'[t]) = t
                                     /\ frags'[t] # {}
  <2>1. CASE t \in kept /\ t = s
    <3>1. frags'[t] = Stored(p) /\ tables'[t] = StoredTables(p) /\ Stamp(p) = t
      BY <1>1, <2>1 DEF s
    <3>2. QED
      BY <1>2, <1>3, <2>1, <3>1 DEF RxInv, HeldBelongs
  <2>2. CASE t \in kept /\ t # s
    <3>1. frags'[t] = frags[t] /\ tables'[t] = tables[t]
      BY <1>1, <2>2
    <3>2. QED
      BY <3>1 DEF RxInv, HeldBelongs
  <2>3. CASE t \notin kept
    <3>1. frags'[t] = {} /\ tables'[t] = None
      BY <1>1, <1>4, <2>3
    <3>2. QED
      BY <3>1, FS_EmptySet
  <2>4. QED
    BY <2>1, <2>2, <2>3
<1>7. HeldBelongs'
  BY <1>6 DEF HeldBelongs, Genuine, Stamp
<1>8. QED
  BY <1>5, <1>6, <1>7

LEMMA RanType ==
  ASSUME RxTypeOK, NEW p \in Datagrams PROVE Ran(p) \in 0..Fragments
<1>1. p.index \in 0..Fragments-1 /\ run \in 0..Fragments /\ Fragments \in Nat \ {0}
  BY DatagramType, MediaAssumption DEF RxTypeOK
<1>2. QED
  BY <1>1 DEF Ran

\* One datagram: what it is taken for, what is held and what is handed out.
LEMMA ReceiveKeeps ==
  ASSUME RxInv, NEW p \in Datagrams, Receive(p) PROVE RxInv'
<1>1. /\ p \in net \cup {Stray, Echo} /\ out = None
      /\ net' \subseteq net /\ setup' = setup /\ first' = first /\ sent' = sent
      /\ dups' \in 0..MaxDups
  BY MediaAssumption DEF Receive, RxInv, RxTypeOK
<1>2. net' \subseteq Packets /\ \A q \in net' : q.ssrc = setup'.ssrc
  BY <1>1 DEF RxInv, RxTypeOK, NetIsCamera
<1>3. CASE Accepted(p)
  <2>1. /\ learned' = IF Learns THEN p.ssrc ELSE learned
        /\ Feed(p) /\ run' = Ran(p)
    BY <1>3 DEF Receive
  <2>2. Genuine(p) /\ p.ssrc \in {"uid", "odd", "stray"}
    <3>1. p # Echo
      BY <1>3 DEF Accepted, IsMedia
    <3>2. CASE p = Stray
      BY <3>2 DEF Genuine, Stray
    <3>3. CASE p \in net
      BY <3>3 DEF Genuine, RxInv, RxTypeOK, NetIsCamera
    <3>4. QED
      BY <1>1, <3>1, <3>2, <3>3
  <2>3. /\ frags' \in [Stamps -> SUBSET Datagrams]
        /\ tables' \in [Stamps -> Datagrams \cup {None}]
        /\ \A t \in Stamps : \A q \in frags'[t] : q = p \/ q \in frags[t]
        /\ HeldBelongs'
    BY <1>1, <2>1, <2>2, FedHeld
  <2>4. RxTypeOK'
    <3>1. learned' \in {"uid", "odd", "stray", "echo", None}
      BY <2>1, <2>2 DEF RxInv, RxTypeOK
    <3>2. run' \in 0..Fragments
      BY <2>1, RanType DEF RxInv
    <3>3. QED
      BY <1>1, <1>2, <2>3, <3>1, <3>2 DEF RxInv, RxTypeOK
  <2>5. HeldBelongs' /\ NetIsCamera'
    BY <1>2, <2>3 DEF NetIsCamera
  <2>6. MediaIsIdentified'
    <3>1. learned' # "echo"
      BY <2>1, <2>2 DEF RxInv, MediaIsIdentified
    <3>2. Identified(p)
      BY <1>3 DEF Accepted
    <3>3. ASSUME NEW t \in Stamps, NEW q \in frags'[t]
          PROVE  q.ssrc = "uid" \/ (~setup.api /\ q.ssrc = learned')
      <4>1. CASE q = p
        BY <2>1, <3>2, <4>1 DEF Identified, Learns
      <4>2. CASE q \in frags[t]
        <5>1. q \in Datagrams
          BY <4>2 DEF RxInv, RxTypeOK
        <5>2. q.ssrc \in {"uid", "odd", "stray", "echo"} /\ q.ssrc # None
          BY <5>1, DatagramType, MediaAssumption
        <5>3. q.ssrc = "uid" \/ (~setup.api /\ q.ssrc = learned)
          BY <4>2 DEF RxInv, MediaIsIdentified
        <5>4. QED
          BY <2>1, <5>2, <5>3 DEF Learns
      <4>3. QED
        BY <2>3, <4>1, <4>2
    <3>4. QED
      BY <1>1, <3>1, <3>3 DEF MediaIsIdentified
  <2>7. FrameIsWhole'
    <3>1. out' = Emitted(p)
      BY <2>1 DEF Feed
    <3>2. QED
      BY <2>2, <3>1, EmittedIsWhole DEF FrameIsWhole, FrameOf
  <2>8. QED
    BY <2>4, <2>5, <2>6, <2>7 DEF RxInv
<1>4. CASE ~Accepted(p)
  <2>1. UNCHANGED <<learned, frags, tables, out, run>>
    BY <1>4 DEF Receive, rxVars
  <2>2. RxTypeOK'
    BY <1>1, <1>2, <2>1 DEF RxInv, RxTypeOK
  <2>3. HeldBelongs' /\ NetIsCamera' /\ MediaIsIdentified' /\ FrameIsWhole'
    BY <1>1, <1>2, <2>1
       DEF RxInv, HeldBelongs, NetIsCamera, MediaIsIdentified, FrameIsWhole, Genuine, Stamp, FrameOf
  <2>4. QED
    BY <2>2, <2>3 DEF RxInv
<1>5. QED
  BY <1>3, <1>4

LEMMA RxInit == Init => RxInv
<1> SUFFICES ASSUME Init PROVE RxInv
  OBVIOUS
<1> USE MediaAssumption DEF Init
<1>1. /\ frags \in [Stamps -> {{}}] /\ tables \in [Stamps -> {None}]
      /\ \A t \in Stamps : frags[t] = {} /\ tables[t] = None
  OBVIOUS
<1>2. RxTypeOK
  BY <1>1 DEF RxTypeOK
<1>3. HeldBelongs
  BY <1>1, FS_EmptySet DEF HeldBelongs
<1>4. NetIsCamera /\ MediaIsIdentified /\ FrameIsWhole
  BY <1>1 DEF NetIsCamera, MediaIsIdentified, FrameIsWhole
<1>5. QED
  BY <1>2, <1>3, <1>4 DEF RxInv

LEMMA SendFrameKeeps == ASSUME RxInv, SendFrame PROVE RxInv'
<1>1. /\ setup' = setup /\ first' = first /\ out' = out /\ dups' = dups
      /\ learned' = learned /\ frags' = frags /\ tables' = tables
      /\ sent' \in 0..MaxFrames /\ run' \in 0..Fragments
      /\ net' = net \cup FrameOf(setup.ssrc, sent + 1)
  BY MediaAssumption DEF SendFrame, rxVars, pubVars, RxInv, RxTypeOK
<1>2. net' \subseteq Packets /\ NetIsCamera'
  BY <1>1 DEF FrameOf, NetIsCamera, RxInv, RxTypeOK
<1>3. RxTypeOK'
  BY <1>1, <1>2 DEF RxInv, RxTypeOK
<1>4. HeldBelongs' /\ MediaIsIdentified' /\ FrameIsWhole'
  BY <1>1
     DEF RxInv, HeldBelongs, MediaIsIdentified, FrameIsWhole, Genuine, Stamp, FrameOf
<1>5. QED
  BY <1>2, <1>3, <1>4 DEF RxInv

\* Whatever the viewers do, the reassembler's state is its thread's own.
LEMMA RxLeftAlone ==
  ASSUME RxInv, UNCHANGED <<sourceVars, rxVars, run>>, out' \in {out, None}
  PROVE  RxInv'
<1>1. RxTypeOK' /\ NetIsCamera'
  BY DEF sourceVars, rxVars, RxInv, RxTypeOK, NetIsCamera
<1>2. HeldBelongs' /\ MediaIsIdentified' /\ FrameIsWhole'
  BY DEF sourceVars, rxVars, RxInv, HeldBelongs, MediaIsIdentified, FrameIsWhole,
         Genuine, Stamp, FrameOf
<1>3. QED
  BY <1>1, <1>2 DEF RxInv

-----------------------------------------------------------------------------
\* The Fanout and the viewers.

\* A viewer is subscribed while its handler runs; nobody else has a queue.
Subscribed ==
  /\ todo \subseteq subs
  /\ out # None => count # 0
  /\ \A v \in Viewers : /\ handler[v] = "off" <=> v \notin subs
                        /\ v \notin subs => queue[v] = <<>>

\* What waits for a viewer is in order, newer than all it took, and ends with
\* the last frame offered unless that one is still to be put.
InOrder(v) ==
  LET q == queue[v]
  IN /\ taken[v] <= offered[v]
     /\ \A i \in 1..Len(q) : taken[v] < q[i] /\ q[i] <= offered[v]
     /\ \A i, j \in 1..Len(q) : i < j => q[i] < q[j]
     /\ v \in todo => /\ offered[v] = count /\ taken[v] < count
                      /\ \A i \in 1..Len(q) : q[i] < count
     /\ v \in subs \ todo => (q # <<>> => q[Len(q)] = offered[v])

FanInv == FanoutTypeOK /\ ViewTypeOK /\ Subscribed /\ \A v \in Viewers : InOrder(v)

LEMMA FanInit == Init => FanInv
<1> SUFFICES ASSUME Init PROVE FanInv
  OBVIOUS
<1> USE MediaAssumption DEF Init
<1>1. /\ queue \in [Viewers -> {<<>>}] /\ handler \in [Viewers -> {"off"}]
      /\ idle \in [Viewers -> {0}] /\ client \in [Viewers -> {"reads"}]
      /\ offered \in [Viewers -> {0}] /\ taken \in [Viewers -> {0}]
  OBVIOUS
<1>2. FanoutTypeOK
  BY DEF FanoutTypeOK
<1>3. /\ \A v \in Viewers : queue[v] = <<>> /\ Len(queue[v]) = 0
      /\ <<>> \in Seq(1..count)
  BY <1>1
<1>4. ViewTypeOK
  BY <1>1, <1>3 DEF ViewTypeOK
<1>5. Subscribed
  BY <1>1 DEF Subscribed
<1>6. \A v \in Viewers : InOrder(v)
  BY <1>1, <1>3 DEF InOrder
<1>7. QED
  BY <1>2, <1>4, <1>5, <1>6 DEF FanInv

LEMMA SeqElements ==
  ASSUME NEW n \in Nat, NEW q \in Seq(1..n)
  PROVE  Len(q) \in Nat /\ \A i \in 1..Len(q) : q[i] \in 1..n
OBVIOUS

LEMMA TailElements ==
  ASSUME NEW n \in Nat, NEW q \in Seq(1..n), q # <<>>
  PROVE  /\ 1 \in 1..Len(q) /\ Head(q) = q[1] /\ Head(q) \in 1..n
         /\ Tail(q) \in Seq(1..n) /\ Len(Tail(q)) = Len(q) - 1
         /\ \A i \in 1..Len(Tail(q)) : i + 1 \in 1..Len(q) /\ Tail(q)[i] = q[i + 1]
OBVIOUS

LEMMA AppendIncreasing ==
  ASSUME NEW n \in Nat, n # 0, NEW q \in Seq(1..n), NEW low \in Nat, low < n,
         \A i \in 1..Len(q) : low < q[i] /\ q[i] < n,
         \A i, j \in 1..Len(q) : i < j => q[i] < q[j],
         NEW r, r = Append(q, n)
  PROVE  /\ r \in Seq(1..n) /\ Len(r) = Len(q) + 1 /\ r[Len(r)] = n
         /\ \A i \in 1..Len(r) : low < r[i] /\ r[i] <= n
         /\ \A i, j \in 1..Len(r) : i < j => r[i] < r[j]
<1>1. /\ r \in Seq(1..n) /\ Len(r) = Len(q) + 1 /\ Len(q) \in Nat
      /\ r[Len(r)] = n
  OBVIOUS
<1>2. \A i \in 1..Len(q) : r[i] = q[i] /\ q[i] \in 1..n
  OBVIOUS
<1>3. \A i \in 1..Len(r) : i \in 1..Len(q) \/ i = Len(r)
  BY <1>1
<1>4. \A i \in 1..Len(r) : low < r[i] /\ r[i] <= n
  BY <1>1, <1>2, <1>3
<1>5. ASSUME NEW i \in 1..Len(r), NEW j \in 1..Len(r), i < j PROVE r[i] < r[j]
  <2>1. i \in 1..Len(q)
    BY <1>1, <1>5
  <2>2. CASE j \in 1..Len(q)
    BY <1>2, <1>5, <2>1, <2>2
  <2>3. CASE j = Len(r)
    BY <1>1, <1>2, <2>1, <2>3
  <2>4. QED
    BY <1>3, <2>2, <2>3
<1>6. QED
  BY <1>1, <1>4, <1>5

LEMMA WiderSeq ==
  ASSUME NEW m \in Nat, NEW n \in Nat, m <= n, NEW q \in Seq(1..m)
  PROVE  q \in Seq(1..n)
<1>1. \A i \in 1..Len(q) : q[i] \in 1..n
  OBVIOUS
<1>2. QED
  BY <1>1

\* A publication begins: every subscriber is offered a frame newer than all it
\* has seen.
LEMMA ReceiveOffers ==
  ASSUME FanInv, NEW p \in Datagrams, Receive(p), RxInv, RxInv'
  PROVE  FanInv'
<1>1. /\ out = None /\ todo = {} /\ full = None /\ count \in Nat
      /\ UNCHANGED <<full, subs, queue, handler, idle, client, taken>>
  BY DEF Receive, viewVars, FanInv, FanoutTypeOK
<1>2. out' \in [parts : SUBSET Datagrams, tables : Datagrams] \cup {None}
  <2>1. CASE Accepted(p)
    <3>1. out' = Emitted(p)
      BY <2>1 DEF Receive, Feed
    <3>2. Stored(p) \subseteq Datagrams /\ StoredTables(p) \in Datagrams \cup {None}
      BY StampType DEF Stored, StoredTables, RxInv, RxTypeOK
    <3>3. QED
      BY <3>1, <3>2 DEF Emitted
  <2>2. CASE ~Accepted(p)
    BY <1>1, <2>2 DEF Receive
  <2>3. QED
    BY <2>1, <2>2
<1>3. CASE out' = None
  <2>1. todo' = {} /\ count' = count /\ offered' = offered
    BY <1>1, <1>3 DEF Receive
  <2>2. FanoutTypeOK' /\ ViewTypeOK' /\ Subscribed'
    BY <1>1, <1>3, <2>1 DEF FanInv, FanoutTypeOK, ViewTypeOK, Subscribed
  <2>3. ASSUME NEW v \in Viewers PROVE InOrder(v)'
    BY <1>1, <2>1 DEF FanInv, InOrder
  <2>4. QED
    BY <2>2, <2>3 DEF FanInv
<1>4. CASE out' # None
  <2>1. /\ todo' = subs /\ count' = count + 1
        /\ offered' = [v \in Viewers |-> IF v \in subs THEN count + 1
                                                      ELSE offered[v]]
    <3>1. Accepted(p)
      BY <1>1, <1>4 DEF Receive
    <3>2. QED
      BY <1>4, <3>1 DEF Receive
  <2>2. FanoutTypeOK'
    BY <1>1, <1>2, <1>4, <2>1 DEF FanInv, FanoutTypeOK, ViewTypeOK
  <2>3. ViewTypeOK'
    <3>1. \A v \in Viewers : queue[v] \in Seq(1..count')
      BY <1>1, <2>1, WiderSeq DEF FanInv, ViewTypeOK
    <3>2. queue' \in [Viewers -> Seq(1..count')]
      BY <1>1, <3>1 DEF FanInv, ViewTypeOK
    <3>3. /\ offered' \in [Viewers -> 0..count'] /\ taken' \in [Viewers -> 0..count']
      BY <1>1, <2>1 DEF FanInv, ViewTypeOK
    <3>4. QED
      BY <1>1, <3>2, <3>3 DEF FanInv, ViewTypeOK
  <2>4. Subscribed'
    BY <1>1, <2>1 DEF FanInv, Subscribed
  <2>5. ASSUME NEW v \in Viewers PROVE InOrder(v)'
    <3>1. /\ queue[v] \in Seq(1..count) /\ taken[v] \in 0..count
          /\ InOrder(v)
      BY DEF FanInv, ViewTypeOK
    <3>2. \A i \in 1..Len(queue[v]) : queue[v][i] \in 1..count
      BY <1>1, <3>1, SeqElements
    <3>3. CASE v \in subs
      <4>1. offered'[v] = count + 1 /\ queue'[v] = queue[v] /\ taken'[v] = taken[v]
            /\ v \in todo' /\ count' = count + 1
        BY <1>1, <2>1, <3>3
      <4>2. QED
        BY <1>1, <3>1, <3>2, <4>1 DEF InOrder
    <3>4. CASE v \notin subs
      <4>1. offered'[v] = offered[v] /\ queue'[v] = queue[v] /\ taken'[v] = taken[v]
            /\ v \notin todo' /\ v \notin subs'
        BY <1>1, <2>1, <3>4
      <4>2. QED
        BY <3>1, <4>1 DEF InOrder
    <3>5. QED
      BY <3>3, <3>4
  <2>6. QED
    BY <2>2, <2>3, <2>4, <2>5 DEF FanInv
<1>5. QED
  BY <1>3, <1>4

\* Nothing changes for a viewer whose queue and frames are left alone, and
\* who is no longer served only if its queue is up to date.
LEMMA OthersInOrder ==
  ASSUME NEW v \in Viewers, InOrder(v),
         queue'[v] = queue[v], taken'[v] = taken[v], offered'[v] = offered[v],
         count' = count, v \in todo' <=> v \in todo, v \in subs' <=> v \in subs
  PROVE  InOrder(v)'
BY DEF InOrder

\* The frame being published goes to the end of a queue, for good.
LEMMA PutInOrder ==
  ASSUME FanInv, NEW v \in todo, NEW q \in Seq(1..count),
         \A i \in 1..Len(q) : taken[v] < q[i] /\ q[i] < count,
         \A i, j \in 1..Len(q) : i < j => q[i] < q[j],
         Len(q) < QueueSize,
         queue' = [queue EXCEPT ![v] = Append(q, count)],
         todo' = todo \ {v}, full' = None,
         UNCHANGED <<out, subs, handler, idle, client, count, offered, taken>>
  PROVE  FanInv'
<1>1. /\ v \in Viewers /\ out # None /\ count \in Nat /\ count # 0
      /\ queue \in [Viewers -> Seq(1..count)] /\ QueueSize \in Nat
  BY MediaAssumption DEF FanInv, FanoutTypeOK, ViewTypeOK, Subscribed
<1> DEFINE r == Append(q, count)
<1>2. taken[v] < count /\ taken[v] <= offered[v] /\ offered[v] = count
      /\ taken[v] \in Nat
  BY <1>1 DEF FanInv, InOrder, ViewTypeOK
<1>3. /\ r \in Seq(1..count) /\ Len(r) = Len(q) + 1 /\ r[Len(r)] = count
      /\ \A i \in 1..Len(r) : taken[v] < r[i] /\ r[i] <= count
      /\ \A i, j \in 1..Len(r) : i < j => r[i] < r[j]
  BY <1>1, <1>2, AppendIncreasing
<1>4. queue' = [queue EXCEPT ![v] = r]
  OBVIOUS
<1> HIDE DEF r
<1>5. FanoutTypeOK'
  BY DEF FanInv, FanoutTypeOK
<1>6. ViewTypeOK'
  <2>1. Len(r) <= QueueSize
    BY <1>1, <1>3, SeqElements
  <2>2. QED
    BY <1>1, <1>3, <1>4, <2>1 DEF FanInv, ViewTypeOK
<1>7. Subscribed'
  BY <1>1, <1>4 DEF FanInv, Subscribed
<1>8. InOrder(v)'
  <2>1. queue'[v] = r /\ v \notin todo'
    BY <1>1, <1>4
  <2>2. QED
    BY <1>2, <1>3, <2>1 DEF InOrder
<1>9. ASSUME NEW u \in Viewers, u # v PROVE InOrder(u)'
  BY <1>1, <1>9, OthersInOrder DEF FanInv
<1>10. QED
  BY <1>5, <1>6, <1>7, <1>8, <1>9 DEF FanInv

LEMMA PublishesKeep == ASSUME FanInv, Publishes PROVE FanInv'
<1> USE MediaAssumption
<1>1. ASSUME NEW v \in Viewers, Put(v) PROVE FanInv'
  <2>1. /\ v \in todo /\ out # None /\ full = None
        /\ UNCHANGED <<out, subs, handler, idle, client, count, offered, taken>>
    BY <1>1 DEF Put, histVars
  <2>2. CASE Len(queue[v]) < QueueSize
    <3>1. /\ queue' = [queue EXCEPT ![v] = Append(queue[v], count)]
          /\ todo' = todo \ {v} /\ full' = None
      BY <1>1, <2>1, <2>2 DEF Put, FanInv, ViewTypeOK
    <3>2. queue[v] \in Seq(1..count) /\ InOrder(v)
      BY DEF FanInv, ViewTypeOK
    <3>3. QED
      BY <2>1, <2>2, <3>1, <3>2, PutInOrder DEF InOrder
  <2>3. CASE ~(Len(queue[v]) < QueueSize)
    <3>1. full' = v /\ queue' = queue /\ todo' = todo
      BY <1>1, <2>3 DEF Put
    <3>2. FanoutTypeOK' /\ ViewTypeOK' /\ Subscribed'
      BY <2>1, <3>1 DEF FanInv, FanoutTypeOK, ViewTypeOK, Subscribed
    <3>3. QED
      BY <2>1, <3>1, <3>2, OthersInOrder DEF FanInv
  <2>4. QED
    BY <2>2, <2>3
<1>2. CASE DropOldest
  <2>1. PICK v \in todo : v = full
    BY <1>2 DEF DropOldest, FanInv, FanoutTypeOK
  <2> DEFINE q == queue[v]
  <2>2. /\ v \in Viewers /\ q \in Seq(1..count) /\ Len(q) <= QueueSize /\ InOrder(v)
        /\ UNCHANGED <<out, subs, handler, idle, client, count, offered, taken>>
        /\ todo' = todo \ {v} /\ full' = None /\ count \in Nat
        /\ queue \in [Viewers -> Seq(1..count)] /\ v \in subs
    BY <1>2, <2>1 DEF DropOldest, histVars, FanInv, FanoutTypeOK, ViewTypeOK, Subscribed
  <2>3. CASE q = <<>>
    <3>1. queue' = queue
      BY <1>2, <2>1, <2>2, <2>3 DEF DropOldest
    <3>2. FanoutTypeOK' /\ ViewTypeOK' /\ Subscribed'
      BY <2>2, <3>1 DEF FanInv, FanoutTypeOK, ViewTypeOK, Subscribed
    <3>3. InOrder(v)'
      BY <2>2, <2>3, <3>1 DEF InOrder
    <3>4. ASSUME NEW u \in Viewers, u # v PROVE InOrder(u)'
      BY <2>2, <3>1, <3>4, OthersInOrder DEF FanInv
    <3>5. QED
      BY <3>2, <3>3, <3>4 DEF FanInv
  <2>4. CASE q # <<>>
    <3>1. queue' = [queue EXCEPT ![v] = Append(Tail(q), count)]
      BY <1>2, <2>1, <2>2, <2>4 DEF DropOldest
    <3>2. /\ Tail(q) \in Seq(1..count) /\ Len(Tail(q)) = Len(q) - 1
          /\ \A i \in 1..Len(Tail(q)) : i + 1 \in 1..Len(q) /\ Tail(q)[i] = q[i + 1]
      BY <2>2, <2>4, TailElements
    <3>3. Len(Tail(q)) < QueueSize
      BY <2>2, <3>2, SeqElements
    <3>4. \A i \in 1..Len(Tail(q)) : taken[v] < Tail(q)[i] /\ Tail(q)[i] < count
      BY <2>2, <3>2 DEF InOrder
    <3>5. \A i, j \in 1..Len(Tail(q)) : i < j => Tail(q)[i] < Tail(q)[j]
      BY <2>2, <3>2 DEF InOrder
    <3>6. QED
      BY <2>2, <3>1, <3>2, <3>3, <3>4, <3>5, PutInOrder
  <2>5. QED
    BY <2>3, <2>4
<1>3. CASE Published
  <2>1. /\ out' = None /\ todo = {}
        /\ UNCHANGED <<todo, full, subs, queue, handler, idle, client, count,
                       offered, taken>>
    BY <1>3 DEF Published, viewVars, histVars
  <2>2. FanoutTypeOK' /\ ViewTypeOK' /\ Subscribed'
    BY <2>1 DEF FanInv, FanoutTypeOK, ViewTypeOK, Subscribed
  <2>3. QED
    BY <2>1, <2>2, OthersInOrder DEF FanInv
<1>4. QED
  BY <1>1, <1>2, <1>3 DEF Publishes

\* The handlers of the viewers.
LEMMA LeaveKeeps ==
  ASSUME FanInv, NEW v \in Viewers, Leave(v), UNCHANGED <<count, offered, taken>>
  PROVE  FanInv'
<1>1. FanoutTypeOK'
  BY DEF Leave, FanInv, FanoutTypeOK
<1>2. ViewTypeOK'
  <2>1. <<>> \in Seq(1..count) /\ Len(<<>>) = 0 /\ 0 \in 0..IdleLimit-1
        /\ 0 <= QueueSize
    BY MediaAssumption
  <2>2. QED
    BY <2>1 DEF Leave, FanInv, ViewTypeOK
<1>3. Subscribed'
  BY DEF Leave, FanInv, ViewTypeOK, Subscribed
<1>4. InOrder(v)'
  <2>1. queue'[v] = <<>> /\ v \notin todo' /\ Len(<<>>) = 0
    BY DEF Leave, FanInv, ViewTypeOK
  <2>2. QED
    BY <2>1 DEF FanInv, InOrder
<1>5. ASSUME NEW u \in Viewers, u # v PROVE InOrder(u)'
  BY <1>5, OthersInOrder DEF Leave, FanInv, ViewTypeOK
<1>6. QED
  BY <1>1, <1>2, <1>3, <1>4, <1>5 DEF FanInv

LEMMA HandlesKeep ==
  ASSUME FanInv, NEW v \in Viewers,
         Subscribe(v) \/ Handles(v) \/ ClientCloses(v)
  PROVE  FanInv'
<1> USE MediaAssumption
<1>1. CASE Subscribe(v)
  <2>1. /\ handler[v] = "off" /\ v \notin subs /\ queue[v] = <<>>
        /\ subs' = subs \cup {v} /\ v \notin todo
        /\ UNCHANGED <<out, todo, full, queue, idle, client, count, offered, taken>>
    BY <1>1 DEF Subscribe, pubVars, histVars, FanInv, Subscribed
  <2>2. FanoutTypeOK' /\ ViewTypeOK' /\ Subscribed'
    BY <1>1, <2>1 DEF Subscribe, FanInv, FanoutTypeOK, ViewTypeOK, Subscribed
  <2>3. InOrder(v)'
    BY <2>1 DEF FanInv, InOrder
  <2>4. ASSUME NEW u \in Viewers, u # v PROVE InOrder(u)'
    BY <2>1, <2>4, OthersInOrder DEF FanInv
  <2>5. QED
    BY <2>2, <2>3, <2>4 DEF FanInv
<1>2. CASE Take(v)
  <2> DEFINE q == queue[v]
  <2>1. /\ handler[v] = "wait" /\ q # <<>> /\ q \in Seq(1..count)
        /\ taken' = [taken EXCEPT ![v] = Head(q)]
        /\ queue' = [queue EXCEPT ![v] = Tail(q)]
        /\ idle' = [idle EXCEPT ![v] = 0]
        /\ handler' = [handler EXCEPT ![v] = "write"]
        /\ UNCHANGED <<out, todo, full, subs, client, count, offered>>
        /\ Len(q) <= QueueSize /\ count \in Nat
    BY <1>2 DEF Take, pubVars, FanInv, FanoutTypeOK, ViewTypeOK
  <2>2. /\ 1 \in 1..Len(q) /\ Head(q) = q[1] /\ Head(q) \in 1..count
        /\ Tail(q) \in Seq(1..count) /\ Len(Tail(q)) = Len(q) - 1
        /\ \A i \in 1..Len(Tail(q)) : i + 1 \in 1..Len(q) /\ Tail(q)[i] = q[i + 1]
        /\ Len(Tail(q)) <= QueueSize
    <3>1. count \in Nat /\ q \in Seq(1..count) /\ q # <<>>
      BY <2>1
    <3> HIDE DEF q
    <3>2. /\ 1 \in 1..Len(q) /\ Head(q) = q[1] /\ Head(q) \in 1..count
          /\ Tail(q) \in Seq(1..count) /\ Len(Tail(q)) = Len(q) - 1
          /\ \A i \in 1..Len(Tail(q)) : i + 1 \in 1..Len(q) /\ Tail(q)[i] = q[i + 1]
      BY <3>1, TailElements
    <3>3. Len(q) \in Nat /\ Len(q) <= QueueSize
      BY <2>1, <3>1, SeqElements
    <3>4. QED
      BY <3>2, <3>3
  <2>3. FanoutTypeOK' /\ Subscribed'
    BY <2>1 DEF FanInv, FanoutTypeOK, ViewTypeOK, Subscribed
  <2>4. ViewTypeOK'
    <3>1. 0 \in 0..IdleLimit-1 /\ Head(q) \in 0..count
      BY <2>2
    <3>2. QED
      BY <2>1, <2>2, <3>1 DEF FanInv, ViewTypeOK
  <2>5. InOrder(v)'
    <3>1. taken'[v] = q[1] /\ queue'[v] = Tail(q) /\ InOrder(v)
      BY <2>1, <2>2 DEF FanInv, ViewTypeOK
    <3>2. Tail(q) # <<>> => Len(q) - 1 \in 1..Len(Tail(q)) /\ Tail(q)[Len(q) - 1] = q[Len(q)]
      BY <2>2
    <3>3. \A i \in 1..Len(Tail(q)) : q[1] < Tail(q)[i] /\ Tail(q)[i] <= offered[v]
      BY <2>2, <3>1 DEF InOrder
    <3>4. \A i, j \in 1..Len(Tail(q)) : i < j => Tail(q)[i] < Tail(q)[j]
      BY <2>2, <3>1 DEF InOrder
    <3>5. v \in todo => q[1] < count /\ \A i \in 1..Len(Tail(q)) : Tail(q)[i] < count
      BY <2>2, <3>1 DEF InOrder
    <3>6. q[1] <= offered[v]
      BY <2>2, <3>1 DEF InOrder
    <3>7. QED
      BY <2>1, <2>2, <3>1, <3>2, <3>3, <3>4, <3>5, <3>6 DEF InOrder
  <2>6. ASSUME NEW u \in Viewers, u # v PROVE InOrder(u)'
    BY <2>1, <2>6, OthersInOrder DEF FanInv, ViewTypeOK
  <2>7. QED
    BY <2>3, <2>4, <2>5, <2>6 DEF FanInv
<1>3. ASSUME UNCHANGED <<pubVars, subs, queue, count, offered, taken>>,
             handler' \in [Viewers -> {"off", "wait", "write"}],
             \A u \in Viewers : handler'[u] = "off" <=> handler[u] = "off",
             idle' \in [Viewers -> 0..IdleLimit-1],
             client' \in [Viewers -> {"reads", "closed"}]
      PROVE  FanInv'
  <2>1. FanoutTypeOK' /\ ViewTypeOK' /\ Subscribed'
    BY <1>3 DEF pubVars, FanInv, FanoutTypeOK, ViewTypeOK, Subscribed
  <2>2. QED
    BY <1>3, <2>1, OthersInOrder DEF pubVars, FanInv
<1>4. CASE Idle(v)
  <2>1. UNCHANGED <<count, offered, taken>>
    BY <1>4 DEF Idle, histVars
  <2>2. CASE Leave(v)
    BY <2>1, <2>2, LeaveKeeps
  <2>3. CASE /\ idle[v] + 1 < IdleLimit /\ idle' = [idle EXCEPT ![v] = idle[v] + 1]
             /\ UNCHANGED <<pubVars, subs, queue, handler, client>>
    BY <1>3, <2>1, <2>3 DEF FanInv, ViewTypeOK
  <2>4. idle[v] + 1 >= IdleLimit \/ idle[v] + 1 < IdleLimit
    BY DEF FanInv, ViewTypeOK
  <2>5. QED
    BY <1>4, <2>2, <2>3, <2>4 DEF Idle
<1>5. CASE Write(v)
  <2>1. handler[v] = "write" /\ UNCHANGED <<count, offered, taken>>
    BY <1>5 DEF Write, histVars
  <2>2. CASE Leave(v)
    BY <2>1, <2>2, LeaveKeeps
  <2>3. CASE /\ handler' = [handler EXCEPT ![v] = "wait"]
             /\ UNCHANGED <<pubVars, subs, queue, idle, client>>
    BY <1>3, <2>1, <2>3 DEF FanInv, ViewTypeOK
  <2>4. QED
    BY <1>5, <2>2, <2>3 DEF Write
<1>6. CASE ClientCloses(v)
  BY <1>3, <1>6 DEF ClientCloses, histVars, FanInv, ViewTypeOK
<1>7. QED
  BY <1>1, <1>2, <1>4, <1>5, <1>6 DEF Handles

-----------------------------------------------------------------------------
MediaInv == RxInv /\ FanInv

LEMMA MediaInit == Init => MediaInv
BY RxInit, FanInit DEF MediaInv

LEMMA MediaStep == MediaInv /\ [Next]_vars => MediaInv'
<1> SUFFICES ASSUME MediaInv, [Next]_vars PROVE MediaInv'
  OBVIOUS
<1> USE DEF MediaInv
<1>1. CASE SendFrame
  <2>1. UNCHANGED <<pubVars, viewVars, count, offered, taken>>
    BY <1>1 DEF SendFrame
  <2>2. FanoutTypeOK' /\ ViewTypeOK' /\ Subscribed'
    BY <2>1
       DEF pubVars, viewVars, FanInv, FanoutTypeOK, ViewTypeOK, Subscribed
  <2>3. FanInv'
    BY <2>1, <2>2, OthersInOrder DEF pubVars, viewVars, FanInv
  <2>4. QED
    BY <1>1, <2>3, SendFrameKeeps
<1>2. ASSUME NEW p \in Datagrams, Receive(p) PROVE MediaInv'
  BY <1>2, ReceiveKeeps, ReceiveOffers
<1>3. CASE Publishes
  <2>1. UNCHANGED <<sourceVars, rxVars, run>> /\ out' \in {out, None}
    BY <1>3 DEF Publishes, Put, DropOldest, Published, histVars
  <2>2. QED
    BY <1>3, <2>1, RxLeftAlone, PublishesKeep
<1>4. ASSUME NEW v \in Viewers, Subscribe(v) \/ Handles(v) \/ ClientCloses(v)
      PROVE  MediaInv'
  <2>1. UNCHANGED <<sourceVars, rxVars, run>> /\ out' \in {out, None}
    BY <1>4 DEF Subscribe, Handles, Take, Idle, Write, Leave, ClientCloses, pubVars,
                histVars
  <2>2. QED
    BY <1>4, <2>1, RxLeftAlone, HandlesKeep
<1>5. CASE UNCHANGED vars
  <2>1. /\ UNCHANGED <<sourceVars, rxVars, run>> /\ out' = out
        /\ UNCHANGED <<pubVars, viewVars, count, offered, taken>>
    BY <1>5 DEF vars, histVars, pubVars
  <2>2. FanoutTypeOK' /\ ViewTypeOK' /\ Subscribed'
    BY <2>1
       DEF pubVars, viewVars, FanInv, FanoutTypeOK, ViewTypeOK, Subscribed
  <2>3. FanInv'
    BY <2>1, <2>2, OthersInOrder DEF pubVars, viewVars, FanInv
  <2>4. QED
    BY <2>1, <2>3, RxLeftAlone
<1>6. QED
  BY <1>1, <1>2, <1>3, <1>4, <1>5 DEF Next

LEMMA MediaInvariant == Spec => []MediaInv
BY MediaInit, MediaStep, PTL DEF Spec

\* The receive thread's, the Fanout's and the viewers' state keep their types.
THEOREM TypeCorrect == Spec => []TypeOK
<1>1. MediaInv => TypeOK
  BY DEF MediaInv, RxInv, FanInv, TypeOK
<1>2. QED
  BY <1>1, MediaInvariant, PTL

\* RtpJpegReassembler hands out whole frames of one camera only, whatever is
\* lost, repeated or reordered and wherever the clock wraps.
THEOREM OnlyWholeFrames == Spec => []FrameIsWhole
<1>1. MediaInv => FrameIsWhole
  BY DEF MediaInv, RxInv
<1>2. QED
  BY <1>1, MediaInvariant, PTL

\* _handle_direct_packet's rule: nothing of another SSRC is ever held, and none
\* is learned from what is not RTP.
THEOREM OnlyIdentifiedMedia == Spec => []MediaIsIdentified
<1>1. MediaInv => MediaIsIdentified
  BY DEF MediaInv, RxInv
<1>2. QED
  BY <1>1, MediaInvariant, PTL

-----------------------------------------------------------------------------
\* The memory of the reassembler.

\* Later(held, t): how many timestamps of held sort after t.
Later(held, t) == Cardinality({u \in held : u > t})

\* No two timestamps of a set have as many after them.
LEMMA LaterTellsStamps ==
  ASSUME NEW held \in SUBSET Stamps, IsFiniteSet(held),
         NEW t \in held, NEW u \in held, t < u
  PROVE  /\ Later(held, t) \in Nat /\ Later(held, u) \in Nat
         /\ Later(held, u) < Later(held, t)
<1> DEFINE after(x) == {y \in held : y > x}
<1>1. IsFiniteSet(after(t)) /\ IsFiniteSet(after(u))
  BY FS_Subset
<1>2. Cardinality(after(u) \cup {u}) = Cardinality(after(u)) + 1
  <2>1. u \notin after(u)
    BY MediaAssumption DEF Stamps
  <2>2. QED
    BY <1>1, <2>1, FS_AddElement
<1>3. Cardinality(after(u) \cup {u}) <= Cardinality(after(t))
  <2>1. ASSUME NEW y \in after(u) \cup {u} PROVE y \in after(t)
    <3>1. y \in held /\ y >= u /\ y \in Nat /\ t \in Nat /\ u \in Nat
      BY MediaAssumption DEF Stamps
    <3>2. QED
      BY <3>1
  <2>2. QED
    BY <1>1, <2>1, FS_Subset
<1>4. Cardinality(after(t)) \in Nat /\ Cardinality(after(u)) \in Nat
  BY <1>1, FS_CardinalityType
<1>5. QED
  BY <1>2, <1>3, <1>4 DEF Later

\* The end of feed leaves no more than _MAX_PENDING_TS timestamps: those it keeps
\* have pairwise different numbers of later ones, all below _KEEP_NEWEST_TS.
LEMMA PruneBounds ==
  ASSUME NEW held \in SUBSET Stamps
  PROVE  /\ IsFiniteSet(Prune(held)) /\ Prune(held) \subseteq held
         /\ Cardinality(Prune(held)) <= MaxPending
<1> DEFINE kept == {t \in held : Later(held, t) < KeepNewest}
<1>1. IsFiniteSet(held)
  <2>1. IsFiniteSet(0..TsRange-1)
    BY MediaAssumption, FS_Interval
  <2>2. QED
    BY <2>1, FS_Subset DEF Stamps
<1>2. IsFiniteSet(kept) /\ Cardinality(kept) \in Nat
  BY <1>1, FS_Subset, FS_CardinalityType
<1>3. Cardinality(kept) <= KeepNewest
  <2> DEFINE places == 0..KeepNewest-1
             place == [t \in kept |-> Later(held, t)]
  <2>1. IsFiniteSet(places) /\ Cardinality(places) = KeepNewest
    BY MediaAssumption, FS_Interval
  <2>2. place \in [kept -> places]
    <3>1. ASSUME NEW t \in kept PROVE Later(held, t) \in places
      <4>1. Later(held, t) \in Nat
        BY <1>1, FS_Subset, FS_CardinalityType DEF Later
      <4>2. QED
        BY <4>1, MediaAssumption
    <3>2. QED
      BY <3>1
  <2>3. SUFFICES ASSUME Cardinality(places) < Cardinality(kept) PROVE FALSE
    BY <1>2, <2>1, MediaAssumption
  <2> HIDE DEF places, place
  <2>4. PICK t \in kept, u \in kept : t # u /\ place[t] = place[u]
    BY <1>2, <2>1, <2>2, <2>3, FS_PigeonHole
  <2>5. Later(held, t) = Later(held, u)
    BY <2>4 DEF place
  <2>6. t < u \/ u < t
    BY <2>4, MediaAssumption DEF Stamps
  <2>7. QED
    BY <1>1, <2>5, <2>6, LaterTellsStamps
<1>4. Prune(held) = IF Cardinality(held) <= MaxPending THEN held ELSE kept
  BY DEF Prune, Later
<1>5. QED
  BY <1>1, <1>2, <1>3, <1>4, MediaAssumption

LEMMA ReceiveBounds ==
  ASSUME RxInv, PendingIsBounded, NEW p \in Datagrams, Receive(p)
  PROVE  Cardinality(Pending') <= MaxPending
<1>1. CASE Accepted(p)
  <2> DEFINE s == Stamp(p)
             held == IF HasMarker(p) THEN Pending \ {s} ELSE Pending \cup {s}
             kept == Prune(held)
  <2>1. held \in SUBSET Stamps
    BY StampType DEF Pending, RxInv, RxTypeOK
  <2>2. IsFiniteSet(kept) /\ Cardinality(kept) <= MaxPending
    BY <2>1, PruneBounds
  <2>3. \A u \in Stamps : u \notin kept => frags'[u] = {}
    BY <1>1 DEF Receive, Feed
  <2>4. Pending' \subseteq kept
    BY <2>3 DEF Pending, Stamps
  <2>5. QED
    <3> HIDE DEF kept
    <3>1. /\ Cardinality(Pending') \in Nat /\ Cardinality(kept) \in Nat
          /\ Cardinality(Pending') <= Cardinality(kept)
      BY <2>2, <2>4, FS_Subset, FS_CardinalityType
    <3>2. QED
      BY <2>2, <3>1, MediaAssumption
<1>2. CASE ~Accepted(p)
  BY <1>2 DEF Receive, rxVars, PendingIsBounded, Pending
<1>3. QED
  BY <1>1, <1>2

LEMMA BoundStep ==
  MediaInv /\ PendingIsBounded /\ [Next]_vars
    => Cardinality(Pending') <= MaxPending
<1> SUFFICES ASSUME MediaInv, PendingIsBounded, [Next]_vars
             PROVE  Cardinality(Pending') <= MaxPending
  OBVIOUS
<1>1. ASSUME NEW p \in Datagrams, Receive(p)
      PROVE  Cardinality(Pending') <= MaxPending
  BY <1>1, ReceiveBounds DEF MediaInv
<1>2. ASSUME UNCHANGED frags PROVE Cardinality(Pending') <= MaxPending
  BY <1>2 DEF PendingIsBounded, Pending
<1>3. (\E p \in Datagrams : Receive(p)) \/ UNCHANGED frags
  BY DEF Next, vars, SendFrame, Publishes, Put, DropOldest, Published, Subscribe,
         Handles, Take, Idle, Write, Leave, ClientCloses, rxVars
<1>4. QED
  BY <1>1, <1>2, <1>3

\* RtpJpegReassembler's _MAX_PENDING_TS and _KEEP_NEWEST_TS bound what it keeps,
\* for any bounds, any loss and any strangers, and tables go with their fragments.
THEOREM PendingStaysBounded == Spec => []PendingIsBounded
<1>1. ASSUME MediaInv, Cardinality(Pending) <= MaxPending PROVE PendingIsBounded
  BY <1>1 DEF PendingIsBounded, Pending, MediaInv, RxInv, HeldBelongs
<1>2. Init => Cardinality(Pending) <= MaxPending
  <2>1. Init => Pending = {}
    BY DEF Init, Pending
  <2>2. QED
    BY <2>1, FS_EmptySet, MediaAssumption
<1>3. MediaInv /\ PendingIsBounded /\ [Next]_vars /\ MediaInv' => PendingIsBounded'
  <2>1. ASSUME MediaInv', Cardinality(Pending') <= MaxPending
        PROVE  PendingIsBounded'
    BY <2>1 DEF PendingIsBounded, Pending, MediaInv, RxInv, HeldBelongs
  <2>2. QED
    BY <2>1, BoundStep
<1>4. Init /\ MediaInv => PendingIsBounded
  BY <1>1, <1>2
<1>5. QED
  BY <1>3, <1>4, MediaInvariant, PTL DEF Spec

-----------------------------------------------------------------------------
\* The newest frame.

Top == (first + sent - 1) % TsRange
Outranked == \E t \in Pending : t > Top

\* As far as the newest frame has come without a break, its fragments and its
\* tables are held, unless a timestamp of before the wrap sorts after it.
RunIsHeld ==
  run \in 1..Fragments-1 =>
    Outranked \/ /\ \A i \in 0..run-1 : \E q \in frags[Top] : q.index = i
                 /\ tables[Top] # None

\* Of the timestamps after some t, pruning keeps at least one; with none after
\* it, it keeps t.
LEMMA PruneKeepsLast ==
  ASSUME NEW held \in SUBSET Stamps, NEW t \in held
  PROVE  IF \E u \in held : u > t THEN \E u \in Prune(held) : u > t
                                  ELSE t \in Prune(held)
<1> DEFINE after(x) == {y \in held : y > x}
<1>1. IsFiniteSet(held) /\ \A x \in held : IsFiniteSet(after(x))
  <2>1. IsFiniteSet(0..TsRange-1)
    BY MediaAssumption, FS_Interval
  <2>2. IsFiniteSet(held)
    BY <2>1, FS_Subset DEF Stamps
  <2>3. QED
    BY <2>2, FS_Subset
<1>2. ASSUME NEW u \in held, after(u) = {} PROVE u \in Prune(held)
  <2>1. Cardinality({y \in held : y > u}) = 0
    BY <1>2, FS_EmptySet
  <2>2. QED
    BY <2>1, MediaAssumption DEF Prune
<1>3. CASE after(t) # {}
  <2>1. \E u \in after(t) : after(u) = {}
    <3> SUFFICES ASSUME \A u \in after(t) : after(u) # {} PROVE FALSE
      OBVIOUS
    <3> DEFINE later == after(t)
               size == Cardinality(later)
               places == 1..size-1
               place == [u \in later |-> Later(held, u)]
    <3>1. IsFiniteSet(later) /\ size \in Nat /\ size # 0 /\ later \subseteq held
      BY <1>1, <1>3, FS_CardinalityType, FS_EmptySet
    <3>2. IsFiniteSet(places) /\ Cardinality(places) < size
      <4> HIDE DEF size
      <4>1. size - 1 \in Int /\ 1 \in Int
        BY <3>1
      <4>2. /\ IsFiniteSet(1..size-1)
            /\ Cardinality(1..size-1) = IF 1 > size - 1 THEN 0 ELSE size - 1 - 1 + 1
        BY ONLY <4>1, FS_Interval
      <4>3. QED
        BY <3>1, <4>2
    <3>3. place \in [later -> places]
      <4>1. ASSUME NEW u \in later PROVE Later(held, u) \in places
        <5>1. IsFiniteSet(after(u)) /\ after(u) # {} /\ t < u /\ u \in held
          BY <1>1, <3>1
        <5>2. Later(held, u) \in Nat /\ Later(held, u) # 0
          BY <5>1, FS_CardinalityType, FS_EmptySet DEF Later
        <5>3. Later(held, u) < Later(held, t)
          BY <1>1, <5>1, LaterTellsStamps
        <5>4. Later(held, t) = size
          BY DEF Later
        <5>5. QED
          BY <3>1, <5>2, <5>3, <5>4
      <4>2. QED
        BY <4>1
    <3> HIDE DEF places, place, later, size
    <3>4. PICK u \in later, w \in later : u # w /\ place[u] = place[w]
      <4>1. size = Cardinality(later)
        BY DEF size
      <4>2. QED
        BY <3>1, <3>2, <3>3, <4>1, FS_PigeonHole
    <3>5. Later(held, u) = Later(held, w)
      BY <3>4 DEF place
    <3>6. u < w \/ w < u
      BY <3>1, <3>4, MediaAssumption DEF Stamps
    <3>7. QED
      BY <1>1, <3>1, <3>5, <3>6, LaterTellsStamps
  <2>2. QED
    BY <1>2, <1>3, <2>1
<1>4. QED
  BY <1>2, <1>3

\* What is stored with a packet of the camera's is of that packet's frame.
LEMMA StoredIsOfFrame ==
  ASSUME RxInv, NEW p \in Packets, p.ssrc = setup.ssrc
  PROVE  Stored(p) \subseteq FrameOf(setup.ssrc, p.frame)
<1>1. /\ p \in Datagrams /\ first \in Stamps /\ Stamp(p) \in Stamps
      /\ p.frame \in 1..MaxFrames
  BY StampType DEF Datagrams, RxInv, RxTypeOK, Packets
<1>2. ASSUME NEW q \in Stored(p) PROVE q \in FrameOf(setup.ssrc, p.frame)
  <2>1. q \in Datagrams /\ Genuine(q) /\ Stamp(q) = Stamp(p)
    BY <1>1 DEF Stored, RxInv, RxTypeOK, HeldBelongs, Genuine
  <2>2. q.frame = p.frame
    BY <1>1, <2>1, StampsTellFrames
  <2>3. q # Stray
    BY <1>1, <2>2, MediaAssumption DEF Stray
  <2>4. QED
    BY <2>1, <2>2, <2>3 DEF Genuine, FrameOf
<1>3. QED
  BY <1>2

\* A packet that takes the newest frame on is the camera's, with its timestamp.
LEMMA RunsOn ==
  ASSUME RxInv, NEW p \in Datagrams, Receive(p), Accepted(p), Ran(p) # 0
  PROVE  /\ p \in Packets /\ p.ssrc = setup.ssrc /\ p.frame = sent
         /\ p.index \in 0..Fragments-1 /\ Stamp(p) = Top /\ Top \in Stamps
         /\ Ran(p) = p.index + 1 /\ (p.index = run \/ p.index = 0)
<1>1. /\ p.frame = sent /\ sent > 0 /\ Ran(p) = p.index + 1
      /\ p.index = run \/ p.index = 0
  BY DEF Ran
<1>2. p \in net
  <2>1. p \in net \cup {Stray, Echo}
    BY DEF Receive
  <2>2. p # Stray /\ p # Echo
    BY <1>1, MediaAssumption DEF Stray, Echo, RxInv, RxTypeOK
  <2>3. QED
    BY <2>1, <2>2
<1>3. p \in Packets /\ p.ssrc = setup.ssrc
  BY <1>2 DEF RxInv, RxTypeOK, NetIsCamera
<1>4. Stamp(p) = Top /\ Stamp(p) \in Stamps
  BY <1>1, StampType, MediaAssumption DEF Stamp, Top, RxInv, RxTypeOK
<1>5. QED
  BY <1>1, <1>3, <1>4, DatagramType

LEMMA ReceiveHoldsRun ==
  ASSUME RxInv, RunIsHeld, NEW p \in Datagrams, Receive(p)
  PROVE  RunIsHeld'
<1>0. UNCHANGED <<first, sent>> /\ Top' = Top
  BY DEF Receive, Top
<1>1. CASE ~Accepted(p)
  BY <1>0, <1>1 DEF Receive, rxVars, RunIsHeld, Outranked, Pending
<1>2. CASE Accepted(p) /\ Ran(p) \in 1..Fragments-1
  <2> DEFINE held == Pending \cup {Top}
             kept == Prune(held)
  <2>1. /\ p \in Packets /\ p.ssrc = setup.ssrc /\ p.index \in 0..Fragments-2
        /\ Stamp(p) = Top /\ Top \in Stamps /\ run' = p.index + 1
        /\ p.index = run \/ p.index = 0
    BY <1>2, RunsOn, DatagramType, MediaAssumption DEF Receive
  <2>2. /\ \A u \in Stamps :
             frags'[u] = IF u \notin kept THEN {}
                         ELSE IF u = Top THEN Stored(p) ELSE frags[u]
        /\ Top \in kept => tables'[Top] = StoredTables(p)
    <3>1. ~HasMarker(p)
      BY <2>1, MediaAssumption DEF HasMarker
    <3>2. QED
      BY <1>2, <2>1, <3>1 DEF Receive, Feed
  <2>3. held \in SUBSET Stamps /\ kept \subseteq held
    BY <2>1, PruneBounds DEF Pending
  <2> HIDE DEF kept
  <2>4. CASE Outranked
    <3>1. PICK u \in kept : u > Top
      BY <2>3, <2>4, PruneKeepsLast DEF Outranked, kept
    <3>2. u \in Stamps /\ frags'[u] # {}
      <4>1. u # Top /\ u \in Pending
        BY <2>1, <2>3, <3>1, MediaAssumption DEF Stamps
      <4>2. QED
        BY <2>2, <3>1, <4>1 DEF Pending
    <3>3. QED
      BY <1>0, <3>1, <3>2 DEF RunIsHeld, Outranked, Pending, Stamps
  <2>5. CASE ~Outranked
    <3>1. Top \in kept
      <4>1. ~\E u \in held : u > Top
        BY <2>1, <2>5, MediaAssumption DEF Outranked, Stamps
      <4>2. QED
        BY <2>3, <4>1, PruneKeepsLast DEF kept
    <3>2. frags'[Top] = Stored(p) /\ tables'[Top] = StoredTables(p)
      BY <2>1, <2>2, <3>1
    <3>3. ASSUME NEW i \in 0..run'-1 PROVE \E q \in Stored(p) : q.index = i
      <4>1. CASE i = p.index
        BY <4>1 DEF Stored
      <4>2. CASE i # p.index
        <5>1. run = p.index /\ run \in 1..Fragments-1 /\ i \in 0..run-1
          BY <2>1, <3>3, <4>2, MediaAssumption
        <5>2. PICK q \in frags[Top] : q.index = i
          BY <2>5, <5>1 DEF RunIsHeld
        <5>3. QED
          BY <2>1, <4>2, <5>2 DEF Stored
      <4>3. QED
        BY <4>1, <4>2
    <3>4. StoredTables(p) # None
      <4>1. CASE p.index = 0
        BY <2>1, <4>1, NoneAssumption DEF StoredTables, HasTables, Datagrams
      <4>2. CASE p.index # 0
        <5>1. run = p.index /\ run \in 1..Fragments-1
          BY <2>1, <4>2, MediaAssumption
        <5>2. QED
          BY <2>1, <2>5, <4>2, <5>1 DEF RunIsHeld, StoredTables, HasTables
      <4>3. QED
        BY <4>1, <4>2
    <3>5. QED
      BY <1>0, <3>2, <3>3, <3>4 DEF RunIsHeld
  <2>6. QED
    BY <2>4, <2>5
<1>3. CASE Accepted(p) /\ Ran(p) \notin 1..Fragments-1
  BY <1>3 DEF Receive, RunIsHeld
<1>4. QED
  BY <1>1, <1>2, <1>3

LEMMA RunStep == MediaInv /\ RunIsHeld /\ [Next]_vars => RunIsHeld'
<1> SUFFICES ASSUME MediaInv, RunIsHeld, [Next]_vars PROVE RunIsHeld'
  OBVIOUS
<1>1. ASSUME NEW p \in Datagrams, Receive(p) PROVE RunIsHeld'
  BY <1>1, ReceiveHoldsRun DEF MediaInv
<1>2. CASE SendFrame
  BY <1>2, MediaAssumption DEF SendFrame, RunIsHeld
<1>3. ASSUME UNCHANGED <<first, sent, frags, tables, run>> PROVE RunIsHeld'
  BY <1>3 DEF RunIsHeld, Outranked, Pending, Top
<1>4. \/ (\E p \in Datagrams : Receive(p)) \/ SendFrame
      \/ UNCHANGED <<first, sent, frags, tables, run>>
  BY DEF Next, vars, Publishes, Put, DropOldest, Published, Subscribe, Handles,
         Take, Idle, Write, Leave, ClientCloses, rxVars, sourceVars, histVars
<1>5. QED
  BY <1>1, <1>2, <1>3, <1>4

\* The packet that completes such a run completes the frame.
LEMMA RunEnds ==
  ASSUME RxInv, RunIsHeld, NEW p \in Datagrams, Receive(p),
         run' = Fragments, run # Fragments, ~Outranked
  PROVE  out' # None
<1>1. Accepted(p) /\ run' = Ran(p) /\ out' = Emitted(p)
  BY DEF Receive, Feed
<1>2. /\ p \in Packets /\ p.ssrc = setup.ssrc /\ Stamp(p) = Top /\ Top \in Stamps
      /\ p.index = Fragments - 1 /\ run = Fragments - 1
      /\ Fragments - 1 \in Nat \ {0}
  BY <1>1, RunsOn, MediaAssumption
<1>3. /\ \A i \in 0..run-1 : \E q \in frags[Top] : q.index = i
      /\ tables[Top] # None
  BY <1>2, MediaAssumption DEF RunIsHeld
<1>4. Stored(p) \subseteq FrameOf(setup.ssrc, p.frame)
  BY <1>2, StoredIsOfFrame
<1>5. \A i \in 0..Fragments-1 : \E q \in Stored(p) : q.index = i
  <2> SUFFICES ASSUME NEW i \in 0..Fragments-1 PROVE \E q \in Stored(p) : q.index = i
    OBVIOUS
  <2>1. CASE i = p.index
    BY <2>1 DEF Stored
  <2>2. CASE i # p.index
    <3>1. i \in 0..run-1
      BY <1>2, <2>2, MediaAssumption
    <3>2. PICK q \in frags[Top] : q.index = i
      BY <1>3, <3>1
    <3>3. QED
      BY <1>2, <2>2, <3>2 DEF Stored
  <2>3. QED
    BY <2>1, <2>2
<1>6. Chain(Stored(p))
  <2> DEFINE f == [q \in Stored(p) |-> q.index]
  <2>1. \A q \in Stored(p) : q.index \in 0..Fragments-1
    BY <1>4 DEF FrameOf, Packets
  <2>2. f \in Bijection(Stored(p), 0..Fragments-1)
    <3>1. ASSUME NEW q \in Stored(p), NEW r \in Stored(p), q.index = r.index
          PROVE  q = r
      BY <1>4, <3>1 DEF FrameOf, Packets
    <3>2. f \in [Stored(p) -> 0..Fragments-1]
      BY <2>1
    <3>3. \A i \in 0..Fragments-1 : \E q \in Stored(p) : f[q] = i
      BY <1>5
    <3>4. \A q, r \in Stored(p) : f[q] = f[r] => q = r
      BY <3>1
    <3> HIDE DEF f
    <3>5. QED
      BY <3>2, <3>3, <3>4, Fun_IsBij
  <2>3. Cardinality(Stored(p)) = Fragments
    <3>1. IsFiniteSet(0..Fragments-1) /\ Cardinality(0..Fragments-1) = Fragments
      BY MediaAssumption, FS_Interval
    <3>2. IsFiniteSet(Stored(p))
      <4>1. IsFiniteSet({q \in frags[Top] : q.index # p.index})
        BY <1>2, FS_Subset DEF RxInv, HeldBelongs
      <4>2. QED
        BY <1>2, <4>1, FS_AddElement DEF Stored
    <3>3. QED
      BY <2>2, <3>1, <3>2, FS_Bijection DEF ExistsBijection
  <2>4. {q.index : q \in Stored(p)} = 0..Fragments-1
    BY <1>5, <2>1
  <2>5. QED
    BY <2>3, <2>4 DEF Chain
<1>7. HasMarker(p) /\ StoredTables(p) # None
  BY <1>2, <1>3 DEF HasMarker, HasTables, StoredTables
<1>8. Stored(p) \in SUBSET Datagrams /\ StoredTables(p) \in Datagrams
  BY <1>2, <1>3 DEF Stored, StoredTables, RxInv, RxTypeOK
<1>9. Emitted(p) = [parts |-> Stored(p), tables |-> StoredTables(p)]
  BY <1>6, <1>7 DEF Emitted
<1>10. Emitted(p) \in [parts : SUBSET Datagrams, tables : Datagrams]
  BY <1>8, <1>9
<1>11. Emitted(p) # None
  <2> DEFINE emitted == Emitted(p)
  <2>1. emitted \in Datagrams \cup [parts : SUBSET Datagrams, tables : Datagrams]
    BY <1>10
  <2> HIDE DEF emitted
  <2>2. emitted # None
    BY <2>1, NoneAssumption, Zenon
  <2>3. QED
    BY <2>2 DEF emitted
<1>12. QED
  BY <1>1, <1>11

\* Pruning never costs the newest frame: for any bounds and any mixture of frames
\* and strangers, packets that come at one go become a frame that is handed out.
THEOREM NewestIsEmitted == Spec => NewestGetsThrough
<1>1. Init => RunIsHeld
  BY MediaAssumption DEF Init, RunIsHeld
<1>2. Spec => []RunIsHeld
  BY <1>1, RunStep, MediaInvariant, PTL DEF Spec
<1>3. ASSUME MediaInv, RunIsHeld, [Next]_vars
      PROVE  [run' = Fragments /\ run # Fragments =>
                \/ out' # None
                \/ \E t \in Pending : t > (first + sent - 1) % TsRange]_vars
  <2> SUFFICES ASSUME run' = Fragments, run # Fragments, ~Outranked PROVE out' # None
    BY DEF Outranked, Top
  <2>1. ASSUME NEW p \in Datagrams, Receive(p) PROVE out' # None
    BY <1>3, <2>1, RunEnds DEF MediaInv
  <2>2. ~SendFrame
    BY MediaAssumption DEF SendFrame
  <2>3. (\E p \in Datagrams : Receive(p)) \/ SendFrame \/ UNCHANGED run
    BY <1>3 DEF Next, vars, Publishes, Put, DropOldest, Published, Subscribe, Handles,
           Take, Idle, Write, Leave, ClientCloses, histVars
  <2>4. ~UNCHANGED run
    OBVIOUS
  <2>5. \E p \in Datagrams : Receive(p)
    BY <2>2, <2>3, <2>4
  <2>6. QED
    BY <2>1, <2>5
<1>4. QED
  BY <1>2, <1>3, MediaInvariant, PTL DEF Spec, NewestGetsThrough

-----------------------------------------------------------------------------
\* Every step of the media path is a step or a stutter of the viewer's channel.
LEMMA ChannelStep ==
  MediaInv /\ MediaInv' /\ [Next]_vars => [Channel!Next]_(Channel!vars)
<1> SUFFICES ASSUME MediaInv, MediaInv', [Next]_vars
             PROVE  [Channel!Next]_(Channel!vars)
  OBVIOUS
<1> USE MediaAssumption DEF Channel!vars, Channel!Next
<1>1. CASE SendFrame \/ UNCHANGED vars
  BY <1>1 DEF SendFrame, vars, pubVars, viewVars, histVars
<1>2. ASSUME NEW p \in Datagrams, Receive(p) PROVE [Channel!Next]_(Channel!vars)
  <2>1. /\ UNCHANGED <<subs, queue, taken>> /\ todo = {}
    BY <1>2 DEF Receive, viewVars, MediaInv, FanInv, FanoutTypeOK
  <2>2. CASE out' = None \/ Watched \notin subs
    <3>1. UNCHANGED <<Channel!vars>>
      BY <1>2, <2>1, <2>2 DEF Receive, MediaInv, FanInv, ViewTypeOK
    <3>2. QED
      BY <3>1
  <2>3. CASE out' # None /\ Watched \in subs
    <3>1. todo' = subs /\ offered'[Watched] = count + 1
      BY <1>2, <2>1, <2>3 DEF Receive
    <3>2. offered[Watched] \in 0..count /\ count \in Nat
      BY DEF MediaInv, FanInv, FanoutTypeOK, ViewTypeOK
    <3>3. Channel!Offer
      BY <2>1, <2>3, <3>1, <3>2 DEF Channel!Offer
    <3>4. QED
      BY <3>3
  <2>4. QED
    BY <2>2, <2>3
<1>3. CASE Publishes
  <2>1. UNCHANGED <<subs, offered, taken>>
    BY <1>3 DEF Publishes, Put, DropOldest, Published, viewVars, histVars
  <2>2. /\ queue \in [Viewers -> Seq(1..count)] /\ InOrder(Watched)
    BY DEF MediaInv, FanInv, ViewTypeOK
  <2>3. CASE Watched \in todo /\ Watched \notin todo'
    <3>1. offered[Watched] = count
      BY <2>2, <2>3 DEF InOrder
    <3>2. CASE Put(Watched)
      <4>1. Len(queue[Watched]) < QueueSize
            /\ queue'[Watched] = Append(queue[Watched], count)
        BY <2>2, <2>3, <3>2 DEF Put
      <4>2. Channel!Accept
        BY <2>1, <2>3, <3>1, <4>1 DEF Channel!Accept
      <4>3. QED
        BY <4>2
    <3>3. CASE DropOldest /\ full = Watched
      <4>1. CASE queue[Watched] = <<>>
        <5>1. queue'[Watched] = <<>>
          BY <2>2, <3>3, <4>1 DEF DropOldest
        <5>2. Channel!Miss
          BY <2>1, <2>3, <4>1, <5>1 DEF Channel!Miss
        <5>3. QED
          BY <5>2
      <4>2. CASE queue[Watched] # <<>>
        <5>1. queue'[Watched] = Append(Tail(queue[Watched]), count)
          BY <2>2, <3>3, <4>2 DEF DropOldest
        <5>2. Channel!Accept
          BY <2>1, <2>3, <3>1, <4>2, <5>1 DEF Channel!Accept
        <5>3. QED
          BY <5>2
      <4>3. QED
        BY <4>1, <4>2
    <3>4. QED
      BY <1>3, <2>3, <3>2, <3>3 DEF Publishes, Put, DropOldest, Published
  <2>4. CASE Watched \notin todo \/ Watched \in todo'
    <3>1. queue'[Watched] = queue[Watched]
          /\ (Watched \in todo' <=> Watched \in todo)
      BY <1>3, <2>2, <2>4
         DEF Publishes, Put, DropOldest, Published, viewVars, MediaInv, FanInv,
             FanoutTypeOK
    <3>2. UNCHANGED <<Channel!vars>>
      BY <2>1, <3>1
    <3>3. QED
      BY <3>2
  <2>5. QED
    BY <2>3, <2>4
<1>4. ASSUME NEW v \in Viewers, Subscribe(v) \/ Handles(v) \/ ClientCloses(v)
      PROVE  [Channel!Next]_(Channel!vars)
  <2>1. /\ UNCHANGED offered /\ todo \subseteq subs
        /\ queue \in [Viewers -> Seq(1..count)] /\ taken \in [Viewers -> 0..count]
        /\ (handler[v] = "off" <=> v \notin subs)
    BY <1>4
       DEF Subscribe, Handles, Take, Idle, Write, ClientCloses, histVars, MediaInv,
           FanInv, ViewTypeOK, Subscribed
  <2>2. CASE v = Watched
    <3>1. CASE Subscribe(v)
      <4>1. Channel!Open
        BY <2>1, <2>2, <3>1 DEF Subscribe, pubVars, histVars, Channel!Open
      <4>2. QED
        BY <4>1
    <3>2. CASE Take(v)
      <4>1. Channel!Take
        BY <2>1, <2>2, <3>2 DEF Take, pubVars, Channel!Take
      <4>2. QED
        BY <4>1
    <3>3. CASE Leave(v) /\ handler[v] # "off" /\ UNCHANGED taken
      <4>1. Channel!Close
        BY <2>1, <2>2, <3>3 DEF Leave, Channel!Close
      <4>2. QED
        BY <4>1
    <3>4. CASE UNCHANGED <<todo, subs, queue, taken>>
      BY <2>1, <3>4
    <3>5. QED
      BY <1>4, <3>1, <3>2, <3>3, <3>4
         DEF Handles, Idle, Write, ClientCloses, pubVars, histVars
  <2>3. CASE v # Watched
    <3>1. /\ queue'[Watched] = queue[Watched] /\ taken'[Watched] = taken[Watched]
          /\ (Watched \in todo' <=> Watched \in todo)
          /\ (Watched \in subs' <=> Watched \in subs)
      BY <1>4, <2>1, <2>3
         DEF Subscribe, Handles, Take, Idle, Write, Leave, ClientCloses, pubVars,
             histVars
    <3>2. UNCHANGED <<Channel!vars>>
      BY <2>1, <3>1
    <3>3. QED
      BY <3>2
  <2>4. QED
    BY <2>2, <2>3
<1>5. QED
  BY <1>1, <1>2, <1>3, <1>4 DEF Next

\* Fanout, _mjpeg and _pump implement LatestFrames for every viewer: frames come
\* in order and once, at most the queue's size wait, and only the oldest give way.
THEOREM ViewersChannel == Spec => ViewerGetsLatest
<1>1. Init => Channel!Init
  BY MediaAssumption DEF Init, Channel!Init
<1>2. QED
  BY <1>1, MediaInvariant, ChannelStep, PTL DEF Spec, ViewerGetsLatest, Channel!Spec

=============================================================================
