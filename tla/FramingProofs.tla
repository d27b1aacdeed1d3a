---------------------------- MODULE FramingProofs ----------------------------
(***************************************************************************)
(* However the network cuts a stream into chunks, the loops of Framing     *)
(* make of it what they make of its messages one by one.                   *)
(*                                                                         *)
(* A loop with one buffer (HTTP, the relay's client, the relay's           *)
(* publisher): a pass over a buffer does the same and leaves the same when *)
(* more is behind it (PassKept).  So if each message is taken whole when   *)
(* it comes alone, it is taken whole among others, and a part of it is     *)
(* left where it is: the loop stays where it would be after the first      *)
(* messages, with a part of the rest in its buffer (Follows).              *)
(*                                                                         *)
(* The signalling port drops what is no frame, so its buffer is a stretch  *)
(* of the stream that begins behind the last frame answered and not behind *)
(* the start of the next one (SigFollows).  A frame of the stretch is one  *)
(* of the stream (FrameOfStretch) and its first one is the next            *)
(* (NextInBuffer, SigCuts); what is dropped holds no start of a frame, not *)
(* even half a magic (TailAt, SigDrops).                                   *)
(*                                                                         *)
(* That a message that comes alone is taken whole is shown for requests,   *)
(* for what a camera publishes and for what the relay plays (TakenInTurn,  *)
(* TakenOneByOne, PlayedAlong).                                            *)
(***************************************************************************)
EXTENDS Framing, FiniteSetTheorems, WellFoundedInduction, TLAPS

\* A set of naturals that is not empty has a lowest member: of the intervals
\* up to its members one contains no other.
LEMMA LowestIn ==
  ASSUME NEW S \in SUBSET Nat, S # {}
  PROVE  /\ LowestOf(S) \in S
         /\ \A y \in S : LowestOf(S) <= y
<1> DEFINE below == {0..x : x \in S}
<1>1. below \subseteq FiniteSubsetsOf(Nat) /\ below # {}
  <2>1. \A x \in S : 0..x \in SUBSET Nat /\ IsFiniteSet(0..x)
    BY FS_Interval
  <2>2. QED
    BY <2>1 DEF FiniteSubsetsOf
<1>2. PICK b \in below : \A c \in below : ~ (<<c, b>> \in StrictSubsetOrdering(Nat))
  <2> HIDE DEF below
  <2>1. QED
    BY <1>1, FS_StrictSubsetOrderingWellFounded, WFMin
<1>3. PICK m \in S : b = 0..m
  BY <1>2
<1>4. \A y \in S : m <= y
  <2>1. SUFFICES ASSUME NEW y \in S, y < m PROVE FALSE
    OBVIOUS
  <2>2. m \in Nat /\ y \in Nat
    OBVIOUS
  <2>3. 0..y # 0..m /\ 0..y \subseteq 0..m /\ 0..m \in SUBSET Nat
    <3>1. m \in 0..m /\ m \notin 0..y
      BY <2>1, <2>2
    <3>2. QED
      BY <2>1, <2>2, <3>1
  <2>4. <<0..y, 0..m>> \in StrictSubsetOrdering(Nat)
    BY <2>3 DEF StrictSubsetOrdering
  <2>5. QED
    BY <1>2, <1>3, <2>4
<1>5. QED
  BY <1>4 DEF LowestOf

LEMMA LowestIs ==
  ASSUME NEW S \in SUBSET Nat, NEW m \in S, \A y \in S : m <= y
  PROVE  LowestOf(S) = m
<1>1. LowestOf(S) \in S /\ LowestOf(S) <= m /\ m <= LowestOf(S)
  BY LowestIn
<1>2. LowestOf(S) \in Nat /\ m \in Nat
  BY <1>1
<1>3. QED
  BY <1>1, <1>2

LEMMA HighestIn ==
  ASSUME NEW n \in Nat, NEW S \in SUBSET (0..n), S # {}
  PROVE  /\ HighestOf(S) \in S
         /\ \A y \in S : y <= HighestOf(S)
<1> DEFINE T == {n - x : x \in S}
<1>1. T \in SUBSET Nat /\ T # {}
  <2>1. \A x \in S : n - x \in Nat
    OBVIOUS
  <2>2. QED
    BY <2>1
<1>2. LowestOf(T) \in T /\ \A y \in T : LowestOf(T) <= y
  <2> HIDE DEF T
  <2>1. QED
    BY <1>1, LowestIn
<1>3. PICK m \in S : LowestOf(T) = n - m
  BY <1>2
<1>4. \A y \in S : y <= m
  <2>1. SUFFICES ASSUME NEW y \in S PROVE y <= m
    OBVIOUS
  <2>2. n - y \in T
    OBVIOUS
  <2>3. n - m <= n - y
    BY <1>2, <1>3, <2>2
  <2>4. QED
    BY <2>3
<1>5. QED
  BY <1>4 DEF HighestOf

-----------------------------------------------------------------------------
(* Sequences of bytes: what stays when more of them arrive.                *)

\* A buffer and what arrives behind it.
LEMMA Joined ==
  ASSUME NEW b \in Seq(Nat), NEW x \in Seq(Nat)
  PROVE  /\ b \o x \in Seq(Nat) /\ Len(b \o x) = Len(b) + Len(x)
         /\ Len(b) \in Nat /\ Len(x) \in Nat
         /\ \A i \in 1..Len(b) : (b \o x)[i] = b[i] /\ b[i] \in Nat
         /\ \A i \in 1..Len(x) : (b \o x)[Len(b) + i] = x[i] /\ x[i] \in Nat
OBVIOUS

LEMMA Stretch ==
  ASSUME NEW b \in Seq(Nat), NEW p \in Nat, NEW r \in Nat, p <= r, r <= Len(b)
  PROVE  /\ SubSeq(b, p + 1, r) \in Seq(Nat) /\ Len(SubSeq(b, p + 1, r)) = r - p
         /\ \A i \in 1..(r - p) : SubSeq(b, p + 1, r)[i] = b[p + i]
<1>1. SubSeq(b, p + 1, r) \in Seq(Nat)
  OBVIOUS
<1>2. Len(SubSeq(b, p + 1, r)) = r - p
  OBVIOUS
<1>3. ASSUME NEW i \in 1..(r - p)
      PROVE  SubSeq(b, p + 1, r)[i] = b[p + i]
  OBVIOUS
<1>4. QED
  BY <1>1, <1>2, <1>3

LEMMA SubSeqOf ==
  ASSUME NEW b \in Seq(Nat), NEW m \in 1..(Len(b) + 1), NEW n \in (m - 1)..Len(b)
  PROVE  /\ SubSeq(b, m, n) \in Seq(Nat) /\ Len(SubSeq(b, m, n)) = n - m + 1
         /\ \A i \in 1..(n - m + 1) : SubSeq(b, m, n)[i] = b[m + i - 1]
<1> DEFINE p == m - 1
<1>1. p \in Nat /\ p <= n /\ n <= Len(b) /\ n \in Nat /\ p + 1 = m /\ n - p = n - m + 1
  OBVIOUS
<1>2. \A i \in 1..(n - m + 1) : p + i = m + i - 1
  OBVIOUS
<1> HIDE DEF p
<1>3. /\ SubSeq(b, p + 1, n) \in Seq(Nat) /\ Len(SubSeq(b, p + 1, n)) = n - p
      /\ \A i \in 1..(n - p) : SubSeq(b, p + 1, n)[i] = b[p + i]
  BY <1>1, Stretch
<1>4. QED
  BY <1>1, <1>2, <1>3

LEMMA SameSeq ==
  ASSUME NEW b \in Seq(Nat), NEW c \in Seq(Nat), Len(b) = Len(c),
         \A i \in 1..Len(b) : b[i] = c[i]
  PROVE  b = c
OBVIOUS

LEMMA FrontKept ==
  ASSUME NEW b \in Seq(Nat), NEW x \in Seq(Nat),
         NEW m \in 1..(Len(b) + 1), NEW n \in (m - 1)..Len(b)
  PROVE  SubSeq(b \o x, m, n) = SubSeq(b, m, n)
<1>1. Len(b) \in Nat /\ m \in 1..(Len(b \o x) + 1) /\ n \in (m - 1)..Len(b \o x)
  BY Joined
<1>2. \A i \in 1..(n - m + 1) : SubSeq(b \o x, m, n)[i] = SubSeq(b, m, n)[i]
  <2>1. SUFFICES ASSUME NEW i \in 1..(n - m + 1)
                 PROVE  SubSeq(b \o x, m, n)[i] = SubSeq(b, m, n)[i]
    OBVIOUS
  <2>2. m + i - 1 \in 1..Len(b)
    BY <1>1
  <2>3. QED
    BY <1>1, <2>2, Joined, SubSeqOf
<1>3. QED
  BY <1>1, <1>2, Joined, SubSeqOf, SameSeq

LEMMA BeyondOf ==
  ASSUME NEW b \in Seq(Nat), NEW n \in 0..Len(b)
  PROVE  /\ Beyond(n, b) \in Seq(Nat) /\ Len(Beyond(n, b)) = Len(b) - n
         /\ \A i \in 1..(Len(b) - n) : Beyond(n, b)[i] = b[n + i]
<1>1. /\ Len(b) \in Nat /\ n + 1 \in 1..(Len(b) + 1) /\ Len(b) \in ((n + 1) - 1)..Len(b)
      /\ Len(b) - (n + 1) + 1 = Len(b) - n
  OBVIOUS
<1>2. \A i \in 1..(Len(b) - n) : (n + 1) + i - 1 = n + i
  BY <1>1
<1> DEFINE m == n + 1
<1>3. m \in 1..(Len(b) + 1) /\ Len(b) \in (m - 1)..Len(b)
  BY <1>1
<1>4. /\ SubSeq(b, m, Len(b)) \in Seq(Nat) /\ Len(SubSeq(b, m, Len(b))) = Len(b) - m + 1
      /\ \A i \in 1..(Len(b) - m + 1) : SubSeq(b, m, Len(b))[i] = b[m + i - 1]
  <2> HIDE DEF m
  <2>1. QED
    BY <1>3, SubSeqOf
<1>5. QED
  BY <1>1, <1>2, <1>4 DEF Beyond

LEMMA BeyondKept ==
  ASSUME NEW b \in Seq(Nat), NEW x \in Seq(Nat), NEW n \in 0..Len(b)
  PROVE  Beyond(n, b \o x) = Beyond(n, b) \o x /\ Beyond(n, b) \in Seq(Nat)
<1> DEFINE r == Beyond(n, b)
           t == Beyond(n, b \o x)
<1>1. /\ Len(b) \in Nat /\ Len(x) \in Nat /\ n \in 0..Len(b \o x)
      /\ b \o x \in Seq(Nat) /\ Len(b \o x) = Len(b) + Len(x)
  BY Joined
<1>2. /\ r \in Seq(Nat) /\ Len(r) = Len(b) - n
      /\ \A i \in 1..(Len(b) - n) : r[i] = b[n + i]
  BY BeyondOf
<1>3. /\ t \in Seq(Nat) /\ Len(t) = Len(b) + Len(x) - n
      /\ \A i \in 1..(Len(b) + Len(x) - n) : t[i] = (b \o x)[n + i]
  <2> DEFINE w == b \o x
  <2>1. w \in Seq(Nat) /\ n \in 0..Len(w) /\ Len(w) = Len(b) + Len(x)
    BY <1>1
  <2> HIDE DEF w
  <2>2. /\ Beyond(n, w) \in Seq(Nat) /\ Len(Beyond(n, w)) = Len(w) - n
        /\ \A i \in 1..(Len(w) - n) : Beyond(n, w)[i] = w[n + i]
    BY <2>1, BeyondOf
  <2>3. QED
    BY <2>1, <2>2 DEF w
<1> HIDE DEF r, t
<1>4. /\ r \o x \in Seq(Nat) /\ Len(r \o x) = Len(r) + Len(x)
      /\ \A i \in 1..Len(r) : (r \o x)[i] = r[i]
      /\ \A i \in 1..Len(x) : (r \o x)[Len(r) + i] = x[i]
  <2>1. r \in Seq(Nat)
    BY <1>2
  <2>2. QED
    BY <2>1, Joined
<1>5. ASSUME NEW i \in 1..Len(t) PROVE t[i] = (r \o x)[i]
  <2>1. CASE i <= Len(r)
    <3>1. /\ i \in 1..(Len(b) - n) /\ i \in 1..Len(r) /\ n + i \in 1..Len(b)
          /\ i \in 1..(Len(b) + Len(x) - n)
      <4>1. i \in Nat /\ 1 <= i /\ Len(r) = Len(b) - n
        BY <1>2, <1>3
      <4>2. QED
        BY <1>1, <2>1, <4>1
    <3>2. (b \o x)[n + i] = b[n + i]
      BY <3>1, Joined
    <3>3. t[i] = (b \o x)[n + i] /\ r[i] = b[n + i] /\ (r \o x)[i] = r[i]
      BY <1>2, <1>3, <1>4, <3>1
    <3>4. QED
      BY <3>2, <3>3
  <2>2. CASE i > Len(r)
    <3>1. PICK j \in 1..Len(x) : n + i = Len(b) + j /\ i = Len(r) + j
      <4> DEFINE bl == Len(b)
                 xl == Len(x)
      <4>0. /\ i \in Nat /\ i <= bl + xl - n /\ Len(r) = bl - n /\ bl \in Nat
            /\ xl \in Nat /\ n \in Nat /\ n <= bl
        BY <1>1, <1>2, <1>3
      <4> HIDE DEF bl, xl
      <4>1. i - Len(r) \in 1..xl
        BY <2>2, <4>0
      <4>2. n + i = bl + (i - Len(r)) /\ i = Len(r) + (i - Len(r))
        BY <4>0
      <4> USE DEF bl, xl
      <4>3. QED
        BY <4>1, <4>2
    <3>2. (b \o x)[Len(b) + j] = x[j]
      BY Joined
    <3>3. QED
      BY <1>3, <1>4, <3>1, <3>2
  <2>3. i \in Nat /\ Len(r) \in Nat
    BY <1>1, <1>2, <1>3
  <2>4. i <= Len(r) \/ i > Len(r)
    BY <2>3
  <2>5. QED
    BY <2>1, <2>2, <2>4
<1>6. t = r \o x
  <2>1. Len(t) = Len(r \o x)
    BY <1>1, <1>2, <1>3, <1>4
  <2>2. QED
    BY <1>3, <1>4, <1>5, <2>1, SameSeq
<1>7. QED
  BY <1>2, <1>6 DEF r, t

LEMMA FirstKept ==
  ASSUME NEW b \in Seq(Nat), NEW x \in Seq(Nat), NEW n \in 0..Len(b)
  PROVE  FirstOf(n, b \o x) = FirstOf(n, b) /\ FirstOf(n, b) \in Seq(Nat)
<1>1. Len(b) \in Nat /\ n <= Len(b) /\ n <= Len(b \o x) /\ 1 \in 1..(Len(b) + 1)
      /\ n \in (1 - 1)..Len(b)
  BY Joined
<1>2. QED
  BY <1>1, FrontKept, SubSeqOf DEF FirstOf

\* A head that is there stays the same.
LEMMA HeadKept ==
  ASSUME NEW b \in Seq(Nat), NEW x \in Seq(Nat), HasHead(b)
  PROVE  /\ HasHead(b \o x) /\ HeadOf(b \o x) = HeadOf(b)
         /\ AfterHead(b \o x) = AfterHead(b) \o x
         /\ HeadOf(b) \in Seq(Nat) /\ AfterHead(b) \in Seq(Nat)
<1> DEFINE i == LowestOf(BlankLinesOf(b))
<1>1. BlankLinesOf(b) \in SUBSET Nat /\ BlankLinesOf(b \o x) \in SUBSET Nat
  BY Joined DEF BlankLinesOf
<1>2. i \in BlankLinesOf(b) /\ \A j \in BlankLinesOf(b) : i <= j
  BY <1>1, LowestIn DEF HasHead
<1> HIDE DEF i
<1>3. i \in 1..(Len(b) - 1) /\ Len(b) \in Nat
  BY <1>2, Joined DEF BlankLinesOf
<1>4. i \in BlankLinesOf(b \o x)
  BY <1>2, <1>3, Joined DEF BlankLinesOf
<1>5. \A j \in BlankLinesOf(b \o x) : i <= j
  <2>1. SUFFICES ASSUME NEW j \in BlankLinesOf(b \o x), j < i PROVE FALSE
    BY <1>1, <1>3
  <2>2. j \in 1..(Len(b) - 1) /\ j \in 1..Len(b) /\ j + 1 \in 1..Len(b)
    BY <1>3, <2>1 DEF BlankLinesOf
  <2>3. (b \o x)[j] = b[j] /\ (b \o x)[j + 1] = b[j + 1]
    BY <2>2, Joined
  <2>4. j \in BlankLinesOf(b)
    BY <2>1, <2>2, <2>3 DEF BlankLinesOf
  <2>5. QED
    BY <1>2, <1>3, <2>1, <2>2, <2>4
<1>6. LowestOf(BlankLinesOf(b \o x)) = i
  BY <1>1, <1>4, <1>5, LowestIs
<1>7. /\ 1 \in 1..(Len(b) + 1) /\ i - 1 \in (1 - 1)..Len(b) /\ i + 1 \in 0..Len(b)
      /\ i + 2 = (i + 1) + 1
  BY <1>3
<1>8. SubSeq(b \o x, 1, i - 1) = SubSeq(b, 1, i - 1) /\ SubSeq(b, 1, i - 1) \in Seq(Nat)
  BY <1>7, FrontKept, SubSeqOf
<1>9. Beyond(i + 1, b \o x) = Beyond(i + 1, b) \o x /\ Beyond(i + 1, b) \in Seq(Nat)
  BY <1>7, BeyondKept
<1>10. QED
  BY <1>4, <1>6, <1>7, <1>8, <1>9 DEF HasHead, HeadOf, AfterHead, Beyond, i

LEMMA LengthInNat ==
  ASSUME NEW head \in Seq(Nat), NEW at \in Nat
  PROVE  LengthIn(head, at) \in Nat
BY DEF LengthIn

LEMMA BodyKept ==
  ASSUME NEW b \in Seq(Nat), NEW x \in Seq(Nat), NEW n \in Nat, BodyOf(b, n).whole
  PROVE  /\ BodyOf(b \o x, n).whole /\ BodyOf(b \o x, n).body = BodyOf(b, n).body
         /\ BodyOf(b \o x, n).rest = BodyOf(b, n).rest \o x
         /\ BodyOf(b, n).rest \in Seq(Nat) /\ BodyOf(b, n).body \in Seq(Nat)
<1>1. n \in 0..Len(b) /\ n <= Len(b \o x)
  <2>1. BodyOf(b, n).whole = (Len(b) >= n)
    BY DEF BodyOf
  <2>2. Len(b) >= n
    BY <2>1, Zenon
  <2>3. QED
    BY <2>2, Joined
<1>2. /\ FirstOf(n, b \o x) = FirstOf(n, b) /\ FirstOf(n, b) \in Seq(Nat)
      /\ Beyond(n, b \o x) = Beyond(n, b) \o x /\ Beyond(n, b) \in Seq(Nat)
  BY <1>1, FirstKept, BeyondKept
<1>3. \A d \in Seq(Nat) : /\ BodyOf(d, n).whole = (Len(d) >= n)
                          /\ BodyOf(d, n).body = FirstOf(n, d)
                          /\ BodyOf(d, n).rest = Beyond(n, d)
  BY DEF BodyOf
<1>4. BodyOf(b \o x, n).whole
  BY <1>1, <1>3, Joined
<1>5. b \o x \in Seq(Nat)
  BY Joined
<1>6. QED
  BY <1>2, <1>3, <1>4, <1>5

LEMMA InterleavedKept ==
  ASSUME NEW b \in Seq(Nat), NEW x \in Seq(Nat), HasInterleaved(b)
  PROVE  /\ HasInterleaved(b \o x) /\ PayloadOf(b \o x) = PayloadOf(b)
         /\ AfterInterleaved(b \o x) = AfterInterleaved(b) \o x
         /\ (b \o x)[1] = b[1] /\ (b \o x)[2] = b[2]
         /\ PayloadOf(b) \in Seq(Nat) /\ AfterInterleaved(b) \in Seq(Nat)
<1>1. /\ Len(b) \in Nat /\ 1 \in 1..Len(b) /\ 2 \in 1..Len(b) /\ 3 \in 1..Len(b)
      /\ Len(b) >= 3 + b[3]
  BY Joined DEF HasInterleaved
<1>2. b[3] \in Nat /\ (b \o x)[3] = b[3] /\ (b \o x)[1] = b[1] /\ (b \o x)[2] = b[2]
  BY <1>1, Joined
<1>3. 3 \in 0..Len(b) /\ 3 + b[3] \in 0..Len(b)
  BY <1>1, <1>2
<1>4. /\ Beyond(3, b \o x) = Beyond(3, b) \o x /\ Beyond(3, b) \in Seq(Nat)
      /\ Beyond(3 + b[3], b \o x) = Beyond(3 + b[3], b) \o x
      /\ Beyond(3 + b[3], b) \in Seq(Nat)
  BY <1>3, BeyondKept
<1>5. b[3] \in 0..Len(Beyond(3, b))
  <2>1. Len(Beyond(3, b)) = Len(b) - 3
    BY <1>3, BeyondOf
  <2>2. QED
    BY <1>1, <1>2, <2>1
<1>6. FirstOf(b[3], Beyond(3, b) \o x) = FirstOf(b[3], Beyond(3, b))
      /\ FirstOf(b[3], Beyond(3, b)) \in Seq(Nat)
  BY <1>4, <1>5, FirstKept
<1>7. Len(b \o x) >= 3 /\ Len(b \o x) >= 3 + b[3]
  BY <1>1, <1>2, Joined
<1>8. QED
  BY <1>2, <1>4, <1>6, <1>7 DEF HasInterleaved, PayloadOf, AfterInterleaved

-----------------------------------------------------------------------------
(* A pass that took something takes the same when more has arrived: what    *)
(* arrived stays behind it.  This is the heart of the matter, a fact of     *)
(* each of the three loops with one buffer.                                *)

IsLoop(l) ==
  l \in [buf : Seq(Nat), sigBuf : {l.sigBuf}, stage : {l.stage}, out : {l.out},
         open : {l.open}, retried : {l.retried}, sdp : {l.sdp},
         tracks : {l.tracks}, channels : {l.channels}]

LEMMA LeftIsLoop ==
  ASSUME NEW l, IsLoop(l), NEW a \in Seq(Nat)
  PROVE  /\ IsLoop(Left(l, a)) /\ Left(l, a).buf = a
         /\ Left(l, a).sigBuf = l.sigBuf
         /\ Left(l, a).stage = l.stage /\ Left(l, a).out = l.out
         /\ Left(l, a).open = l.open /\ Left(l, a).retried = l.retried
         /\ Left(l, a).sdp = l.sdp /\ Left(l, a).tracks = l.tracks
         /\ Left(l, a).channels = l.channels
BY DEF IsLoop, Left

LEMMA LeftTwice ==
  ASSUME NEW l, IsLoop(l), NEW a \in Seq(Nat), NEW b \in Seq(Nat)
  PROVE  Left(Left(l, a), b) = Left(l, b)
BY DEF IsLoop, Left

LEMMA LeftOwn ==
  ASSUME NEW l, IsLoop(l)
  PROVE  Left(l, l.buf) = l /\ l.buf \in Seq(Nat)
BY DEF IsLoop, Left

LEMMA ClosedLeft ==
  ASSUME NEW l, IsLoop(l), NEW a \in Seq(Nat)
  PROVE  /\ IsLoop(Closed(l)) /\ Closed(l).buf = l.buf
         /\ Closed(Left(l, a)) = Left(Closed(l), a)
BY DEF IsLoop, Left, Closed

LEMMA SaysLeft ==
  ASSUME NEW l, IsLoop(l), NEW a \in Seq(Nat), NEW m
  PROVE  /\ IsLoop(Says(l, m)) /\ Says(l, m).buf = l.buf
         /\ Says(Left(l, a), m) = Left(Says(l, m), a)
BY DEF IsLoop, Left, Says

\* What is left behind what was taken, and what is said at that.
LEMMA LeftBehind ==
  ASSUME NEW l, IsLoop(l), NEW b \in Seq(Nat), NEW c \in Seq(Nat), NEW x \in Seq(Nat)
  PROVE  /\ IsLoop(Left(l, c)) /\ Left(l, c).buf = c
         /\ Left(Left(l, b), c \o x) = Left(Left(l, c), c \o x)
<1> DEFINE w == c \o x
<1>1. w \in Seq(Nat)
  BY Joined
<1> HIDE DEF w
<1>2. Left(Left(l, b), w) = Left(l, w) /\ Left(Left(l, c), w) = Left(l, w)
  BY <1>1, LeftTwice
<1>3. QED
  BY <1>2, LeftIsLoop DEF w

LEMMA SaysBehind ==
  ASSUME NEW l, IsLoop(l), NEW b \in Seq(Nat), NEW c \in Seq(Nat), NEW x \in Seq(Nat),
         NEW m
  PROVE  /\ IsLoop(Says(Left(l, c), m)) /\ Says(Left(l, c), m).buf = c
         /\ Says(Left(Left(l, b), c \o x), m) = Left(Says(Left(l, c), m), c \o x)
<1> DEFINE w == c \o x
           k == Left(l, c)
<1>1. w \in Seq(Nat)
  BY Joined
<1>2. IsLoop(k) /\ k.buf = c /\ Left(Left(l, b), w) = Left(k, w)
  BY LeftBehind
<1> HIDE DEF w, k
<1>3. /\ IsLoop(Says(k, m)) /\ Says(k, m).buf = k.buf
      /\ Says(Left(k, w), m) = Left(Says(k, m), w)
  BY <1>1, <1>2, SaysLeft
<1>4. QED
  BY <1>2, <1>3 DEF w, k

\* A body that is whole behind its head.
LEMMA BodyBehind ==
  ASSUME NEW b \in Seq(Nat), NEW x \in Seq(Nat), HasHead(b), NEW n \in Nat,
         BodyOf(AfterHead(b), n).whole
  PROVE  /\ BodyOf(AfterHead(b \o x), n).whole
         /\ BodyOf(AfterHead(b \o x), n).body = BodyOf(AfterHead(b), n).body
         /\ BodyOf(AfterHead(b \o x), n).rest = BodyOf(AfterHead(b), n).rest \o x
         /\ BodyOf(AfterHead(b), n).rest \in Seq(Nat)
         /\ BodyOf(AfterHead(b), n).rest \o x \in Seq(Nat)
         /\ BodyOf(AfterHead(b), n).body \in Seq(Nat)
<1> DEFINE after == AfterHead(b)
<1>1. after \in Seq(Nat) /\ AfterHead(b \o x) = after \o x
  BY HeadKept
<1>2. BodyOf(after, n).whole
  OBVIOUS
<1> HIDE DEF after
<1>3. /\ BodyOf(after \o x, n).whole
      /\ BodyOf(after \o x, n).body = BodyOf(after, n).body
      /\ BodyOf(after \o x, n).rest = BodyOf(after, n).rest \o x
      /\ BodyOf(after, n).rest \in Seq(Nat) /\ BodyOf(after, n).body \in Seq(Nat)
  BY <1>1, <1>2, BodyKept
<1>4. BodyOf(after, n).rest \o x \in Seq(Nat)
  BY <1>3, Joined
<1>5. QED
  BY <1>1, <1>3, <1>4 DEF after

\* The broker's handler, on the port of the HTTP API.
LEMMA AnswerRequestKept ==
  ASSUME NEW l, IsLoop(l), NEW x \in Seq(Nat), AnswerRequest("http", l) # l
  PROVE  /\ IsLoop(AnswerRequest("http", l))
         /\ AnswerRequest("http", Left(l, l.buf \o x))
              = Left(AnswerRequest("http", l), AnswerRequest("http", l).buf \o x)
<1> DEFINE b == l.buf
           k == Left(l, b \o x)
           head == HeadOf(b)
           got == BodyOf(AfterHead(b), LengthIn(head, 3))
           answered == Says(Left(l, got.rest), <<"request", got.body>>)
           answeredK == Says(Left(k, got.rest \o x), <<"request", got.body>>)
<1>1. b \in Seq(Nat) /\ b \o x \in Seq(Nat) /\ l = Left(l, b)
  BY LeftOwn, Joined
<1>2. IsLoop(k) /\ k.buf = b \o x
  BY <1>1, LeftIsLoop
<1>3. HasHead(b)
  BY DEF AnswerRequest
<1>4. /\ HasHead(b \o x) /\ HeadOf(b \o x) = head
      /\ head \in Seq(Nat) /\ LengthIn(head, 3) \in Nat
  BY <1>1, <1>3, HeadKept, LengthInNat
<1>5. CASE Len(head) < 2
  <2>1. AnswerRequest("http", l) = Closed(l) /\ AnswerRequest("http", k) = Closed(k)
    BY <1>2, <1>3, <1>4, <1>5 DEF AnswerRequest
  <2>2. QED
    BY <1>1, <2>1, ClosedLeft
<1>6. CASE ~ (Len(head) < 2)
  <2>1. got.whole
    BY <1>3, <1>6 DEF AnswerRequest
  <2>2. /\ BodyOf(AfterHead(b \o x), LengthIn(head, 3)).whole
        /\ BodyOf(AfterHead(b \o x), LengthIn(head, 3)).body = got.body
        /\ BodyOf(AfterHead(b \o x), LengthIn(head, 3)).rest = got.rest \o x
        /\ got.rest \in Seq(Nat) /\ got.rest \o x \in Seq(Nat)
    <3> DEFINE n == LengthIn(head, 3)
    <3> HIDE DEF b, n
    <3>1. b \in Seq(Nat) /\ HasHead(b) /\ n \in Nat /\ BodyOf(AfterHead(b), n).whole
      BY <1>1, <1>3, <1>4, <2>1 DEF n
    <3>2. /\ BodyOf(AfterHead(b \o x), n).whole
          /\ BodyOf(AfterHead(b \o x), n).body = BodyOf(AfterHead(b), n).body
          /\ BodyOf(AfterHead(b \o x), n).rest = BodyOf(AfterHead(b), n).rest \o x
          /\ BodyOf(AfterHead(b), n).rest \in Seq(Nat)
          /\ BodyOf(AfterHead(b), n).rest \o x \in Seq(Nat)
      BY <3>1, BodyBehind
    <3>3. QED
      BY <3>2 DEF n
  <2>3. /\ IsLoop(answered) /\ answered.buf = got.rest
        /\ answeredK = Left(answered, got.rest \o x)
    <3> DEFINE r == got.rest
               m == <<"request", got.body>>
               w == b \o x
    <3>1. r \in Seq(Nat) /\ w \in Seq(Nat)
      BY <1>1, <2>2
    <3> HIDE DEF b, got, r, m, w
    <3>2. /\ IsLoop(Says(Left(l, r), m)) /\ Says(Left(l, r), m).buf = r
          /\ Says(Left(Left(l, w), r \o x), m) = Left(Says(Left(l, r), m), r \o x)
      BY <3>1, SaysBehind
    <3>3. QED
      BY <3>2 DEF r, m, w
  <2>4. CASE CloseHeader \in ToSet(head)
    <3>1. /\ AnswerRequest("http", l) = Closed(answered)
          /\ AnswerRequest("http", k) = Closed(answeredK)
      BY <1>2, <1>3, <1>4, <1>6, <2>1, <2>2, <2>4 DEF AnswerRequest
    <3> DEFINE w == got.rest \o x
    <3>2. /\ IsLoop(answered) /\ answered.buf = got.rest /\ w \in Seq(Nat)
          /\ answeredK = Left(answered, w)
      BY <2>2, <2>3
    <3> HIDE DEF answered, answeredK, k, got, w
    <3>3. /\ IsLoop(Closed(answered)) /\ Closed(answered).buf = got.rest
          /\ Closed(answeredK) = Left(Closed(answered), w)
      BY <3>2, ClosedLeft
    <3>4. QED
      BY <3>1, <3>3 DEF k, w
  <2>5. CASE ~ (CloseHeader \in ToSet(head))
    <3>1. /\ AnswerRequest("http", l) = answered
          /\ AnswerRequest("http", k) = answeredK
      BY <1>2, <1>3, <1>4, <1>6, <2>1, <2>2, <2>5 DEF AnswerRequest
    <3> HIDE DEF answered, answeredK, k, got
    <3>2. QED
      BY <2>3, <3>1 DEF k
  <2>6. QED
    BY <2>4, <2>5
<1>7. QED
  BY <1>5, <1>6

LEMMA GrantedLeft ==
  ASSUME NEW l, IsLoop(l), NEW a \in Seq(Nat), NEW body
  PROVE  /\ IsLoop(Granted(l, body)) /\ Granted(l, body).buf = l.buf
         /\ Granted(Left(l, a), body) = Left(Granted(l, body), a)
<1>1. /\ Left(l, a).stage = l.stage /\ Left(l, a).sdp = l.sdp
      /\ Left(l, a).tracks = l.tracks /\ IsLoop(Left(l, a))
  BY LeftIsLoop
<1>2. CASE l.stage = "first"
  BY <1>1, <1>2 DEF Granted, IsLoop, Left
<1>3. CASE l.stage = "describe" /\ ParseSdp(body) = {}
  <2>1. Granted(l, body) = Closed(l) /\ Granted(Left(l, a), body) = Closed(Left(l, a))
    BY <1>1, <1>3 DEF Granted
  <2>2. QED
    BY <2>1, ClosedLeft
<1>4. CASE l.stage = "describe" /\ ParseSdp(body) # {}
  BY <1>1, <1>4 DEF Granted, IsLoop, Left
<1>5. CASE l.stage = "setup"
  BY <1>1, <1>5 DEF Granted, IsLoop, Left
<1>6. CASE l.stage \notin {"first", "describe", "setup"}
  BY <1>1, <1>6 DEF Granted, IsLoop, Left
<1>7. QED
  BY <1>2, <1>3, <1>4, <1>5, <1>6

LEMMA AnsweredLeft ==
  ASSUME NEW l, IsLoop(l), NEW a \in Seq(Nat), NEW status, NEW body
  PROVE  /\ IsLoop(Answered(l, status, body)) /\ Answered(l, status, body).buf = l.buf
         /\ Answered(Left(l, a), status, body) = Left(Answered(l, status, body), a)
<1>1. IsLoop(Left(l, a)) /\ Left(l, a).retried = l.retried
  BY LeftIsLoop
<1>2. CASE status = Ok
  <2> DEFINE k == [l EXCEPT !.retried = FALSE]
  <2>1. /\ IsLoop(k) /\ k.buf = l.buf
        /\ [Left(l, a) EXCEPT !.retried = FALSE] = Left(k, a)
    BY DEF IsLoop, Left
  <2> HIDE DEF k
  <2>2. /\ Answered(l, status, body) = Granted(k, body)
        /\ Answered(Left(l, a), status, body) = Granted(Left(k, a), body)
    BY <1>2, <2>1 DEF Answered, k
  <2>3. QED
    BY <2>1, <2>2, GrantedLeft
<1>3. CASE status # Ok /\ status = Unauthorized /\ ~l.retried
  <2>1. /\ Answered(l, status, body) = [l EXCEPT !.retried = TRUE]
        /\ Answered(Left(l, a), status, body) = [Left(l, a) EXCEPT !.retried = TRUE]
    BY <1>1, <1>3 DEF Answered
  <2>2. QED
    BY <2>1 DEF IsLoop, Left
<1>4. CASE status # Ok /\ ~ (status = Unauthorized /\ ~l.retried)
  <2>1. /\ Answered(l, status, body) = Closed(l)
        /\ Answered(Left(l, a), status, body) = Closed(Left(l, a))
    BY <1>1, <1>4 DEF Answered
  <2>2. QED
    BY <2>1, ClosedLeft
<1>5. QED
  BY <1>2, <1>3, <1>4

LEMMA IngestLeft ==
  ASSUME NEW l, IsLoop(l), NEW a \in Seq(Nat), NEW kind, NEW pkt
  PROVE  /\ IsLoop(IngestRtpMedia(l, kind, pkt)) /\ IngestRtpMedia(l, kind, pkt).buf = l.buf
         /\ IngestRtpMedia(Left(l, a), kind, pkt) = Left(IngestRtpMedia(l, kind, pkt), a)
<1> DEFINE m == <<kind, RtpPayload(pkt)>>
<1>1. CASE kind = "none" \/ RtpPayload(pkt) = <<>>
  BY <1>1 DEF IngestRtpMedia
<1>2. CASE ~ (kind = "none" \/ RtpPayload(pkt) = <<>>)
  <2>1. /\ IngestRtpMedia(l, kind, pkt) = Says(l, m)
        /\ IngestRtpMedia(Left(l, a), kind, pkt) = Says(Left(l, a), m)
    BY <1>2 DEF IngestRtpMedia
  <2> HIDE DEF m
  <2>2. QED
    BY <2>1, SaysLeft
<1>3. QED
  BY <1>1, <1>2

\* Interleaved media in the bridge ...
LEMMA ConsumesKept ==
  ASSUME NEW l, IsLoop(l), NEW x \in Seq(Nat), Consumes(l) # l
  PROVE  /\ IsLoop(Consumes(l))
         /\ Consumes(Left(l, l.buf \o x)) = Left(Consumes(l), Consumes(l).buf \o x)
<1> DEFINE b == l.buf
           w == b \o x
           r == AfterInterleaved(b)
           kind == KindOf(l, b[2])
           pkt == PayloadOf(b)
<1>1. b \in Seq(Nat) /\ w \in Seq(Nat) /\ HasInterleaved(b)
  BY LeftOwn, Joined DEF Consumes
<1>2. /\ HasInterleaved(w) /\ PayloadOf(w) = pkt /\ w[2] = b[2]
      /\ AfterInterleaved(w) = r \o x /\ r \in Seq(Nat)
  BY <1>1, InterleavedKept
<1>3. Left(l, w).buf = w /\ KindOf(Left(l, w), b[2]) = kind
  <2>1. Left(l, w).buf = w /\ Left(l, w).channels = l.channels
    BY <1>1, LeftIsLoop
  <2>2. QED
    BY <2>1 DEF KindOf
<1>4. /\ Consumes(l) = IngestRtpMedia(Left(l, r), kind, pkt)
      /\ Consumes(Left(l, w)) = IngestRtpMedia(Left(Left(l, w), r \o x), kind, pkt)
  BY <1>1, <1>2, <1>3 DEF Consumes
<1> DEFINE k == Left(l, r)
           rest == r \o x
<1>5. IsLoop(k) /\ k.buf = r /\ Left(Left(l, w), rest) = Left(k, rest) /\ rest \in Seq(Nat)
  <2> HIDE DEF b, w, r
  <2>1. QED
    BY <1>1, <1>2, LeftBehind, Joined
<1> HIDE DEF b, w, r, kind, pkt, k, rest
<1>6. /\ IsLoop(IngestRtpMedia(k, kind, pkt)) /\ IngestRtpMedia(k, kind, pkt).buf = r
      /\ IngestRtpMedia(Left(k, rest), kind, pkt) = Left(IngestRtpMedia(k, kind, pkt), rest)
  BY <1>5, IngestLeft
<1>7. QED
  BY <1>4, <1>5, <1>6 DEF b, w, k, rest

\* ... and the answers between it.
LEMMA ReadsResponseKept ==
  ASSUME NEW l, IsLoop(l), NEW x \in Seq(Nat), ReadsResponse(l) # l
  PROVE  /\ IsLoop(ReadsResponse(l))
         /\ ReadsResponse(Left(l, l.buf \o x))
              = Left(ReadsResponse(l), ReadsResponse(l).buf \o x)
<1> DEFINE b == l.buf
           w == b \o x
           head == HeadOf(b)
           n == LengthIn(head, 3)
           got == BodyOf(AfterHead(b), n)
           gotW == BodyOf(AfterHead(w), n)
           r == got.rest
           rest == r \o x
           k == Left(l, r)
<1>1. b \in Seq(Nat) /\ w \in Seq(Nat) /\ HasHead(b)
  BY LeftOwn, Joined DEF ReadsResponse
<1>2. /\ IsLoop(Left(l, w)) /\ Left(l, w).buf = w /\ Left(l, w).stage = l.stage
  BY <1>1, LeftIsLoop
<1>3. HasHead(w) /\ HeadOf(w) = head /\ head \in Seq(Nat) /\ n \in Nat
  BY <1>1, HeadKept, LengthInNat
<1>4. CASE Len(head) < 2
  <2>1. ReadsResponse(l) = Closed(l) /\ ReadsResponse(Left(l, w)) = Closed(Left(l, w))
    BY <1>1, <1>2, <1>3, <1>4 DEF ReadsResponse
  <2> HIDE DEF w
  <2>2. QED
    BY <1>1, <2>1, ClosedLeft DEF w
<1>5. CASE ~ (Len(head) < 2)
  <2>1. got.whole
    BY <1>1, <1>5 DEF ReadsResponse
  <2>2. /\ gotW.whole /\ gotW.body = got.body /\ gotW.rest = rest
        /\ r \in Seq(Nat) /\ rest \in Seq(Nat)
    <3> HIDE DEF b, n
    <3>1. b \in Seq(Nat) /\ HasHead(b) /\ n \in Nat /\ BodyOf(AfterHead(b), n).whole
      BY <1>1, <1>3, <2>1
    <3>2. /\ BodyOf(AfterHead(b \o x), n).whole
          /\ BodyOf(AfterHead(b \o x), n).body = BodyOf(AfterHead(b), n).body
          /\ BodyOf(AfterHead(b \o x), n).rest = BodyOf(AfterHead(b), n).rest \o x
          /\ BodyOf(AfterHead(b), n).rest \in Seq(Nat)
          /\ BodyOf(AfterHead(b), n).rest \o x \in Seq(Nat)
      BY <3>1, BodyBehind
    <3>3. QED
      BY <3>2
  <2>3. IsLoop(k) /\ k.buf = r /\ Left(Left(l, w), rest) = Left(k, rest)
    <3> HIDE DEF b, w, r
    <3>1. QED
      BY <1>1, <2>2, LeftBehind
  <2>4. CASE l.stage = "pump"
    <3>1. ReadsResponse(l) = k /\ ReadsResponse(Left(l, w)) = Left(Left(l, w), rest)
      BY <1>1, <1>2, <1>3, <1>5, <2>1, <2>2, <2>4 DEF ReadsResponse
    <3> HIDE DEF k, r, w, b
    <3>2. QED
      BY <2>3, <3>1 DEF w, b
  <2>5. CASE l.stage # "pump"
    <3>1. /\ ReadsResponse(l) = Answered(k, head[2], got.body)
          /\ ReadsResponse(Left(l, w)) = Answered(Left(Left(l, w), rest), head[2], got.body)
      BY <1>1, <1>2, <1>3, <1>5, <2>1, <2>2, <2>5 DEF ReadsResponse
    <3> DEFINE status == head[2]
               body == got.body
    <3> HIDE DEF k, r, rest, w, b, status, body
    <3>2. /\ IsLoop(Answered(k, status, body)) /\ Answered(k, status, body).buf = r
          /\ Answered(Left(k, rest), status, body) = Left(Answered(k, status, body), rest)
      BY <2>2, <2>3, AnsweredLeft
    <3>3. QED
      BY <2>3, <3>1, <3>2 DEF status, body, rest, w, b
  <2>6. QED
    BY <2>4, <2>5
<1>6. QED
  BY <1>4, <1>5

\* RelayStream takes the same when more has arrived.
LEMMA PumpKept ==
  ASSUME NEW l, IsLoop(l), NEW x \in Seq(Nat), Pump(l) # l
  PROVE  /\ IsLoop(Pump(l))
         /\ Pump(Left(l, l.buf \o x)) = Left(Pump(l), Pump(l).buf \o x)
<1> DEFINE b == l.buf
           w == b \o x
<1>1. b \in Seq(Nat) /\ w \in Seq(Nat) /\ b # <<>>
  BY LeftOwn, Joined DEF Pump
<1>2. Left(l, w).buf = w
  BY <1>1, LeftIsLoop
<1>3. w # <<>> /\ w[1] = b[1]
  <2>1. 1 \in 1..Len(b)
    BY <1>1
  <2>2. QED
    BY <1>1, <2>1, Joined
<1>4. CASE b[1] = Dollar
  <2>1. Pump(l) = Consumes(l) /\ Pump(Left(l, w)) = Consumes(Left(l, w))
    BY <1>1, <1>2, <1>3, <1>4 DEF Pump
  <2>2. QED
    BY <2>1, ConsumesKept
<1>5. CASE b[1] # Dollar
  <2>1. Pump(l) = ReadsResponse(l) /\ Pump(Left(l, w)) = ReadsResponse(Left(l, w))
    BY <1>1, <1>2, <1>3, <1>5 DEF Pump
  <2>2. QED
    BY <2>1, ReadsResponseKept
<1>6. QED
  BY <1>4, <1>5

-----------------------------------------------------------------------------
(* The relay's side of a publishing camera.                                *)

LEMMA AnnouncedKept ==
  ASSUME NEW l, IsLoop(l), NEW x \in Seq(Nat), Announced(l) # l
  PROVE  /\ IsLoop(Announced(l))
         /\ Announced(Left(l, l.buf \o x)) = Left(Announced(l), Announced(l).buf \o x)
<1> DEFINE b == l.buf
           w == b \o x
           n == LengthIn(HeadOf(b), 2)
           got == BodyOf(AfterHead(b), n)
           gotW == BodyOf(AfterHead(w), n)
           r == got.rest
           rest == r \o x
           m == <<"sdp", got.body>>
           loops(l1) == [l1 EXCEPT !.stage = "loop"]
           k == loops(Left(l, r))
<1>1. b \in Seq(Nat) /\ w \in Seq(Nat) /\ HasHead(b) /\ got.whole
  BY LeftOwn, Joined DEF Announced
<1>2. Left(l, w).buf = w
  BY <1>1, LeftIsLoop
<1>3. HasHead(w) /\ HeadOf(w) = HeadOf(b) /\ n \in Nat
  BY <1>1, HeadKept, LengthInNat
<1>4. /\ gotW.whole /\ gotW.body = got.body /\ gotW.rest = rest
      /\ r \in Seq(Nat) /\ rest \in Seq(Nat)
  <2> HIDE DEF b, n
  <2>1. b \in Seq(Nat) /\ HasHead(b) /\ n \in Nat /\ BodyOf(AfterHead(b), n).whole
    BY <1>1, <1>3
  <2>2. /\ BodyOf(AfterHead(b \o x), n).whole
        /\ BodyOf(AfterHead(b \o x), n).body = BodyOf(AfterHead(b), n).body
        /\ BodyOf(AfterHead(b \o x), n).rest = BodyOf(AfterHead(b), n).rest \o x
        /\ BodyOf(AfterHead(b), n).rest \in Seq(Nat)
        /\ BodyOf(AfterHead(b), n).rest \o x \in Seq(Nat)
    BY <2>1, BodyBehind
  <2>3. QED
    BY <2>2
<1>5. /\ Announced(l) = Says(k, m)
      /\ Announced(Left(l, w)) = Says(loops(Left(Left(l, w), rest)), m)
  BY <1>1, <1>2, <1>3, <1>4 DEF Announced
<1>6. IsLoop(k) /\ k.buf = r /\ loops(Left(Left(l, w), rest)) = Left(k, rest)
  <2> HIDE DEF b, w, r, rest
  <2>1. IsLoop(Left(l, r)) /\ Left(l, r).buf = r
    BY <1>1, <1>4, LeftIsLoop
  <2>2. Left(Left(l, w), rest) = Left(Left(l, r), rest)
    BY <1>1, <1>4, LeftTwice
  <2>3. QED
    BY <1>4, <2>1, <2>2 DEF IsLoop, Left
<1> HIDE DEF b, w, r, rest, m, k, loops
<1>7. IsLoop(Says(k, m)) /\ Says(k, m).buf = r /\ Says(Left(k, rest), m) = Left(Says(k, m), rest)
  BY <1>4, <1>6, SaysLeft
<1>8. QED
  BY <1>5, <1>6, <1>7 DEF b, w, rest

LEMMA RequestedKept ==
  ASSUME NEW l, IsLoop(l), NEW x \in Seq(Nat), Requested(l) # l
  PROVE  /\ IsLoop(Requested(l))
         /\ Requested(Left(l, l.buf \o x)) = Left(Requested(l), Requested(l).buf \o x)
<1> DEFINE b == l.buf
           w == b \o x
           r == AfterHead(b)
           rest == r \o x
           k == Left(l, r)
           pumps(l1) == [l1 EXCEPT !.stage = "pump"]
<1>1. b \in Seq(Nat) /\ w \in Seq(Nat) /\ HasHead(b)
  BY LeftOwn, Joined DEF Requested
<1>2. Left(l, w).buf = w
  BY <1>1, LeftIsLoop
<1>3. HasHead(w) /\ HeadOf(w) = HeadOf(b) /\ AfterHead(w) = rest /\ r \in Seq(Nat)
  BY <1>1, HeadKept
<1>4. rest \in Seq(Nat)
  <2> HIDE DEF r
  <2>1. QED
    BY <1>3, Joined
<1>5. IsLoop(k) /\ k.buf = r /\ Left(Left(l, w), rest) = Left(k, rest)
  <2> HIDE DEF b, w, r, rest
  <2>1. IsLoop(Left(l, r)) /\ Left(l, r).buf = r
    BY <1>1, <1>3, LeftIsLoop
  <2>2. Left(Left(l, w), rest) = Left(Left(l, r), rest)
    BY <1>1, <1>3, <1>4, LeftTwice
  <2>3. QED
    BY <2>1, <2>2
<1>6. CASE HeadOf(b)[1] = Record
  <2>1. Requested(l) = pumps(k) /\ Requested(Left(l, w)) = pumps(Left(Left(l, w), rest))
    BY <1>1, <1>2, <1>3, <1>6 DEF Requested
  <2> HIDE DEF k, r, rest, w, b
  <2>2. IsLoop(pumps(k)) /\ pumps(k).buf = r /\ pumps(Left(k, rest)) = Left(pumps(k), rest)
    BY <1>4, <1>5 DEF IsLoop, Left
  <2>3. QED
    BY <1>5, <2>1, <2>2 DEF rest, w, b
<1>7. CASE HeadOf(b)[1] # Record /\ HeadOf(b)[1] = Teardown
  <2>1. Requested(l) = Closed(k) /\ Requested(Left(l, w)) = Closed(Left(Left(l, w), rest))
    BY <1>1, <1>2, <1>3, <1>7 DEF Requested
  <2> HIDE DEF k, r, rest, w, b
  <2>2. IsLoop(Closed(k)) /\ Closed(k).buf = r /\ Closed(Left(k, rest)) = Left(Closed(k), rest)
    BY <1>4, <1>5, ClosedLeft
  <2>3. QED
    BY <1>5, <2>1, <2>2 DEF rest, w, b
<1>8. CASE HeadOf(b)[1] # Record /\ HeadOf(b)[1] # Teardown
  <2>1. Requested(l) = k /\ Requested(Left(l, w)) = Left(Left(l, w), rest)
    BY <1>1, <1>2, <1>3, <1>8 DEF Requested
  <2> HIDE DEF k, r, w, b
  <2>2. QED
    BY <1>5, <2>1 DEF rest, w, b
<1>9. QED
  BY <1>6, <1>7, <1>8

LEMMA PublishesKept ==
  ASSUME NEW l, IsLoop(l), NEW x \in Seq(Nat), Publishes(l) # l
  PROVE  /\ IsLoop(Publishes(l))
         /\ Publishes(Left(l, l.buf \o x)) = Left(Publishes(l), Publishes(l).buf \o x)
<1> DEFINE b == l.buf
           w == b \o x
           r == AfterInterleaved(b)
           m == <<b[2], PayloadOf(b)>>
<1>1. b \in Seq(Nat) /\ w \in Seq(Nat) /\ HasInterleaved(b)
  BY LeftOwn, Joined DEF Publishes
<1>2. /\ HasInterleaved(w) /\ PayloadOf(w) = PayloadOf(b) /\ w[2] = b[2]
      /\ AfterInterleaved(w) = r \o x /\ r \in Seq(Nat)
  BY <1>1, InterleavedKept
<1>3. Left(l, w).buf = w
  BY <1>1, LeftIsLoop
<1>4. /\ Publishes(l) = Says(Left(l, r), m)
      /\ Publishes(Left(l, w)) = Says(Left(Left(l, w), r \o x), m)
  BY <1>1, <1>2, <1>3 DEF Publishes
<1> HIDE DEF b, w, r, m
<1>5. /\ IsLoop(Says(Left(l, r), m)) /\ Says(Left(l, r), m).buf = r
      /\ Says(Left(Left(l, w), r \o x), m) = Left(Says(Left(l, r), m), r \o x)
  BY <1>1, <1>2, SaysBehind
<1>6. QED
  BY <1>4, <1>5 DEF b, w

LEMMA SkipsKept ==
  ASSUME NEW l, IsLoop(l), NEW x \in Seq(Nat), l.buf # <<>>, Skips(l) # l
  PROVE  /\ IsLoop(Skips(l))
         /\ Skips(Left(l, l.buf \o x)) = Left(Skips(l), Skips(l).buf \o x)
<1> DEFINE b == l.buf
           w == b \o x
<1>1. b \in Seq(Nat) /\ w \in Seq(Nat)
  BY LeftOwn, Joined
<1>2. Left(l, w).buf = w
  BY <1>1, LeftIsLoop
<1>3. w[1] = b[1] /\ 1 \in 0..Len(b)
  <2>1. 1 \in 1..Len(b)
    BY <1>1
  <2>2. QED
    BY <1>1, <2>1, Joined
<1>4. ASSUME NEW r \in Seq(Nat), Skips(l) = Left(l, r), Skips(Left(l, w)) = Left(Left(l, w), r \o x)
      PROVE  /\ IsLoop(Skips(l)) /\ Skips(Left(l, w)) = Left(Skips(l), Skips(l).buf \o x)
  <2> HIDE DEF b, w
  <2>1. /\ IsLoop(Left(l, r)) /\ Left(l, r).buf = r
        /\ Left(Left(l, w), r \o x) = Left(Left(l, r), r \o x)
    BY <1>1, LeftBehind
  <2>2. QED
    BY <1>4, <2>1
<1>5. CASE b[1] # Rtsp
  <2>1. Beyond(1, w) = Beyond(1, b) \o x /\ Beyond(1, b) \in Seq(Nat)
    BY <1>1, <1>3, BeyondKept
  <2>2. Skips(l) = Left(l, Beyond(1, b)) /\ Skips(Left(l, w)) = Left(Left(l, w), Beyond(1, w))
    BY <1>2, <1>3, <1>5 DEF Skips
  <2>3. QED
    BY <1>4, <2>1, <2>2
<1>6. CASE b[1] = Rtsp
  <2>1. HasHead(b)
    BY <1>6 DEF Skips
  <2>2. HasHead(w) /\ AfterHead(w) = AfterHead(b) \o x /\ AfterHead(b) \in Seq(Nat)
    BY <1>1, <2>1, HeadKept
  <2>3. Skips(l) = Left(l, AfterHead(b)) /\ Skips(Left(l, w)) = Left(Left(l, w), AfterHead(w))
    BY <1>2, <1>3, <1>6, <2>1, <2>2 DEF Skips
  <2>4. QED
    BY <1>4, <2>2, <2>3
<1>7. QED
  BY <1>5, <1>6

\* The relay takes the same from a camera when more has arrived.
LEMMA PumpInterleavedKept ==
  ASSUME NEW l, IsLoop(l), NEW x \in Seq(Nat), PumpInterleaved(l) # l
  PROVE  /\ IsLoop(PumpInterleaved(l))
         /\ PumpInterleaved(Left(l, l.buf \o x))
              = Left(PumpInterleaved(l), PumpInterleaved(l).buf \o x)
<1> DEFINE b == l.buf
           w == b \o x
<1>1. b \in Seq(Nat) /\ w \in Seq(Nat) /\ b # <<>>
  BY LeftOwn, Joined DEF PumpInterleaved
<1>2. Left(l, w).buf = w /\ Left(l, w).stage = l.stage
  BY <1>1, LeftIsLoop
<1>3. w # <<>> /\ w[1] = b[1]
  <2>1. 1 \in 1..Len(b)
    BY <1>1
  <2>2. QED
    BY <1>1, <2>1, Joined
<1>4. CASE l.stage = "first"
  <2>1. PumpInterleaved(l) = Announced(l) /\ PumpInterleaved(Left(l, w)) = Announced(Left(l, w))
    BY <1>1, <1>2, <1>3, <1>4 DEF PumpInterleaved
  <2>2. QED
    BY <2>1, AnnouncedKept
<1>5. CASE l.stage = "loop"
  <2>1. PumpInterleaved(l) = Requested(l) /\ PumpInterleaved(Left(l, w)) = Requested(Left(l, w))
    BY <1>1, <1>2, <1>3, <1>5 DEF PumpInterleaved
  <2>2. QED
    BY <2>1, RequestedKept
<1>6. CASE l.stage \notin {"first", "loop"} /\ b[1] = Dollar
  <2>1. PumpInterleaved(l) = Publishes(l) /\ PumpInterleaved(Left(l, w)) = Publishes(Left(l, w))
    BY <1>1, <1>2, <1>3, <1>6 DEF PumpInterleaved
  <2>2. QED
    BY <2>1, PublishesKept
<1>7. CASE l.stage \notin {"first", "loop"} /\ b[1] # Dollar
  <2>1. PumpInterleaved(l) = Skips(l) /\ PumpInterleaved(Left(l, w)) = Skips(Left(l, w))
    BY <1>1, <1>2, <1>3, <1>7 DEF PumpInterleaved
  <2>2. QED
    BY <1>1, <2>1, SkipsKept
<1>8. QED
  BY <1>4, <1>5, <1>6, <1>7

-----------------------------------------------------------------------------
(* A connection whose messages are taken whole when each comes by itself:   *)
(* the loop is always where it would be after some of them, with a part of  *)
(* the rest in its buffer.                                                 *)

\* The loops with one buffer.
OneBuffer == {"http", "stream", "publisher"}

LEMMA PassKept ==
  ASSUME NEW ln \in OneBuffer,
         NEW l, IsLoop(l), NEW x \in Seq(Nat), Pass(ln, l) # l
  PROVE  /\ IsLoop(Pass(ln, l))
         /\ Pass(ln, Left(l, l.buf \o x)) = Left(Pass(ln, l), Pass(ln, l).buf \o x)
<1>1. CASE ln = "http"
  <2>1. \A k : Pass(ln, k) = AnswerRequest("http", k)
    BY <1>1 DEF Pass
  <2>2. QED
    BY <2>1, AnswerRequestKept
<1>2. CASE ln = "stream"
  <2>1. \A k : Pass(ln, k) = Pump(k)
    BY <1>2 DEF Pass
  <2>2. QED
    BY <2>1, PumpKept
<1>3. CASE ln = "publisher"
  <2>1. \A k : Pass(ln, k) = PumpInterleaved(k)
    BY <1>3 DEF Pass
  <2>2. QED
    BY <2>1, PumpInterleavedKept
<1>4. QED
  BY <1>1, <1>2, <1>3 DEF OneBuffer

LEMMA PassOfNothing ==
  ASSUME NEW ln \in OneBuffer,
         NEW l, l.buf = <<>>
  PROVE  Pass(ln, l) = l
<1>1. ~HasHead(l.buf)
  BY DEF HasHead, BlankLinesOf
<1>2. CASE ln = "http"
  BY <1>1, <1>2 DEF Pass, AnswerRequest
<1>3. CASE ln = "stream"
  BY <1>3 DEF Pass, Pump
<1>4. CASE ln = "publisher"
  BY <1>4 DEF Pass, PumpInterleaved
<1>5. QED
  BY <1>2, <1>3, <1>4 DEF OneBuffer

\* Two stretches of the stream, one behind the other.
LEMMA Adjacent ==
  ASSUME NEW b \in Seq(Nat), NEW i \in Nat, NEW j \in Nat, NEW n \in Nat,
         i <= j, j <= n, n <= Len(b)
  PROVE  /\ SubSeq(b, i + 1, j) \o SubSeq(b, j + 1, n) = SubSeq(b, i + 1, n)
         /\ SubSeq(b, i + 1, j) \in Seq(Nat) /\ SubSeq(b, j + 1, n) \in Seq(Nat)
         /\ SubSeq(b, i + 1, n) \in Seq(Nat)
         /\ Len(SubSeq(b, i + 1, j)) = j - i /\ Len(SubSeq(b, j + 1, n)) = n - j
<1>1. /\ SubSeq(b, i + 1, j) \in Seq(Nat) /\ Len(SubSeq(b, i + 1, j)) = j - i
      /\ \A e \in 1..(j - i) : SubSeq(b, i + 1, j)[e] = b[i + e]
  OBVIOUS
<1>2. /\ SubSeq(b, j + 1, n) \in Seq(Nat) /\ Len(SubSeq(b, j + 1, n)) = n - j
      /\ \A e \in 1..(n - j) : SubSeq(b, j + 1, n)[e] = b[j + e]
  OBVIOUS
<1>3. /\ SubSeq(b, i + 1, n) \in Seq(Nat) /\ Len(SubSeq(b, i + 1, n)) = n - i
      /\ \A e \in 1..(n - i) : SubSeq(b, i + 1, n)[e] = b[i + e]
  OBVIOUS
<1> DEFINE s == SubSeq(b, i + 1, j)
           t == SubSeq(b, j + 1, n)
           u == SubSeq(b, i + 1, n)
<1> HIDE DEF s, t, u
<1>4. /\ s \in Seq(Nat) /\ Len(s) = j - i /\ \A e \in 1..(j - i) : s[e] = b[i + e]
      /\ t \in Seq(Nat) /\ Len(t) = n - j /\ \A e \in 1..(n - j) : t[e] = b[j + e]
      /\ u \in Seq(Nat) /\ Len(u) = n - i /\ \A e \in 1..(n - i) : u[e] = b[i + e]
  BY <1>1, <1>2, <1>3 DEF s, t, u
<1>5. /\ s \o t \in Seq(Nat) /\ Len(s \o t) = n - i
      /\ \A e \in 1..Len(s) : (s \o t)[e] = s[e]
      /\ \A e \in 1..Len(t) : (s \o t)[Len(s) + e] = t[e]
  <2>1. s \in Seq(Nat) /\ t \in Seq(Nat) /\ Len(s) + Len(t) = n - i
    BY <1>4
  <2>2. /\ s \o t \in Seq(Nat) /\ Len(s \o t) = Len(s) + Len(t)
        /\ \A e \in 1..Len(s) : (s \o t)[e] = s[e]
        /\ \A e \in 1..Len(t) : (s \o t)[Len(s) + e] = t[e]
    BY <2>1, Joined, SMTT(30)
  <2>3. QED
    BY <2>1, <2>2
<1>6. ASSUME NEW e \in 1..(n - i) PROVE (s \o t)[e] = u[e]
  <2>1. CASE e <= j - i
    BY <1>4, <1>5, <2>1
  <2>2. CASE e > j - i
    <3>1. PICK d \in 1..(n - j) : e = (j - i) + d /\ i + e = j + d
      <4>1. e - (j - i) \in 1..(n - j) /\ e = (j - i) + (e - (j - i)) /\ i + e = j + (e - (j - i))
        BY <2>2
      <4>2. QED
        BY <4>1
    <3>2. d \in 1..Len(t) /\ (s \o t)[Len(s) + d] = t[d]
      BY <1>4, <1>5
    <3>3. QED
      BY <1>4, <3>1, <3>2
  <2>3. e \in Nat /\ j - i \in Nat
    OBVIOUS
  <2>4. e <= j - i \/ e > j - i
    BY <2>3
  <2>5. QED
    BY <2>1, <2>2, <2>4
<1>7. s \o t = u
  BY <1>4, <1>5, <1>6, SameSeq
<1>8. QED
  BY <1>4, <1>7 DEF s, t, u

InStep(c, after, k, l, r) ==
  /\ k \in 0..Len(c.messages) /\ End(c, k) <= r /\ l.out = Said(c, k)
  /\ l.open => /\ IsLoop(after[k]) /\ after[k].open /\ after[k].out = Said(c, k)
               /\ l = Left(after[k], SubSeq(c.bytes, End(c, k) + 1, r))

LEMMA Ends ==
  ASSUME NEW c, IsConversation(c), NEW k \in 0..Len(c.messages)
  PROVE  /\ End(c, k) \in 0..Len(c.bytes) /\ Len(c.bytes) \in Nat
         /\ c.bytes \in Seq(Nat) /\ Len(c.messages) \in Nat
BY DEF IsConversation, End

\* The next message of a conversation, by itself and with more behind it.
LEMMA NextTaken ==
  ASSUME NEW ln \in OneBuffer, NEW c, IsConversation(c),
         NEW after, TakenWhole(ln, c, after),
         NEW k \in 0..(Len(c.messages) - 1), IsLoop(after[k]), after[k].open
  PROVE  LET m == SubSeq(c.bytes, End(c, k) + 1, End(c, k + 1))
             next == after[k + 1]
         IN  /\ End(c, k + 1) \in Nat /\ End(c, k) < End(c, k + 1)
             /\ End(c, k + 1) <= Len(c.bytes)
             /\ m \in Seq(Nat) /\ Len(m) = End(c, k + 1) - End(c, k)
             /\ next = Pass(ln, Left(after[k], m)) /\ IsLoop(next)
             /\ next.out = Said(c, k + 1)
             /\ next.buf = <<>> \/ (~next.open /\ Said(c, k + 1) = Said(c, k))
             /\ \A y \in Seq(Nat) :
                  Pass(ln, Left(after[k], m \o y)) = Left(next, next.buf \o y)
<1> DEFINE a == after[k]
           m == SubSeq(c.bytes, End(c, k) + 1, End(c, k + 1))
           next == after[k + 1]
<1>1. k + 1 \in 1..Len(c.messages) /\ (k + 1) - 1 = k /\ k + 1 # 0
  BY Ends
<1>2. /\ End(c, k) \in Nat /\ End(c, k + 1) \in Nat /\ Len(c.bytes) \in Nat
      /\ End(c, k + 1) <= Len(c.bytes) /\ c.bytes \in Seq(Nat)
  BY <1>1, Ends
<1>3. c.messages[k + 1].first = End(c, k) + 1
  BY <1>1 DEF TakenWhole, Filled
<1>4. End(c, k) + 1 <= End(c, k + 1)
  <2>1. c.messages[k + 1].first \in 1..c.messages[k + 1].last
    BY <1>1 DEF IsConversation
  <2>2. c.messages[k + 1].last = End(c, k + 1)
    BY <1>1 DEF End
  <2>3. QED
    BY <1>2, <1>3, <2>1, <2>2
<1>5. m \in Seq(Nat) /\ Len(m) = End(c, k + 1) - End(c, k)
  <2> DEFINE bs == c.bytes
             e == End(c, k)
             f == End(c, k + 1)
  <2>1. bs \in Seq(Nat) /\ e \in Nat /\ f \in Nat /\ e <= f /\ f <= Len(bs)
    BY <1>2, <1>4
  <2> HIDE DEF bs, e, f
  <2>2. SubSeq(bs, e + 1, f) \in Seq(Nat) /\ Len(SubSeq(bs, e + 1, f)) = f - e
    BY <2>1, Adjacent
  <2>3. QED
    BY <2>2 DEF bs, e, f
<1>6. MessageOf(c, k + 1) = m
  BY <1>1, <1>3 DEF MessageOf, End
<1>7. /\ next = Pass(ln, Left(a, m)) /\ next.out = Said(c, k + 1)
      /\ next.buf = <<>> \/ (~next.open /\ Said(c, k + 1) = Said(c, k))
  BY <1>1, <1>6 DEF TakenWhole, Filled
<1> DEFINE l == Left(a, m)
<1>8. IsLoop(l) /\ l.buf = m /\ l.open = a.open
  <2> HIDE DEF a, m
  <2>1. IsLoop(a)
    BY DEF a
  <2>2. QED
    BY <1>5, <2>1, LeftIsLoop
<1>9. next # l
  <2>1. m # <<>>
    <3>1. Len(m) \in Nat /\ Len(m) # 0
      BY <1>2, <1>4, <1>5
    <3> HIDE DEF m
    <3>2. QED
      BY <1>5, <3>1
  <2>2. a.open
    OBVIOUS
  <2> HIDE DEF a, m, next, l
  <2>3. QED
    BY <1>7, <1>8, <2>1, <2>2
<1>10. ASSUME NEW y \in Seq(Nat)
       PROVE  Pass(ln, Left(a, m \o y)) = Left(next, next.buf \o y)
  <2> DEFINE w == m \o y
  <2>1. Left(l, w) = Left(a, w)
    <3>1. w \in Seq(Nat)
      BY <1>5, Joined
    <3> HIDE DEF w, m
    <3>2. QED
      BY <1>5, <3>1, LeftTwice
  <2>2. /\ IsLoop(Pass(ln, l))
        /\ Pass(ln, Left(l, l.buf \o y)) = Left(Pass(ln, l), Pass(ln, l).buf \o y)
    <3>1. Pass(ln, l) # l
      BY <1>7, <1>9
    <3> HIDE DEF l, next
    <3>2. QED
      BY <1>8, <3>1, PassKept
  <2> HIDE DEF m, a, next
  <2>3. QED
    BY <1>7, <1>8, <2>1, <2>2
<1>11. IsLoop(next)
  <2>1. Pass(ln, l) # l /\ next = Pass(ln, l) /\ IsLoop(l)
    BY <1>7, <1>8, <1>9
  <2> HIDE DEF l, next, m
  <2>2. <<>> \in Seq(Nat)
    OBVIOUS
  <2>3. IsLoop(Pass(ln, l))
    BY <2>1, <2>2, PassKept
  <2>4. QED
    BY <2>1, <2>3
<1>12. \A y \in Seq(Nat) : Pass(ln, Left(a, m \o y)) = Left(next, next.buf \o y)
  <2> HIDE DEF a, m, next
  <2>1. QED
    BY <1>10
<1>13. End(c, k) < End(c, k + 1)
  BY <1>2, <1>4
<1> HIDE DEF m, next, a
<1>14. QED
  BY <1>2, <1>5, <1>7, <1>11, <1>12, <1>13 DEF m, next, a

\* A message that has arrived whole is taken, and nothing but it.
LEMMA TakesNext ==
  ASSUME NEW ln \in OneBuffer, NEW c, IsConversation(c),
         NEW after, TakenWhole(ln, c, after), NEW r \in 0..Len(c.bytes),
         NEW l, NEW k, InStep(c, after, k, l, r), l.open,
         k < Len(c.messages), End(c, k + 1) <= r
  PROVE  /\ Pass(ln, l) # l
         /\ InStep(c, after, k + 1, Pass(ln, l), r)
<1> DEFINE a == after[k]
           next == after[k + 1]
           m == SubSeq(c.bytes, End(c, k) + 1, End(c, k + 1))
           y == SubSeq(c.bytes, End(c, k + 1) + 1, r)
<1>1. /\ k \in 0..Len(c.messages) /\ End(c, k) <= r /\ IsLoop(a) /\ a.open
      /\ l = Left(a, SubSeq(c.bytes, End(c, k) + 1, r))
  BY DEF InStep
<1>2. /\ k \in 0..(Len(c.messages) - 1) /\ k + 1 \in 0..Len(c.messages)
      /\ End(c, k) \in Nat /\ r \in Nat /\ r <= Len(c.bytes)
      /\ c.bytes \in Seq(Nat) /\ Len(c.bytes) \in Nat
  BY <1>1, Ends
<1>3. /\ End(c, k + 1) \in Nat /\ End(c, k) < End(c, k + 1)
      /\ m \in Seq(Nat) /\ Len(m) = End(c, k + 1) - End(c, k)
      /\ IsLoop(next) /\ next.out = Said(c, k + 1)
      /\ next.buf = <<>> \/ (~next.open /\ Said(c, k + 1) = Said(c, k))
      /\ \A z \in Seq(Nat) : Pass(ln, Left(a, m \o z)) = Left(next, next.buf \o z)
  <2>1. k \in 0..(Len(c.messages) - 1) /\ IsLoop(after[k]) /\ after[k].open
    BY <1>1, <1>2
  <2>2. QED
    BY <2>1, NextTaken
<1>4. /\ SubSeq(c.bytes, End(c, k) + 1, r) = m \o y /\ y \in Seq(Nat)
  <2> DEFINE bs == c.bytes
             e == End(c, k)
             f == End(c, k + 1)
  <2>1. /\ bs \in Seq(Nat) /\ e \in Nat /\ f \in Nat /\ r \in Nat
        /\ e <= f /\ f <= r /\ r <= Len(bs)
    BY <1>2, <1>3
  <2> HIDE DEF bs, e, f
  <2>2. /\ SubSeq(bs, e + 1, f) \o SubSeq(bs, f + 1, r) = SubSeq(bs, e + 1, r)
        /\ SubSeq(bs, f + 1, r) \in Seq(Nat)
    BY <2>1, Adjacent
  <2>3. QED
    BY <2>2 DEF bs, e, f
<1> HIDE DEF m, y, next, a
<1>5. l = Left(a, m \o y) /\ Pass(ln, l) = Left(next, next.buf \o y)
  BY <1>1, <1>3, <1>4
<1>6. next.buf \in Seq(Nat)
  BY <1>3, LeftOwn
<1> DEFINE w == next.buf \o y
           v == m \o y
<1>7. w \in Seq(Nat) /\ v \in Seq(Nat)
  BY <1>3, <1>4, <1>6, Joined
<1>8. /\ IsLoop(Pass(ln, l)) /\ Pass(ln, l).buf = w /\ Pass(ln, l).open = next.open
      /\ Pass(ln, l).out = next.out
  <2>1. Pass(ln, l) = Left(next, w)
    BY <1>5
  <2> HIDE DEF w
  <2>2. QED
    BY <1>3, <1>7, <2>1, LeftIsLoop
<1>9. l.buf = v /\ l.open = a.open
  <2>1. l = Left(a, v)
    BY <1>5
  <2> HIDE DEF v
  <2>2. QED
    BY <1>1, <1>7, <2>1, LeftIsLoop
<1>10. Pass(ln, l) # l
  <2>1. SUFFICES ASSUME Pass(ln, l) = l PROVE FALSE
    OBVIOUS
  <2>2. next.open /\ next.buf = <<>>
    BY <1>1, <1>3, <1>8, <1>9, <2>1
  <2>3. w = v
    BY <1>8, <1>9, <2>1
  <2>4. Len(w) = Len(y) /\ Len(v) = Len(m) + Len(y) /\ Len(y) \in Nat
    <3>1. Len(v) = Len(m) + Len(y) /\ Len(y) \in Nat
      BY <1>3, <1>4, Joined
    <3>2. w = y
      BY <1>4, <2>2
    <3>3. QED
      BY <3>1, <3>2
  <2>5. QED
    BY <1>2, <1>3, <2>3, <2>4
<1>11. InStep(c, after, k + 1, Pass(ln, l), r)
  <2>1. ASSUME Pass(ln, l).open PROVE Pass(ln, l) = Left(next, y)
    <3>1. next.buf = <<>>
      BY <1>3, <1>8, <2>1
    <3>2. w = y
      BY <1>4, <3>1
    <3>3. QED
      BY <1>5, <3>2
  <2>2. QED
    BY <1>2, <1>3, <1>8, <2>1 DEF InStep, next, y
<1>12. QED
  BY <1>10, <1>11

\* A pass takes the next message or, where that ends the connection and is owed
\* nothing, a part of it.
LEMMA InStepPass ==
  ASSUME NEW ln \in OneBuffer, NEW c, IsConversation(c),
         NEW after, TakenWhole(ln, c, after), NEW r \in 0..Len(c.bytes),
         NEW l, NEW k, InStep(c, after, k, l, r), l.open, Pass(ln, l) # l
  PROVE  \E j : InStep(c, after, j, Pass(ln, l), r)
<1> DEFINE a == after[k]
           next == after[k + 1]
           d == SubSeq(c.bytes, End(c, k) + 1, r)
           y == SubSeq(c.bytes, r + 1, End(c, k + 1))
<1>1. /\ k \in 0..Len(c.messages) /\ End(c, k) <= r /\ IsLoop(a) /\ a.open
      /\ l = Left(a, d) /\ l.out = Said(c, k)
  BY DEF InStep
<1>2. /\ End(c, k) \in Nat /\ r \in Nat /\ r <= Len(c.bytes)
      /\ c.bytes \in Seq(Nat) /\ Len(c.bytes) \in Nat /\ Len(c.messages) \in Nat
  BY <1>1, Ends
<1>3. d \in Seq(Nat) /\ Len(d) = r - End(c, k)
  <2> DEFINE bs == c.bytes
             e == End(c, k)
  <2>1. bs \in Seq(Nat) /\ e \in Nat /\ r \in Nat /\ e <= r /\ r <= Len(bs)
    BY <1>1, <1>2
  <2> HIDE DEF bs, e
  <2>2. SubSeq(bs, e + 1, r) \in Seq(Nat) /\ Len(SubSeq(bs, e + 1, r)) = r - e
    BY <2>1, Adjacent
  <2>3. QED
    BY <2>2 DEF bs, e
<1>4. IsLoop(l) /\ l.buf = d
  <2> HIDE DEF d, a
  <2>1. QED
    BY <1>1, <1>3, LeftIsLoop
<1>5. k # Len(c.messages)
  <2>1. SUFFICES ASSUME k = Len(c.messages) PROVE FALSE
    OBVIOUS
  <2>2. End(c, k) = Len(c.bytes)
    BY <2>1 DEF TakenWhole, Filled
  <2>3. d = <<>>
    <3>1. Len(d) = 0
      BY <1>1, <1>2, <1>3, <2>2
    <3> HIDE DEF d
    <3>2. QED
      BY <1>3, <3>1
  <2>4. QED
    BY <1>4, <2>3, PassOfNothing
<1>6. k \in 0..(Len(c.messages) - 1) /\ k < Len(c.messages)
  BY <1>1, <1>2, <1>5
<1>7. CASE End(c, k + 1) <= r
  <2>1. InStep(c, after, k + 1, Pass(ln, l), r)
    BY <1>6, <1>7, TakesNext
  <2>2. QED
    BY <2>1
<1>8. CASE ~ (End(c, k + 1) <= r)
  <2> DEFINE m == SubSeq(c.bytes, End(c, k) + 1, End(c, k + 1))
             p == Pass(ln, l)
  <2>1. /\ End(c, k + 1) \in Nat /\ End(c, k + 1) <= Len(c.bytes)
        /\ next = Pass(ln, Left(a, m)) /\ next.out = Said(c, k + 1)
        /\ next.buf = <<>> \/ (~next.open /\ Said(c, k + 1) = Said(c, k))
    BY <1>1, <1>6, NextTaken
  <2>2. d \o y = m /\ y \in Seq(Nat) /\ Len(y) = End(c, k + 1) - r /\ d \o y \in Seq(Nat)
    <3> DEFINE bs == c.bytes
               e == End(c, k)
               f == End(c, k + 1)
    <3>1. /\ bs \in Seq(Nat) /\ e \in Nat /\ f \in Nat /\ r \in Nat
          /\ e <= r /\ r <= f /\ f <= Len(bs)
      BY <1>1, <1>2, <1>8, <2>1
    <3> HIDE DEF bs, e, f
    <3>2. /\ SubSeq(bs, e + 1, r) \o SubSeq(bs, r + 1, f) = SubSeq(bs, e + 1, f)
          /\ SubSeq(bs, r + 1, f) \in Seq(Nat) /\ Len(SubSeq(bs, r + 1, f)) = f - r
          /\ SubSeq(bs, e + 1, f) \in Seq(Nat)
      BY <3>1, Adjacent
    <3>3. QED
      BY <3>2 DEF bs, e, f
  <2> HIDE DEF d, y, m, next, a, p
  <2>3. /\ IsLoop(p) /\ Pass(ln, Left(l, d \o y)) = Left(p, p.buf \o y)
    BY <1>4, <2>2, PassKept DEF p
  <2> DEFINE v == d \o y
             w == p.buf \o y
  <2>4. Left(l, v) = Left(a, m) /\ v \in Seq(Nat)
    <3>1. v = m
      BY <2>2
    <3> HIDE DEF v
    <3>2. QED
      BY <1>1, <1>3, <2>2, <3>1, LeftTwice DEF v
  <2>5. next = Left(p, w)
    BY <2>1, <2>3, <2>4
  <2>6. p.buf \in Seq(Nat) /\ w \in Seq(Nat) /\ Len(w) = Len(p.buf) + Len(y)
        /\ Len(p.buf) \in Nat
    <3>1. p.buf \in Seq(Nat)
      BY <2>3, LeftOwn
    <3>2. QED
      BY <2>2, <3>1, Joined
  <2>7. next.buf = w /\ next.open = p.open /\ next.out = p.out
    <3> HIDE DEF w
    <3>1. QED
      BY <2>3, <2>5, <2>6, LeftIsLoop
  <2>8. next.buf # <<>>
    BY <1>2, <1>8, <2>1, <2>2, <2>6, <2>7
  <2>9. ~p.open /\ p.out = Said(c, k)
    BY <2>1, <2>7, <2>8
  <2>10. InStep(c, after, k, p, r)
    BY <1>1, <2>9 DEF InStep
  <2>11. QED
    BY <2>10 DEF p
<1>9. QED
  BY <1>7, <1>8

-----------------------------------------------------------------------------
(* What a pass makes of a loop is a loop.                                  *)

LEMMA LoopOKIsLoop ==
  ASSUME NEW l, LoopOK(l)
  PROVE  /\ IsLoop(l) /\ l.buf \in Seq(Nat) /\ l.sigBuf \in Seq(Nat)
         /\ l.open \in BOOLEAN /\ l.sdp \in Seq(Nat)
         /\ l.tracks \subseteq ParseSdp(l.sdp) /\ l.channels \in Seq(DOMAIN Decodable)
BY DEF LoopOK, IsLoop

LEMMA LeftTyped ==
  ASSUME NEW l, LoopOK(l), NEW a \in Seq(Nat)
  PROVE  LoopOK(Left(l, a))
BY DEF LoopOK, Left

LEMMA ClosedTyped ==
  ASSUME NEW l, LoopOK(l)
  PROVE  LoopOK(Closed(l))
BY DEF LoopOK, Closed

LEMMA SaysTyped ==
  ASSUME NEW l, LoopOK(l), NEW m
  PROVE  LoopOK(Says(l, m))
BY DEF LoopOK, Says

\* What is behind a head, a body and a payload.
LEMMA RestTyped ==
  ASSUME NEW b \in Seq(Nat)
  PROVE  /\ HasHead(b) => HeadOf(b) \in Seq(Nat) /\ AfterHead(b) \in Seq(Nat)
         /\ \A n \in Nat : BodyOf(b, n).whole =>
              BodyOf(b, n).rest \in Seq(Nat) /\ BodyOf(b, n).body \in Seq(Nat)
         /\ HasInterleaved(b) => AfterInterleaved(b) \in Seq(Nat)
BY HeadKept, BodyKept, InterleavedKept

LEMMA BodyTyped ==
  ASSUME NEW b \in Seq(Nat), HasHead(b), NEW at \in Nat,
         BodyOf(AfterHead(b), LengthIn(HeadOf(b), at)).whole
  PROVE  /\ BodyOf(AfterHead(b), LengthIn(HeadOf(b), at)).rest \in Seq(Nat)
         /\ BodyOf(AfterHead(b), LengthIn(HeadOf(b), at)).body \in Seq(Nat)
<1> DEFINE n == LengthIn(HeadOf(b), at)
<1>1. n \in Nat /\ BodyOf(AfterHead(b), n).whole
  BY RestTyped, LengthInNat
<1> HIDE DEF n
<1>2. BodyOf(AfterHead(b), n).rest \in Seq(Nat) /\ BodyOf(AfterHead(b), n).body \in Seq(Nat)
  BY <1>1, BodyBehind
<1>3. QED
  BY <1>2 DEF n

LEMMA AnswerRequestTyped ==
  ASSUME NEW ln \in Lanes, NEW l, LoopOK(l)
  PROVE  LoopOK(AnswerRequest(ln, l))
<1> DEFINE head == HeadOf(l.buf)
           got == BodyOf(AfterHead(l.buf), LengthIn(head, 3))
           answered == Says(Left(l, got.rest), <<"request", got.body>>)
<1>1. CASE HasHead(l.buf) /\ ~ (Len(head) < 2) /\ got.whole
  <2>1. got.rest \in Seq(Nat)
    BY <1>1, LoopOKIsLoop, BodyTyped
  <2>2. LoopOK(answered) /\ LoopOK(Closed(answered)) /\ LoopOK(Closed(l))
    <3> HIDE DEF got
    <3>1. LoopOK(Left(l, got.rest))
      BY <2>1, LeftTyped
    <3>2. LoopOK(answered)
      BY <3>1, SaysTyped
    <3> HIDE DEF answered
    <3>3. QED
      BY <3>2, ClosedTyped
  <2>3. AnswerRequest(ln, l) \in {answered, Closed(answered), Closed(l)}
    BY <1>1 DEF AnswerRequest
  <2> HIDE DEF answered
  <2>4. QED
    BY <2>2, <2>3
<1>2. CASE ~ (HasHead(l.buf) /\ ~ (Len(head) < 2) /\ got.whole)
  <2>1. AnswerRequest(ln, l) \in {l, Closed(l)}
    BY <1>2 DEF AnswerRequest
  <2>2. QED
    BY <2>1, ClosedTyped
<1>3. QED
  BY <1>1, <1>2

LEMMA GrantedTyped ==
  ASSUME NEW l, LoopOK(l), NEW body \in Seq(Nat)
  PROVE  LoopOK(Granted(l, body))
<1>1. CASE l.stage = "first"
  BY <1>1 DEF Granted, LoopOK, Stages
<1>2. CASE l.stage = "describe"
  BY <1>2, ClosedTyped DEF Granted, LoopOK, Stages
<1>3. CASE l.stage = "setup"
  <2> DEFINE k == LowestOf(l.tracks)
             kind == MediaSection[l.sdp[k]].kind
  <2>1. k \in l.tracks
    <3>1. l.tracks \in SUBSET Nat /\ l.tracks # {}
      BY <1>3 DEF LoopOK, ParseSdp
    <3>2. QED
      BY <3>1, LowestIn
  <2>2. kind \in DOMAIN Decodable
    BY <2>1, LoopOKIsLoop DEF ParseSdp, Playable
  <2> HIDE DEF kind
  <2>3. Append(l.channels, kind) \in Seq(DOMAIN Decodable)
    BY <2>2, LoopOKIsLoop
  <2> DEFINE stage == IF l.tracks = {k} THEN "play" ELSE "setup"
             channels == Append(l.channels, kind)
             tracks == l.tracks \ {k}
  <2>4. stage \in Stages /\ (stage = "setup" => tracks # {})
    BY <2>1 DEF Stages
  <2>5. Granted(l, body) = [l EXCEPT !.channels = channels, !.tracks = tracks, !.stage = stage]
    BY <1>3 DEF Granted, kind
  <2>6. tracks \subseteq ParseSdp(l.sdp)
    BY LoopOKIsLoop
  <2> HIDE DEF stage, channels, tracks
  <2>7. QED
    BY <2>3, <2>4, <2>5, <2>6 DEF LoopOK, channels
<1>4. CASE l.stage \notin {"first", "describe", "setup"}
  BY <1>4 DEF Granted, LoopOK, Stages
<1>5. QED
  BY <1>1, <1>2, <1>3, <1>4

LEMMA AnsweredTyped ==
  ASSUME NEW l, LoopOK(l), NEW status, NEW body \in Seq(Nat)
  PROVE  LoopOK(Answered(l, status, body))
<1>1. LoopOK([l EXCEPT !.retried = FALSE]) /\ LoopOK([l EXCEPT !.retried = TRUE])
  BY DEF LoopOK
<1> DEFINE k == [l EXCEPT !.retried = FALSE]
<1>2. Answered(l, status, body)
        \in {Granted(k, body), [l EXCEPT !.retried = TRUE], Closed(l)}
  BY DEF Answered
<1>3. LoopOK(Granted(k, body))
  <2> HIDE DEF k
  <2>1. LoopOK(k)
    BY <1>1 DEF k
  <2>2. QED
    BY <2>1, GrantedTyped
<1>4. QED
  BY <1>1, <1>2, <1>3, ClosedTyped

LEMMA PumpTyped ==
  ASSUME NEW l, LoopOK(l)
  PROVE  LoopOK(Pump(l))
<1> DEFINE b == l.buf
           head == HeadOf(b)
           got == BodyOf(AfterHead(b), LengthIn(head, 3))
<1>1. b \in Seq(Nat)
  BY LoopOKIsLoop
<1>2. LoopOK(Consumes(l))
  <2>1. CASE HasInterleaved(b)
    <3> DEFINE k == Left(l, AfterInterleaved(b))
               kind == KindOf(l, b[2])
               pkt == PayloadOf(b)
    <3>1. LoopOK(k)
      BY <1>1, <2>1, RestTyped, LeftTyped
    <3>2. Consumes(l) = IngestRtpMedia(k, kind, pkt)
      BY <2>1 DEF Consumes
    <3> HIDE DEF k, kind, pkt
    <3>3. IngestRtpMedia(k, kind, pkt) \in {k, Says(k, <<kind, RtpPayload(pkt)>>)}
      BY DEF IngestRtpMedia
    <3>4. LoopOK(Says(k, <<kind, RtpPayload(pkt)>>))
      BY <3>1, SaysTyped
    <3>5. QED
      BY <3>1, <3>2, <3>3, <3>4
  <2>2. CASE ~HasInterleaved(b)
    BY <2>2 DEF Consumes
  <2>3. QED
    BY <2>1, <2>2
<1>3. LoopOK(ReadsResponse(l))
  <2>1. CASE HasHead(b) /\ ~ (Len(head) < 2) /\ got.whole
    <3>1. got.rest \in Seq(Nat) /\ got.body \in Seq(Nat)
      BY <1>1, <2>1, BodyTyped
    <3> DEFINE k == Left(l, got.rest)
               status == head[2]
               body == got.body
    <3>2. ReadsResponse(l) \in {k, Answered(k, status, body)}
      BY <2>1 DEF ReadsResponse
    <3>3. LoopOK(k)
      <4> HIDE DEF got
      <4>1. QED
        BY <3>1, LeftTyped
    <3>4. body \in Seq(Nat)
      BY <3>1
    <3> HIDE DEF k, status, body
    <3>5. QED
      BY <3>2, <3>3, <3>4, AnsweredTyped
  <2>2. CASE ~ (HasHead(b) /\ ~ (Len(head) < 2) /\ got.whole)
    <3>1. ReadsResponse(l) \in {l, Closed(l)}
      BY <2>2 DEF ReadsResponse
    <3>2. QED
      BY <3>1, ClosedTyped
  <2>3. QED
    BY <2>1, <2>2
<1>4. Pump(l) \in {l, Consumes(l), ReadsResponse(l)}
  BY DEF Pump
<1>5. QED
  BY <1>2, <1>3, <1>4

LEMMA PumpInterleavedTyped ==
  ASSUME NEW l, LoopOK(l)
  PROVE  LoopOK(PumpInterleaved(l))
<1> DEFINE b == l.buf
           got == BodyOf(AfterHead(b), LengthIn(HeadOf(b), 2))
<1>1. b \in Seq(Nat)
  BY LoopOKIsLoop
<1>2. LoopOK(Announced(l))
  <2>1. CASE HasHead(b) /\ got.whole
    <3>1. got.rest \in Seq(Nat)
      BY <1>1, <2>1, BodyTyped
    <3> DEFINE r == got.rest
               m == <<"sdp", got.body>>
               k == [Left(l, r) EXCEPT !.stage = "loop"]
    <3>2. Announced(l) = Says(k, m)
      BY <2>1 DEF Announced
    <3>3. LoopOK(k)
      <4>1. r \in Seq(Nat)
        BY <3>1
      <4> HIDE DEF r
      <4>2. LoopOK(Left(l, r))
        BY <4>1, LeftTyped
      <4>3. QED
        BY <4>2 DEF LoopOK, Stages
    <3> HIDE DEF k, m
    <3>4. QED
      BY <3>2, <3>3, SaysTyped
  <2>2. CASE ~ (HasHead(b) /\ got.whole)
    BY <2>2 DEF Announced
  <2>3. QED
    BY <2>1, <2>2
<1>3. LoopOK(Requested(l))
  <2>1. CASE HasHead(b)
    <3> DEFINE k == Left(l, AfterHead(b))
    <3>1. LoopOK(k)
      BY <1>1, <2>1, RestTyped, LeftTyped
    <3>2. Requested(l) \in {[k EXCEPT !.stage = "pump"], Closed(k), k}
      BY <2>1 DEF Requested
    <3> HIDE DEF k
    <3>3. LoopOK([k EXCEPT !.stage = "pump"]) /\ LoopOK(Closed(k))
      BY <3>1, ClosedTyped DEF LoopOK, Stages
    <3>4. QED
      BY <3>1, <3>2, <3>3
  <2>2. CASE ~HasHead(b)
    BY <2>2 DEF Requested
  <2>3. QED
    BY <2>1, <2>2
<1>4. LoopOK(Publishes(l))
  <2>1. CASE HasInterleaved(b)
    <3> DEFINE k == Left(l, AfterInterleaved(b))
               m == <<b[2], PayloadOf(b)>>
    <3>1. LoopOK(k) /\ Publishes(l) = Says(k, m)
      BY <1>1, <2>1, RestTyped, LeftTyped DEF Publishes
    <3> HIDE DEF k, m
    <3>2. QED
      BY <3>1, SaysTyped
  <2>2. CASE ~HasInterleaved(b)
    BY <2>2 DEF Publishes
  <2>3. QED
    BY <2>1, <2>2
<1>5. b # <<>> => LoopOK(Skips(l))
  <2>1. SUFFICES ASSUME b # <<>> PROVE LoopOK(Skips(l))
    OBVIOUS
  <2>2. 1 \in 0..Len(b)
    BY <1>1, <2>1
  <2>3. Beyond(1, b) \in Seq(Nat)
    BY <1>1, <2>2, BeyondOf
  <2>4. CASE b[1] # Rtsp
    <3>1. Skips(l) = Left(l, Beyond(1, b))
      BY <2>4 DEF Skips
    <3>2. QED
      BY <2>3, <3>1, LeftTyped
  <2>5. CASE b[1] = Rtsp /\ HasHead(b)
    <3>1. Skips(l) = Left(l, AfterHead(b))
      BY <2>5 DEF Skips
    <3>2. QED
      BY <1>1, <2>5, <3>1, RestTyped, LeftTyped
  <2>6. CASE b[1] = Rtsp /\ ~HasHead(b)
    BY <2>6 DEF Skips
  <2>7. QED
    BY <2>4, <2>5, <2>6
<1>6. CASE b = <<>>
  BY <1>6 DEF PumpInterleaved
<1>7. CASE b # <<>>
  <2>1. PumpInterleaved(l) \in {Announced(l), Requested(l), Publishes(l), Skips(l)}
    BY <1>7 DEF PumpInterleaved
  <2>2. QED
    BY <1>2, <1>3, <1>4, <1>5, <1>7, <2>1
<1>8. QED
  BY <1>6, <1>7

\* What split_signalling leaves of a buffer is a part of it.
LEMMA MagicsIn ==
  ASSUME NEW data \in Seq(Nat)
  PROVE  /\ MagicsOf(data) \in SUBSET Nat /\ MagicsOf(data) \in SUBSET (0..Len(data))
         /\ StartsOf(data) \in SUBSET Nat /\ StartsOf(data) \subseteq MagicsOf(data)
         /\ \A i \in MagicsOf(data) :
              /\ i \in Nat /\ 1 <= i /\ i + 1 <= Len(data)
              /\ data[i] = M /\ data[i + 1] = M
BY DEF MagicsOf, StartsOf

LEMMA StartIn ==
  ASSUME NEW data \in Seq(Nat), StartsOf(data) # {}
  PROVE  /\ StartOf(data) \in StartsOf(data) /\ StartOf(data) \in MagicsOf(data)
         /\ StartOf(data) \in 1..Len(data)
         /\ \A i \in StartsOf(data) : StartOf(data) <= i
<1>1. StartOf(data) \in StartsOf(data) /\ \A i \in StartsOf(data) : StartOf(data) <= i
  BY MagicsIn, LowestIn DEF StartOf
<1>2. QED
  BY <1>1, MagicsIn

LEMMA FrameIn ==
  ASSUME NEW data \in Seq(Nat), HasFrame(data)
  PROVE  /\ FrameAt(data, StartOf(data)) /\ StartsOf(data) # {}
         /\ EndAt(data, StartOf(data)) \in 0..Len(data)
         /\ StartOf(data) + 6 <= EndAt(data, StartOf(data))
<1>1. FrameAt(data, StartOf(data)) /\ StartsOf(data) # {}
  BY StartIn DEF HasFrame, StartsOf
<1> DEFINE s == StartOf(data)
           len == data[s + 3]
<1>2. s \in 1..Len(data) /\ s + 3 \in 1..Len(data)
  <2>1. s \in 1..Len(data)
    BY <1>1, StartIn
  <2>2. ~ShortAt(data, s)
    BY <1>1 DEF FrameAt
  <2> HIDE DEF s
  <2>3. ~ (Len(data) - s + 1 < 5)
    BY <2>2 DEF ShortAt, HeaderLen
  <2>4. QED
    BY <2>1, <2>3
<1>3. len \in Nat
  BY <1>2
<1>4. EndAt(data, s) = s + 5 + len + 1
  BY DEF EndAt, HeaderLen
<1>5. EndAt(data, s) <= Len(data) /\ Len(data) \in Nat
  BY <1>1 DEF FrameAt
<1> HIDE DEF len, s
<1>6. EndAt(data, s) \in 0..Len(data) /\ s + 6 <= EndAt(data, s)
  <2> DEFINE e == EndAt(data, s)
  <2>1. /\ s \in Nat /\ e = s + 5 + len + 1 /\ e <= Len(data)
    BY <1>2, <1>4, <1>5
  <2> HIDE DEF e
  <2>2. e \in Nat /\ s + 6 <= e /\ e \in 0..Len(data)
    BY <1>3, <1>5, <2>1
  <2>3. QED
    BY <2>2 DEF e
<1>7. QED
  BY <1>1, <1>6 DEF s

LEMMA TailTyped ==
  ASSUME NEW data \in Seq(Nat)
  PROVE  /\ TailOf(data) \in Seq(Nat)
         /\ HasFrame(data) => AfterFrame(data) \in Seq(Nat)
<1>1. ASSUME NEW i \in 1..Len(data) PROVE SubSeq(data, i, Len(data)) \in Seq(Nat)
  OBVIOUS
<1>2. CASE StartsOf(data) # {}
  <2>1. TailOf(data) = SubSeq(data, StartOf(data), Len(data))
    BY <1>2 DEF TailOf
  <2>2. StartOf(data) \in 1..Len(data)
    BY <1>2, StartIn
  <2>3. TailOf(data) \in Seq(Nat)
    BY <1>1, <2>1, <2>2
  <2>4. ASSUME HasFrame(data) PROVE AfterFrame(data) \in Seq(Nat)
    <3>1. EndAt(data, StartOf(data)) \in 0..Len(data)
      BY <2>4, FrameIn
    <3>2. QED
      BY <3>1, BeyondOf DEF AfterFrame
  <2>5. QED
    BY <2>3, <2>4
<1>3. CASE StartsOf(data) = {} /\ MagicsOf(data) # {}
  <2>1. TailOf(data) = SubSeq(data, HighestOf(MagicsOf(data)), Len(data))
    BY <1>3 DEF TailOf, Waiting
  <2>2. HighestOf(MagicsOf(data)) \in MagicsOf(data)
    <3>1. Len(data) \in Nat
      OBVIOUS
    <3>2. QED
      BY <1>3, <3>1, MagicsIn, HighestIn
  <2>3. HighestOf(MagicsOf(data)) \in 1..Len(data)
    BY <2>2, MagicsIn
  <2>4. QED
    BY <1>1, <1>3, <2>1, <2>3 DEF HasFrame
<1>4. CASE StartsOf(data) = {} /\ MagicsOf(data) = {}
  <2>1. TailOf(data) \in {<<M>>, <<>>}
    BY <1>4 DEF TailOf, Waiting
  <2>2. <<M>> \in Seq(Nat) /\ <<>> \in Seq(Nat)
    BY DEF M
  <2>3. QED
    BY <1>4, <2>1, <2>2 DEF HasFrame
<1>5. QED
  BY <1>2, <1>3, <1>4

LEMMA SigPassTyped ==
  ASSUME NEW l, LoopOK(l)
  PROVE  LoopOK(SigPass(l))
<1>1. l.sigBuf \in Seq(Nat)
  BY LoopOKIsLoop
<1>2. ASSUME NEW rest \in Seq(Nat), NEW out
      PROVE  LoopOK([l EXCEPT !.sigBuf = rest, !.out = out])
  BY DEF LoopOK
<1>3. ASSUME NEW rest \in Seq(Nat) PROVE LoopOK([l EXCEPT !.sigBuf = rest])
  BY DEF LoopOK
<1>4. CASE HasFrame(l.sigBuf)
  <2> DEFINE rest == AfterFrame(l.sigBuf)
             out == l.out \o AnswerCamera(FrameOf(l.sigBuf))
  <2>1. SigPass(l) = [l EXCEPT !.sigBuf = rest, !.out = out] /\ rest \in Seq(Nat)
    BY <1>1, <1>4, TailTyped DEF SigPass
  <2> HIDE DEF rest, out
  <2>2. QED
    BY <1>2, <2>1
<1>5. CASE ~HasFrame(l.sigBuf) /\ TailOf(l.sigBuf) # l.sigBuf
  <2> DEFINE rest == TailOf(l.sigBuf)
  <2>1. SigPass(l) = [l EXCEPT !.sigBuf = rest] /\ rest \in Seq(Nat)
    BY <1>1, <1>5, TailTyped DEF SigPass
  <2> HIDE DEF rest
  <2>2. QED
    BY <1>3, <2>1
<1>6. CASE ~HasFrame(l.sigBuf) /\ TailOf(l.sigBuf) = l.sigBuf
  <2>1. SigPass(l) = AnswerRequest("sig", l)
    BY <1>6 DEF SigPass
  <2>2. QED
    BY <2>1, AnswerRequestTyped DEF Lanes
<1>7. QED
  BY <1>4, <1>5, <1>6

LEMMA PassTyped ==
  ASSUME NEW ln \in Lanes, NEW l, LoopOK(l)
  PROVE  LoopOK(Pass(ln, l))
<1>1. Pass(ln, l) \in {SigPass(l), AnswerRequest(ln, l), Pump(l), PumpInterleaved(l)}
  BY DEF Pass
<1>2. QED
  BY <1>1, SigPassTyped, AnswerRequestTyped, PumpTyped, PumpInterleavedTyped

\* The types of a connection: in particular there is a track to set up as long
\* as RelayStream.open sets tracks up, each is one of the SDP's, and a channel
\* has the kind of one that can be played (RelayStream.open, _pump_interleaved,
\* handle).
THEOREM LoopsAreTyped == Spec => []TypeOK
<1>1. Init => TypeOK
  <2>1. SUFFICES ASSUME Init PROVE TypeOK
    OBVIOUS
  <2>2. IsConversation(sent) /\ lane \in Lanes
    BY <2>1, ConversationAssumption DEF Init
  <2>3. read \in 0..Len(sent.bytes)
    BY <2>1, <2>2 DEF Init, IsConversation
  <2>4. LoopOK(Start)
    BY DEF LoopOK, Start, Stages
  <2>5. QED
    BY <2>1, <2>2, <2>3, <2>4 DEF Init, TypeOK
<1>2. TypeOK /\ [Next]_vars => TypeOK'
  <2>1. SUFFICES ASSUME TypeOK, [Next]_vars PROVE TypeOK'
    OBVIOUS
  <2>2. CASE Reads
    <3>1. PICK n \in (read + 1)..Len(sent.bytes) :
            /\ read' = n /\ loop' = Handed(loop, SubSeq(sent.bytes, read + 1, n))
      BY <2>2 DEF Reads
    <3>2. lane' = lane /\ sent' = sent
      BY <2>2 DEF Reads
    <3> DEFINE chunk == SubSeq(sent.bytes, read + 1, n)
    <3>3. /\ sent.bytes \in Seq(Nat) /\ read \in Nat /\ n \in Nat /\ read <= n
          /\ n <= Len(sent.bytes) /\ n \in 0..Len(sent.bytes)
      BY <2>1, <3>1 DEF TypeOK, IsConversation
    <3>4. chunk \in Seq(Nat)
      BY <3>3
    <3> HIDE DEF chunk
    <3>5. LoopOK(loop) /\ loop.buf \in Seq(Nat) /\ loop.sigBuf \in Seq(Nat)
      BY <2>1, LoopOKIsLoop DEF TypeOK
    <3>6. loop.buf \o chunk \in Seq(Nat) /\ loop.sigBuf \o chunk \in Seq(Nat)
      BY <3>4, <3>5, Joined
    <3>7. LoopOK(Handed(loop, chunk))
      <4> DEFINE buf == loop.buf \o chunk
                 sigBuf == IF lane # "sig" \/ LooksHttp(chunk) THEN loop.sigBuf
                           ELSE loop.sigBuf \o chunk
      <4>1. Handed(loop, chunk) = [loop EXCEPT !.buf = buf, !.sigBuf = sigBuf]
        BY DEF Handed
      <4>2. buf \in Seq(Nat) /\ sigBuf \in Seq(Nat)
        BY <3>5, <3>6
      <4> HIDE DEF buf, sigBuf
      <4>3. QED
        BY <3>5, <4>1, <4>2 DEF LoopOK
    <3>8. QED
      BY <2>1, <3>1, <3>2, <3>3, <3>7 DEF TypeOK, chunk
  <2>3. CASE Passes
    BY <2>1, <2>3, PassTyped DEF Passes, TypeOK
  <2>4. CASE Quiet
    BY <2>1, <2>4, ClosedTyped DEF Quiet, TypeOK
  <2>5. CASE UNCHANGED vars
    BY <2>1, <2>5 DEF vars, TypeOK
  <2>6. QED
    BY <2>1, <2>2, <2>3, <2>4, <2>5 DEF Next
<1>3. QED
  BY <1>1, <1>2, PTL DEF Spec

-----------------------------------------------------------------------------
(* The theorems of the loops with one buffer.                              *)

\* The messages of the connection are taken whole when each comes by itself.
WholeMessages == \E after : TakenWhole(lane, sent, after)

\* The loop is where it would be after some of its messages, with a part of the
\* rest in its buffer.
Follows ==
  lane \in OneBuffer =>
    \A after : TakenWhole(lane, sent, after) =>
      \E k : InStep(sent, after, k, loop, read)

LEMMA FollowsInit == Init /\ TypeOK => Follows
<1>1. SUFFICES ASSUME Init, TypeOK, lane \in OneBuffer,
                      NEW after, TakenWhole(lane, sent, after)
               PROVE  InStep(sent, after, 0, loop, read)
  BY DEF Follows
<1>2. after[0] = Start /\ loop = Start /\ read = 0
  BY <1>1 DEF TakenWhole, Filled, Init
<1>3. IsLoop(Start) /\ Start.open /\ Start.out = <<>> /\ Start.buf = <<>>
  BY DEF Start, IsLoop
<1>4. IsConversation(sent)
  BY <1>1 DEF TypeOK
<1>5. /\ 0 \in 0..Len(sent.messages) /\ End(sent, 0) = 0 /\ Said(sent, 0) = <<>>
      /\ SubSeq(sent.bytes, 0 + 1, 0) = <<>>
  BY <1>4 DEF IsConversation, End, Said
<1>6. Start = Left(Start, <<>>)
  BY <1>3, LeftOwn
<1>7. loop = Left(after[0], SubSeq(sent.bytes, End(sent, 0) + 1, read))
  BY <1>2, <1>5, <1>6
<1>8. QED
  BY <1>2, <1>3, <1>5, <1>7 DEF InStep

\* What is read joins the buffer.
LEMMA InStepReads ==
  ASSUME NEW c, IsConversation(c), NEW after, NEW k, NEW l, l.open,
         NEW r \in Nat, NEW n \in Nat, r <= n, n <= Len(c.bytes),
         InStep(c, after, k, l, r)
  PROVE  InStep(c, after, k, Left(l, l.buf \o SubSeq(c.bytes, r + 1, n)), n)
<1> DEFINE a == after[k]
           bs == c.bytes
           e == End(c, k)
           d == SubSeq(bs, e + 1, r)
           x == SubSeq(bs, r + 1, n)
           w == SubSeq(bs, e + 1, n)
<1>1. /\ k \in 0..Len(c.messages) /\ e <= r /\ l.out = Said(c, k)
      /\ IsLoop(a) /\ a.open /\ a.out = Said(c, k) /\ l = Left(a, d)
  BY DEF InStep
<1>2. bs \in Seq(Nat) /\ e \in Nat
  BY <1>1, Ends
<1> HIDE DEF bs, e
<1>3. d \o x = w /\ d \in Seq(Nat) /\ w \in Seq(Nat)
  <2>1. n <= Len(bs)
    BY DEF bs
  <2>2. bs \in Seq(Nat) /\ e \in Nat /\ e <= r
    BY <1>1, <1>2
  <2>3. QED
    BY <2>1, <2>2, Adjacent
<1> HIDE DEF d, x, w, a
<1>4. l.buf = d /\ Left(l, w) = Left(a, w) /\ IsLoop(l)
  <2>1. IsLoop(Left(a, d)) /\ Left(a, d).buf = d
    BY <1>1, <1>3, LeftIsLoop
  <2>2. Left(Left(a, d), w) = Left(a, w)
    BY <1>1, <1>3, LeftTwice
  <2>3. QED
    BY <1>1, <2>1, <2>2
<1>5. Left(l, w).out = l.out
  BY <1>3, <1>4, LeftIsLoop
<1>6. Left(l, l.buf \o x) = Left(l, w)
  BY <1>3, <1>4
<1>7. e <= n
  BY <1>1, <1>2
<1>8. InStep(c, after, k, Left(l, w), n)
  BY <1>1, <1>4, <1>5, <1>7 DEF InStep, a, w, bs, e
<1>9. QED
  BY <1>6, <1>8 DEF x, bs

LEMMA FollowsStep == TypeOK /\ Follows /\ [Next]_vars => Follows'
<1>1. SUFFICES ASSUME TypeOK, Follows, [Next]_vars PROVE Follows'
  OBVIOUS
<1>2. lane' = lane /\ sent' = sent
  BY <1>1 DEF Next, Reads, Passes, Quiet, vars
<1>3. SUFFICES ASSUME lane \in OneBuffer, NEW after, TakenWhole(lane, sent, after)
               PROVE  \E k : InStep(sent, after, k, loop', read')
  BY <1>2 DEF Follows
<1>4. PICK k : InStep(sent, after, k, loop, read)
  BY <1>1, <1>3 DEF Follows
<1>5. /\ IsConversation(sent) /\ read \in 0..Len(sent.bytes) /\ read \in Nat
      /\ Len(sent.bytes) \in Nat /\ LoopOK(loop) /\ IsLoop(loop)
      /\ lane # "sig" /\ loop.buf \in Seq(Nat)
  BY <1>1, <1>3, LoopOKIsLoop DEF TypeOK, IsConversation, OneBuffer
<1>6. CASE Reads
  <2>1. PICK n \in (read + 1)..Len(sent.bytes) :
          /\ read' = n /\ loop' = Handed(loop, SubSeq(sent.bytes, read + 1, n))
    BY <1>6 DEF Reads
  <2> DEFINE chunk == SubSeq(sent.bytes, read + 1, n)
  <2>2. n \in Nat /\ read <= n /\ n <= Len(sent.bytes)
    BY <1>5, <2>1
  <2>3. loop' = Left(loop, loop.buf \o chunk)
    <3> HIDE DEF chunk
    <3>1. Handed(loop, chunk) = [loop EXCEPT !.buf = loop.buf \o chunk,
                                             !.sigBuf = loop.sigBuf]
      BY <1>5 DEF Handed
    <3>2. [loop EXCEPT !.buf = loop.buf \o chunk, !.sigBuf = loop.sigBuf]
            = Left(loop, loop.buf \o chunk)
      BY <1>5 DEF IsLoop, Left
    <3>3. QED
      BY <2>1, <3>1, <3>2 DEF chunk
  <2>4. loop.open
    BY <1>6 DEF Reads, Waits
  <2>5. InStep(sent, after, k, Left(loop, loop.buf \o chunk), n)
    BY <1>4, <1>5, <2>2, <2>4, InStepReads
  <2>6. QED
    BY <2>1, <2>3, <2>5
<1>7. CASE Passes
  <2>1. /\ loop.open /\ Pass(lane, loop) # loop /\ loop' = Pass(lane, loop)
        /\ read' = read
    BY <1>7 DEF Passes
  <2>2. \E j : InStep(sent, after, j, Pass(lane, loop), read)
    BY <1>3, <1>4, <1>5, <2>1, InStepPass
  <2>3. QED
    BY <2>1, <2>2
<1>8. CASE Quiet
  <2>1. loop' = Closed(loop) /\ read' = read
    BY <1>8 DEF Quiet
  <2>2. ~Closed(loop).open /\ Closed(loop).out = loop.out
    BY <1>5 DEF Closed, IsLoop
  <2>3. InStep(sent, after, k, Closed(loop), read)
    BY <1>4, <2>2 DEF InStep
  <2>4. QED
    BY <2>1, <2>3
<1>9. CASE UNCHANGED vars
  BY <1>4, <1>9 DEF vars
<1>10. QED
  BY <1>1, <1>6, <1>7, <1>8, <1>9 DEF Next

LEMMA FollowsCuts ==
  TypeOK /\ Follows /\ lane \in OneBuffer /\ WholeMessages => CutsWhatArrived
<1>1. SUFFICES ASSUME TypeOK, Follows, lane \in OneBuffer, WholeMessages
               PROVE  CutsWhatArrived
  OBVIOUS
<1>2. PICK after : TakenWhole(lane, sent, after)
  BY <1>1 DEF WholeMessages
<1>3. PICK k : InStep(sent, after, k, loop, read)
  BY <1>1, <1>2 DEF Follows
<1>4. /\ k \in 0..Len(sent.messages) /\ loop.out = Said(sent, k) /\ End(sent, k) <= read
  BY <1>3 DEF InStep
<1>5. ASSUME Waits, k < Len(sent.messages) PROVE End(sent, k + 1) > read
  <2>1. SUFFICES ASSUME End(sent, k + 1) <= read PROVE FALSE
    <3>1. /\ IsConversation(sent) /\ read \in Nat /\ Len(sent.messages) \in Nat
          /\ Len(sent.bytes) \in Nat
      <4>1. IsConversation(sent) /\ read \in 0..Len(sent.bytes)
        BY <1>1 DEF TypeOK
      <4>2. QED
        BY <1>4, <4>1, Ends
    <3>2. k + 1 \in 0..Len(sent.messages)
      BY <1>4, <1>5, <3>1
    <3>3. End(sent, k + 1) \in 0..Len(sent.bytes)
      BY <3>1, <3>2, Ends
    <3>4. End(sent, k + 1) <= read \/ End(sent, k + 1) > read
      BY <3>1, <3>3
    <3>5. QED
      BY <2>1, <3>4
  <2>2. loop.open /\ Pass(lane, loop) = loop
    BY <1>5 DEF Waits
  <2>3. IsConversation(sent) /\ read \in 0..Len(sent.bytes)
    BY <1>1 DEF TypeOK
  <2>4. QED
    BY <1>1, <1>2, <1>3, <1>5, <2>1, <2>2, <2>3, TakesNext
<1>6. QED
  BY <1>4, <1>5 DEF CutsWhatArrived

\* For every stream of requests a client of the HTTP API may send, cut into any
\* chunks: if each request is taken whole when it comes by itself, then each is
\* answered once its body is there, in whatever chunks they come (handle).
THEOREM RequestsStayWhole == Spec => [](WholeMessages => RequestsAreWhole)
<1>1. Init /\ TypeOK => Follows
  BY FollowsInit
<1>2. TypeOK /\ Follows /\ [Next]_vars => Follows'
  BY FollowsStep
<1>3. TypeOK /\ Follows => (WholeMessages => RequestsAreWhole)
  BY FollowsCuts DEF RequestsAreWhole, OneBuffer
<1>4. QED
  BY <1>1, <1>2, <1>3, LoopsAreTyped, PTL DEF Spec

\* The same of what the relay sends to the bridge, from the first answer to the
\* last packet of media, and of what a camera publishes to the relay
\* (RelayStream, _pump_interleaved).
THEOREM MediaIsToldApart == Spec => [](WholeMessages => MediaSurvives)
<1>1. Init /\ TypeOK => Follows
  BY FollowsInit
<1>2. TypeOK /\ Follows /\ [Next]_vars => Follows'
  BY FollowsStep
<1>3. TypeOK /\ Follows => (WholeMessages => MediaSurvives)
  BY FollowsCuts DEF MediaSurvives, OneBuffer
<1>4. QED
  BY <1>1, <1>2, <1>3, LoopsAreTyped, PTL DEF Spec

-----------------------------------------------------------------------------
(* The signalling port.  What waits in its buffer is a stretch of the       *)
(* stream, and a frame of the stretch is a frame of the stream.            *)

LEMMA PartOfStretch ==
  ASSUME NEW b \in Seq(Nat), NEW p \in Nat, NEW r \in Nat, p <= r, r <= Len(b),
         NEW i \in Nat, NEW j \in Nat, i <= j, j <= r - p
  PROVE  SubSeq(SubSeq(b, p + 1, r), i + 1, j) = SubSeq(b, p + i + 1, p + j)
<1> DEFINE d == SubSeq(b, p + 1, r)
<1>1. /\ d \in Seq(Nat) /\ Len(d) = r - p
      /\ \A e \in 1..(r - p) : d[e] = b[p + e]
  BY Stretch
<1> HIDE DEF d
<1>2. /\ SubSeq(d, i + 1, j) \in Seq(Nat) /\ Len(SubSeq(d, i + 1, j)) = j - i
      /\ \A e \in 1..(j - i) : SubSeq(d, i + 1, j)[e] = d[i + e]
  BY <1>1, Stretch
<1> DEFINE pi == p + i
           pj == p + j
<1>3. pi \in Nat /\ pj \in Nat /\ pi <= pj /\ pj <= Len(b) /\ pj - pi = j - i
  OBVIOUS
<1> HIDE DEF pi, pj
<1>4. /\ SubSeq(b, pi + 1, pj) \in Seq(Nat) /\ Len(SubSeq(b, pi + 1, pj)) = j - i
      /\ \A e \in 1..(j - i) : SubSeq(b, pi + 1, pj)[e] = b[pi + e]
  BY <1>3, Stretch
<1>5. ASSUME NEW e \in 1..(j - i)
      PROVE  SubSeq(d, i + 1, j)[e] = SubSeq(b, pi + 1, pj)[e]
  <2>1. i + e \in 1..(r - p) /\ p + (i + e) = pi + e
    BY DEF pi
  <2>2. QED
    BY <1>1, <1>2, <1>4, <2>1
<1>6. SubSeq(d, i + 1, j) = SubSeq(b, pi + 1, pj)
  <2> DEFINE s == SubSeq(d, i + 1, j)
             t == SubSeq(b, pi + 1, pj)
  <2>1. s \in Seq(Nat) /\ t \in Seq(Nat) /\ Len(s) = j - i /\ Len(t) = j - i
        /\ \A e \in 1..(j - i) : s[e] = t[e]
    BY <1>2, <1>4, <1>5
  <2> HIDE DEF s, t
  <2>2. s = t
    BY <2>1, SameSeq
  <2>3. QED
    BY <2>2 DEF s, t
<1>7. QED
  BY <1>6 DEF d, pi, pj

LEMMA MagicOfStretch ==
  ASSUME NEW b \in Seq(Nat), NEW p \in Nat, NEW r \in Nat, p <= r, r <= Len(b),
         NEW i \in Nat
  PROVE  i \in MagicsOf(SubSeq(b, p + 1, r))
           <=> (i >= 1 /\ i + 1 <= r - p /\ p + i \in MagicsOf(b))
<1> DEFINE d == SubSeq(b, p + 1, r)
<1>1. /\ d \in Seq(Nat) /\ Len(d) = r - p /\ Len(b) \in Nat
      /\ \A e \in 1..(r - p) : d[e] = b[p + e]
  BY Stretch
<1> HIDE DEF d
<1>2. ASSUME i \in MagicsOf(d)
      PROVE  i >= 1 /\ i + 1 <= r - p /\ p + i \in MagicsOf(b)
  <2>1. i \in 1..(r - p) /\ i + 1 \in 1..(r - p)
    <3> DEFINE len == Len(d)
    <3>1. i \in 1..(len - 1) /\ len = r - p
      BY <1>1, <1>2 DEF MagicsOf
    <3> HIDE DEF len
    <3>2. QED
      BY <3>1
  <2>2. d[i] = M /\ d[i + 1] = M
    BY <1>1, <1>2 DEF MagicsOf
  <2> DEFINE j == i + 1
  <2>0. j \in 1..(r - p) /\ p + j = (p + i) + 1
    BY <2>1
  <2> HIDE DEF j
  <2>3. d[i] = b[p + i] /\ d[j] = b[p + j]
    BY <1>1, <2>0, <2>1
  <2> USE DEF j
  <2>4. b[p + i] = M /\ b[(p + i) + 1] = M
    BY <2>0, <2>2, <2>3
  <2>5. p + i \in 1..(Len(b) - 1)
    BY <1>1, <2>1
  <2>6. QED
    BY <2>1, <2>4, <2>5 DEF MagicsOf
<1>3. ASSUME i >= 1 /\ i + 1 <= r - p /\ p + i \in MagicsOf(b)
      PROVE  i \in MagicsOf(d)
  <2>1. i \in 1..(r - p) /\ i + 1 \in 1..(r - p)
    BY <1>3
  <2>2. b[p + i] = M /\ b[(p + i) + 1] = M
    BY <1>3 DEF MagicsOf
  <2> DEFINE j == i + 1
  <2>0. j \in 1..(r - p) /\ p + j = (p + i) + 1
    BY <2>1
  <2> HIDE DEF j
  <2>3. d[i] = b[p + i] /\ d[j] = b[p + j]
    BY <1>1, <2>0, <2>1
  <2> USE DEF j
  <2>4. d[i] = M /\ d[i + 1] = M
    BY <2>0, <2>2, <2>3
  <2>5. QED
    BY <1>1, <2>1, <2>4 DEF MagicsOf
<1>4. QED
  BY <1>2, <1>3 DEF d

\* A frame's end, in the stretch and in the stream.
LEMMA FrameOfStretch ==
  ASSUME NEW b \in Seq(Nat), NEW p \in Nat, NEW r \in Nat, p <= r, r <= Len(b),
         NEW i \in 1..(r - p)
  PROVE  LET d == SubSeq(b, p + 1, r)
         IN  /\ FrameAt(d, i) <=> (FrameAt(b, p + i) /\ EndAt(b, p + i) <= r)
             /\ FrameAt(d, i) => /\ EndAt(b, p + i) = p + EndAt(d, i)
                                 /\ EndAt(b, p + i) \in Nat /\ EndAt(d, i) \in Nat
                                 /\ i + 6 <= EndAt(d, i)
<1> DEFINE d == SubSeq(b, p + 1, r)
           q == p + i
<1>1. /\ d \in Seq(Nat) /\ Len(d) = r - p /\ Len(b) \in Nat /\ q \in Nat
      /\ \A e \in 1..(r - p) : d[e] = b[p + e]
  BY Stretch
<1>2. ASSUME ~ShortAt(d, i)
      PROVE  /\ ~ShortAt(b, q) /\ d[i + 3] = b[q + 3] /\ b[q + 3] \in Nat
             /\ EndAt(b, q) = p + EndAt(d, i) /\ EndAt(b, q) = q + 6 + b[q + 3]
             /\ EndAt(d, i) = i + 6 + b[q + 3]
             /\ EndAt(b, q) \in Nat /\ EndAt(d, i) \in Nat
  <2> HIDE DEF d
  <2>1. (r - p) - i + 1 >= 5
    BY <1>1, <1>2 DEF ShortAt, HeaderLen
  <2> DEFINE j == i + 3
  <2>2. j \in 1..(r - p) /\ p + j = q + 3 /\ q + 3 \in 1..Len(b)
    BY <2>1
  <2> HIDE DEF j, q
  <2>3. d[j] = b[q + 3] /\ b[q + 3] \in Nat
    <3>1. d[j] = b[p + j]
      BY <1>1, <2>2
    <3>2. b[q + 3] \in Nat
      BY <2>2
    <3>3. QED
      BY <2>2, <3>1, <3>2
  <2> USE DEF j, q
  <2> DEFINE len == b[q + 3]
  <2>4. EndAt(b, q) = q + 5 + len + 1 /\ EndAt(d, i) = i + 5 + len + 1 /\ len \in Nat
    BY <2>3 DEF EndAt, HeaderLen
  <2>5. ~ShortAt(b, q)
    <3>1. ~ (Len(b) - q + 1 < 5)
      BY <1>1, <2>1
    <3>2. QED
      BY <3>1 DEF ShortAt, HeaderLen
  <2> HIDE DEF len
  <2>6. /\ EndAt(b, q) = q + 6 + len /\ EndAt(d, i) = i + 6 + len
        /\ q + 6 + len = p + (i + 6 + len) /\ q + 6 + len \in Nat /\ i + 6 + len \in Nat
    BY <1>1, <2>4
  <2>7. QED
    BY <2>3, <2>5, <2>6 DEF len
<1>3. ASSUME ~ShortAt(d, i), EndAt(d, i) <= r - p
      PROVE  /\ d[EndAt(d, i)] = b[EndAt(b, q)]
             /\ d[EndAt(d, i) - 1] = b[EndAt(b, q) - 1]
             /\ SubSeq(d, i, EndAt(d, i) - 2) = SubSeq(b, q, EndAt(b, q) - 2)
  <2> DEFINE e == EndAt(d, i)
             f == EndAt(b, q)
             len == b[q + 3]
  <2>1. /\ e \in Nat /\ f \in Nat /\ f = p + e /\ len \in Nat /\ e = i + 6 + len
        /\ e <= r - p
    BY <1>2, <1>3
  <2> HIDE DEF e, f, len, d
  <2>2. e \in 1..(r - p) /\ e - 1 \in 1..(r - p) /\ p + (e - 1) = f - 1
    BY <2>1
  <2>3. d[e] = b[f] /\ d[e - 1] = b[f - 1]
    BY <1>1, <2>1, <2>2
  <2> DEFINE g == i - 1
             h == e - 2
  <2>4. /\ g \in Nat /\ h \in Nat /\ g <= h /\ h <= r - p
        /\ p + g + 1 = q /\ p + h = f - 2 /\ g + 1 = i
    BY <2>1
  <2> HIDE DEF g, h, q
  <2>5. SubSeq(d, g + 1, h) = SubSeq(b, p + g + 1, p + h)
    BY <2>4, PartOfStretch DEF d
  <2>6. SubSeq(d, i, e - 2) = SubSeq(b, q, f - 2)
    BY <2>4, <2>5 DEF h
  <2>7. QED
    BY <2>3, <2>6 DEF e, f
<1> DEFINE e == EndAt(d, i)
           f == EndAt(b, q)
<1>4. ASSUME FrameAt(d, i)
      PROVE  FrameAt(b, q) /\ f <= r /\ f = p + e /\ f \in Nat /\ e \in Nat /\ i + 6 <= e
  <2>1. ~ShortAt(d, i) /\ e <= Len(d) /\ d[e] = EndSymbol
        /\ d[e - 1] = Xor(SubSeq(d, i, e - 2)) /\ HeaderLen + d[i + 3] + 2 <= FrameMax
    BY <1>4 DEF FrameAt
  <2>2. /\ ~ShortAt(b, q) /\ d[i + 3] = b[q + 3] /\ b[q + 3] \in Nat /\ f = p + e
        /\ e = i + 6 + b[q + 3] /\ f \in Nat /\ e \in Nat
    BY <1>2, <2>1
  <2>3. e <= r - p
    BY <1>1, <2>1
  <2>4. d[e] = b[f] /\ d[e - 1] = b[f - 1] /\ SubSeq(d, i, e - 2) = SubSeq(b, q, f - 2)
    BY <1>3, <2>1, <2>3
  <2> DEFINE len == b[q + 3]
  <2> HIDE DEF e, f, len
  <2>5. f <= r /\ f <= Len(b) /\ i + 6 <= e
    <3>1. /\ e = i + 6 + len /\ len \in Nat /\ f = p + e /\ e \in Nat
          /\ e <= r - p
      BY <2>2, <2>3 DEF len
    <3>2. QED
      BY <1>1, <3>1
  <2> HIDE DEF d, f, q
  <2>6. HeaderLen + b[q + 3] + 2 <= FrameMax /\ b[f] = EndSymbol
        /\ b[f - 1] = Xor(SubSeq(b, q, f - 2))
    BY <2>1, <2>2, <2>4
  <2>7. FrameAt(b, q)
    BY <2>2, <2>5, <2>6 DEF FrameAt, f
  <2>8. QED
    BY <2>2, <2>5, <2>7
<1>5. ASSUME FrameAt(b, q), f <= r
      PROVE  FrameAt(d, i)
  <2>1. ~ShortAt(b, q) /\ b[f] = EndSymbol
        /\ b[f - 1] = Xor(SubSeq(b, q, f - 2)) /\ HeaderLen + b[q + 3] + 2 <= FrameMax
    BY <1>5 DEF FrameAt
  <2>2. ~ShortAt(d, i)
    <3> HIDE DEF d
    <3>1. q + 3 \in 1..Len(b)
      BY <1>1, <2>1 DEF ShortAt, HeaderLen
    <3> DEFINE len == b[q + 3]
    <3>2. len \in Nat /\ f = q + 5 + len + 1
      BY <3>1 DEF EndAt, HeaderLen
    <3> HIDE DEF len
    <3>3. q + 6 <= r
      BY <1>1, <1>5, <3>2
    <3>4. QED
      BY <1>1, <3>3 DEF ShortAt, HeaderLen
  <2>3. d[i + 3] = b[q + 3] /\ b[q + 3] \in Nat /\ f = p + e /\ f \in Nat /\ e \in Nat
    BY <1>2, <2>2
  <2>4. e <= r - p /\ e <= Len(d)
    <3> HIDE DEF e, f, d
    <3>1. QED
      BY <1>1, <1>5, <2>3
  <2>5. d[e] = b[f] /\ d[e - 1] = b[f - 1] /\ SubSeq(d, i, e - 2) = SubSeq(b, q, f - 2)
    BY <1>3, <2>2, <2>4
  <2> HIDE DEF d, f, e, q
  <2>6. HeaderLen + d[i + 3] + 2 <= FrameMax /\ d[e] = EndSymbol
        /\ d[e - 1] = Xor(SubSeq(d, i, e - 2))
    BY <2>1, <2>3, <2>5
  <2>7. QED
    BY <2>2, <2>4, <2>6 DEF FrameAt, e
<1>6. QED
  BY <1>4, <1>5

-----------------------------------------------------------------------------
(* The loop of the signalling port has answered the first frames of the     *)
(* stream; what is in its buffer starts behind them and not behind the      *)
(* start of the next one.                                                  *)

SigInStep(c, k, p, l, r) ==
  /\ k \in 0..Len(c.messages) /\ l.out = Said(c, k) /\ End(c, k) <= r
  /\ l.open => /\ p \in 0..r /\ End(c, k) <= p
               /\ k < Len(c.messages) => p < c.messages[k + 1].first
               /\ l.sigBuf = SubSeq(c.bytes, p + 1, r)
               /\ l.buf = SubSeq(c.bytes, 1, r)

\* The next frame of the stream, once it starts in the buffer.
LEMMA NextFrame ==
  ASSUME NEW c, IsConversation(c), CameraStream(c),
         NEW k \in 0..(Len(c.messages) - 1)
  PROVE  LET f == c.messages[k + 1].first
             e == End(c, k + 1)
         IN  /\ f \in Nat /\ e \in Nat /\ 1 <= f /\ f + 1 <= e /\ e <= Len(c.bytes)
             /\ f \in MagicsOf(c.bytes) /\ FrameAt(c.bytes, f) /\ e = EndAt(c.bytes, f)
             /\ \A i \in MagicsOf(c.bytes) : i \notin (f + 1)..e
             /\ MessageOf(c, k + 1) = SubSeq(c.bytes, f, e)
             /\ Said(c, k + 1) = Said(c, k) \o AnswerCamera(SubSeq(c.bytes, f, e))
<1> DEFINE f == c.messages[k + 1].first
           e == c.messages[k + 1].last
<1>1. k + 1 \in 1..Len(c.messages) /\ (k + 1) - 1 = k /\ k + 1 # 0
  BY Ends
<1>2. End(c, k + 1) = e
  BY <1>1 DEF End
<1>3. e \in 1..Len(c.bytes) /\ f \in 1..e
  BY <1>1 DEF IsConversation
<1>4. /\ f \in MagicsOf(c.bytes) /\ FrameAt(c.bytes, f) /\ e = EndAt(c.bytes, f)
      /\ c.messages[k + 1].said = Said(c, k) \o AnswerCamera(MessageOf(c, k + 1))
      /\ \A i \in MagicsOf(c.bytes) : i \notin (f + 1)..e
  BY <1>1 DEF CameraStream
<1>5. Said(c, k + 1) = c.messages[k + 1].said
  BY <1>1 DEF Said
<1>6. MessageOf(c, k + 1) = SubSeq(c.bytes, f, e)
  BY DEF MessageOf
<1>7. f + 1 <= e
  <2> DEFINE b == c.bytes
             len == b[f + 3]
  <2>1. b \in Seq(Nat) /\ Len(b) \in Nat /\ f \in Nat /\ e \in Nat
    BY <1>3 DEF IsConversation
  <2>2. f + 3 \in 1..Len(b)
    <3>1. ~ShortAt(b, f)
      BY <1>4 DEF FrameAt
    <3> HIDE DEF b, f
    <3>2. QED
      BY <2>1, <3>1 DEF ShortAt, HeaderLen
  <2>3. len \in Nat
    <3> HIDE DEF b, f
    <3>1. QED
      BY <2>1, <2>2
  <2>4. e = f + 5 + len + 1
    BY <1>4 DEF EndAt, HeaderLen
  <2> HIDE DEF len, f, e
  <2>5. QED
    BY <2>1, <2>3, <2>4
<1>8. f \in Nat /\ e \in Nat /\ 1 <= f /\ e <= Len(c.bytes)
  BY <1>3
<1>9. QED
  BY <1>2, <1>4, <1>5, <1>6, <1>7, <1>8

\* Where the next frame starts in the buffer, and whether it is whole there.
LEMMA NextInBuffer ==
  ASSUME NEW c, IsConversation(c), CameraStream(c), NEW r \in 0..Len(c.bytes),
         NEW l, l.open, NEW k, NEW p, SigInStep(c, k, p, l, r), k < Len(c.messages)
  PROVE  LET f == c.messages[k + 1].first
             d == SubSeq(c.bytes, p + 1, r)
         IN  /\ f - p \in Nat /\ 1 <= f - p
             /\ f + 1 <= r => f - p \in MagicsOf(d)
             /\ End(c, k + 1) <= r => f - p \in StartsOf(d) /\ ~ShortAt(d, f - p)
             /\ f - p \in StartsOf(d) /\ ~ShortAt(d, f - p) => End(c, k + 1) <= r
<1> DEFINE f == c.messages[k + 1].first
           b == c.bytes
           d == SubSeq(b, p + 1, r)
           e == End(c, k + 1)
           i == f - p
<1>1. /\ k \in 0..(Len(c.messages) - 1) /\ p \in 0..r /\ p < f
      /\ b \in Seq(Nat) /\ Len(b) \in Nat /\ r <= Len(b) /\ p \in Nat /\ r \in Nat
  BY Ends DEF SigInStep
<1>2. /\ f \in Nat /\ e \in Nat /\ 1 <= f /\ f + 1 <= e /\ e <= Len(b)
      /\ f \in MagicsOf(b) /\ FrameAt(b, f) /\ e = EndAt(b, f)
  BY <1>1, NextFrame
<1> HIDE DEF f, b, e
<1>3. i \in Nat /\ 1 <= i /\ p + i = f
  BY <1>1, <1>2
<1>4. d \in Seq(Nat) /\ Len(d) = r - p
  BY <1>1, Stretch
<1>5. ASSUME i \in 1..(r - p) PROVE FrameAt(d, i) <=> e <= r
  <2>1. FrameAt(d, i) <=> (FrameAt(b, p + i) /\ EndAt(b, p + i) <= r)
    <3>1. b \in Seq(Nat) /\ p \in Nat /\ r \in Nat /\ p <= r /\ r <= Len(b)
      BY <1>1
    <3> HIDE DEF i
    <3>2. QED
      BY <1>5, <3>1, FrameOfStretch
  <2>2. QED
    BY <1>2, <1>3, <2>1
<1> HIDE DEF i
<1>6. f + 1 <= r => i \in MagicsOf(d)
  <2>1. SUFFICES ASSUME f + 1 <= r PROVE i \in MagicsOf(d)
    OBVIOUS
  <2>2. /\ p <= r /\ i >= 1 /\ p + i \in MagicsOf(b)
        /\ b \in Seq(Nat) /\ p \in Nat /\ r \in Nat /\ r <= Len(b)
    <3>1. p + i \in MagicsOf(b)
      BY <1>2, <1>3
    <3>2. i >= 1
      BY <1>3
    <3>3. p <= r
      BY <1>1
    <3>4. QED
      BY <1>1, <3>1, <3>2, <3>3
  <2>3. i + 1 <= r - p
    BY <1>3, <2>1, <2>2
  <2>4. QED
    BY <1>3, <2>2, <2>3, MagicOfStretch
<1>7. e <= r => i \in StartsOf(d) /\ ~ShortAt(d, i)
  <2>1. SUFFICES ASSUME e <= r PROVE i \in StartsOf(d) /\ ~ShortAt(d, i)
    OBVIOUS
  <2>2. i \in 1..(r - p) /\ f + 1 <= r
    BY <1>1, <1>2, <1>3, <2>1
  <2>3. FrameAt(d, i)
    BY <1>5, <2>1, <2>2
  <2>4. QED
    BY <1>6, <2>2, <2>3 DEF StartsOf, FrameAt
<1>8. i \in StartsOf(d) /\ ~ShortAt(d, i) => e <= r
  <2>1. SUFFICES ASSUME i \in StartsOf(d), ~ShortAt(d, i) PROVE e <= r
    OBVIOUS
  <2>2. FrameAt(d, i) /\ i \in MagicsOf(d)
    BY <2>1 DEF StartsOf
  <2>3. i \in 1..(r - p)
    BY <1>1, <1>3, <2>2, MagicOfStretch
  <2>4. QED
    BY <1>5, <2>2, <2>3
<1>9. QED
  BY <1>3, <1>6, <1>7, <1>8 DEF f, b, d, e, i

\* While the loop waits there is no whole frame in its buffer.
LEMMA SigTakesNext ==
  ASSUME NEW c, IsConversation(c), CameraStream(c), NEW r \in 0..Len(c.bytes),
         NEW l, l.open, NEW k, NEW p, SigInStep(c, k, p, l, r),
         k < Len(c.messages), End(c, k + 1) <= r
  PROVE  HasFrame(l.sigBuf)
<1> DEFINE d == SubSeq(c.bytes, p + 1, r)
           i == c.messages[k + 1].first - p
<1>1. l.sigBuf = d /\ d \in Seq(Nat)
  <2> DEFINE b == c.bytes
  <2>1. l.sigBuf = d /\ p \in 0..r /\ b \in Seq(Nat) /\ r \in 0..Len(b)
    BY DEF SigInStep, IsConversation
  <2>2. p \in Nat /\ r \in Nat /\ p <= r /\ r <= Len(b)
    BY <2>1
  <2> HIDE DEF b
  <2>3. SubSeq(b, p + 1, r) \in Seq(Nat)
    BY <2>1, <2>2, Stretch
  <2>4. QED
    BY <2>1, <2>3 DEF b
<1>2. i \in Nat /\ i \in StartsOf(d) /\ ~ShortAt(d, i)
  BY NextInBuffer
<1> HIDE DEF d, i
<1>3. StartOf(d) <= i /\ StartOf(d) \in 1..Len(d) /\ Len(d) \in Nat
  BY <1>1, <1>2, StartIn
<1>4. ~ShortAt(d, StartOf(d))
  BY <1>2, <1>3 DEF ShortAt, HeaderLen
<1>5. QED
  BY <1>1, <1>2, <1>4 DEF HasFrame

\* What is kept of a buffer without a whole frame: from the last magic that may
\* still begin one, or from half a magic.
LEMMA TailAt ==
  ASSUME NEW d \in Seq(Nat)
  PROVE  \E t \in 0..Len(d) :
           /\ TailOf(d) = Beyond(t, d)
           /\ \/ t + 1 \in MagicsOf(d) /\ \A i \in StartsOf(d) : t + 1 <= i
              \/ MagicsOf(d) = {} /\ \A i \in 1..t : i = Len(d) => d[i] # M
<1>1. Len(d) \in Nat
  OBVIOUS
<1>2. ASSUME NEW s \in MagicsOf(d), \A i \in StartsOf(d) : s <= i,
             TailOf(d) = SubSeq(d, s, Len(d))
      PROVE  \E t \in 0..Len(d) :
               TailOf(d) = Beyond(t, d) /\ t + 1 \in MagicsOf(d)
               /\ \A i \in StartsOf(d) : t + 1 <= i
  <2>1. s \in Nat /\ 1 <= s /\ s + 1 <= Len(d)
    BY MagicsIn
  <2>2. s - 1 \in 0..Len(d) /\ (s - 1) + 1 = s
    BY <1>1, <2>1
  <2>3. TailOf(d) = Beyond(s - 1, d)
    BY <1>2, <2>2 DEF Beyond
  <2>4. QED
    BY <1>2, <2>2, <2>3
<1>3. CASE StartsOf(d) # {}
  <2>1. TailOf(d) = SubSeq(d, StartOf(d), Len(d))
    BY <1>3 DEF TailOf
  <2>2. StartOf(d) \in MagicsOf(d) /\ \A i \in StartsOf(d) : StartOf(d) <= i
    BY <1>3, StartIn
  <2>3. QED
    BY <1>2, <2>1, <2>2
<1>4. CASE StartsOf(d) = {} /\ MagicsOf(d) # {}
  <2>1. TailOf(d) = SubSeq(d, HighestOf(MagicsOf(d)), Len(d))
    BY <1>4 DEF TailOf, Waiting
  <2>2. HighestOf(MagicsOf(d)) \in MagicsOf(d)
    BY <1>1, <1>4, MagicsIn, HighestIn
  <2>3. QED
    BY <1>2, <1>4, <2>1, <2>2
<1>5. CASE StartsOf(d) = {} /\ MagicsOf(d) = {} /\ d # <<>> /\ Last(d) = M
  <2>1. TailOf(d) = <<M>>
    BY <1>5 DEF TailOf, Waiting
  <2>2. Len(d) >= 1 /\ d[Len(d)] = M
    BY <1>5 DEF Last
  <2> DEFINE t == Len(d) - 1
  <2>3. t \in Nat /\ t \in 0..Len(d) /\ Len(d) - t = 1 /\ t + 1 = Len(d)
    BY <1>1, <2>2
  <2> DEFINE u == Beyond(t, d)
             v == <<M>>
  <2> HIDE DEF t
  <2>4. u = v
    <3>1. /\ u \in Seq(Nat) /\ Len(u) = Len(d) - t
          /\ \A i \in 1..(Len(d) - t) : u[i] = d[t + i]
      BY <2>3, BeyondOf
    <3>2. v \in Seq(Nat) /\ Len(v) = 1 /\ v[1] = M
      BY DEF M
    <3> HIDE DEF u, v
    <3>3. Len(u) = 1 /\ u[1] = M
      BY <2>2, <2>3, <3>1
    <3>4. \A i \in 1..Len(u) : u[i] = v[i]
      <4>1. \A i \in 1..Len(u) : i = 1
        BY <3>3
      <4>2. QED
        BY <3>2, <3>3, <4>1
    <3>5. QED
      BY <3>1, <3>2, <3>3, <3>4, SameSeq
  <2>5. \A i \in 1..t : i # Len(d)
    BY <1>1, <2>3
  <2>6. QED
    BY <1>5, <2>1, <2>3, <2>4, <2>5
<1>6. CASE StartsOf(d) = {} /\ MagicsOf(d) = {} /\ ~ (d # <<>> /\ Last(d) = M)
  <2>1. TailOf(d) = <<>>
    BY <1>6 DEF TailOf, Waiting
  <2>2. Len(d) \in 0..Len(d) /\ Beyond(Len(d), d) = <<>>
    <3>1. Len(d) \in 0..Len(d)
      BY <1>1
    <3>2. Beyond(Len(d), d) \in Seq(Nat) /\ Len(Beyond(Len(d), d)) = Len(d) - Len(d)
      BY <3>1, BeyondOf
    <3>3. QED
      BY <1>1, <3>1, <3>2
  <2>3. \A i \in 1..Len(d) : i = Len(d) => d[i] # M
    BY <1>1, <1>6 DEF Last
  <2>4. QED
    BY <1>6, <2>1, <2>2, <2>3
<1>7. QED
  BY <1>3, <1>4, <1>5, <1>6

\* A frame is cut out: it is the next one of the stream.
LEMMA SigCuts ==
  ASSUME NEW c, IsConversation(c), CameraStream(c), NEW r \in 0..Len(c.bytes),
         NEW l, LoopOK(l), l.open, NEW k, NEW p, SigInStep(c, k, p, l, r),
         HasFrame(l.sigBuf)
  PROVE  SigInStep(c, k + 1, End(c, k + 1), SigPass(l), r)
<1> DEFINE b == c.bytes
           d == SubSeq(b, p + 1, r)
           s == StartOf(d)
           z == EndAt(d, s)
           n == Len(c.messages)
<1>1. /\ k \in 0..n /\ p \in 0..r /\ l.sigBuf = d /\ End(c, k) <= p /\ l.out = Said(c, k)
      /\ k < n => p < c.messages[k + 1].first
      /\ l.buf = SubSeq(b, 1, r)
  BY DEF SigInStep
<1>2. /\ b \in Seq(Nat) /\ Len(b) \in Nat /\ p \in Nat /\ r \in Nat /\ p <= r
      /\ r <= Len(b) /\ n \in Nat /\ k \in Nat /\ End(c, k) \in Nat
  BY <1>1, Ends
<1>3. d \in Seq(Nat) /\ Len(d) = r - p
  <2> HIDE DEF b
  <2>1. QED
    BY <1>2, Stretch
<1>4. /\ FrameAt(d, s) /\ s \in MagicsOf(d) /\ s \in 1..(r - p) /\ z <= r - p
      /\ \A i \in StartsOf(d) : s <= i
  <2>1. HasFrame(d)
    BY <1>1
  <2> HIDE DEF d
  <2>2. FrameAt(d, s) /\ StartsOf(d) # {} /\ z \in 0..Len(d)
    BY <1>3, <2>1, FrameIn
  <2>3. s \in MagicsOf(d) /\ s \in 1..Len(d) /\ \A i \in StartsOf(d) : s <= i
    BY <1>3, <2>2, StartIn
  <2>4. QED
    BY <1>2, <1>3, <2>2, <2>3
<1> HIDE DEF b, s, z, n
<1>5. /\ FrameAt(b, p + s) /\ EndAt(b, p + s) <= r /\ EndAt(b, p + s) = p + z
      /\ p + s \in MagicsOf(b) /\ z \in Nat /\ s + 6 <= z
  <2>1. s \in Nat
    BY <1>4
  <2>2. p + s \in MagicsOf(b)
    BY <1>2, <1>4, <2>1, MagicOfStretch
  <2>3. /\ FrameAt(d, s) <=> (FrameAt(b, p + s) /\ EndAt(b, p + s) <= r)
        /\ FrameAt(d, s) => /\ EndAt(b, p + s) = p + EndAt(d, s)
                            /\ EndAt(b, p + s) \in Nat /\ EndAt(d, s) \in Nat
                            /\ s + 6 <= EndAt(d, s)
    BY <1>2, <1>4, FrameOfStretch
  <2>4. QED
    BY <1>4, <2>2, <2>3 DEF z
<1>6. PICK j \in 1..n : p + s = c.messages[j].first
  BY <1>5 DEF CameraStream, b, n
<1>7. k < j
  <2>1. SUFFICES ASSUME j <= k PROVE FALSE
    BY <1>2
  <2>2. /\ j \in 1..n /\ k \in 1..n /\ End(c, k) = c.messages[k].last
    BY <1>1, <1>2, <2>1 DEF End
  <2>3. c.messages[j].first <= c.messages[j].last /\ c.messages[j].last <= c.messages[k].last
        /\ c.messages[j].first \in Nat /\ c.messages[j].last \in Nat
    <3>0. Len(c.bytes) \in Nat
      BY DEF IsConversation
    <3>1. /\ c.messages[j].last \in 1..Len(c.bytes)
          /\ c.messages[j].first \in 1..c.messages[j].last
          /\ c.messages[k].last \in 1..Len(c.bytes)
          /\ c.messages[k].first \in 1..c.messages[k].last
          /\ j \in 1..(k - 1) => c.messages[j].last < c.messages[k].first
      BY <2>2 DEF IsConversation, n
    <3> DEFINE jf == c.messages[j].first
               jl == c.messages[j].last
               kf == c.messages[k].first
               kl == c.messages[k].last
               len == Len(c.bytes)
    <3>2. /\ jl \in 1..len /\ jf \in 1..jl /\ kl \in 1..len /\ kf \in 1..kl
          /\ j \in 1..(k - 1) => jl < kf
          /\ j = k => jl = kl
          /\ len \in Nat
      BY <3>0, <3>1
    <3> HIDE DEF jf, jl, kf, kl, len
    <3>3. jl <= kl
      <4>1. CASE j = k
        BY <3>2, <4>1
      <4>2. CASE j \in 1..(k - 1)
        BY <3>2, <4>2
      <4>3. QED
        BY <2>1, <2>2, <4>1, <4>2
    <3>4. jf <= jl /\ jl <= kl /\ jf \in Nat /\ jl \in Nat
      BY <3>2, <3>3
    <3>5. QED
      BY <3>4 DEF jf, jl, kl
  <2>4. c.messages[j].first <= p
    <3> DEFINE jf == c.messages[j].first
               jl == c.messages[j].last
               kl == c.messages[k].last
               ek == End(c, k)
    <3>1. jf \in Nat /\ jl \in Nat /\ jf <= jl /\ jl <= kl /\ ek = kl /\ ek \in Nat /\ ek <= p
      BY <1>1, <1>2, <2>2, <2>3
    <3> HIDE DEF jf, jl, kl, ek
    <3>2. jf <= p
      BY <1>2, <3>1
    <3>3. QED
      BY <3>2 DEF jf
  <2>5. p + s > p
    BY <1>2, <1>4
  <2>6. p + s <= p
    BY <1>6, <2>4
  <2>7. QED
    BY <1>2, <1>4, <2>5, <2>6
<1>8. k < n /\ k \in 0..(Len(c.messages) - 1) /\ k + 1 \in 1..n
  BY <1>2, <1>6, <1>7 DEF n
<1> DEFINE f == c.messages[k + 1].first
           e == End(c, k + 1)
<1>9. /\ f \in Nat /\ e \in Nat /\ f + 1 <= e /\ e <= Len(b) /\ e = EndAt(b, f)
      /\ Said(c, k + 1) = Said(c, k) \o AnswerCamera(SubSeq(b, f, e))
  BY <1>8, NextFrame DEF b
<1>10. j = k + 1
  <2>1. SUFFICES ASSUME j # k + 1 PROVE FALSE
    OBVIOUS
  <2>2. k + 1 \in 1..(j - 1) /\ j \in 1..Len(c.messages)
    BY <1>2, <1>6, <1>7, <2>1 DEF n
  <2>3. c.messages[k + 1].last < c.messages[j].first
    BY <2>2 DEF IsConversation
  <2>4. e < p + s
    BY <1>2, <1>6, <2>3 DEF End
  <2>5. e <= r
    BY <1>2, <1>4, <1>9, <2>4
  <2>6. f - p \in StartsOf(d)
    BY <1>8, <2>5, NextInBuffer DEF n, b
  <2>7. s <= f - p
    BY <1>4, <2>6
  <2> HIDE DEF f, e
  <2>8. QED
    BY <1>2, <1>4, <1>9, <2>4, <2>7
<1>11. f = p + s /\ e = p + z /\ e <= r
  BY <1>5, <1>6, <1>9, <1>10
<1>12. FrameOf(d) = SubSeq(b, f, e)
  <2> DEFINE g == s - 1
  <2>1. g \in Nat /\ z \in Nat /\ g <= z /\ z <= r - p /\ g + 1 = s /\ p + g + 1 = f
    BY <1>2, <1>4, <1>5, <1>11
  <2> HIDE DEF g, f, e
  <2>2. SubSeq(SubSeq(b, p + 1, r), g + 1, z) = SubSeq(b, p + g + 1, p + z)
    BY <1>2, <2>1, PartOfStretch
  <2>3. QED
    BY <1>11, <2>1, <2>2 DEF FrameOf, s, z
<1>13. AfterFrame(d) = SubSeq(b, e + 1, r)
  <2> DEFINE g == r - p
  <2>1. g \in Nat /\ z <= g /\ g <= r - p /\ p + g = r
    BY <1>2, <1>4
  <2> HIDE DEF g, f, e
  <2>2. SubSeq(SubSeq(b, p + 1, r), z + 1, g) = SubSeq(b, p + z + 1, p + g)
    BY <1>2, <1>5, <2>1, PartOfStretch
  <2>3. g = Len(d)
    BY <1>3 DEF g
  <2>4. QED
    BY <1>11, <2>1, <2>2, <2>3 DEF AfterFrame, Beyond, s, z
<1> DEFINE rest == SubSeq(b, e + 1, r)
           out == Said(c, k + 1)
<1>14. /\ SigPass(l).sigBuf = rest /\ SigPass(l).out = out
       /\ SigPass(l).buf = l.buf
  <2>1. SigPass(l) = [l EXCEPT !.sigBuf = AfterFrame(d),
                               !.out = @ \o AnswerCamera(FrameOf(d))]
    BY <1>1 DEF SigPass
  <2>2. l.out \o AnswerCamera(FrameOf(d)) = out
    BY <1>1, <1>9, <1>12
  <2>3. SigPass(l) = [l EXCEPT !.sigBuf = rest, !.out = out]
    BY <1>13, <2>1, <2>2
  <2> HIDE DEF rest, out
  <2>4. QED
    BY <2>3 DEF LoopOK
<1>15. k + 1 < n => e < c.messages[(k + 1) + 1].first
  <2>1. SUFFICES ASSUME k + 1 < n PROVE e < c.messages[(k + 1) + 1].first
    OBVIOUS
  <2>2. (k + 1) + 1 \in 1..Len(c.messages) /\ k + 1 \in 1..(((k + 1) + 1) - 1)
    BY <1>2, <2>1 DEF n
  <2>3. c.messages[k + 1].last < c.messages[(k + 1) + 1].first
    BY <2>2 DEF IsConversation
  <2>4. QED
    BY <1>2, <2>3 DEF End
<1>16. k + 1 \in 0..n /\ e \in 0..r /\ e <= e
  BY <1>2, <1>8, <1>9, <1>11
<1>17. QED
  BY <1>1, <1>11, <1>14, <1>15, <1>16 DEF SigInStep, n, b

\* What cannot begin a frame is dropped; the next frame is not.
LEMMA SigDrops ==
  ASSUME NEW c, IsConversation(c), CameraStream(c), NEW r \in 0..Len(c.bytes),
         NEW l, LoopOK(l), l.open, NEW k, NEW p, SigInStep(c, k, p, l, r)
  PROVE  \E q : SigInStep(c, k, q, [l EXCEPT !.sigBuf = TailOf(@)], r)
<1> DEFINE b == c.bytes
           d == SubSeq(b, p + 1, r)
           n == Len(c.messages)
           f == c.messages[k + 1].first
           e == End(c, k + 1)
<1>1. /\ k \in 0..n /\ p \in 0..r /\ l.sigBuf = d /\ End(c, k) <= p /\ l.out = Said(c, k)
      /\ k < n => p < f
      /\ l.buf = SubSeq(b, 1, r) /\ End(c, k) <= r
  BY DEF SigInStep
<1>2. /\ b \in Seq(Nat) /\ Len(b) \in Nat /\ p \in Nat /\ r \in Nat /\ p <= r
      /\ r <= Len(b) /\ n \in Nat /\ k \in Nat /\ End(c, k) \in Nat
  BY <1>1, Ends
<1> HIDE DEF b, n, f, e
<1>3. d \in Seq(Nat) /\ Len(d) = r - p
  BY <1>2, Stretch
<1>4. PICK t \in 0..Len(d) :
        /\ TailOf(d) = Beyond(t, d)
        /\ \/ t + 1 \in MagicsOf(d) /\ \A i \in StartsOf(d) : t + 1 <= i
           \/ MagicsOf(d) = {} /\ \A i \in 1..t : i = Len(d) => d[i] # M
  <2> HIDE DEF d
  <2>1. QED
    BY <1>3, TailAt
<1> DEFINE q == p + t
<1>5. t \in Nat /\ t <= r - p /\ q \in Nat /\ p <= q /\ q <= r /\ q \in 0..r
  BY <1>2, <1>3, <1>4
<1>6. TailOf(d) = SubSeq(b, q + 1, r)
  <2> DEFINE g == r - p
  <2>1. g \in Nat /\ t <= g /\ g <= r - p /\ p + g = r /\ Len(d) = g
    BY <1>2, <1>3, <1>5
  <2> HIDE DEF g
  <2>2. SubSeq(SubSeq(b, p + 1, r), t + 1, g) = SubSeq(b, p + t + 1, p + g)
    BY <1>2, <1>5, <2>1, PartOfStretch
  <2>3. QED
    BY <1>4, <2>1, <2>2 DEF Beyond
<1>7. k < n => q < f
  <2>1. SUFFICES ASSUME k < n, ~ (q < f) PROVE FALSE
    OBVIOUS
  <2>2. /\ f \in Nat /\ e \in Nat /\ 1 <= f /\ f + 1 <= e /\ e <= Len(b)
        /\ f \in MagicsOf(b) /\ \A i \in MagicsOf(b) : i \notin (f + 1)..e
    <3>1. k \in 0..(Len(c.messages) - 1)
      BY <1>2, <2>1 DEF n
    <3>2. QED
      BY <3>1, NextFrame DEF f, e, b
  <2> DEFINE i == f - p
  <2>3. i \in Nat /\ 1 <= i /\ p + i = f /\ f <= q /\ i <= t
    BY <1>1, <1>2, <1>5, <2>1, <2>2
  <2>4. /\ f + 1 <= r => i \in MagicsOf(d)
        /\ i \in StartsOf(d) \/ ~ (e <= r)
    BY <2>1, NextInBuffer DEF n, f, e, b
  <2> HIDE DEF i
  <2>5. CASE t + 1 \in MagicsOf(d) /\ \A j \in StartsOf(d) : t + 1 <= j
    <3>1. ~ (e <= r)
      <4>1. i \notin StartsOf(d)
        BY <1>5, <2>3, <2>5
      <4>2. QED
        BY <2>4, <4>1
    <3>2. q + 1 \in MagicsOf(b) /\ q + 1 <= r
      <4> DEFINE j == t + 1
      <4>1. j \in Nat /\ j \in MagicsOf(d) /\ p + j = q + 1
        BY <1>2, <1>5, <2>5
      <4> HIDE DEF j
      <4>2. j + 1 <= r - p /\ p + j \in MagicsOf(b)
        BY <1>2, <4>1, MagicOfStretch
      <4> HIDE DEF q
      <4>3. q + 1 \in MagicsOf(b)
        BY <4>1, <4>2
      <4>4. q \in Nat
        BY <1>5
      <4>5. q + 1 <= r
        BY <1>2, <4>1, <4>2, <4>4
      <4>6. QED
        BY <4>3, <4>5
    <3>3. q + 1 \in (f + 1)..e
      BY <1>2, <1>5, <2>2, <2>3, <3>1, <3>2
    <3>4. QED
      BY <2>2, <3>2, <3>3
  <2>6. CASE MagicsOf(d) = {} /\ \A j \in 1..t : j = Len(d) => d[j] # M
    <3>1. ~ (f + 1 <= r)
      BY <2>4, <2>6
    <3>2. f = r /\ i = Len(d) /\ i \in 1..(r - p) /\ i \in 1..t
      BY <1>2, <1>3, <1>5, <2>2, <2>3, <3>1
    <3>3. d[i] = b[p + i]
      BY <1>2, <3>2, Stretch
    <3>4. b[f] = M
      BY <2>2 DEF MagicsOf
    <3>5. QED
      BY <2>3, <2>6, <3>2, <3>3, <3>4
  <2>7. QED
    BY <1>4, <2>5, <2>6
<1> DEFINE rest == SubSeq(b, q + 1, r)
           k2 == [l EXCEPT !.sigBuf = TailOf(@)]
<1>8. k2.sigBuf = rest /\ k2.out = l.out /\ k2.buf = l.buf
  <2>1. k2 = [l EXCEPT !.sigBuf = rest]
    BY <1>1, <1>6
  <2> HIDE DEF rest
  <2>2. QED
    BY <2>1 DEF LoopOK
<1>9. End(c, k) <= q
  BY <1>1, <1>2, <1>5
<1> HIDE DEF q, k2
<1>10. SigInStep(c, k, q, k2, r)
  BY <1>1, <1>5, <1>7, <1>8, <1>9 DEF SigInStep, n, f, b
<1>11. QED
  BY <1>10 DEF k2

\* There is no request in what a camera sends.
LEMMA SigNoRequest ==
  ASSUME NEW c, IsConversation(c), CameraStream(c), NEW r \in 0..Len(c.bytes),
         NEW l, l.open, NEW k, NEW p, SigInStep(c, k, p, l, r)
  PROVE  AnswerRequest("sig", l) = l
<1> DEFINE b == c.bytes
           d == SubSeq(b, 0 + 1, r)
<1>1. l.buf = d /\ b \in Seq(Nat) /\ r <= Len(b) /\ r \in Nat /\ Len(b) \in Nat
  BY Ends DEF SigInStep, IsConversation
<1>2. BlankLinesOf(b) = {}
  BY DEF CameraStream
<1> HIDE DEF b
<1>3. Len(d) = r - 0 /\ \A i \in 1..(r - 0) : d[i] = b[0 + i]
  BY <1>1, Stretch
<1> HIDE DEF d
<1>4. BlankLinesOf(d) = {}
  <2>1. SUFFICES ASSUME NEW i \in BlankLinesOf(d) PROVE FALSE
    OBVIOUS
  <2>2. i \in 1..(Len(d) - 1) /\ d[i] = Blank /\ d[i + 1] = Blank
    BY <2>1 DEF BlankLinesOf
  <2>3. i \in 1..r /\ i + 1 \in 1..r /\ i \in 1..(Len(b) - 1)
    BY <1>1, <1>3, <2>2
  <2>4. b[i] = Blank /\ b[i + 1] = Blank
    BY <1>1, <1>3, <2>2, <2>3
  <2>5. i \in BlankLinesOf(b)
    BY <2>3, <2>4 DEF BlankLinesOf
  <2>6. QED
    BY <1>2, <2>5
<1>5. QED
  BY <1>1, <1>4 DEF AnswerRequest, HasHead

LEMMA SigInStepPass ==
  ASSUME NEW c, IsConversation(c), CameraStream(c), NEW r \in 0..Len(c.bytes),
         NEW l, LoopOK(l), l.open, NEW k, NEW p, SigInStep(c, k, p, l, r),
         SigPass(l) # l
  PROVE  \E j, q : SigInStep(c, j, q, SigPass(l), r)
<1>1. CASE HasFrame(l.sigBuf)
  <2>1. SigInStep(c, k + 1, End(c, k + 1), SigPass(l), r)
    BY <1>1, SigCuts
  <2>2. QED
    BY <2>1
<1>2. CASE ~HasFrame(l.sigBuf) /\ TailOf(l.sigBuf) # l.sigBuf
  <2>1. SigPass(l) = [l EXCEPT !.sigBuf = TailOf(@)]
    BY <1>2 DEF SigPass
  <2>2. QED
    BY <2>1, SigDrops
<1>3. CASE ~HasFrame(l.sigBuf) /\ TailOf(l.sigBuf) = l.sigBuf
  <2>1. SigPass(l) = AnswerRequest("sig", l)
    BY <1>3 DEF SigPass
  <2>2. QED
    BY <2>1, SigNoRequest
<1>4. QED
  BY <1>1, <1>2, <1>3

-----------------------------------------------------------------------------
(* The theorem of the signalling port.                                     *)

SigFollows ==
  lane = "sig" /\ CameraStream(sent) =>
    \E k, p : SigInStep(sent, k, p, loop, read)

LEMMA SigFollowsInit == Init /\ TypeOK => SigFollows
<1>1. SUFFICES ASSUME Init, TypeOK, lane = "sig", CameraStream(sent)
               PROVE  SigInStep(sent, 0, 0, loop, read)
  BY DEF SigFollows
<1>2. IsConversation(sent) /\ read = 0 /\ loop = Start
  BY <1>1 DEF Init, TypeOK
<1>3. Start.sigBuf = <<>> /\ Start.buf = <<>> /\ Start.out = <<>>
  BY DEF Start
<1>4. /\ 0 \in 0..Len(sent.messages) /\ End(sent, 0) = 0 /\ Said(sent, 0) = <<>>
      /\ SubSeq(sent.bytes, 0 + 1, 0) = <<>> /\ SubSeq(sent.bytes, 1, 0) = <<>>
  BY <1>2 DEF IsConversation, End, Said
<1>5. 0 < Len(sent.messages) => 0 < sent.messages[0 + 1].first
  <2>1. SUFFICES ASSUME 0 < Len(sent.messages) PROVE 0 < sent.messages[1].first
    OBVIOUS
  <2>2. 1 \in 1..Len(sent.messages) /\ Len(sent.bytes) \in Nat
    BY <1>2, <2>1 DEF IsConversation
  <2>3. sent.messages[1].last \in 1..Len(sent.bytes)
        /\ sent.messages[1].first \in 1..sent.messages[1].last
    BY <1>2, <2>2 DEF IsConversation
  <2>4. QED
    BY <2>2, <2>3
<1>6. QED
  BY <1>2, <1>3, <1>4, <1>5 DEF SigInStep

\* No chunk of what a camera sends looks like HTTP.
LEMMA NoChunkIsHttp ==
  ASSUME NEW c, IsConversation(c), CameraStream(c), NEW r \in Nat, NEW n \in Nat,
         r <= n, n <= Len(c.bytes)
  PROVE  ~LooksHttp(SubSeq(c.bytes, r + 1, n))
<1> DEFINE b == c.bytes
           d == SubSeq(b, r + 1, n)
<1>1. b \in Seq(Nat) /\ \A i \in 1..(Len(b) - 1) : ~(b[i] = Verb /\ b[i + 1] = Target)
  BY DEF IsConversation, CameraStream
<1>2. n <= Len(b)
  OBVIOUS
<1> HIDE DEF b
<1>3. Len(d) = n - r /\ Len(b) \in Nat /\ \A i \in 1..(n - r) : d[i] = b[r + i]
  BY <1>1, <1>2, Stretch
<1> HIDE DEF d
<1>4. SUFFICES ASSUME LooksHttp(d) PROVE FALSE
  BY DEF d, b
<1>5. Len(d) >= 2 /\ d[1] = Verb /\ d[2] = Target
  BY <1>4 DEF LooksHttp
<1>6. 1 \in 1..(n - r) /\ 2 \in 1..(n - r) /\ r + 1 \in 1..(Len(b) - 1)
      /\ (r + 1) + 1 = r + 2
  BY <1>2, <1>3, <1>5
<1>7. b[r + 1] = Verb /\ b[r + 2] = Target
  BY <1>3, <1>5, <1>6
<1>8. QED
  BY <1>1, <1>6, <1>7

\* What is read joins both buffers.
LEMMA SigReads ==
  ASSUME NEW c, IsConversation(c), CameraStream(c), NEW r \in Nat, NEW n \in Nat,
         r <= n, n <= Len(c.bytes), NEW l, LoopOK(l), l.open,
         NEW k, NEW p, SigInStep(c, k, p, l, r)
  PROVE  LET x == SubSeq(c.bytes, r + 1, n)
         IN  SigInStep(c, k, p, [l EXCEPT !.buf = @ \o x, !.sigBuf = @ \o x], n)
<1> DEFINE b == c.bytes
           x == SubSeq(b, r + 1, n)
           next == [l EXCEPT !.buf = @ \o x, !.sigBuf = @ \o x]
<1>1. /\ k \in 0..Len(c.messages) /\ l.out = Said(c, k) /\ End(c, k) <= r
      /\ p \in 0..r /\ End(c, k) <= p
      /\ k < Len(c.messages) => p < c.messages[k + 1].first
      /\ l.sigBuf = SubSeq(b, p + 1, r) /\ l.buf = SubSeq(b, 1, r)
  BY DEF SigInStep
<1>2. b \in Seq(Nat) /\ n <= Len(b) /\ End(c, k) \in Nat
  BY <1>1, Ends
<1> HIDE DEF b
<1>3. p \in Nat /\ p <= r
  BY <1>1
<1>4. SubSeq(b, p + 1, r) \o x = SubSeq(b, p + 1, n)
  <2>1. b \in Seq(Nat) /\ n <= Len(b)
    BY <1>2
  <2>2. QED
    BY <1>3, <2>1, Adjacent, SMTT(30)
<1>5. SubSeq(b, 1, r) \o x = SubSeq(b, 1, n)
  <2> DEFINE z == 0
  <2>1. z \in Nat /\ z <= r /\ z + 1 = 1
    OBVIOUS
  <2> HIDE DEF z
  <2>2. b \in Seq(Nat) /\ n <= Len(b)
    BY <1>2
  <2>3. SubSeq(b, z + 1, r) \o SubSeq(b, r + 1, n) = SubSeq(b, z + 1, n)
    BY <2>1, <2>2, Adjacent
  <2>4. QED
    BY <2>1, <2>3
<1>6. /\ next.buf = l.buf \o x /\ next.sigBuf = l.sigBuf \o x
      /\ next.out = l.out
  <2> HIDE DEF x
  <2>1. QED
    BY DEF LoopOK
<1>7. next.buf = SubSeq(b, 1, n) /\ next.sigBuf = SubSeq(b, p + 1, n)
  BY <1>1, <1>4, <1>5, <1>6
<1>8. p \in 0..n /\ End(c, k) <= n
  BY <1>1, <1>2
<1> HIDE DEF next, x
<1>9. SigInStep(c, k, p, next, n)
  BY <1>1, <1>6, <1>7, <1>8 DEF SigInStep, b
<1>10. QED
  BY <1>9 DEF next, x, b

LEMMA SigFollowsStep == TypeOK /\ SigFollows /\ [Next]_vars => SigFollows'
<1>1. SUFFICES ASSUME TypeOK, SigFollows, [Next]_vars PROVE SigFollows'
  OBVIOUS
<1>2. lane' = lane /\ sent' = sent
  BY <1>1 DEF Next, Reads, Passes, Quiet, vars
<1>3. SUFFICES ASSUME lane = "sig", CameraStream(sent)
               PROVE  \E k, p : SigInStep(sent, k, p, loop', read')
  BY <1>2 DEF SigFollows
<1>4. PICK k, p : SigInStep(sent, k, p, loop, read)
  BY <1>1, <1>3 DEF SigFollows
<1>5. /\ IsConversation(sent) /\ read \in 0..Len(sent.bytes) /\ read \in Nat
      /\ Len(sent.bytes) \in Nat /\ LoopOK(loop)
  BY <1>1 DEF TypeOK, IsConversation
<1>6. CASE Reads
  <2>1. PICK n \in (read + 1)..Len(sent.bytes) :
          /\ read' = n /\ loop' = Handed(loop, SubSeq(sent.bytes, read + 1, n))
    BY <1>6 DEF Reads
  <2> DEFINE x == SubSeq(sent.bytes, read + 1, n)
  <2>2. n \in Nat /\ read <= n /\ n <= Len(sent.bytes)
    BY <1>5, <2>1
  <2>3. ~LooksHttp(x)
    BY <1>3, <1>5, <2>2, NoChunkIsHttp
  <2>4. loop' = [loop EXCEPT !.buf = @ \o x, !.sigBuf = @ \o x]
    <3> HIDE DEF x
    <3>1. Handed(loop, x) = [loop EXCEPT !.buf = @ \o x, !.sigBuf = @ \o x]
      BY <1>3, <2>3 DEF Handed
    <3>2. QED
      BY <2>1, <3>1 DEF x
  <2>5. loop.open
    BY <1>6 DEF Reads, Waits
  <2>6. SigInStep(sent, k, p, [loop EXCEPT !.buf = @ \o x, !.sigBuf = @ \o x], n)
    BY <1>3, <1>4, <1>5, <2>2, <2>5, SigReads
  <2>7. QED
    BY <2>1, <2>4, <2>6
<1>7. CASE Passes
  <2>1. loop.open /\ read' = read /\ loop' = SigPass(loop) /\ loop' # loop
    BY <1>3, <1>7 DEF Passes, Pass
  <2>2. \E j, q : SigInStep(sent, j, q, SigPass(loop), read)
    BY <1>3, <1>4, <1>5, <2>1, SigInStepPass
  <2>3. QED
    BY <2>1, <2>2
<1>8. CASE Quiet
  <2>1. loop' = Closed(loop) /\ read' = read
    BY <1>8 DEF Quiet
  <2>2. ~Closed(loop).open /\ Closed(loop).out = loop.out
    BY <1>5 DEF LoopOK, Closed
  <2>3. SigInStep(sent, k, p, loop', read')
    BY <1>4, <2>1, <2>2 DEF SigInStep
  <2>4. QED
    BY <2>3
<1>9. CASE UNCHANGED vars
  BY <1>4, <1>9 DEF vars
<1>10. QED
  BY <1>1, <1>6, <1>7, <1>8, <1>9 DEF Next

\* A pass over a buffer with a whole frame in it changes the loop.
LEMMA FrameIsCut ==
  ASSUME NEW l, LoopOK(l), HasFrame(l.sigBuf)
  PROVE  SigPass(l) # l
<1> DEFINE d == l.sigBuf
           e == EndAt(d, StartOf(d))
<1>1. d \in Seq(Nat)
  BY LoopOKIsLoop
<1>2. e \in 0..Len(d) /\ 0 < e
  <2> HIDE DEF d
  <2>1. StartOf(d) \in 1..Len(d)
    BY <1>1, FrameIn, StartIn DEF d
  <2>2. e \in 0..Len(d) /\ StartOf(d) + 6 <= e
    BY <1>1, FrameIn DEF d
  <2> HIDE DEF e
  <2>3. QED
    BY <1>1, <2>1, <2>2
<1> HIDE DEF e
<1>3. AfterFrame(d) = Beyond(e, d)
  BY DEF AfterFrame, e
<1>4. Len(AfterFrame(d)) # Len(d)
  <2> HIDE DEF d
  <2>1. Len(Beyond(e, d)) = Len(d) - e /\ Len(d) \in Nat
    BY <1>1, <1>2, BeyondOf
  <2>2. QED
    BY <1>2, <1>3, <2>1
<1>5. SigPass(l).sigBuf = AfterFrame(d)
  BY DEF SigPass, LoopOK
<1>6. QED
  BY <1>4, <1>5

LEMMA SigFollowsCuts ==
  TypeOK /\ SigFollows /\ CameraStream(sent) => SignallingSurvives
<1>1. SUFFICES ASSUME TypeOK, SigFollows, lane = "sig", CameraStream(sent)
               PROVE  CutsWhatArrived
  BY DEF SignallingSurvives
<1>2. PICK k, p : SigInStep(sent, k, p, loop, read)
  BY <1>1 DEF SigFollows
<1>3. /\ k \in 0..Len(sent.messages) /\ loop.out = Said(sent, k) /\ End(sent, k) <= read
  BY <1>2 DEF SigInStep
<1>4. /\ IsConversation(sent) /\ read \in 0..Len(sent.bytes) /\ LoopOK(loop)
  BY <1>1 DEF TypeOK
<1>5. ASSUME Waits, k < Len(sent.messages) PROVE End(sent, k + 1) > read
  <2>1. SUFFICES ASSUME End(sent, k + 1) <= read PROVE FALSE
    <3>1. read \in Nat /\ Len(sent.messages) \in Nat /\ Len(sent.bytes) \in Nat
      BY <1>3, <1>4, Ends
    <3>2. k + 1 \in 0..Len(sent.messages)
      BY <1>3, <1>5, <3>1
    <3>3. End(sent, k + 1) \in 0..Len(sent.bytes)
      BY <1>4, <3>2, Ends
    <3>4. End(sent, k + 1) <= read \/ End(sent, k + 1) > read
      BY <3>1, <3>3
    <3>5. QED
      BY <2>1, <3>4
  <2>2. loop.open /\ SigPass(loop) = loop
    BY <1>1, <1>5 DEF Waits, Pass
  <2>3. HasFrame(loop.sigBuf)
    BY <1>1, <1>2, <1>4, <1>5, <2>1, <2>2, SigTakesNext
  <2>4. QED
    BY <1>4, <2>2, <2>3, FrameIsCut
<1>6. QED
  BY <1>3, <1>5 DEF CutsWhatArrived

\* For every stream of frames a camera may write, with whatever stray bytes in
\* between, cut into any chunks: as long as no magic is inside a frame, each frame
\* is cut out and answered once its last byte was read, none twice, none from
\* bytes that are no frame of the stream (split_signalling, handle).
THEOREM FramesAreCutOut == Spec => [](CameraStream(sent) => SignallingSurvives)
<1>1. Init /\ TypeOK => SigFollows
  BY SigFollowsInit
<1>2. TypeOK /\ SigFollows /\ [Next]_vars => SigFollows'
  BY SigFollowsStep
<1>3. TypeOK /\ SigFollows => (CameraStream(sent) => SignallingSurvives)
  BY SigFollowsCuts
<1>4. QED
  BY <1>1, <1>2, <1>3, LoopsAreTyped, PTL DEF Spec

-----------------------------------------------------------------------------
(* Two streams of which each message is taken whole: what clients of the    *)
(* HTTP API send and what a camera publishes.                              *)

LEMMA MessageTyped ==
  ASSUME NEW c, IsConversation(c), NEW k \in 1..Len(c.messages)
  PROVE  /\ MessageOf(c, k) \in Seq(Nat) /\ Len(MessageOf(c, k)) \in Nat \ {0}
         /\ k \in Nat /\ k - 1 \in 0..Len(c.messages)
<1> DEFINE m == c.messages[k].first
           n == c.messages[k].last
<1>1. c.bytes \in Seq(Nat) /\ Len(c.bytes) \in Nat /\ n \in 1..Len(c.bytes) /\ m \in 1..n
  BY DEF IsConversation
<1> HIDE DEF m, n
<1>2. m \in 1..(Len(c.bytes) + 1) /\ n \in (m - 1)..Len(c.bytes) /\ n - m + 1 \in Nat \ {0}
  <2>1. m \in Nat /\ n \in Nat /\ 1 <= m /\ m <= n /\ n <= Len(c.bytes)
    BY <1>1
  <2>2. QED
    BY <1>1, <2>1
<1>3. SubSeq(c.bytes, m, n) \in Seq(Nat) /\ Len(SubSeq(c.bytes, m, n)) = n - m + 1
  BY <1>1, <1>2, SubSeqOf
<1>4. k \in Nat /\ k - 1 \in 0..Len(c.messages)
  BY DEF IsConversation
<1>5. QED
  BY <1>2, <1>3, <1>4 DEF MessageOf, m, n

\* The first blank line is where the head ends.
LEMMA HeadEndsAt ==
  ASSUME NEW b \in Seq(Nat), NEW j \in BlankLinesOf(b),
         \A i \in BlankLinesOf(b) : j <= i
  PROVE  /\ HasHead(b) /\ j \in 1..(Len(b) - 1)
         /\ HeadOf(b) = SubSeq(b, 1, j - 1) /\ AfterHead(b) = SubSeq(b, j + 2, Len(b))
<1>1. BlankLinesOf(b) \in SUBSET Nat /\ j \in 1..(Len(b) - 1)
  BY DEF BlankLinesOf
<1>2. LowestOf(BlankLinesOf(b)) = j
  BY <1>1, LowestIs
<1>3. QED
  BY <1>1, <1>2 DEF HasHead, HeadOf, AfterHead

\* A head, a blank line and a body: nothing in the head ends it early.
LEMMA Headed ==
  ASSUME NEW h \in Seq(Nat), NEW body \in Seq(Nat), Blank \notin ToSet(h)
  PROVE  LET b == h \o <<Blank, Blank>> \o body
         IN  /\ b \in Seq(Nat) /\ Len(b) = Len(h) + 2 + Len(body)
             /\ HasHead(b) /\ HeadOf(b) = h /\ AfterHead(b) = body
<1> DEFINE e == <<Blank, Blank>>
           f == h \o e
           b == f \o body
           n == Len(h)
<1>1. e \in Seq(Nat) /\ Len(e) = 2 /\ e[1] = Blank /\ e[2] = Blank
  BY DEF Blank
<1> HIDE DEF e
<1>2. /\ f \in Seq(Nat) /\ Len(f) = n + 2 /\ n \in Nat
      /\ \A i \in 1..n : f[i] = h[i]
      /\ f[n + 1] = Blank /\ f[n + 2] = Blank
  <2>0. e \in Seq(Nat)
    BY <1>1
  <2>1. /\ h \o e \in Seq(Nat) /\ Len(h \o e) = Len(h) + Len(e)
        /\ Len(h) \in Nat /\ Len(e) \in Nat
        /\ \A i \in 1..Len(h) : (h \o e)[i] = h[i] /\ h[i] \in Nat
        /\ \A i \in 1..Len(e) : (h \o e)[Len(h) + i] = e[i] /\ e[i] \in Nat
    BY <2>0, Joined, Zenon
  <2>5. f = h \o e
    OBVIOUS
  <2> HIDE DEF f
  <2>2. 1 \in 1..Len(e) /\ 2 \in 1..Len(e)
    BY <1>1
  <2>3. f[Len(h) + 1] = e[1] /\ f[Len(h) + 2] = e[2]
    BY <2>1, <2>2, <2>5
  <2>4. QED
    BY <1>1, <2>1, <2>3, <2>5
<1> HIDE DEF f
<1>3. /\ b \in Seq(Nat) /\ Len(b) = n + 2 + Len(body) /\ Len(body) \in Nat
      /\ \A i \in 1..(n + 2) : b[i] = f[i]
      /\ \A i \in 1..Len(body) : b[(n + 2) + i] = body[i]
  <2>0. f \in Seq(Nat)
    BY <1>2
  <2>1. /\ f \o body \in Seq(Nat) /\ Len(f \o body) = Len(f) + Len(body)
        /\ Len(f) \in Nat /\ Len(body) \in Nat
        /\ \A i \in 1..Len(f) : (f \o body)[i] = f[i] /\ f[i] \in Nat
        /\ \A i \in 1..Len(body) : (f \o body)[Len(f) + i] = body[i] /\ body[i] \in Nat
    BY <2>0, Joined, Zenon
  <2>3. b = f \o body
    OBVIOUS
  <2> HIDE DEF b, n
  <2>2. QED
    BY <1>2, <2>1, <2>3
<1>n. n = Len(h)
  OBVIOUS
<1> HIDE DEF b, n
<1>4. \A i \in 1..n : b[i] = h[i] /\ b[i] # Blank
  <2>1. ASSUME NEW i \in 1..n PROVE b[i] = h[i] /\ h[i] \in ToSet(h)
    <3>1. i \in 1..Len(h) /\ i \in 1..(n + 2)
      BY <1>2, <1>n
    <3>2. h[i] \in ToSet(h)
      BY <3>1 DEF ToSet
    <3>3. QED
      BY <1>2, <1>3, <3>1, <3>2
  <2>2. QED
    BY <2>1
<1>5. n + 1 \in 1..(Len(b) - 1) /\ b[n + 1] = Blank /\ b[(n + 1) + 1] = Blank
  <2>1. n + 1 \in 1..(n + 2) /\ n + 2 \in 1..(n + 2) /\ (n + 1) + 1 = n + 2
    BY <1>2
  <2>2. b[n + 1] = f[n + 1] /\ b[n + 2] = f[n + 2]
    <3>1. \A i \in 1..(n + 2) : b[i] = f[i]
      BY <1>3
    <3>2. QED
      BY <2>1, <3>1
  <2>3. n + 1 \in 1..(Len(b) - 1)
    <3>1. n \in Nat /\ Len(body) \in Nat /\ Len(b) = n + 2 + Len(body)
      BY <1>2, <1>3
    <3>2. QED
      BY <3>1
  <2>4. QED
    BY <1>2, <2>1, <2>2, <2>3
<1>6. n + 1 \in BlankLinesOf(b) /\ \A i \in BlankLinesOf(b) : n + 1 <= i
  <2>1. n + 1 \in BlankLinesOf(b)
    BY <1>5 DEF BlankLinesOf
  <2>2. ASSUME NEW i \in BlankLinesOf(b) PROVE n + 1 <= i
    <3>1. i \in 1..(Len(b) - 1) /\ b[i] = Blank
      BY DEF BlankLinesOf
    <3>2. i \notin 1..n
      BY <1>4, <3>1
    <3>3. QED
      BY <1>2, <1>3, <3>1, <3>2
  <2>3. QED
    BY <2>1, <2>2
<1>7. /\ HasHead(b) /\ HeadOf(b) = SubSeq(b, 1, (n + 1) - 1)
      /\ AfterHead(b) = SubSeq(b, (n + 1) + 2, Len(b))
  BY <1>3, <1>6, HeadEndsAt
<1>8. HeadOf(b) = h
  <2>1. /\ SubSeq(b, 0 + 1, n) \in Seq(Nat) /\ Len(SubSeq(b, 0 + 1, n)) = n - 0
        /\ \A i \in 1..(n - 0) : SubSeq(b, 0 + 1, n)[i] = b[0 + i]
    <3>1. 0 \in Nat /\ n \in Nat /\ 0 <= n /\ n <= Len(b)
      BY <1>2, <1>3
    <3>2. QED
      BY <1>3, <3>1, Stretch
  <2>2. (n + 1) - 1 = n /\ 0 + 1 = 1 /\ n - 0 = n /\ \A i \in 1..n : 0 + i = i
    BY <1>2
  <2>3. QED
    BY <1>n, <1>4, <1>7, <2>1, <2>2, SameSeq
<1>9. AfterHead(b) = body
  <2>1. /\ SubSeq(b, (n + 2) + 1, Len(b)) \in Seq(Nat)
        /\ Len(SubSeq(b, (n + 2) + 1, Len(b))) = Len(b) - (n + 2)
        /\ \A i \in 1..(Len(b) - (n + 2)) : SubSeq(b, (n + 2) + 1, Len(b))[i] = b[(n + 2) + i]
    <3> DEFINE p == n + 2
               r == Len(b)
    <3>1. b \in Seq(Nat) /\ p \in Nat /\ r \in Nat /\ p <= r /\ r <= Len(b)
      BY <1>2, <1>3
    <3> HIDE DEF p, r
    <3>2. /\ SubSeq(b, p + 1, r) \in Seq(Nat) /\ Len(SubSeq(b, p + 1, r)) = r - p
          /\ \A i \in 1..(r - p) : SubSeq(b, p + 1, r)[i] = b[p + i]
      BY <3>1, Stretch
    <3>3. QED
      BY <3>2 DEF p, r
  <2>2. (n + 1) + 2 = (n + 2) + 1 /\ Len(b) - (n + 2) = Len(body)
    BY <1>2, <1>3
  <2>3. AfterHead(b) = SubSeq(b, (n + 2) + 1, Len(b))
    BY <1>7, <2>2
  <2> DEFINE t == SubSeq(b, (n + 2) + 1, Len(b))
  <2>4. /\ t \in Seq(Nat) /\ Len(t) = Len(body)
        /\ \A i \in 1..Len(t) : t[i] = body[i]
    BY <1>3, <2>1, <2>2
  <2> HIDE DEF t
  <2>5. t = body
    BY <2>4, SameSeq
  <2>6. QED
    BY <2>3, <2>5 DEF t
<1>10. QED
  BY <1>3, <1>7, <1>8, <1>9 DEF b, f, e, n

\* All of a buffer as a body.
LEMMA AllIsBody ==
  ASSUME NEW b \in Seq(Nat)
  PROVE  BodyOf(b, Len(b)) = [whole |-> TRUE, body |-> b, rest |-> <<>>]
<1>1. Len(b) \in Nat /\ Len(b) <= Len(b)
  OBVIOUS
<1>2. SubSeq(b, 1, Len(b)) = b
  <2>1. /\ SubSeq(b, 0 + 1, Len(b)) \in Seq(Nat) /\ Len(SubSeq(b, 0 + 1, Len(b))) = Len(b) - 0
        /\ \A i \in 1..(Len(b) - 0) : SubSeq(b, 0 + 1, Len(b))[i] = b[0 + i]
    BY <1>1, Stretch
  <2>2. 0 + 1 = 1 /\ Len(b) - 0 = Len(b) /\ \A i \in 1..Len(b) : 0 + i = i
    BY <1>1
  <2>3. QED
    BY <2>1, <2>2, SameSeq
<1>3. SubSeq(b, Len(b) + 1, Len(b)) = <<>>
  BY <1>1
<1>4. QED
  BY <1>1, <1>2, <1>3 DEF BodyOf, FirstOf, Beyond


\* An open loop that has negotiated nothing.
Plain(buf, out, stage) == [Start EXCEPT !.buf = buf, !.out = out, !.stage = stage]

LEMMA PlainIs ==
  ASSUME NEW buf, NEW out, NEW stage
  PROVE  /\ Plain(buf, out, stage).buf = buf
         /\ Plain(buf, out, stage).out = out
         /\ Plain(buf, out, stage).stage = stage
         /\ Plain(buf, out, stage).open
BY DEF Plain, Start

LEMMA PlainStart == Start = Plain(<<>>, <<>>, "first")
<1> DEFINE s == Start
<1>1. s.buf = <<>> /\ s.out = <<>> /\ s.stage = "first"
  BY DEF Start
<1>2. s \in [buf : Seq(Nat), sigBuf : {<<>>}, stage : {"first"}, out : {<<>>},
             open : BOOLEAN, retried : BOOLEAN, sdp : {<<>>}, tracks : {{}},
             channels : {<<>>}]
  BY DEF Start
<1> HIDE DEF s
<1>3. s = [s EXCEPT !.buf = <<>>, !.out = <<>>, !.stage = "first"]
  BY <1>1, <1>2
<1>4. QED
  BY <1>3 DEF Plain, s

LEMMA PlainLeft ==
  ASSUME NEW buf, NEW out, NEW stage, NEW rest
  PROVE  Left(Plain(buf, out, stage), rest) = Plain(rest, out, stage)
BY DEF Plain, Start, Left

LEMMA PlainSays ==
  ASSUME NEW buf, NEW out, NEW stage, NEW message
  PROVE  Says(Plain(buf, out, stage), message) = Plain(buf, Append(out, message), stage)
BY DEF Plain, Start, Says

LEMMA PlainClosed ==
  ASSUME NEW buf, NEW out, NEW stage
  PROVE  /\ ~Closed(Plain(buf, out, stage)).open
         /\ Closed(Plain(buf, out, stage)).buf = buf
         /\ Closed(Plain(buf, out, stage)).out = out
BY DEF Plain, Start, Closed

LEMMA PlainStage ==
  ASSUME NEW buf, NEW out, NEW stage, NEW next
  PROVE  [Plain(buf, out, stage) EXCEPT !.stage = next] = Plain(buf, out, next)
BY DEF Plain, Start

LEMMA HeadersAre ==
  ASSUME NEW headers \in Seq(Nat), NEW body \in Seq(Nat), Len(body) <= 4,
         Blank \notin ToSet(headers)
  PROVE  LET h == <<Verb, Target, Len(body)>> \o headers
         IN  /\ h \in Seq(Nat) /\ ~ (Len(h) < 2) /\ Blank \notin ToSet(h)
             /\ LengthIn(h, 3) = Len(body)
<1> DEFINE n == Len(body)
           s == <<Verb, Target, n>>
           h == s \o headers
<1>1. n \in Nat /\ n <= 4
  OBVIOUS
<1> HIDE DEF n
<1>2. /\ s \in Seq(Nat) /\ Len(s) = 3 /\ s[3] = n
      /\ \A i \in 1..3 : s[i] # Blank
  <2>1. Verb \in Nat /\ Target \in Nat /\ Verb # Blank /\ Target # Blank /\ n # Blank
    BY <1>1 DEF Verb, Target, Blank
  <2>2. s \in Seq(Nat) /\ Len(s) = 3 /\ s[1] = Verb /\ s[2] = Target /\ s[3] = n
    BY <1>1, <2>1
  <2> HIDE DEF s
  <2>3. ASSUME NEW i \in 1..3 PROVE s[i] # Blank
    <3>1. i = 1 \/ i = 2 \/ i = 3
      OBVIOUS
    <3>2. QED
      BY <2>1, <2>2, <3>1
  <2>4. QED
    BY <2>2, <2>3
<1> HIDE DEF s
<1>3. s \in Seq(Nat)
  BY <1>2
<1>4. /\ h \in Seq(Nat) /\ Len(h) = Len(s) + Len(headers)
      /\ Len(s) \in Nat /\ Len(headers) \in Nat
      /\ \A i \in 1..Len(s) : h[i] = s[i] /\ s[i] \in Nat
      /\ \A i \in 1..Len(headers) : h[Len(s) + i] = headers[i] /\ headers[i] \in Nat
  BY <1>3, Joined, Zenon
<1> HIDE DEF h
<1>5. h[3] = n /\ Len(h) >= 3
  <2>1. 3 \in 1..Len(s)
    BY <1>2
  <2>2. h[3] = s[3]
    BY <1>4, <2>1
  <2>3. QED
    BY <1>2, <1>4, <2>2
<1>6. ASSUME NEW i \in 1..Len(h) PROVE h[i] # Blank
  <2>1. CASE i \in 1..3
    BY <1>2, <1>4, <2>1
  <2>2. CASE i \notin 1..3
    <3>1. PICK j \in 1..Len(headers) : i = 3 + j
      <4>1. i - 3 \in 1..Len(headers) /\ i = 3 + (i - 3)
        BY <1>2, <1>4, <2>2
      <4>2. QED
        BY <4>1
    <3>2. headers[j] \in ToSet(headers)
      BY DEF ToSet
    <3>3. h[i] = headers[j]
      BY <1>2, <1>4, <3>1
    <3>4. QED
      BY <3>2, <3>3
  <2>3. QED
    BY <2>1, <2>2
<1>7. Blank \notin ToSet(h)
  <2>1. h \in Seq(Nat)
    BY <1>4
  <2>2. DOMAIN h = 1..Len(h)
    BY <2>1
  <2>3. QED
    BY <1>6, <2>2 DEF ToSet
<1>8. LengthIn(h, 3) = n
  <2>1. 3 <= Len(h) /\ h[3] \in 0..4
    BY <1>1, <1>4, <1>5
  <2>2. QED
    BY <1>5, <2>1 DEF LengthIn
<1>9. ~ (Len(h) < 2)
  BY <1>4, <1>5
<1>10. QED
  BY <1>4, <1>7, <1>8, <1>9 DEF h, s, n

LEMMA RequestAlone ==
  ASSUME NEW headers \in Seq(Nat), NEW body \in Seq(Nat), Len(body) <= 4,
         Blank \notin ToSet(headers), NEW out
  PROVE  LET m == HttpRequest(headers, body)
             answered == Plain(<<>>, Append(out, <<"request", body>>), "first")
         IN  /\ m \in Seq(Nat) /\ ~ (Len(HeadOf(m)) < 2)
             /\ AnswerRequest("http", Plain(m, out, "first"))
                  = IF CloseHeader \in ToSet(HeadOf(m)) THEN Closed(answered)
                    ELSE answered
<1> DEFINE m == HttpRequest(headers, body)
           h == <<Verb, Target, Len(body)>> \o headers
           l == Plain(m, out, "first")
           answered == Plain(<<>>, Append(out, <<"request", body>>), "first")
<1>1. h \in Seq(Nat) /\ ~ (Len(h) < 2) /\ Blank \notin ToSet(h) /\ LengthIn(h, 3) = Len(body)
  BY HeadersAre
<1>2. m = h \o <<Blank, Blank>> \o body
  BY DEF HttpRequest
<1> HIDE DEF h
<1>3. m \in Seq(Nat) /\ HasHead(m) /\ HeadOf(m) = h /\ AfterHead(m) = body
  <2> HIDE DEF m
  <2>1. QED
    BY <1>1, <1>2, Headed
<1> HIDE DEF m
<1>4. l.buf = m
  BY PlainIs
<1>5. Says(Left(l, <<>>), <<"request", body>>) = answered
  BY PlainLeft, PlainSays
<1>6. BodyOf(AfterHead(m), LengthIn(HeadOf(m), 3)) = [whole |-> TRUE, body |-> body, rest |-> <<>>]
  BY <1>1, <1>3, AllIsBody
<1> HIDE DEF l, answered
<1>7. /\ BodyOf(AfterHead(l.buf), LengthIn(HeadOf(l.buf), 3)).whole
      /\ BodyOf(AfterHead(l.buf), LengthIn(HeadOf(l.buf), 3)).body = body
      /\ BodyOf(AfterHead(l.buf), LengthIn(HeadOf(l.buf), 3)).rest = <<>>
  BY <1>4, <1>6
<1>8. HasHead(l.buf) /\ ~ (Len(HeadOf(l.buf)) < 2) /\ HeadOf(l.buf) = HeadOf(m)
  BY <1>1, <1>3, <1>4
<1>9. AnswerRequest("http", l)
        = IF CloseHeader \in ToSet(HeadOf(m)) THEN Closed(answered) ELSE answered
  BY <1>5, <1>7, <1>8 DEF AnswerRequest
<1>10. QED
  BY <1>1, <1>3, <1>9 DEF m, l, answered

LEMMA NoRequestAlone ==
  ASSUME NEW m \in Seq(Nat), Len(m) = 3, m[2] = Blank, m[3] = Blank, NEW out
  PROVE  AnswerRequest("http", Plain(m, out, "first")) = Closed(Plain(m, out, "first"))
<1> DEFINE l == Plain(m, out, "first")
           low == LowestOf(BlankLinesOf(m))
<1>1. 2 \in BlankLinesOf(m) /\ BlankLinesOf(m) \in SUBSET Nat
  BY DEF BlankLinesOf
<1>2. low \in BlankLinesOf(m)
  BY <1>1, LowestIn
<1>3. low \in 1..2
  BY <1>2 DEF BlankLinesOf
<1>4. HasHead(m) /\ HeadOf(m) = SubSeq(m, 1, low - 1)
  BY <1>1 DEF HasHead, HeadOf
<1> HIDE DEF low
<1>5. Len(SubSeq(m, 1, low - 1)) = (low - 1) - 1 + 1
  <2> DEFINE r == low - 1
  <2>1. 1 \in 1..(Len(m) + 1) /\ r \in (1 - 1)..Len(m)
    BY <1>3
  <2> HIDE DEF r
  <2>2. Len(SubSeq(m, 1, r)) = r - 1 + 1
    BY <2>1, SubSeqOf
  <2>3. QED
    BY <2>2 DEF r
<1>6. Len(HeadOf(m)) < 2
  BY <1>3, <1>4, <1>5
<1>7. l.buf = m
  BY PlainIs
<1> HIDE DEF l
<1>8. AnswerRequest("http", l) = Closed(l)
  BY <1>4, <1>6, <1>7 DEF AnswerRequest
<1>9. QED
  BY <1>8 DEF l

\* A stream is taken whole if, message by message, the loop ends each with an
\* empty buffer in the state that goes with it, or ends itself.
LEMMA TakenInTurn ==
  ASSUME NEW ln, NEW c, IsConversation(c), Filled(c), NEW shape, shape[0] = Start,
         \A k \in 1..Len(c.messages) :
           LET t == Pass(ln, Left(shape[k - 1], MessageOf(c, k)))
           IN  /\ t.out = Said(c, k)
               /\ \/ t = shape[k] /\ t.buf = <<>>
                  \/ ~t.open /\ (t.buf = <<>> \/ Said(c, k) = Said(c, k - 1))
  PROVE  \E after : TakenWhole(ln, c, after)
<1> DEFINE N == Len(c.messages)
           t(k) == Pass(ln, Left(shape[k - 1], MessageOf(c, k)))
           after == [k \in 0..N |->
                       IF k = 0 THEN Start
                       ELSE IF \A j \in 1..(k - 1) : t(j).open THEN t(k)
                       ELSE Closed(Start)]
<1>1. N \in Nat
  BY DEF IsConversation
<1>2. ASSUME NEW k \in 1..N
      PROVE  /\ t(k).out = Said(c, k)
             /\ \/ t(k) = shape[k] /\ t(k).buf = <<>>
                \/ ~t(k).open /\ (t(k).buf = <<>> \/ Said(c, k) = Said(c, k - 1))
  OBVIOUS
<1> HIDE DEF N, t
<1>3. after[0] = Start
  BY <1>1
<1>4. ASSUME NEW k \in 1..N
      PROVE  after[k] = IF \A j \in 1..(k - 1) : t(j).open THEN t(k) ELSE Closed(Start)
  BY <1>1, <1>4
<1> HIDE DEF after
<1>5. ASSUME NEW k \in 1..N, after[k - 1].open
      PROVE  after[k - 1] = shape[k - 1] /\ after[k] = t(k)
  <2>1. CASE k = 1
    <3>1. k - 1 = 0 /\ \A j \in 1..(k - 1) : t(j).open
      BY <2>1
    <3>2. QED
      BY <1>3, <1>4, <3>1
  <2>2. CASE k # 1
    <3>1. k - 1 \in 1..N /\ k \in Nat /\ (k - 1) + 1 = k
      BY <1>1, <2>2
    <3>2. ~Closed(Start).open
      BY DEF Closed, Start
    <3>3. after[k - 1] = t(k - 1) /\ \A j \in 1..((k - 1) - 1) : t(j).open
      BY <1>4, <1>5, <3>1, <3>2
    <3>4. t(k - 1).open
      BY <1>5, <3>3
    <3>5. \A j \in 1..(k - 1) : j = k - 1 \/ j \in 1..((k - 1) - 1)
      BY <3>1
    <3>6. \A j \in 1..(k - 1) : t(j).open
      BY <3>3, <3>4, <3>5
    <3>7. t(k - 1) = shape[k - 1]
      BY <1>2, <3>1, <3>4
    <3>8. QED
      BY <1>4, <3>3, <3>6, <3>7
  <2>3. QED
    BY <2>1, <2>2
<1>6. ASSUME NEW k \in 1..N, after[k - 1].open
      PROVE  /\ after[k] = Pass(ln, Left(after[k - 1], MessageOf(c, k)))
             /\ after[k].out = Said(c, k)
             /\ \/ after[k].buf = <<>>
                \/ ~after[k].open /\ Said(c, k) = Said(c, k - 1)
  <2>1. after[k - 1] = shape[k - 1] /\ after[k] = t(k)
    BY <1>5, <1>6
  <2>2. after[k] = Pass(ln, Left(after[k - 1], MessageOf(c, k)))
    BY <2>1 DEF t
  <2>3. QED
    BY <1>2, <2>1, <2>2
<1>7. TakenWhole(ln, c, after)
  BY <1>3, <1>6 DEF TakenWhole, N
<1>8. QED
  BY <1>7

\* The same for a loop of which only its stage changes.
LEMMA TakenOneByOne ==
  ASSUME NEW ln, NEW c, IsConversation(c), Filled(c), NEW stage, stage[0] = "first",
         \A k \in 1..Len(c.messages) :
           LET t == Pass(ln, Plain(MessageOf(c, k), Said(c, k - 1), stage[k - 1]))
           IN  \/ t = Plain(<<>>, Said(c, k), stage[k])
               \/ /\ ~t.open /\ t.out = Said(c, k)
                  /\ t.buf = <<>> \/ Said(c, k) = Said(c, k - 1)
  PROVE  \E after : TakenWhole(ln, c, after)
<1> DEFINE shape == [k \in Nat |-> Plain(<<>>, Said(c, k), stage[k])]
           t(k) == Pass(ln, Left(shape[k - 1], MessageOf(c, k)))
<1>1. shape[0] = Start
  <2>1. Said(c, 0) = <<>>
    BY DEF Said
  <2>2. QED
    BY <2>1, PlainStart
<1>2. ASSUME NEW k \in 1..Len(c.messages)
      PROVE  /\ t(k).out = Said(c, k)
             /\ \/ t(k) = shape[k] /\ t(k).buf = <<>>
                \/ ~t(k).open /\ (t(k).buf = <<>> \/ Said(c, k) = Said(c, k - 1))
  <2> DEFINE u == Pass(ln, Plain(MessageOf(c, k), Said(c, k - 1), stage[k - 1]))
  <2>1. k \in Nat /\ k - 1 \in Nat
    BY MessageTyped
  <2>2. shape[k] = Plain(<<>>, Said(c, k), stage[k])
        /\ shape[k - 1] = Plain(<<>>, Said(c, k - 1), stage[k - 1])
    BY <2>1
  <2> HIDE DEF shape
  <2>3. t(k) = u
    BY <2>2, PlainLeft
  <2>4. \/ u = Plain(<<>>, Said(c, k), stage[k])
        \/ /\ ~u.open /\ u.out = Said(c, k)
           /\ u.buf = <<>> \/ Said(c, k) = Said(c, k - 1)
    OBVIOUS
  <2> HIDE DEF u, t
  <2>5. CASE u = Plain(<<>>, Said(c, k), stage[k])
    <3>1. u.buf = <<>> /\ u.out = Said(c, k)
      BY <2>5, PlainIs
    <3>2. QED
      BY <2>2, <2>3, <2>5, <3>1
  <2>6. QED
    BY <2>3, <2>4, <2>5
<1> HIDE DEF shape
<1>3. QED
  BY <1>1, <1>2, TakenInTurn

LEMMA RequestsAreWholeMessages ==
  ASSUME NEW c, IsConversation(c), RequestStream(c)
  PROVE  \E after : TakenWhole("http", c, after)
<1> DEFINE stage == [k \in Nat |-> "first"]
           t(k) == Pass("http", Plain(MessageOf(c, k), Said(c, k - 1), stage[k - 1]))
<1>1. ASSUME NEW k \in 1..Len(c.messages)
      PROVE  \/ t(k) = Plain(<<>>, Said(c, k), stage[k])
             \/ /\ ~t(k).open /\ t(k).out = Said(c, k)
                /\ t(k).buf = <<>> \/ Said(c, k) = Said(c, k - 1)
  <2> DEFINE m == MessageOf(c, k)
             out == Said(c, k - 1)
  <2>1. m \in Seq(Nat) /\ k \in Nat /\ k - 1 \in Nat /\ k # 0
    BY MessageTyped
  <2>2. stage[k - 1] = "first" /\ stage[k] = "first" /\ Said(c, k) = c.messages[k].said
    BY <2>1 DEF Said
  <2>3. t(k) = AnswerRequest("http", Plain(m, out, "first"))
    BY <2>2 DEF Pass
  <2>4. IsRequest(c, k) \/ IsNoRequest(c, k)
    BY DEF RequestStream
  <2> HIDE DEF t, stage
  <2>5. CASE IsRequest(c, k)
    <3>1. PICK n \in 3..(Len(m) - 2) :
            LET headers == SubSeq(m, 4, n)
                body == SubSeq(m, n + 3, Len(m))
            IN  /\ Blank \notin ToSet(headers) /\ Len(body) <= 4
                /\ m = HttpRequest(headers, body)
                /\ c.messages[k].said = Append(out, <<"request", body>>)
      BY <2>5 DEF IsRequest
    <3> DEFINE headers == SubSeq(m, 4, n)
               body == SubSeq(m, n + 3, Len(m))
               answered == Plain(<<>>, Append(out, <<"request", body>>), "first")
    <3>2. headers \in Seq(Nat) /\ body \in Seq(Nat)
      <4>1. /\ 4 \in 1..(Len(m) + 1) /\ n \in (4 - 1)..Len(m)
            /\ n + 3 \in 1..(Len(m) + 1) /\ Len(m) \in ((n + 3) - 1)..Len(m)
        BY <2>1
      <4> HIDE DEF m
      <4>2. headers \in Seq(Nat)
        BY <2>1, <4>1, SubSeqOf
      <4> DEFINE p == n + 3
      <4>3. p \in 1..(Len(m) + 1) /\ Len(m) \in (p - 1)..Len(m)
        BY <4>1
      <4> HIDE DEF p
      <4>4. SubSeq(m, p, Len(m)) \in Seq(Nat)
        BY <2>1, <4>3, SubSeqOf
      <4>5. QED
        BY <4>2, <4>4 DEF p
    <3>3. /\ Blank \notin ToSet(headers) /\ Len(body) <= 4 /\ m = HttpRequest(headers, body)
          /\ c.messages[k].said = Append(out, <<"request", body>>)
      BY <3>1
    <3> HIDE DEF headers, body, m, out
    <3>4. t(k) = answered \/ t(k) = Closed(answered)
      BY <2>3, <3>2, <3>3, RequestAlone
    <3>5. answered = Plain(<<>>, Said(c, k), stage[k])
      BY <2>2, <3>3
    <3> HIDE DEF answered
    <3>6. CASE t(k) = answered
      BY <3>5, <3>6
    <3>7. CASE t(k) = Closed(answered)
      BY <3>5, <3>7, PlainClosed
    <3>8. QED
      BY <3>4, <3>6, <3>7
  <2>6. CASE IsNoRequest(c, k)
    <3>1. Len(m) = 3 /\ m[2] = Blank /\ m[3] = Blank /\ c.messages[k].said = out
      BY <2>6 DEF IsNoRequest
    <3> HIDE DEF m, out
    <3>2. t(k) = Closed(Plain(m, out, "first"))
      BY <2>1, <2>3, <3>1, NoRequestAlone
    <3>3. ~t(k).open /\ t(k).out = out
      BY <3>2, PlainClosed
    <3>4. QED
      BY <2>2, <3>1, <3>3 DEF out
  <2>7. QED
    BY <2>4, <2>5, <2>6
<1>2. stage[0] = "first" /\ Filled(c)
  BY DEF RequestStream
<1> HIDE DEF stage
<1>3. QED
  BY <1>1, <1>2, TakenOneByOne

\* What clients of the HTTP API send, in any chunks: every request is answered
\* once its body is there (handle).
THEOREM RequestsAreAnsweredWhole == Spec => [](RequestStream(sent) => RequestsAreWhole)
<1>1. TypeOK /\ lane = "http" /\ RequestStream(sent) => WholeMessages
  BY RequestsAreWholeMessages DEF TypeOK, WholeMessages
<1>2. TypeOK /\ (WholeMessages => RequestsAreWhole) => (RequestStream(sent) => RequestsAreWhole)
  BY <1>1 DEF RequestsAreWhole
<1>3. QED
  BY <1>2, LoopsAreTyped, RequestsStayWhole, PTL

LEMMA HeadAlone ==
  ASSUME NEW m \in Seq(Nat), IsHead(m)
  PROVE  HasHead(m) /\ HeadOf(m)[1] = m[1] /\ AfterHead(m) = <<>>
<1> DEFINE j == Len(m) - 1
           r == j - 1
<1>1. j \in BlankLinesOf(m) /\ (\A i \in BlankLinesOf(m) : j <= i) /\ Len(m) > 2
  BY DEF IsHead
<1>2. r \in Nat /\ 1 <= r /\ r <= Len(m) /\ j + 2 = Len(m) + 1
  BY <1>1
<1>3. HasHead(m) /\ HeadOf(m) = SubSeq(m, 1, r) /\ AfterHead(m) = SubSeq(m, j + 2, Len(m))
  <2> HIDE DEF j
  <2>1. QED
    BY <1>1, HeadEndsAt
<1> HIDE DEF j, r
<1>4. SubSeq(m, 1, r)[1] = m[1]
  <2>1. 1 \in 1..(Len(m) + 1) /\ r \in (1 - 1)..Len(m) /\ 1 \in 1..(r - 1 + 1)
    BY <1>2
  <2>2. SubSeq(m, 1, r)[1] = m[1 + 1 - 1]
    BY <2>1, SubSeqOf
  <2>3. 1 + 1 - 1 = 1
    OBVIOUS
  <2>4. QED
    BY <2>2, <2>3
<1>5. SubSeq(m, Len(m) + 1, Len(m)) = <<>>
  OBVIOUS
<1>6. QED
  BY <1>2, <1>3, <1>4, <1>5

LEMMA BlankBehind ==
  ASSUME NEW h \in Seq(Nat), NEW g \in Seq(Nat), Len(g) = Len(h) + 2,
         \A i \in 1..Len(h) : g[i] = h[i],
         g[Len(h) + 1] = Blank, g[Len(h) + 2] = Blank
  PROVE  h \o <<Blank, Blank>> = g
<1> DEFINE e == <<Blank, Blank>>
           f == h \o e
<1>1. e \in Seq(Nat) /\ Len(e) = 2 /\ e[1] = Blank /\ e[2] = Blank
  BY DEF Blank
<1> HIDE DEF e
<1>2. e \in Seq(Nat)
  BY <1>1
<1>3. /\ f \in Seq(Nat) /\ Len(f) = Len(h) + Len(e)
      /\ Len(h) \in Nat /\ Len(e) \in Nat
      /\ \A i \in 1..Len(h) : f[i] = h[i] /\ h[i] \in Nat
      /\ \A i \in 1..Len(e) : f[Len(h) + i] = e[i] /\ e[i] \in Nat
  BY <1>2, Joined, Zenon
<1> HIDE DEF f
<1>4. 1 \in 1..Len(e) /\ 2 \in 1..Len(e)
  BY <1>1
<1>5. f[Len(h) + 1] = Blank /\ f[Len(h) + 2] = Blank
  BY <1>1, <1>3, <1>4
<1>6. Len(f) = Len(g) /\ Len(h) \in Nat
  BY <1>1, <1>3
<1>7. ASSUME NEW i \in 1..Len(f) PROVE f[i] = g[i]
  <2>1. i \in 1..Len(h) \/ i = Len(h) + 1 \/ i = Len(h) + 2
    BY <1>6
  <2>2. QED
    BY <1>3, <1>5, <2>1
<1>8. f = g
  BY <1>3, <1>6, <1>7, SameSeq
<1>9. QED
  BY <1>8 DEF f, e

LEMMA AnnounceAlone ==
  ASSUME NEW body \in Seq(Nat), Len(body) <= 4, NEW out
  PROVE  Announced(Plain(RtspRequest(Announce, body), out, "first"))
           = Plain(<<>>, Append(out, <<"sdp", body>>), "loop")
<1> DEFINE n == Len(body)
           h == <<Announce, n>>
           m == RtspRequest(Announce, body)
           l == Plain(m, out, "first")
<1>1. n \in Nat /\ n <= 4
  OBVIOUS
<1> HIDE DEF n
<1>2. h \in Seq(Nat) /\ Blank \notin ToSet(h) /\ Len(h) = 2 /\ h[1] = Announce /\ h[2] = n
  <2>1. Announce \in Nat /\ Announce # Blank /\ n # Blank
    BY <1>1 DEF Announce, Blank
  <2>2. h \in Seq(Nat) /\ Len(h) = 2 /\ h[1] = Announce /\ h[2] = n
    BY <1>1, <2>1
  <2> HIDE DEF h
  <2>3. DOMAIN h = {1, 2}
    BY <2>2
  <2>4. Blank \notin ToSet(h)
    BY <2>1, <2>2, <2>3 DEF ToSet
  <2>5. QED
    BY <2>2, <2>4
<1>3. m = h \o <<Blank, Blank>> \o body
  <2>1. h \o <<Blank, Blank>> = <<Announce, n, Blank, Blank>>
    <3> DEFINE g == <<Announce, n, Blank, Blank>>
    <3>1. /\ g \in Seq(Nat) /\ Len(g) = 4
          /\ g[1] = Announce /\ g[2] = n /\ g[3] = Blank /\ g[4] = Blank
      BY <1>1 DEF Announce, Blank
    <3> HIDE DEF g, h
    <3>2. ASSUME NEW i \in 1..Len(h) PROVE g[i] = h[i]
      <4>1. i = 1 \/ i = 2
        BY <1>2
      <4>2. QED
        BY <1>2, <3>1, <4>1
    <3>3. Len(g) = Len(h) + 2 /\ Len(h) + 1 = 3 /\ Len(h) + 2 = 4
      BY <1>2, <3>1
    <3>4. h \o <<Blank, Blank>> = g
      BY <1>2, <3>1, <3>2, <3>3, BlankBehind
    <3>5. QED
      BY <3>4 DEF g
  <2>2. QED
    BY <2>1 DEF RtspRequest, n
<1> HIDE DEF h
<1>4. m \in Seq(Nat) /\ HasHead(m) /\ HeadOf(m) = h /\ AfterHead(m) = body
  <2> HIDE DEF m
  <2>1. QED
    BY <1>2, <1>3, Headed
<1> HIDE DEF m
<1>5. l.buf = m
  BY PlainIs
<1>6. Says([Left(l, <<>>) EXCEPT !.stage = "loop"], <<"sdp", body>>)
        = Plain(<<>>, Append(out, <<"sdp", body>>), "loop")
  BY PlainLeft, PlainStage, PlainSays
<1>7. BodyOf(AfterHead(m), LengthIn(HeadOf(m), 2)) = [whole |-> TRUE, body |-> body, rest |-> <<>>]
  <2>1. LengthIn(h, 2) = n
    BY <1>1, <1>2 DEF LengthIn
  <2>2. QED
    BY <1>4, <2>1, AllIsBody DEF n
<1> HIDE DEF l
<1>8. /\ BodyOf(AfterHead(l.buf), LengthIn(HeadOf(l.buf), 2)).whole
      /\ BodyOf(AfterHead(l.buf), LengthIn(HeadOf(l.buf), 2)).body = body
      /\ BodyOf(AfterHead(l.buf), LengthIn(HeadOf(l.buf), 2)).rest = <<>>
      /\ HasHead(l.buf)
  BY <1>4, <1>5, <1>7
<1>9. Announced(l) = Says([Left(l, <<>>) EXCEPT !.stage = "loop"], <<"sdp", body>>)
  BY <1>8 DEF Announced
<1>10. QED
  BY <1>6, <1>9 DEF l, m

LEMMA AskedAlone ==
  ASSUME NEW m \in Seq(Nat), IsHead(m), NEW out
  PROVE  LET t == Requested(Plain(m, out, "loop"))
         IN  /\ m[1] = Record => t = Plain(<<>>, out, "pump")
             /\ m[1] # Record =>
                  t \in {Plain(<<>>, out, "loop"), Closed(Plain(<<>>, out, "loop"))}
<1> DEFINE l == Plain(m, out, "loop")
<1>1. l.buf = m
  BY PlainIs
<1>2. /\ Left(l, <<>>) = Plain(<<>>, out, "loop")
      /\ [Left(l, <<>>) EXCEPT !.stage = "pump"] = Plain(<<>>, out, "pump")
  BY PlainLeft, PlainStage
<1> HIDE DEF l
<1>3. HasHead(l.buf) /\ HeadOf(l.buf)[1] = m[1] /\ AfterHead(l.buf) = <<>>
  BY <1>1, HeadAlone
<1>4. m[1] = Record => Requested(l) = Plain(<<>>, out, "pump")
  BY <1>2, <1>3 DEF Requested
<1>5. m[1] # Record =>
        Requested(l) \in {Plain(<<>>, out, "loop"), Closed(Plain(<<>>, out, "loop"))}
  BY <1>2, <1>3 DEF Requested
<1>6. QED
  BY <1>4, <1>5 DEF l

\* A packet that comes alone.
LEMMA PacketIs ==
  ASSUME NEW channel \in Nat, NEW payload \in Seq(Nat)
  PROVE  LET m == Interleaved(channel, payload)
         IN  /\ m \in Seq(Nat) /\ m # <<>> /\ m[1] = Dollar /\ m[2] = channel
             /\ HasInterleaved(m) /\ PayloadOf(m) = payload /\ AfterInterleaved(m) = <<>>
<1> DEFINE n == Len(payload)
           s == <<Dollar, channel, n>>
           m == s \o payload
<1>1. s \in Seq(Nat) /\ Len(s) = 3 /\ s[1] = Dollar /\ s[2] = channel /\ s[3] = n
  BY DEF Dollar
<1> HIDE DEF s
<1>2. s \in Seq(Nat)
  BY <1>1
<1>3. /\ m \in Seq(Nat) /\ Len(m) = Len(s) + Len(payload)
      /\ Len(s) \in Nat /\ Len(payload) \in Nat
      /\ \A i \in 1..Len(s) : m[i] = s[i] /\ s[i] \in Nat
      /\ \A i \in 1..Len(payload) : m[Len(s) + i] = payload[i] /\ payload[i] \in Nat
  BY <1>2, Joined, Zenon
<1>n. n = Len(payload)
  OBVIOUS
<1> HIDE DEF m, n
<1>4. m[1] = Dollar /\ m[2] = channel /\ m[3] = n /\ Len(m) = 3 + n /\ n \in Nat /\ m # <<>>
  <2>1. 1 \in 1..Len(s) /\ 2 \in 1..Len(s) /\ 3 \in 1..Len(s)
    BY <1>1
  <2>2. m[1] = s[1] /\ m[2] = s[2] /\ m[3] = s[3]
    BY <1>3, <2>1
  <2>3. Len(m) = 3 + n /\ n \in Nat /\ m \in Seq(Nat)
    BY <1>1, <1>3, <1>n
  <2>4. m # <<>>
    BY <2>3
  <2>5. QED
    BY <1>1, <2>2, <2>3, <2>4
<1>5. Beyond(3, m) = payload
  <2>1. 3 \in 0..Len(m) /\ Len(m) - 3 = n
    BY <1>4
  <2>2. /\ Beyond(3, m) \in Seq(Nat) /\ Len(Beyond(3, m)) = Len(m) - 3
        /\ \A i \in 1..(Len(m) - 3) : Beyond(3, m)[i] = m[3 + i]
    BY <1>3, <2>1, BeyondOf
  <2>3. \A i \in 1..Len(payload) : m[3 + i] = payload[i]
    BY <1>1, <1>3
  <2> DEFINE t == Beyond(3, m)
  <2>4. t \in Seq(Nat) /\ Len(t) = Len(payload) /\ \A i \in 1..Len(t) : t[i] = payload[i]
    BY <1>n, <2>1, <2>2, <2>3
  <2> HIDE DEF t
  <2>5. t = payload
    BY <2>4, SameSeq
  <2>6. QED
    BY <2>5 DEF t
<1>6. PayloadOf(m) = payload
  <2>1. BodyOf(payload, n).body = payload
    BY <1>n, AllIsBody
  <2>2. QED
    BY <1>4, <1>5, <2>1 DEF PayloadOf, BodyOf
<1>7. HasInterleaved(m) /\ AfterInterleaved(m) = <<>>
  <2>1. HasInterleaved(m)
    BY <1>4 DEF HasInterleaved
  <2>2. SubSeq(m, Len(m) + 1, Len(m)) = <<>>
    BY <1>3
  <2>3. AfterInterleaved(m) = SubSeq(m, Len(m) + 1, Len(m))
    BY <1>4 DEF AfterInterleaved, Beyond
  <2>4. QED
    BY <2>1, <2>2, <2>3
<1>8. Interleaved(channel, payload) = m
  BY DEF Interleaved, m, s, n
<1>9. QED
  BY <1>3, <1>4, <1>6, <1>7, <1>8

LEMMA PacketAlone ==
  ASSUME NEW channel \in Nat, NEW payload \in Seq(Nat), NEW out
  PROVE  PumpInterleaved(Plain(Interleaved(channel, payload), out, "pump"))
           = Plain(<<>>, Append(out, <<channel, payload>>), "pump")
<1> DEFINE m == Interleaved(channel, payload)
           l == Plain(m, out, "pump")
<1>1. /\ m # <<>> /\ m[1] = Dollar /\ m[2] = channel
      /\ HasInterleaved(m) /\ PayloadOf(m) = payload /\ AfterInterleaved(m) = <<>>
  BY PacketIs
<1> HIDE DEF m
<1>2. l.buf = m /\ l.stage = "pump"
  BY PlainIs
<1>3. Says(Left(l, <<>>), <<channel, payload>>) = Plain(<<>>, Append(out, <<channel, payload>>), "pump")
  BY PlainLeft, PlainSays
<1> HIDE DEF l
<1>4. PumpInterleaved(l) = Publishes(l)
  BY <1>1, <1>2 DEF PumpInterleaved
<1>5. Publishes(l) = Says(Left(l, <<>>), <<channel, payload>>)
  BY <1>1, <1>2 DEF Publishes
<1>6. QED
  BY <1>3, <1>4, <1>5 DEF l, m

LEMMA SkippedAlone ==
  ASSUME NEW m \in Seq(Nat), NEW out,
         (IsHead(m) /\ m[1] = Rtsp) \/ (Len(m) = 1 /\ m[1] \notin {Dollar, Rtsp})
  PROVE  PumpInterleaved(Plain(m, out, "pump")) = Plain(<<>>, out, "pump")
<1> DEFINE l == Plain(m, out, "pump")
<1>1. l.buf = m /\ l.stage = "pump"
  BY PlainIs
<1>2. Left(l, <<>>) = Plain(<<>>, out, "pump")
  BY PlainLeft
<1> HIDE DEF l
<1>3. m # <<>> /\ m[1] # Dollar
  <2>1. Len(m) # 0
    BY DEF IsHead
  <2>2. QED
    BY <2>1 DEF Dollar, Rtsp
<1>4. PumpInterleaved(l) = Skips(l)
  BY <1>1, <1>3 DEF PumpInterleaved
<1>5. CASE IsHead(m) /\ m[1] = Rtsp
  <2>1. HasHead(m) /\ AfterHead(m) = <<>>
    BY <1>5, HeadAlone
  <2>2. QED
    BY <1>1, <1>2, <1>4, <1>5, <2>1 DEF Skips, l
<1>6. CASE Len(m) = 1 /\ m[1] \notin {Dollar, Rtsp}
  <2>1. Beyond(1, m) = <<>>
    BY <1>6 DEF Beyond
  <2>2. QED
    BY <1>1, <1>2, <1>4, <1>6, <2>1 DEF Skips, l
<1>7. QED
  BY <1>5, <1>6

LEMMA PublishedAreWholeMessages ==
  ASSUME NEW c, IsConversation(c), PublisherStream(c)
  PROVE  \E after : TakenWhole("publisher", c, after)
<1>1. PICK record \in 2..(Len(c.messages) + 2) :
        \A k \in 1..Len(c.messages) :
          IF k = 1 THEN IsAnnounce(c, k)
          ELSE IF k <= record
          THEN /\ IsHead(MessageOf(c, k)) /\ c.messages[k].said = Said(c, k - 1)
               /\ k = record <=> MessageOf(c, k)[1] = Record
          ELSE IsPacket(c, k) \/ IsSkipped(c, k)
  BY DEF PublisherStream
<1>2. record \in Nat /\ 2 <= record
  BY DEF IsConversation
<1> DEFINE stage == [k \in Nat |-> IF k = 0 THEN "first" ELSE IF k < record THEN "loop" ELSE "pump"]
           t(k) == Pass("publisher", Plain(MessageOf(c, k), Said(c, k - 1), stage[k - 1]))
<1>3. ASSUME NEW k \in 1..Len(c.messages)
      PROVE  \/ t(k) = Plain(<<>>, Said(c, k), stage[k])
             \/ /\ ~t(k).open /\ t(k).out = Said(c, k)
                /\ t(k).buf = <<>> \/ Said(c, k) = Said(c, k - 1)
  <2> DEFINE m == MessageOf(c, k)
             out == Said(c, k - 1)
             l == Plain(m, out, stage[k - 1])
  <2>1. m \in Seq(Nat) /\ Len(m) \in Nat \ {0} /\ k \in Nat /\ k - 1 \in Nat /\ k # 0
    BY MessageTyped
  <2>2. Said(c, k) = c.messages[k].said
    BY <2>1 DEF Said
  <2>3. /\ k = 1 => stage[k - 1] = "first" /\ stage[k] = "loop"
        /\ k # 1 /\ k < record => stage[k - 1] = "loop" /\ stage[k] = "loop"
        /\ k # 1 /\ k = record => stage[k - 1] = "loop" /\ stage[k] = "pump"
        /\ k > record => stage[k - 1] = "pump" /\ stage[k] = "pump"
    BY <1>2, <2>1
  <2>4. t(k) = PumpInterleaved(l)
    BY DEF Pass
  <2>5. l.buf # <<>> /\ l.stage = stage[k - 1]
    BY <2>1, PlainIs
  <2> HIDE DEF t, stage, m, out
  <2>6. CASE k = 1
    <3> DEFINE body == SubSeq(m, 5, Len(m))
    <3>1. /\ Len(m) >= 4 /\ Len(body) <= 4 /\ m = RtspRequest(Announce, body)
          /\ c.messages[k].said = Append(out, <<"sdp", body>>)
      BY <1>1, <2>6 DEF IsAnnounce, m, out
    <3>2. body \in Seq(Nat)
      <4>1. 5 \in 1..(Len(m) + 1) /\ Len(m) \in (5 - 1)..Len(m)
        BY <2>1, <3>1
      <4>2. QED
        BY <2>1, <4>1, SubSeqOf
    <3>3. t(k) = Announced(l) /\ l = Plain(m, out, "first")
      <4>1. stage[k - 1] = "first"
        BY <2>3, <2>6
      <4>2. PumpInterleaved(l) = Announced(l)
        <5> HIDE DEF l
        <5>1. QED
          BY <2>5, <4>1 DEF PumpInterleaved
      <4>3. QED
        BY <2>4, <4>1, <4>2
    <3> HIDE DEF body, l
    <3>4. t(k) = Plain(<<>>, Append(out, <<"sdp", body>>), "loop")
      BY <3>1, <3>2, <3>3, AnnounceAlone
    <3>5. stage[k] = "loop"
      BY <2>3, <2>6
    <3>6. QED
      BY <2>2, <3>1, <3>4, <3>5
  <2>7. CASE k # 1 /\ k <= record
    <3>1. /\ IsHead(m) /\ c.messages[k].said = out
          /\ k = record <=> m[1] = Record
      BY <1>1, <2>7 DEF m, out
    <3>2. stage[k - 1] = "loop" /\ (k = record => stage[k] = "pump")
          /\ (k # record => stage[k] = "loop")
      BY <1>2, <2>1, <2>3, <2>7
    <3>3. t(k) = Requested(l) /\ l = Plain(m, out, "loop")
      <4>1. PumpInterleaved(l) = Requested(l)
        <5> HIDE DEF l
        <5>1. QED
          BY <2>5, <3>2 DEF PumpInterleaved
      <4>2. QED
        BY <2>4, <3>2, <4>1
    <3> HIDE DEF l
    <3>4. /\ m[1] = Record => t(k) = Plain(<<>>, out, "pump")
          /\ m[1] # Record =>
               t(k) \in {Plain(<<>>, out, "loop"), Closed(Plain(<<>>, out, "loop"))}
      BY <2>1, <3>1, <3>3, AskedAlone
    <3>5. CASE t(k) = Closed(Plain(<<>>, out, "loop"))
      BY <2>2, <3>1, <3>5, PlainClosed
    <3>6. CASE t(k) # Closed(Plain(<<>>, out, "loop"))
      BY <2>2, <3>1, <3>2, <3>4, <3>6
    <3>7. QED
      BY <3>5, <3>6
  <2>8. CASE k > record
    <3>1. IsPacket(c, k) \/ IsSkipped(c, k)
      <4>1. k # 1 /\ ~(k <= record)
        BY <1>2, <2>1, <2>8
      <4>2. QED
        BY <1>1, <4>1
    <3>2. t(k) = PumpInterleaved(Plain(m, out, "pump")) /\ stage[k] = "pump"
      BY <2>3, <2>4, <2>8
    <3> HIDE DEF l
    <3>3. CASE IsPacket(c, k)
      <4> DEFINE payload == SubSeq(m, 4, Len(m))
      <4>1. /\ Len(m) >= 3 /\ m = Interleaved(m[2], payload)
            /\ c.messages[k].said = Append(out, <<m[2], payload>>)
        BY <3>3 DEF IsPacket, m, out
      <4>2. payload \in Seq(Nat) /\ m[2] \in Nat
        <5>1. m \in Seq(Nat) /\ Len(m) \in Nat /\ Len(m) >= 3
          BY <2>1, <4>1
        <5>2. 4 \in 1..(Len(m) + 1) /\ Len(m) \in (4 - 1)..Len(m) /\ 2 \in 1..Len(m)
          BY <5>1
        <5>3. m[2] \in Nat
          BY <5>1, <5>2
        <5>4. payload \in Seq(Nat)
          BY <5>1, <5>2, SubSeqOf
        <5>5. QED
          BY <5>3, <5>4
      <4> HIDE DEF payload
      <4>3. PumpInterleaved(Plain(Interleaved(m[2], payload), out, "pump"))
              = Plain(<<>>, Append(out, <<m[2], payload>>), "pump")
        BY <4>2, PacketAlone
      <4>4. QED
        BY <2>2, <3>2, <4>1, <4>3
    <3>4. CASE IsSkipped(c, k)
      <4>1. /\ (IsHead(m) /\ m[1] = Rtsp) \/ (Len(m) = 1 /\ m[1] \notin {Dollar, Rtsp})
            /\ c.messages[k].said = out
        BY <3>4 DEF IsSkipped, m, out
      <4>2. t(k) = Plain(<<>>, out, "pump")
        BY <2>1, <3>2, <4>1, SkippedAlone
      <4>3. QED
        BY <2>2, <3>2, <4>1, <4>2
    <3>5. QED
      BY <3>1, <3>3, <3>4
  <2>9. QED
    BY <1>2, <2>1, <2>6, <2>7, <2>8
<1>4. stage[0] = "first" /\ Filled(c)
  BY DEF PublisherStream
<1> HIDE DEF stage
<1>5. QED
  BY <1>3, <1>4, TakenOneByOne

\* What a camera publishes to the relay, in any chunks: its SDP and its packets
\* are told apart from its requests and from what comes between the packets
\* (_pump_interleaved).
THEOREM PublishedIsToldApart ==
  Spec => [](lane = "publisher" /\ PublisherStream(sent) => MediaSurvives)
<1>1. TypeOK /\ lane = "publisher" /\ PublisherStream(sent) => WholeMessages
  BY PublishedAreWholeMessages DEF TypeOK, WholeMessages
<1>2. TypeOK /\ (WholeMessages => MediaSurvives)
        => (lane = "publisher" /\ PublisherStream(sent) => MediaSurvives)
  BY <1>1
<1>3. QED
  BY <1>2, LoopsAreTyped, MediaIsToldApart, PTL

LEMMA SameOver ==
  ASSUME NEW S, NEW b \in Seq(S), NEW c \in Seq(S), Len(b) = Len(c),
         \A i \in 1..Len(b) : b[i] = c[i]
  PROVE  b = c
OBVIOUS

\* An answer that comes alone.
LEMMA ResponseAlone ==
  ASSUME NEW status \in {Ok, Unauthorized, NotFound},
         NEW body \in Seq(Nat), Len(body) <= 4, NEW l, IsLoop(l)
  PROVE  Pump(Left(l, RtspResponse(status, body)))
           = IF l.stage = "pump" THEN Left(l, <<>>)
             ELSE Answered(Left(l, <<>>), status, body)
<1> DEFINE n == Len(body)
           h == <<Rtsp, status, n>>
           g == <<Rtsp, status, n, Blank, Blank>>
           m == RtspResponse(status, body)
           k == Left(l, m)
<1>0. n \in Nat /\ n <= 4
  OBVIOUS
<1> HIDE DEF n
<1>1. /\ n \in Nat /\ n <= 4 /\ n # Blank
      /\ status \in Nat /\ status # Blank
      /\ Rtsp \in Nat /\ Rtsp # Blank /\ Rtsp # Dollar /\ Blank \in Nat
  <2>1. n # Blank
    BY <1>0 DEF Blank
  <2>2. status \in Nat /\ status # Blank
    BY DEF Ok, Unauthorized, NotFound, Blank
  <2>3. Rtsp \in Nat /\ Rtsp # Blank /\ Rtsp # Dollar /\ Blank \in Nat
    BY DEF Rtsp, Blank, Dollar
  <2>4. QED
    BY <1>0, <2>1, <2>2, <2>3
<1>2. /\ h \in Seq(Nat) /\ Len(h) = 3 /\ h[1] = Rtsp /\ h[2] = status /\ h[3] = n
      /\ g \in Seq(Nat) /\ Len(g) = 5 /\ g[1] = Rtsp /\ g[2] = status /\ g[3] = n
      /\ g[4] = Blank /\ g[5] = Blank
  BY <1>1
<1>m. m = g \o body
  BY DEF RtspResponse, n
<1> HIDE DEF h, g, m
<1>3. Blank \notin ToSet(h)
  <2>1. DOMAIN h = {1, 2, 3}
    BY <1>2
  <2>2. QED
    BY <1>1, <1>2, <2>1 DEF ToSet
<1>4. h \o <<Blank, Blank>> = g
  <2>1. ASSUME NEW i \in 1..Len(h) PROVE g[i] = h[i]
    <3>1. i = 1 \/ i = 2 \/ i = 3
      BY <1>2
    <3>2. QED
      BY <1>2, <3>1
  <2>2. Len(g) = Len(h) + 2 /\ Len(h) + 1 = 4 /\ Len(h) + 2 = 5
    BY <1>2
  <2>3. QED
    BY <1>2, <2>1, <2>2, BlankBehind
<1>5. m \in Seq(Nat) /\ HasHead(m) /\ HeadOf(m) = h /\ AfterHead(m) = body
  <2>1. m = h \o <<Blank, Blank>> \o body
    BY <1>4, <1>m
  <2>2. QED
    BY <1>2, <1>3, <2>1, Headed
<1>6. m # <<>> /\ m[1] = Rtsp
  <2>1. /\ m \in Seq(Nat) /\ Len(m) = Len(g) + Len(body) /\ m[1] = g[1]
    <3>1. g \in Seq(Nat)
      BY <1>2
    <3>2. /\ g \o body \in Seq(Nat) /\ Len(g \o body) = Len(g) + Len(body)
          /\ Len(g) \in Nat /\ Len(body) \in Nat
          /\ \A i \in 1..Len(g) : (g \o body)[i] = g[i] /\ g[i] \in Nat
          /\ \A i \in 1..Len(body) : (g \o body)[Len(g) + i] = body[i] /\ body[i] \in Nat
      BY <3>1, Joined, Zenon
    <3>3. 1 \in 1..Len(g)
      BY <1>2
    <3>4. QED
      BY <1>m, <3>2, <3>3
  <2>2. Len(m) # 0
    BY <1>1, <1>2, <2>1 DEF n
  <2>3. QED
    BY <1>2, <2>1, <2>2
<1>7. BodyOf(AfterHead(m), LengthIn(HeadOf(m), 3)) = [whole |-> TRUE, body |-> body, rest |-> <<>>]
  <2>1. LengthIn(h, 3) = n
    BY <1>1, <1>2 DEF LengthIn
  <2>2. QED
    BY <1>5, <2>1, AllIsBody DEF n
<1>8. k.buf = m /\ k.stage = l.stage /\ Left(k, <<>>) = Left(l, <<>>)
  <2>1. <<>> \in Seq(Nat)
    OBVIOUS
  <2>2. QED
    BY <1>5, <2>1, LeftIsLoop, LeftTwice
<1> HIDE DEF k
<1>9. Pump(k) = ReadsResponse(k)
  BY <1>1, <1>6, <1>8 DEF Pump
<1>10. /\ BodyOf(AfterHead(k.buf), LengthIn(HeadOf(k.buf), 3)).whole
       /\ BodyOf(AfterHead(k.buf), LengthIn(HeadOf(k.buf), 3)).body = body
       /\ BodyOf(AfterHead(k.buf), LengthIn(HeadOf(k.buf), 3)).rest = <<>>
  BY <1>7, <1>8
<1>11. HasHead(k.buf) /\ ~ (Len(HeadOf(k.buf)) < 2) /\ HeadOf(k.buf)[2] = status
  <2>1. HeadOf(k.buf) = h
    BY <1>5, <1>8
  <2>2. ~ (Len(h) < 2) /\ h[2] = status
    BY <1>2
  <2>3. QED
    BY <1>5, <1>8, <2>1, <2>2
<1>12. ReadsResponse(k) = IF l.stage = "pump" THEN Left(l, <<>>)
                          ELSE Answered(Left(l, <<>>), status, body)
  BY <1>8, <1>10, <1>11 DEF ReadsResponse
<1>13. QED
  BY <1>9, <1>12 DEF k, m

\* The loop of a RelayStream that has negotiated so much.
Opened(out, stage, sdp, tracks, channels) ==
  [Start EXCEPT !.out = out, !.stage = stage, !.sdp = sdp, !.tracks = tracks,
                !.channels = channels]

LEMMA OpenedIs ==
  ASSUME NEW out, NEW stage, NEW sdp, NEW tracks, NEW channels
  PROVE  LET l == Opened(out, stage, sdp, tracks, channels)
         IN  /\ IsLoop(l) /\ l.buf = <<>> /\ l.out = out /\ l.stage = stage /\ l.open
             /\ l.sdp = sdp /\ l.tracks = tracks /\ l.channels = channels
             /\ [l EXCEPT !.retried = FALSE] = l
<1> DEFINE s == Start
           k == [s EXCEPT !.out = out, !.stage = stage]
           l == Opened(out, stage, sdp, tracks, channels)
<1>1. /\ l.buf = <<>> /\ l.out = out /\ l.stage = stage /\ l.open
      /\ l.sdp = sdp /\ l.tracks = tracks /\ l.channels = channels
  BY DEF Opened, Start
<1>2. s.retried = FALSE /\ IsLoop(s)
  BY DEF IsLoop, Start
<1> HIDE DEF s
<1>3. k.retried = FALSE /\ IsLoop(k)
  BY <1>2 DEF IsLoop
<1>4. l = [k EXCEPT !.sdp = sdp, !.tracks = tracks, !.channels = channels]
  BY DEF Opened, s
<1> HIDE DEF k, l
<1>5. l.retried = FALSE /\ IsLoop(l)
  BY <1>3, <1>4 DEF IsLoop
<1>6. [l EXCEPT !.retried = FALSE] = l
  BY <1>5 DEF IsLoop
<1>7. QED
  BY <1>1, <1>5, <1>6 DEF l

LEMMA OpenedStart == Start = Opened(<<>>, "first", <<>>, {}, <<>>)
<1> DEFINE s == Start
<1>1. /\ s.out = <<>> /\ s.stage = "first" /\ s.sdp = <<>> /\ s.tracks = {}
      /\ s.channels = <<>>
  BY DEF Start
<1>2. s \in [buf : Seq(Nat), sigBuf : {<<>>}, stage : {"first"}, out : {<<>>},
             open : BOOLEAN, retried : BOOLEAN, sdp : {<<>>}, tracks : {{}},
             channels : {<<>>}]
  BY DEF Start
<1> HIDE DEF s
<1>3. s = [s EXCEPT !.out = <<>>, !.stage = "first", !.sdp = <<>>, !.tracks = {},
                    !.channels = <<>>]
  BY <1>1, <1>2
<1>4. QED
  BY <1>3 DEF Opened, s

LEMMA OpenedStage ==
  ASSUME NEW out, NEW stage, NEW sdp, NEW tracks, NEW channels, NEW next
  PROVE  [Opened(out, stage, sdp, tracks, channels) EXCEPT !.stage = next]
           = Opened(out, next, sdp, tracks, channels)
BY DEF Opened, Start

LEMMA OpenedSays ==
  ASSUME NEW out, NEW stage, NEW sdp, NEW tracks, NEW channels, NEW message
  PROVE  Says(Opened(out, stage, sdp, tracks, channels), message)
           = Opened(Append(out, message), stage, sdp, tracks, channels)
BY DEF Opened, Start, Says

\* What a 200 does to it.
LEMMA AnsweredFirst ==
  ASSUME NEW out, NEW sdp, NEW tracks, NEW channels, NEW body
  PROVE  Answered(Opened(out, "first", sdp, tracks, channels), Ok, body)
           = Opened(out, "describe", sdp, tracks, channels)
<1> DEFINE l == Opened(out, "first", sdp, tracks, channels)
<1>1. l.stage = "first" /\ l.tracks = tracks /\ l.sdp = sdp /\ [l EXCEPT !.retried = FALSE] = l
  BY OpenedIs
<1>2. Answered(l, Ok, body) = Granted(l, body)
  <2> HIDE DEF l
  <2>1. QED
    BY <1>1 DEF Answered
<1>3. [l EXCEPT !.stage = "describe"] = Opened(out, "describe", sdp, tracks, channels)
  BY OpenedStage
<1>4. Granted(l, body) = [l EXCEPT !.stage = "describe"]
  <2> HIDE DEF l
  <2>1. QED
    BY <1>1 DEF Granted
<1>5. QED
  BY <1>2, <1>3, <1>4

LEMMA AnsweredDescribe ==
  ASSUME NEW out, NEW sdp, NEW tracks, NEW channels, NEW body, ParseSdp(body) # {}
  PROVE  Answered(Opened(out, "describe", sdp, tracks, channels), Ok, body)
           = Opened(out, "setup", body, ParseSdp(body), channels)
<1> DEFINE l == Opened(out, "describe", sdp, tracks, channels)
<1>1. l.stage = "describe" /\ l.tracks = tracks /\ l.sdp = sdp /\ [l EXCEPT !.retried = FALSE] = l
  BY OpenedIs
<1>2. Answered(l, Ok, body) = Granted(l, body)
  <2> HIDE DEF l
  <2>1. QED
    BY <1>1 DEF Answered
<1>3. [l EXCEPT !.stage = "setup", !.sdp = body, !.tracks = ParseSdp(body)]
        = Opened(out, "setup", body, ParseSdp(body), channels)
  BY DEF Opened, Start
<1>4. Granted(l, body) = [l EXCEPT !.stage = "setup", !.sdp = body, !.tracks = ParseSdp(body)]
  <2> HIDE DEF l
  <2>1. QED
    BY <1>1 DEF Granted
<1>5. QED
  BY <1>2, <1>3, <1>4

\* What setting up the lowest track leaves.
SetsUp(sdp, tracks, channels, next, rest, more) ==
  LET low == LowestOf(tracks)
  IN  /\ rest = tracks \ {low}
      /\ more = Append(channels, MediaSection[sdp[low]].kind)
      /\ next = IF tracks = {low} THEN "play" ELSE "setup"

LEMMA AnsweredSetup ==
  ASSUME NEW out, NEW sdp, NEW tracks, NEW channels, NEW body, NEW next, NEW rest, NEW more,
         SetsUp(sdp, tracks, channels, next, rest, more)
  PROVE  Answered(Opened(out, "setup", sdp, tracks, channels), Ok, body)
           = Opened(out, next, sdp, rest, more)
<1> DEFINE l == Opened(out, "setup", sdp, tracks, channels)
<1>1. /\ l.stage = "setup" /\ l.tracks = tracks /\ l.sdp = sdp /\ l.channels = channels
      /\ [l EXCEPT !.retried = FALSE] = l
  BY OpenedIs
<1>2. Answered(l, Ok, body) = Granted(l, body)
  <2> HIDE DEF l
  <2>1. QED
    BY <1>1 DEF Answered
<1>3. Granted(l, body) = [l EXCEPT !.channels = more, !.tracks = rest, !.stage = next]
  <2> HIDE DEF l
  <2>1. QED
    BY <1>1 DEF Granted, SetsUp
<1>4. [l EXCEPT !.channels = more, !.tracks = rest, !.stage = next]
        = Opened(out, next, sdp, rest, more)
  BY DEF Opened, Start
<1>5. QED
  BY <1>2, <1>3, <1>4

LEMMA AnsweredPlay ==
  ASSUME NEW out, NEW sdp, NEW tracks, NEW channels, NEW body
  PROVE  Answered(Opened(out, "play", sdp, tracks, channels), Ok, body)
           = Opened(out, "pump", sdp, tracks, channels)
<1> DEFINE l == Opened(out, "play", sdp, tracks, channels)
<1>1. l.stage = "play" /\ l.tracks = tracks /\ l.sdp = sdp /\ [l EXCEPT !.retried = FALSE] = l
  BY OpenedIs
<1>2. Answered(l, Ok, body) = Granted(l, body)
  <2> HIDE DEF l
  <2>1. QED
    BY <1>1 DEF Answered
<1>3. [l EXCEPT !.stage = "pump"] = Opened(out, "pump", sdp, tracks, channels)
  BY OpenedStage
<1>4. Granted(l, body) = [l EXCEPT !.stage = "pump"]
  <2> HIDE DEF l
  <2>1. QED
    BY <1>1 DEF Granted
<1>5. QED
  BY <1>2, <1>3, <1>4

\* A part of a sequence and its next element.
LEMMA OneMore ==
  ASSUME NEW S, NEW s \in Seq(S), NEW i \in Nat, i < Len(s)
  PROVE  Append(SubSeq(s, 1, i), s[i + 1]) = SubSeq(s, 1, i + 1)
<1>1. /\ SubSeq(s, 1, i) \in Seq(S) /\ Len(SubSeq(s, 1, i)) = i
      /\ \A j \in 1..i : SubSeq(s, 1, i)[j] = s[j]
  OBVIOUS
<1>2. /\ SubSeq(s, 1, i + 1) \in Seq(S) /\ Len(SubSeq(s, 1, i + 1)) = i + 1
      /\ \A j \in 1..(i + 1) : SubSeq(s, 1, i + 1)[j] = s[j]
  OBVIOUS
<1> DEFINE a == SubSeq(s, 1, i)
           b == SubSeq(s, 1, i + 1)
           e == s[i + 1]
<1>3. e \in S
  OBVIOUS
<1> HIDE DEF a, b
<1>4. /\ a \in Seq(S) /\ Len(a) = i /\ \A j \in 1..i : a[j] = s[j]
      /\ b \in Seq(S) /\ Len(b) = i + 1 /\ \A j \in 1..(i + 1) : b[j] = s[j]
  BY <1>1, <1>2 DEF a, b
<1> HIDE DEF e
<1>5. /\ Append(a, e) \in Seq(S) /\ Len(Append(a, e)) = i + 1
      /\ \A j \in 1..i : Append(a, e)[j] = a[j]
      /\ Append(a, e)[i + 1] = e
  BY <1>3, <1>4
<1>6. ASSUME NEW j \in 1..(i + 1) PROVE Append(a, e)[j] = b[j]
  <2>1. j \in 1..i \/ j = i + 1
    OBVIOUS
  <2>2. QED
    BY <1>4, <1>5, <2>1 DEF e
<1>7. Append(a, e) = b
  BY <1>4, <1>5, <1>6, SameOver
<1>8. QED
  BY <1>7 DEF a, b, e

\* The tracks in the order in which they are set up.
LEMMA TracksLeft ==
  ASSUME NEW n \in Nat, NEW order, \A i \in 1..n : order[i] \in Nat,
         \A i, j \in 1..n : i < j => order[i] < order[j],
         NEW i \in 1..n
  PROVE  LET left(j) == {order[e] : e \in j..n}
         IN  /\ LowestOf(left(i)) = order[i]
             /\ left(i) \ {order[i]} = left(i + 1)
             /\ left(i) = {order[i]} <=> i = n
<1> DEFINE left(j) == {order[e] : e \in j..n}
<1>1. ASSUME NEW e \in i..n, e # i PROVE e \in (i + 1)..n /\ e \in 1..n /\ i < e
  BY <1>1
<1>2. \A e \in i..n : order[e] \in Nat /\ order[i] <= order[e]
  <2>1. ASSUME NEW e \in i..n PROVE order[e] \in Nat /\ order[i] <= order[e]
    <3>1. e \in 1..n /\ order[e] \in Nat /\ order[i] \in Nat
      OBVIOUS
    <3>2. CASE e = i
      BY <3>1, <3>2
    <3>3. CASE e # i
      <4>1. order[i] < order[e]
        BY <1>1, <3>1, <3>3
      <4>2. QED
        BY <3>1, <4>1
    <3>4. QED
      BY <3>2, <3>3
  <2>2. QED
    BY <2>1
<1>3. order[i] \in left(i) /\ left(i) \in SUBSET Nat /\ \A y \in left(i) : order[i] <= y
  <2>1. i \in i..n
    OBVIOUS
  <2>2. QED
    BY <1>2, <2>1
<1>4. LowestOf(left(i)) = order[i]
  <2> DEFINE T == left(i)
             low == order[i]
  <2>1. low \in T /\ T \in SUBSET Nat /\ \A y \in T : low <= y
    BY <1>3
  <2> HIDE DEF T, low
  <2>2. LowestOf(T) = low
    BY <2>1, LowestIs
  <2>3. QED
    BY <2>2 DEF T, low
<1>5. \A e \in (i + 1)..n : e \in i..n /\ order[e] # order[i]
  <2>1. ASSUME NEW e \in (i + 1)..n PROVE e \in i..n /\ order[e] # order[i]
    <3>1. e \in i..n /\ e \in 1..n /\ i < e
      OBVIOUS
    <3>2. order[i] < order[e] /\ order[i] \in Nat /\ order[e] \in Nat
      BY <3>1
    <3>3. QED
      BY <3>1, <3>2
  <2>2. QED
    BY <2>1
<1>6. left(i) \ {order[i]} = left(i + 1)
  BY <1>1, <1>5
<1>7. left(i) = {order[i]} <=> i = n
  <2>1. CASE i = n
    BY <2>1
  <2>2. CASE i # n
    <3>1. n \in (i + 1)..n
      BY <2>2
    <3>2. order[n] # order[i] /\ order[n] \in left(i)
      BY <1>5, <3>1
    <3>3. QED
      BY <2>2, <3>2
  <2>3. QED
    BY <2>1, <2>2
<1>8. QED
  BY <1>4, <1>6, <1>7

\* An answer to a request that opens the stream.
LEMMA OpenedTakes ==
  ASSUME NEW c, NEW k \in 1..Len(c.messages), IsConversation(c), IsResponse(c, k),
         NEW stage, NEW sdp, NEW tracks, NEW channels
  PROVE  LET l == Opened(Said(c, k - 1), stage, sdp, tracks, channels)
             m == MessageOf(c, k)
             t == Pass("stream", Left(l, m))
         IN  /\ Said(c, k) = Said(c, k - 1)
             /\ stage = "pump" => t = l
             /\ stage # "pump" /\ m[2] = Ok =>
                  t = Answered(l, Ok, SubSeq(m, 6, Len(m)))
<1> DEFINE m == MessageOf(c, k)
           body == SubSeq(m, 6, Len(m))
           l == Opened(Said(c, k - 1), stage, sdp, tracks, channels)
<1>1. /\ Len(m) >= 5 /\ Len(body) <= 4 /\ m = RtspResponse(m[2], body)
      /\ m[2] \in {Ok, Unauthorized, NotFound} /\ c.messages[k].said = Said(c, k - 1)
  BY DEF IsResponse
<1>2. m \in Seq(Nat) /\ Len(m) \in Nat /\ k # 0
  BY MessageTyped
<1>3. body \in Seq(Nat)
  <2>1. 6 \in 1..(Len(m) + 1) /\ Len(m) \in (6 - 1)..Len(m)
    BY <1>1, <1>2
  <2> HIDE DEF m
  <2>2. QED
    BY <1>2, <2>1, SubSeqOf
<1>4. Said(c, k) = Said(c, k - 1)
  BY <1>1, <1>2 DEF Said
<1>5. IsLoop(l) /\ l.buf = <<>> /\ l.stage = stage
  BY OpenedIs
<1> DEFINE status == m[2]
<1>6. status \in {Ok, Unauthorized, NotFound} /\ m = RtspResponse(status, body) /\ Len(body) <= 4
  BY <1>1
<1> HIDE DEF m, body, l, status
<1>7. Left(l, <<>>) = l
  BY <1>5, LeftOwn
<1>8. Pump(Left(l, RtspResponse(status, body)))
        = IF l.stage = "pump" THEN Left(l, <<>>) ELSE Answered(Left(l, <<>>), status, body)
  BY <1>3, <1>5, <1>6, ResponseAlone
<1>9. Pass("stream", Left(l, m)) = IF stage = "pump" THEN l ELSE Answered(l, status, body)
  BY <1>5, <1>6, <1>7, <1>8 DEF Pass
<1>10. QED
  BY <1>4, <1>9 DEF m, body, l, status

\* The tracks `order` of the SDP, those left when the i-th is set up and the
\* channels set up before it, in a stream that is opened and played.
PlaysTracks(c, sdp, n, order, kinds, left, done) ==
  /\ sdp = SdpOf(c) /\ n \in Nat /\ n >= 1 /\ order \in [1..n -> Nat]
  /\ Len(kinds) = n /\ (\A i \in 1..n : kinds[i] = KindIn(c, order[i]))
  /\ left[1] = ParseSdp(sdp) /\ ParseSdp(sdp) # {}
  /\ done[0] = <<>> /\ done[n] = kinds
  /\ \A i \in 1..n :
       /\ i # n => SetsUp(sdp, left[i], done[i - 1], "setup", left[i + 1], done[i])
       /\ i = n => SetsUp(sdp, left[i], done[i - 1], "play", left[i + 1], done[i])
  /\ \A k \in 1..Len(c.messages) :
       IF k <= n + 3 THEN IsResponse(c, k) /\ MessageOf(c, k)[2] = Ok
       ELSE IsResponse(c, k) \/ IsMedia(c, k, order)

\* Media, once the stream is open.
LEMMA OpenedPlays ==
  ASSUME NEW c, NEW k \in 1..Len(c.messages), IsConversation(c),
         NEW sdp, NEW n, NEW order, NEW kinds, NEW left, NEW done,
         PlaysTracks(c, sdp, n, order, kinds, left, done), IsMedia(c, k, order), NEW tracks
  PROVE  Pass("stream", Left(Opened(Said(c, k - 1), "pump", sdp, tracks, kinds),
                             MessageOf(c, k)))
           = Opened(Said(c, k), "pump", sdp, tracks, kinds)
<1> DEFINE out == Said(c, k - 1)
           l == Opened(out, "pump", sdp, tracks, kinds)
           m == MessageOf(c, k)
           channel == m[2]
           packet == SubSeq(m, 4, Len(m))
           kind == IF channel % 2 = 0 /\ channel \div 2 < Len(order)
                   THEN KindIn(c, order[channel \div 2 + 1]) ELSE "none"
           r == Left(l, m)
<1>1. /\ Len(m) >= 3 /\ m = Interleaved(channel, packet)
      /\ c.messages[k].said = IF kind = "none" \/ RtpPayload(packet) = <<>> THEN out
                              ELSE Append(out, <<kind, RtpPayload(packet)>>)
  BY DEF IsMedia
<1>2. m \in Seq(Nat) /\ Len(m) \in Nat /\ k # 0
  BY MessageTyped
<1>3. channel \in Nat /\ packet \in Seq(Nat)
  <2> HIDE DEF m
  <2>1. 4 \in 1..(Len(m) + 1) /\ Len(m) \in (4 - 1)..Len(m) /\ 2 \in 1..Len(m)
    BY <1>1, <1>2
  <2>2. m[2] \in Nat
    BY <1>2, <2>1
  <2>3. SubSeq(m, 4, Len(m)) \in Seq(Nat)
    BY <1>2, <2>1, SubSeqOf
  <2>4. QED
    BY <2>2, <2>3
<1>4. Said(c, k) = IF kind = "none" \/ RtpPayload(packet) = <<>> THEN out
                   ELSE Append(out, <<kind, RtpPayload(packet)>>)
  <2> HIDE DEF kind, packet, out
  <2>1. QED
    BY <1>1, <1>2 DEF Said
<1>0. /\ n \in Nat /\ order \in [1..n -> Nat] /\ Len(kinds) = n
      /\ \A i \in 1..n : kinds[i] = KindIn(c, order[i])
  BY DEF PlaysTracks
<1>5. Len(order) = n /\ Len(kinds) = n
  BY <1>0
<1>6. /\ IsLoop(l) /\ l.buf = <<>> /\ l.stage = "pump" /\ l.channels = kinds
  <2>1. QED
    BY OpenedIs
<1>7. Says(l, <<kind, RtpPayload(packet)>>)
        = Opened(Append(out, <<kind, RtpPayload(packet)>>), "pump", sdp, tracks, kinds)
  <2> HIDE DEF kind, packet, out
  <2>1. QED
    BY OpenedSays
<1>8. Interleaved(channel, packet) = m
  BY <1>1
<1>k. kind = IF channel % 2 = 0 /\ channel \div 2 < n
             THEN KindIn(c, order[channel \div 2 + 1]) ELSE "none"
  BY <1>5
<1>o. \A i \in 1..n : kinds[i] = KindIn(c, order[i])
  BY <1>0
<1> HIDE DEF packet, m, channel
<1>9. /\ m # <<>> /\ m[1] = Dollar /\ m[2] = channel
      /\ HasInterleaved(m) /\ PayloadOf(m) = packet /\ AfterInterleaved(m) = <<>>
  BY <1>3, <1>8, PacketIs
<1> HIDE DEF kind, out, l, r
<1>10. r.buf = m /\ r.stage = "pump" /\ r.channels = kinds
  BY <1>2, <1>6, LeftIsLoop DEF r
<1>11. KindOf(r, channel) = kind
  <2>1. CASE channel % 2 = 0 /\ channel \div 2 < n
    <3>1. channel \div 2 + 1 \in 1..n
      BY <1>0, <1>3, <2>1
    <3>2. kinds[channel \div 2 + 1] = kind
      BY <1>k, <1>o, <2>1, <3>1
    <3>3. KindOf(r, channel) = kinds[channel \div 2 + 1]
      BY <1>5, <1>10, <2>1 DEF KindOf
    <3>4. QED
      BY <3>2, <3>3
  <2>2. CASE ~ (channel % 2 = 0 /\ channel \div 2 < n)
    BY <1>5, <1>k, <1>10, <2>2 DEF KindOf
  <2>3. QED
    BY <2>1, <2>2
<1>12. Left(r, <<>>) = l
  <2>1. <<>> \in Seq(Nat) /\ m \in Seq(Nat)
    BY <1>2
  <2>2. Left(Left(l, m), <<>>) = Left(l, <<>>)
    BY <1>6, <2>1, LeftTwice
  <2>3. QED
    BY <1>6, <2>2, LeftOwn DEF r
<1>13. Pass("stream", r) = IngestRtpMedia(l, kind, packet)
  <2>1. Pass("stream", r) = Consumes(r)
    BY <1>9, <1>10 DEF Pass, Pump
  <2>2. Consumes(r) = IngestRtpMedia(Left(r, <<>>), KindOf(r, channel), packet)
    BY <1>9, <1>10 DEF Consumes
  <2>3. QED
    BY <1>11, <1>12, <2>1, <2>2
<1>14. CASE kind = "none" \/ RtpPayload(packet) = <<>>
  <2>1. Pass("stream", r) = l /\ Said(c, k) = out
    BY <1>4, <1>13, <1>14 DEF IngestRtpMedia
  <2>2. l = Opened(out, "pump", sdp, tracks, kinds)
    BY DEF l
  <2>3. Pass("stream", r) = Opened(Said(c, k), "pump", sdp, tracks, kinds)
    BY <2>1, <2>2
  <2>4. QED
    BY <2>3 DEF r, l, m, out
<1>15. CASE ~ (kind = "none" \/ RtpPayload(packet) = <<>>)
  <2>1. /\ Pass("stream", r) = Says(l, <<kind, RtpPayload(packet)>>)
        /\ Said(c, k) = Append(out, <<kind, RtpPayload(packet)>>)
    BY <1>4, <1>13, <1>15 DEF IngestRtpMedia
  <2>2. Pass("stream", r) = Opened(Said(c, k), "pump", sdp, tracks, kinds)
    BY <1>7, <2>1
  <2>3. QED
    BY <2>2 DEF r, l, m, out
<1>16. QED
  BY <1>14, <1>15

\* The answers to OPTIONS, DESCRIBE, each SETUP and PLAY.
LEMMA TakesFirst ==
  ASSUME NEW c, NEW k \in 1..Len(c.messages), IsConversation(c), IsResponse(c, k),
         MessageOf(c, k)[2] = Ok
  PROVE  Pass("stream", Left(Opened(Said(c, k - 1), "first", <<>>, {}, <<>>), MessageOf(c, k)))
           = Opened(Said(c, k), "describe", <<>>, {}, <<>>)
<1> DEFINE body == SubSeq(MessageOf(c, k), 6, Len(MessageOf(c, k)))
           out == Said(c, k - 1)
           t == Pass("stream", Left(Opened(out, "first", <<>>, {}, <<>>), MessageOf(c, k)))
<1>1. Said(c, k) = out /\ t = Answered(Opened(out, "first", <<>>, {}, <<>>), Ok, body)
  BY OpenedTakes
<1> HIDE DEF body, out, t
<1>2. Answered(Opened(out, "first", <<>>, {}, <<>>), Ok, body)
        = Opened(out, "describe", <<>>, {}, <<>>)
  BY AnsweredFirst
<1>3. QED
  BY <1>1, <1>2 DEF t, out

LEMMA TakesDescribe ==
  ASSUME NEW c, NEW k \in 1..Len(c.messages), IsConversation(c), IsResponse(c, k),
         MessageOf(c, k)[2] = Ok, NEW body,
         body = SubSeq(MessageOf(c, k), 6, Len(MessageOf(c, k))), ParseSdp(body) # {}
  PROVE  Pass("stream", Left(Opened(Said(c, k - 1), "describe", <<>>, {}, <<>>),
                             MessageOf(c, k)))
           = Opened(Said(c, k), "setup", body, ParseSdp(body), <<>>)
<1> DEFINE out == Said(c, k - 1)
           t == Pass("stream", Left(Opened(out, "describe", <<>>, {}, <<>>), MessageOf(c, k)))
<1>1. Said(c, k) = out /\ t = Answered(Opened(out, "describe", <<>>, {}, <<>>), Ok, body)
  BY OpenedTakes
<1> HIDE DEF out, t
<1>2. Answered(Opened(out, "describe", <<>>, {}, <<>>), Ok, body)
        = Opened(out, "setup", body, ParseSdp(body), <<>>)
  BY AnsweredDescribe
<1>3. QED
  BY <1>1, <1>2 DEF t, out

LEMMA TakesSetup ==
  ASSUME NEW c, NEW k \in 1..Len(c.messages), IsConversation(c), IsResponse(c, k),
         MessageOf(c, k)[2] = Ok, NEW sdp, NEW tracks, NEW channels,
         NEW next, NEW rest, NEW more, SetsUp(sdp, tracks, channels, next, rest, more)
  PROVE  Pass("stream", Left(Opened(Said(c, k - 1), "setup", sdp, tracks, channels),
                             MessageOf(c, k)))
           = Opened(Said(c, k), next, sdp, rest, more)
<1> DEFINE body == SubSeq(MessageOf(c, k), 6, Len(MessageOf(c, k)))
           out == Said(c, k - 1)
           t == Pass("stream", Left(Opened(out, "setup", sdp, tracks, channels),
                                    MessageOf(c, k)))
<1>1. Said(c, k) = out /\ t = Answered(Opened(out, "setup", sdp, tracks, channels), Ok, body)
  BY OpenedTakes
<1> HIDE DEF body, out, t
<1>2. Answered(Opened(out, "setup", sdp, tracks, channels), Ok, body)
        = Opened(out, next, sdp, rest, more)
  BY AnsweredSetup
<1>3. QED
  BY <1>1, <1>2 DEF t, out

LEMMA TakesPlay ==
  ASSUME NEW c, NEW k \in 1..Len(c.messages), IsConversation(c), IsResponse(c, k),
         MessageOf(c, k)[2] = Ok, NEW sdp, NEW tracks, NEW channels
  PROVE  Pass("stream", Left(Opened(Said(c, k - 1), "play", sdp, tracks, channels),
                             MessageOf(c, k)))
           = Opened(Said(c, k), "pump", sdp, tracks, channels)
<1> DEFINE body == SubSeq(MessageOf(c, k), 6, Len(MessageOf(c, k)))
           out == Said(c, k - 1)
           t == Pass("stream", Left(Opened(out, "play", sdp, tracks, channels),
                                    MessageOf(c, k)))
<1>1. Said(c, k) = out /\ t = Answered(Opened(out, "play", sdp, tracks, channels), Ok, body)
  BY OpenedTakes
<1> HIDE DEF body, out, t
<1>2. Answered(Opened(out, "play", sdp, tracks, channels), Ok, body)
        = Opened(out, "pump", sdp, tracks, channels)
  BY AnsweredPlay
<1>3. QED
  BY <1>1, <1>2 DEF t, out

\* What a reader of the whole stream is told, message by message.
LEMMA PlayedAlong ==
  ASSUME NEW c, IsConversation(c), Filled(c),
         NEW sdp, NEW n, NEW order, NEW kinds, NEW left, NEW done,
         PlaysTracks(c, sdp, n, order, kinds, left, done)
  PROVE  \E after : TakenWhole("stream", c, after)
<1> DEFINE N == Len(c.messages)
           at(k) ==
             IF k = 0 THEN Opened(Said(c, k), "first", <<>>, {}, <<>>)
             ELSE IF k = 1 THEN Opened(Said(c, k), "describe", <<>>, {}, <<>>)
             ELSE IF k <= n + 1 THEN Opened(Said(c, k), "setup", sdp, left[k - 1], done[k - 2])
             ELSE IF k = n + 2 THEN Opened(Said(c, k), "play", sdp, left[n + 1], kinds)
             ELSE Opened(Said(c, k), "pump", sdp, left[n + 1], kinds)
           shape == [k \in Nat |-> at(k)]
           t(k) == Pass("stream", Left(at(k - 1), MessageOf(c, k)))
<1>0. /\ sdp = SdpOf(c) /\ n \in Nat /\ n >= 1 /\ order \in [1..n -> Nat]
      /\ Len(kinds) = n /\ (\A i \in 1..n : kinds[i] = KindIn(c, order[i]))
      /\ left[1] = ParseSdp(sdp) /\ ParseSdp(sdp) # {}
      /\ done[0] = <<>> /\ done[n] = kinds
      /\ \A i \in 1..n :
           /\ i # n => SetsUp(sdp, left[i], done[i - 1], "setup", left[i + 1], done[i])
           /\ i = n => SetsUp(sdp, left[i], done[i - 1], "play", left[i + 1], done[i])
  BY DEF PlaysTracks
<1>p. \A k \in 1..N : IF k <= n + 3 THEN IsResponse(c, k) /\ MessageOf(c, k)[2] = Ok
                      ELSE IsResponse(c, k) \/ IsMedia(c, k, order)
  BY DEF PlaysTracks
<1>n. n \in Nat /\ n >= 1
  BY <1>0
<1>s. sdp = SdpOf(c) /\ left[1] = ParseSdp(sdp) /\ ParseSdp(sdp) # {}
      /\ done[0] = <<>> /\ done[n] = kinds
  BY <1>0
<1>1. N \in Nat
  BY DEF IsConversation
<1>2. ASSUME NEW k \in 1..N PROVE t(k) = at(k)
  <2>1. k \in Nat /\ k # 0 /\ k - 1 \in Nat
    BY <1>1
  <2>2. CASE k <= n + 3
    <3>1. IsResponse(c, k) /\ MessageOf(c, k)[2] = Ok
      BY <1>p, <2>2
    <3>2. CASE k = 1
      <4>1. t(k) = Opened(Said(c, k), "describe", <<>>, {}, <<>>)
        <5>1. at(k - 1) = Opened(Said(c, k - 1), "first", <<>>, {}, <<>>)
          BY <3>2
        <5> HIDE DEF at
        <5>2. QED
          BY <3>1, <5>1, TakesFirst
      <4>2. QED
        BY <3>2, <4>1
    <3>3. CASE k = 2
      <4>1. at(k - 1) = Opened(Said(c, k - 1), "describe", <<>>, {}, <<>>)
        BY <3>3
      <4>2. at(k) = Opened(Said(c, k), "setup", sdp, left[1], <<>>)
        <5>1. k # 0 /\ k # 1 /\ k <= n + 1 /\ k - 1 = 1 /\ k - 2 = 0
          BY <1>n, <3>3
        <5>2. QED
          BY <1>s, <5>1
      <4>3. sdp = SubSeq(MessageOf(c, k), 6, Len(MessageOf(c, k)))
        BY <1>s, <3>3 DEF SdpOf
      <4> HIDE DEF at
      <4>4. Pass("stream", Left(Opened(Said(c, k - 1), "describe", <<>>, {}, <<>>),
                                MessageOf(c, k)))
              = Opened(Said(c, k), "setup", sdp, ParseSdp(sdp), <<>>)
        BY <1>s, <3>1, <4>3, TakesDescribe
      <4>5. QED
        BY <1>s, <4>1, <4>2, <4>4
    <3>4. CASE k > 2 /\ k <= n + 2
      <4>1. PICK i \in 1..n : i = k - 2
        BY <1>n, <2>1, <3>4
      <4>2. at(k - 1) = Opened(Said(c, k - 1), "setup", sdp, left[i], done[i - 1])
        <5>1. k - 1 # 0 /\ k - 1 # 1 /\ k - 1 <= n + 1 /\ (k - 1) - 1 = i /\ (k - 1) - 2 = i - 1
          BY <1>n, <2>1, <3>4, <4>1
        <5>2. QED
          BY <5>1
      <4>3. CASE i = n
        <5>1. k = n + 2 /\ k # 1 /\ ~ (k <= n + 1)
          BY <1>n, <2>1, <3>4, <4>1, <4>3
        <5>2. at(k) = Opened(Said(c, k), "play", sdp, left[i + 1], done[i])
          BY <1>s, <2>1, <4>3, <5>1
        <5> HIDE DEF at
        <5>3. SetsUp(sdp, left[i], done[i - 1], "play", left[i + 1], done[i])
          BY <1>0, <4>3
        <5>4. Pass("stream", Left(Opened(Said(c, k - 1), "setup", sdp, left[i], done[i - 1]),
                                  MessageOf(c, k)))
                = Opened(Said(c, k), "play", sdp, left[i + 1], done[i])
          BY <3>1, <5>3, TakesSetup
        <5>5. QED
          BY <4>2, <5>2, <5>4
      <4>4. CASE i # n
        <5>1. k # 0 /\ k # 1 /\ k <= n + 1 /\ k - 1 = i + 1 /\ k - 2 = i
          BY <1>n, <2>1, <3>4, <4>1, <4>4
        <5>2. at(k) = Opened(Said(c, k), "setup", sdp, left[i + 1], done[i])
          BY <5>1
        <5> HIDE DEF at
        <5>3. SetsUp(sdp, left[i], done[i - 1], "setup", left[i + 1], done[i])
          BY <1>0, <4>4
        <5>4. Pass("stream", Left(Opened(Said(c, k - 1), "setup", sdp, left[i], done[i - 1]),
                                  MessageOf(c, k)))
                = Opened(Said(c, k), "setup", sdp, left[i + 1], done[i])
          BY <3>1, <5>3, TakesSetup
        <5>5. QED
          BY <4>2, <5>2, <5>4
      <4>5. QED
        BY <4>3, <4>4
    <3>5. CASE k = n + 3
      <4>1. k - 1 = n + 2 /\ k - 1 # 0 /\ k - 1 # 1 /\ ~ (k - 1 <= n + 1)
            /\ k # 0 /\ k # 1 /\ ~ (k <= n + 1) /\ k # n + 2
        BY <1>n, <3>5
      <4>2. at(k - 1) = Opened(Said(c, k - 1), "play", sdp, left[n + 1], kinds)
        BY <4>1
      <4>3. at(k) = Opened(Said(c, k), "pump", sdp, left[n + 1], kinds)
        BY <4>1
      <4> HIDE DEF at
      <4>4. Pass("stream", Left(Opened(Said(c, k - 1), "play", sdp, left[n + 1], kinds),
                                MessageOf(c, k)))
              = Opened(Said(c, k), "pump", sdp, left[n + 1], kinds)
        BY <3>1, TakesPlay
      <4>5. QED
        BY <4>2, <4>3, <4>4
    <3>6. k = 1 \/ k = 2 \/ (k > 2 /\ k <= n + 2) \/ k = n + 3
      BY <1>n, <2>1, <2>2
    <3>7. QED
      BY <3>2, <3>3, <3>4, <3>5, <3>6
  <2>3. CASE ~ (k <= n + 3)
    <3>1. /\ k - 1 # 0 /\ k - 1 # 1 /\ ~ (k - 1 <= n + 1) /\ k - 1 # n + 2
          /\ k # 0 /\ k # 1 /\ ~ (k <= n + 1) /\ k # n + 2
      BY <1>n, <2>1, <2>3
    <3>2. /\ at(k - 1) = Opened(Said(c, k - 1), "pump", sdp, left[n + 1], kinds)
          /\ at(k) = Opened(Said(c, k), "pump", sdp, left[n + 1], kinds)
      BY <3>1
    <3> HIDE DEF at
    <3>3. Pass("stream", Left(Opened(Said(c, k - 1), "pump", sdp, left[n + 1], kinds),
                              MessageOf(c, k)))
            = Opened(Said(c, k), "pump", sdp, left[n + 1], kinds)
      <4>1. CASE IsResponse(c, k)
        BY <4>1, OpenedTakes
      <4>2. CASE IsMedia(c, k, order)
        BY <4>2, OpenedPlays
      <4>3. QED
        BY <1>p, <2>3, <4>1, <4>2
    <3>4. QED
      BY <3>2, <3>3
  <2>4. QED
    BY <2>2, <2>3
<1>3. shape[0] = Start
  <2>1. Said(c, 0) = <<>>
    BY DEF Said
  <2>2. shape[0] = Opened(<<>>, "first", <<>>, {}, <<>>)
    BY <2>1
  <2>3. QED
    BY <2>2, OpenedStart
<1>4. \A k \in Nat : shape[k] = at(k)
  OBVIOUS
<1>5. ASSUME NEW k \in 1..N PROVE at(k).buf = <<>> /\ at(k).out = Said(c, k)
  <2>1. PICK stage, had, tracks, channels :
          at(k) = Opened(Said(c, k), stage, had, tracks, channels)
    OBVIOUS
  <2> HIDE DEF at
  <2>2. QED
    BY <2>1, OpenedIs
<1> HIDE DEF shape, at
<1>6. ASSUME NEW k \in 1..N
      PROVE  LET p == Pass("stream", Left(shape[k - 1], MessageOf(c, k)))
             IN  p.out = Said(c, k) /\ p = shape[k] /\ p.buf = <<>>
  <2>1. k \in Nat /\ k - 1 \in Nat
    BY <1>1
  <2>2. shape[k] = at(k) /\ shape[k - 1] = at(k - 1)
    BY <1>4, <2>1
  <2>3. QED
    BY <1>2, <1>5, <2>2
<1>7. QED
  BY <1>3, <1>6, TakenInTurn

LEMMA PlayedAreWholeMessages ==
  ASSUME NEW c, IsConversation(c), PlayedStream(c)
  PROVE  \E after : TakenWhole("stream", c, after)
<1> DEFINE N == Len(c.messages)
           sdp == SdpOf(c)
<1>0. PICK n \in 1..Len(sdp) : \E order \in [1..n -> 1..Len(sdp)] :
        /\ ParseSdp(sdp) = {order[i] : i \in 1..n}
        /\ \A i, j \in 1..n : i < j => order[i] < order[j]
        /\ \A k \in 1..N :
             IF k <= n + 3 THEN IsResponse(c, k) /\ MessageOf(c, k)[2] = Ok
             ELSE IsResponse(c, k) \/ IsMedia(c, k, order)
  BY DEF PlayedStream
<1>1. PICK order \in [1..n -> 1..Len(sdp)] :
        /\ ParseSdp(sdp) = {order[i] : i \in 1..n}
        /\ \A i, j \in 1..n : i < j => order[i] < order[j]
        /\ \A k \in 1..N :
             IF k <= n + 3 THEN IsResponse(c, k) /\ MessageOf(c, k)[2] = Ok
             ELSE IsResponse(c, k) \/ IsMedia(c, k, order)
  BY <1>0
<1>2. N \in Nat /\ N >= 2 /\ Filled(c)
  BY DEF PlayedStream, IsConversation
<1>3. sdp \in Seq(Nat) /\ n \in Nat /\ n >= 1 /\ order \in [1..n -> Nat]
  <2>1. 2 \in 1..N
    BY <1>2
  <2> DEFINE m == MessageOf(c, 2)
  <2>2. m \in Seq(Nat) /\ Len(m) \in Nat
    BY <2>1, MessageTyped
  <2>3. IsResponse(c, 2)
    <3>1. 2 <= n + 3
      BY <1>1, <2>2 DEF SdpOf
    <3>2. QED
      BY <1>1, <2>1, <3>1
  <2>4. Len(m) >= 5
    BY <2>3 DEF IsResponse
  <2>5. SubSeq(m, 6, Len(m)) \in Seq(Nat)
    <3> HIDE DEF m
    <3>1. 6 \in 1..(Len(m) + 1) /\ Len(m) \in (6 - 1)..Len(m)
      BY <2>2, <2>4
    <3>2. QED
      BY <2>2, <3>1, SubSeqOf
  <2>6. sdp \in Seq(Nat)
    BY <2>5 DEF SdpOf
  <2> HIDE DEF sdp
  <2>7. QED
    BY <1>1, <2>6
<1> DEFINE S == {KindIn(c, track) : track \in 1..Len(sdp)}
           kinds == [i \in 1..n |-> KindIn(c, order[i])]
           left == [j \in 1..(n + 1) |-> {order[e] : e \in j..n}]
           done == [j \in 0..n |-> SubSeq(kinds, 1, j)]
<1>8. kinds \in Seq(S) /\ Len(kinds) = n /\ \A i \in 1..n : kinds[i] = KindIn(c, order[i])
  <2>1. \A i \in 1..n : KindIn(c, order[i]) \in S
    BY <1>1
  <2> HIDE DEF S
  <2>2. QED
    BY <1>3, <2>1
<1>9. left[1] = ParseSdp(sdp) /\ ParseSdp(sdp) # {}
  <2>1. left[1] = {order[e] : e \in 1..n}
    BY <1>3
  <2>2. order[1] \in {order[e] : e \in 1..n}
    BY <1>3
  <2>3. QED
    BY <1>1, <2>1, <2>2
<1>10. ASSUME NEW i \in 1..n
       PROVE  /\ LowestOf(left[i]) = order[i]
              /\ left[i] \ {order[i]} = left[i + 1]
              /\ left[i] = {order[i]} <=> i = n
  <2>1. \A e \in 1..n : order[e] \in Nat
    BY <1>3
  <2>2. \A a, b \in 1..n : a < b => order[a] < order[b]
    BY <1>1
  <2>3. left[i] = {order[e] : e \in i..n} /\ left[i + 1] = {order[e] : e \in (i + 1)..n}
    <3>1. i \in 1..(n + 1) /\ i + 1 \in 1..(n + 1)
      BY <1>3
    <3>2. QED
      BY <3>1
  <2> HIDE DEF left
  <2>4. /\ LowestOf({order[e] : e \in i..n}) = order[i]
        /\ {order[e] : e \in i..n} \ {order[i]} = {order[e] : e \in (i + 1)..n}
        /\ {order[e] : e \in i..n} = {order[i]} <=> i = n
    BY <1>3, <2>1, <2>2, TracksLeft
  <2>5. QED
    BY <2>3, <2>4
<1>11. ASSUME NEW i \in 1..n
       PROVE  Append(done[i - 1], KindIn(c, order[i])) = done[i]
  <2> HIDE DEF kinds, S
  <2>1. PICK j \in Nat : j = i - 1
    BY <1>3
  <2>2. j < Len(kinds) /\ j + 1 = i /\ i \in 0..n /\ j \in 0..n
    BY <1>3, <1>8, <2>1
  <2>3. Append(SubSeq(kinds, 1, j), kinds[j + 1]) = SubSeq(kinds, 1, j + 1)
    BY <1>8, <2>2, OneMore
  <2>4. done[i - 1] = SubSeq(kinds, 1, j) /\ done[i] = SubSeq(kinds, 1, j + 1)
    BY <2>1, <2>2
  <2>5. kinds[j + 1] = KindIn(c, order[i])
    BY <1>8, <2>2
  <2>6. QED
    BY <2>3, <2>4, <2>5
<1>12. done[0] = <<>> /\ done[n] = kinds
  <2> HIDE DEF kinds, S
  <2>1. SubSeq(kinds, 1, 0) = <<>>
    BY <1>8
  <2>2. SubSeq(kinds, 1, n) = kinds
    BY <1>3, <1>8
  <2>3. QED
    BY <1>3, <2>1, <2>2
<1>13. sdp = SdpOf(c)
  OBVIOUS
<1>14. \A k \in 1..Len(c.messages) :
         IF k <= n + 3 THEN IsResponse(c, k) /\ MessageOf(c, k)[2] = Ok
         ELSE IsResponse(c, k) \/ IsMedia(c, k, order)
  BY <1>1
<1>15. ASSUME NEW i \in 1..n
       PROVE  SetsUp(sdp, left[i], done[i - 1], IF i = n THEN "play" ELSE "setup",
                     left[i + 1], done[i])
  <2> HIDE DEF left, done, kinds
  <2>1. KindIn(c, order[i]) = MediaSection[sdp[order[i]]].kind
    BY DEF KindIn
  <2> HIDE DEF sdp
  <2>2. QED
    BY <1>10, <1>11, <2>1 DEF SetsUp
<1> HIDE DEF left, done, kinds, sdp
<1>16. PlaysTracks(c, sdp, n, order, kinds, left, done)
  <2>1. n \in Nat /\ n >= 1 /\ order \in [1..n -> Nat]
    BY <1>3
  <2>2. Len(kinds) = n /\ (\A i \in 1..n : kinds[i] = KindIn(c, order[i]))
    BY <1>8
  <2>3. \A i \in 1..n :
          /\ i # n => SetsUp(sdp, left[i], done[i - 1], "setup", left[i + 1], done[i])
          /\ i = n => SetsUp(sdp, left[i], done[i - 1], "play", left[i + 1], done[i])
    BY <1>15
  <2>4. QED
    BY <1>9, <1>12, <1>13, <1>14, <2>1, <2>2, <2>3 DEF PlaysTracks
<1>17. QED
  BY <1>2, <1>16, PlayedAlong

\* What the relay sends the bridge, in any chunks: the packets of each track it
\* set up are told apart from the answers to keepalives, and each is taken once
\* and whole (RelayStream._pump).
THEOREM PlayedIsToldApart ==
  Spec => [](lane = "stream" /\ PlayedStream(sent) => MediaSurvives)
<1>1. TypeOK /\ lane = "stream" /\ PlayedStream(sent) => WholeMessages
  BY PlayedAreWholeMessages DEF TypeOK, WholeMessages
<1>2. TypeOK /\ (WholeMessages => MediaSurvives)
        => (lane = "stream" /\ PlayedStream(sent) => MediaSurvives)
  BY <1>1
<1>3. QED
  BY <1>2, LoopsAreTyped, MediaIsToldApart, PTL

=============================================================================
