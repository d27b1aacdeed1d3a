---------------------------- MODULE RelayServer ----------------------------
(***************************************************************************)
(* The local RTSP relay (ziot_relay.py) for one camera: a thread per       *)
(* connection, either the camera's (ANNOUNCE, RECORD, then media it fans   *)
(* out to its session's readers) or a reader's (DESCRIBE, PLAY, the        *)
(* session's buffer, then media until it leaves).  They share the sessions *)
(* dictionary, each session's list of readers and its buffer, under locks  *)
(* that are held for one access, and each reader's socket, under a lock    *)
(* that is held for one write of media: a write takes the lock, blocks     *)
(* until the reader's end has room or the socket's timeout is over, and    *)
(* gives the lock back either way.                                         *)
(***************************************************************************)
EXTENDS Integers

CONSTANTS
  Pubs,        \* the camera's connections, each with its session (bound)
  Readers,     \* the readers' connections (bound)
  None,        \* no session
  Ring,        \* BUFFER_PACKETS
  MaxPackets   \* bound: packets the camera sends on one connection

ASSUME RelayAssumption ==
  /\ None \notin Pubs
  /\ Ring \in Nat \ {0} /\ MaxPackets \in Nat

VARIABLES
  cur,         \* sessions[uid]
  latest,      \* history: the last connection that announced itself
  pubAt,       \* where each camera connection's thread is
  count,       \* session.packets; the last Ring of them are session.buffer
  regs,        \* session.readers
  todo,        \* the readers a publish has still to write its packet to
  turn,        \* the one of them it is at
  at,          \* where each reader's thread is
  sess,        \* the session it looked up
  passes,      \* calls of flush_to still to come
  queue,       \* what the current one has still to send
  lock,        \* who holds reader.lock: nobody, a fan-out, the reader's thread
  extra,       \* a request that came along with PLAY is in its buffer
  peer,        \* the reader's end: open, slow (its buffer full), closed
  got,         \* the packets the reader has read
  lost         \* a write has not reached it whole

pubVars == <<cur, latest, pubAt, count, todo, turn>>
peerVars == <<extra, peer, got, lost>>
vars == <<cur, latest, pubAt, count, regs, todo, turn, at, sess, passes, queue,
          lock, extra, peer, got, lost>>

-----------------------------------------------------------------------------
PubPlaces == {"off", "announce", "ready", "pump", "fan", "wait", "write",
              "ending", "gone"}

\* Inside publish: between two readers, at a reader's lock, holding it.
Fanning == {"fan", "wait", "write"}

ReaderPlaces == {"off", "talk", "respond", "copy", "send", "serve",
                 "unregister", "leave", "gone"}

TypeOK ==
  /\ cur \in Pubs \cup {None} /\ latest \in Pubs \cup {None}
  /\ pubAt \in [Pubs -> PubPlaces]
  /\ count \in [Pubs -> 0..MaxPackets]
  /\ regs \in [Pubs -> SUBSET Readers] /\ todo \in [Pubs -> SUBSET Readers]
  /\ turn \in [Pubs -> Readers \cup {None}]
  /\ at \in [Readers -> ReaderPlaces]
  /\ lock \in [Readers -> {"free", "fan", "reader"}]
  /\ sess \in [Readers -> Pubs \cup {None}]
  /\ passes \in [Readers -> 0..2]
  /\ queue \in [Readers -> SUBSET (1..MaxPackets)]
  /\ extra \in [Readers -> BOOLEAN]
  /\ peer \in [Readers -> {"open", "slow", "closed"}]
  /\ got \in [Readers -> SUBSET (1..MaxPackets)]
  /\ lost \in [Readers -> BOOLEAN]

Init ==
  /\ cur = None /\ latest = None
  /\ pubAt = [p \in Pubs |-> "off"]
  /\ count = [p \in Pubs |-> 0]
  /\ regs = [p \in Pubs |-> {}] /\ todo = [p \in Pubs |-> {}]
  /\ turn = [p \in Pubs |-> None]
  /\ at = [r \in Readers |-> "off"]
  /\ lock = [r \in Readers |-> "free"]
  /\ sess = [r \in Readers |-> None]
  /\ passes = [r \in Readers |-> 0]
  /\ queue = [r \in Readers |-> {}]
  /\ extra = [r \in Readers |-> FALSE]
  /\ peer = [r \in Readers |-> "open"]
  /\ got = [r \in Readers |-> {}]
  /\ lost = [r \in Readers |-> FALSE]

\* session.buffer after n packets.
Buffer(n) == {k \in 1..n : k > n - Ring}

PubGoes(p, place) == pubAt' = [pubAt EXCEPT ![p] = place]
Goes(r, place) == at' = [at EXCEPT ![r] = place]
Free(r) == lock' = [lock EXCEPT ![r] = "free"]

\* Whether sendall returns or raises: it raises at the socket's timeout, maybe
\* in mid-frame, and sooner or later on a connection the reader has closed.
Sent(r) == CASE peer[r] = "open"   -> {TRUE}
             [] peer[r] = "slow"   -> {FALSE}
             [] peer[r] = "closed" -> BOOLEAN

\* What comes of one packet on the reader's socket.
Write(r, k) ==
  IF peer[r] = "open"
  THEN got' = [got EXCEPT ![r] = @ \cup {k}] /\ UNCHANGED lost
  ELSE lost' = [lost EXCEPT ![r] = TRUE] /\ UNCHANGED got

-----------------------------------------------------------------------------
(* The camera's side.                                                      *)

\* ANNOUNCE, its body read: the session is published before the answer.
Announce(p) ==
  /\ pubAt[p] = "off"
  /\ PubGoes(p, "announce")
  /\ cur' = p /\ latest' = p
  /\ UNCHANGED <<count, regs, todo, turn, at, sess, passes, queue, lock,
                 peerVars>>

AnnounceAnswered(p) ==
  /\ pubAt[p] = "announce"
  /\ PubGoes(p, "ready")
  /\ UNCHANGED <<cur, latest, count, regs, todo, turn, at, sess, passes, queue,
                 lock, peerVars>>

\* The answer cannot be sent: the thread ends outside the try, and the
\* session stays published.
AnnounceFails(p) ==
  /\ pubAt[p] = "announce"
  /\ PubGoes(p, "gone")
  /\ UNCHANGED <<cur, latest, count, regs, todo, turn, at, sess, passes, queue,
                 lock, peerVars>>

Record(p) ==
  /\ pubAt[p] = "ready"
  /\ PubGoes(p, "pump")
  /\ UNCHANGED <<cur, latest, count, regs, todo, turn, at, sess, passes, queue,
                 lock, peerVars>>

\* TEARDOWN, or the camera's connection is lost.
PublisherLoopEnds(p) ==
  /\ pubAt[p] \in {"ready", "pump"}
  /\ PubGoes(p, "ending")
  /\ UNCHANGED <<cur, latest, count, regs, todo, turn, at, sess, passes, queue,
                 lock, peerVars>>

\* Mutant of Publish: the packet goes to the readers that are past their
\* flush, so as not to send it twice.
MutPublishToServed(p) ==
  /\ pubAt[p] = "pump" /\ count[p] < MaxPackets
  /\ count' = [count EXCEPT ![p] = @ + 1]
  /\ todo' = [todo EXCEPT ![p] = {r \in regs[p] : at[r] = "serve"}]
  /\ PubGoes(p, "fan")
  /\ UNCHANGED <<cur, latest, regs, turn, at, sess, passes, queue, lock,
                 peerVars>>

\* A packet into the buffer, and the readers of that moment, under the lock.
Publish(p) ==
  /\ pubAt[p] = "pump" /\ count[p] < MaxPackets
  /\ count' = [count EXCEPT ![p] = @ + 1]
  /\ todo' = [todo EXCEPT ![p] = regs[p]]
  /\ PubGoes(p, "fan")
  /\ UNCHANGED <<cur, latest, regs, turn, at, sess, passes, queue, lock,
                 peerVars>>

\* Without the session's lock: the next reader of the list ...
FanOut(p) ==
  /\ pubAt[p] = "fan"
  /\ \E r \in todo[p] : turn' = [turn EXCEPT ![p] = r]
  /\ PubGoes(p, "wait")
  /\ UNCHANGED <<cur, latest, count, regs, todo, at, sess, passes, queue, lock,
                 peerVars>>

\* ... its lock, which its thread may hold ...
FanOutTakes(p) ==
  /\ pubAt[p] = "wait" /\ lock[turn[p]] = "free"
  /\ lock' = [lock EXCEPT ![turn[p]] = "fan"]
  /\ PubGoes(p, "write")
  /\ UNCHANGED <<cur, latest, count, regs, todo, turn, at, sess, passes, queue,
                 peerVars>>

\* ... and the write, whatever comes of it.
FanOutWrites(p) ==
  /\ pubAt[p] = "write"
  /\ Write(turn[p], count[p]) /\ Free(turn[p])
  /\ todo' = [todo EXCEPT ![p] = @ \ {turn[p]}]
  /\ turn' = [turn EXCEPT ![p] = None]
  /\ PubGoes(p, "fan")
  /\ UNCHANGED <<cur, latest, count, regs, at, sess, passes, queue, extra,
                 peer>>

FanOutEnds(p) ==
  /\ pubAt[p] = "fan" /\ todo[p] = {}
  /\ PubGoes(p, "pump")
  /\ UNCHANGED <<cur, latest, count, regs, todo, turn, at, sess, passes, queue,
                 lock, peerVars>>

\* Mutant of Unpublish: whatever session is published goes.
MutUnpublishAny(p) ==
  /\ pubAt[p] = "ending"
  /\ PubGoes(p, "gone")
  /\ cur' = None
  /\ UNCHANGED <<latest, count, regs, todo, turn, at, sess, passes, queue, lock,
                 peerVars>>

Unpublish(p) ==
  /\ pubAt[p] = "ending"
  /\ PubGoes(p, "gone")
  /\ cur' = IF cur = p THEN None ELSE cur
  /\ UNCHANGED <<latest, count, regs, todo, turn, at, sess, passes, queue, lock,
                 peerVars>>

HandleAnnounce(p) ==
  \/ AnnounceAnswered(p) \/ AnnounceFails(p)
  \/ FanOut(p) \/ FanOutTakes(p) \/ FanOutWrites(p) \/ FanOutEnds(p)
  \/ Unpublish(p)

-----------------------------------------------------------------------------
(* The reader's side.                                                      *)

\* Its first request: OPTIONS goes on with or without a session ...
FirstOptions(r) ==
  /\ at[r] = "off"
  /\ sess' = [sess EXCEPT ![r] = cur]
  /\ Goes(r, "talk")
  /\ UNCHANGED <<pubVars, regs, passes, queue, lock, peerVars>>

\* ... DESCRIBE only with one, and nothing else is served.
FirstDescribe(r) ==
  /\ at[r] = "off"
  /\ sess' = [sess EXCEPT ![r] = cur]
  /\ Goes(r, IF cur = None THEN "gone" ELSE "talk")
  /\ UNCHANGED <<pubVars, regs, passes, queue, lock, peerVars>>

FirstOther(r) ==
  /\ at[r] = "off"
  /\ Goes(r, "gone")
  /\ UNCHANGED <<pubVars, regs, sess, passes, queue, lock, peerVars>>

\* A session once found is kept, whoever publishes now.
Describe(r) ==
  /\ at[r] = "talk"
  /\ LET found == IF sess[r] = None THEN cur ELSE sess[r]
     IN  /\ sess' = [sess EXCEPT ![r] = found]
         /\ Goes(r, IF found = None THEN "leave" ELSE "talk")
  /\ UNCHANGED <<pubVars, regs, passes, queue, lock, peerVars>>

\* TEARDOWN, PLAY without a session, a closed connection, 30 idle seconds.
TalkEnds(r) ==
  /\ at[r] = "talk"
  /\ Goes(r, "leave")
  /\ UNCHANGED <<pubVars, regs, sess, passes, queue, lock, peerVars>>

\* PLAY: registered before it is answered.
Play(r) ==
  /\ at[r] = "talk" /\ sess[r] # None
  /\ regs' = [regs EXCEPT ![sess[r]] = @ \cup {r}]
  /\ extra' \in {[extra EXCEPT ![r] = b] : b \in BOOLEAN}
  /\ Goes(r, "respond")
  /\ UNCHANGED <<pubVars, sess, passes, queue, lock, peer, got, lost>>

\* The answer to PLAY, without the lock.  If it fails, the finally looks for the
\* reader under the id of its socket, and leaves it in the session.
Respond(r) ==
  /\ at[r] = "respond"
  /\ \/ /\ TRUE \in Sent(r)
        /\ Goes(r, "copy") /\ passes' = [passes EXCEPT ![r] = 2]
     \/ /\ FALSE \in Sent(r)
        /\ Goes(r, "leave") /\ UNCHANGED passes
  /\ UNCHANGED <<pubVars, regs, sess, queue, lock, peerVars>>

\* flush_to, called twice: the buffer under the session's lock ...
FlushCopies(r) ==
  /\ at[r] = "copy"
  /\ queue' = [queue EXCEPT ![r] = Buffer(count[sess[r]])]
  /\ passes' = [passes EXCEPT ![r] = @ - 1]
  /\ Goes(r, "send")
  /\ UNCHANGED <<pubVars, regs, sess, lock, peerVars>>

\* ... and then its packets in order, each under the reader's lock, as is an
\* answer of _serve_media.
TakesLock(r) ==
  /\ (at[r] = "send" /\ queue[r] # {}) \/ (at[r] = "serve" /\ extra[r])
  /\ lock[r] = "free"
  /\ lock' = [lock EXCEPT ![r] = "reader"]
  /\ UNCHANGED <<pubVars, regs, at, sess, passes, queue, peerVars>>

\* A packet is written, or the rest given up.
FlushWrites(r) ==
  /\ at[r] = "send"
  /\ \E k \in queue[r] :
       /\ \A m \in queue[r] : k <= m
       /\ Write(r, k)
       /\ \E ok \in Sent(r) :
            queue' = [queue EXCEPT ![r] = IF ok THEN @ \ {k} ELSE {}]
  /\ UNCHANGED <<pubVars, regs, at, sess, passes, extra, peer>>

\* Mutant of FlushSends: the return on a failure leaves the lock taken.
MutFlushKeepsLock(r) ==
  /\ lock[r] = "reader" /\ FlushWrites(r)
  /\ IF peer[r] = "open" THEN Free(r) ELSE UNCHANGED lock

FlushSends(r) == lock[r] = "reader" /\ FlushWrites(r) /\ Free(r)

\* Mutant of FlushEnds: one flush too many.
MutFlushEndsLate(r) ==
  /\ at[r] = "send" /\ queue[r] = {}
  /\ Goes(r, IF passes[r] < 0 THEN "serve" ELSE "copy")
  /\ UNCHANGED <<pubVars, regs, sess, passes, queue, lock, peerVars>>

FlushEnds(r) ==
  /\ at[r] = "send" /\ queue[r] = {}
  /\ Goes(r, IF passes[r] = 0 THEN "serve" ELSE "copy")
  /\ UNCHANGED <<pubVars, regs, sess, passes, queue, lock, peerVars>>

\* _serve_media answers what is in its buffer, which it never fills.
ServeAnswers(r) ==
  /\ at[r] = "serve" /\ extra[r] /\ lock[r] = "reader" /\ Free(r)
  /\ extra' = [extra EXCEPT ![r] = FALSE]
  /\ \E ok \in Sent(r) : Goes(r, IF ok THEN "serve" ELSE "unregister")
  /\ UNCHANGED <<pubVars, regs, sess, passes, queue, peer, got, lost>>

Unregister(r) ==
  /\ at[r] = "unregister"
  /\ regs' = [regs EXCEPT ![sess[r]] = @ \ {r}]
  /\ Goes(r, "leave")
  /\ UNCHANGED <<pubVars, sess, passes, queue, lock, peerVars>>

\* The socket is closed.
Leave(r) ==
  /\ at[r] = "leave"
  /\ peer' = [peer EXCEPT ![r] = "closed"]
  /\ Goes(r, "gone")
  /\ UNCHANGED <<pubVars, regs, sess, passes, queue, lock, extra, got,
                 lost>>

ReaderContinue(r) ==
  \/ Respond(r) \/ FlushCopies(r) \/ TakesLock(r) \/ FlushSends(r)
  \/ FlushEnds(r) \/ ServeAnswers(r) \/ Unregister(r) \/ Leave(r)

-----------------------------------------------------------------------------
(* The reader's end of the connection.                                     *)

PeerStalls(r) ==
  /\ peer[r] = "open" /\ at[r] # "off"
  /\ peer' = [peer EXCEPT ![r] = "slow"]
  /\ UNCHANGED <<pubVars, regs, at, sess, passes, queue, lock, extra, got,
                 lost>>

PeerReads(r) ==
  /\ peer[r] = "slow"
  /\ peer' = [peer EXCEPT ![r] = "open"]
  /\ UNCHANGED <<pubVars, regs, at, sess, passes, queue, lock, extra, got,
                 lost>>

PeerCloses(r) ==
  /\ peer[r] # "closed" /\ at[r] # "off"
  /\ peer' = [peer EXCEPT ![r] = "closed"]
  /\ UNCHANGED <<pubVars, regs, at, sess, passes, queue, lock, extra, got,
                 lost>>

-----------------------------------------------------------------------------
Publisher(p) ==
  \/ HandleAnnounce(p)
  \/ Announce(p) \/ Record(p) \/ PublisherLoopEnds(p) \/ Publish(p)

Reader(r) ==
  \/ ReaderContinue(r)
  \/ FirstOptions(r) \/ FirstDescribe(r) \/ FirstOther(r)
  \/ Describe(r) \/ TalkEnds(r) \/ Play(r)

Peer(r) == PeerStalls(r) \/ PeerReads(r) \/ PeerCloses(r)

Next ==
  \/ \E p \in Pubs : Publisher(p)
  \/ \E r \in Readers : Reader(r) \/ Peer(r)

Spec == Init /\ [][Next]_vars

\* Threads are scheduled, and a write ends at the socket's timeout.  Nothing
\* is assumed of the camera or of the readers.
FairSpec ==
  /\ Spec
  /\ \A p \in Pubs : WF_vars(HandleAnnounce(p))
  /\ \A r \in Readers : WF_vars(ReaderContinue(r))

-----------------------------------------------------------------------------
(* Properties.                                                             *)

\* What reader r of session p has, or will be written in the fan-out under
\* way.
Has(r, p) == got[r] \cup (IF r \in todo[p] THEN {count[p]} ELSE {})

\* _reader_continue: "register the reader before answering, so a publisher
\* already streaming cannot lose its first packets", and a late reader "is
\* served from the buffer".  However the registration, the two flushes and the
\* fan-out interleave, a reader whose writes succeed starts with a packet of
\* its past and has every later one: buffer and live media meet without a gap.
NoGap ==
  \A r \in Readers :
    at[r] = "serve" /\ ~lost[r] =>
      LET p == sess[r]
      IN  /\ count[p] > 0 => Has(r, p) # {}
          /\ \A k \in Has(r, p) : k..count[p] \subseteq Has(r, p)

\* "One publisher per camera": the connection the camera announced last is the
\* one readers are given, until it ends.  The end of an older one, however
\* late, does not take it away.
LatestIsPublished ==
  latest # None /\ pubAt[latest] # "gone" => cur = latest

\* A reader that does not read costs the camera a timeout a packet, no more:
\* every fan-out comes to its end, although it waits for locks that the threads
\* of its readers hold while they write to readers that do not read either.
FanOutDone == \A p \in Pubs : pubAt[p] \in Fanning ~> pubAt[p] \notin Fanning

=============================================================================
