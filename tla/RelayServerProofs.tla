------------------------- MODULE RelayServerProofs -------------------------
(***************************************************************************)
(* What holds of RelayServer for any number of connections and readers,    *)
(* any ring and any number of packets: the type invariant, that a served   *)
(* reader misses nothing, and that the latest publisher is the one given.  *)
(***************************************************************************)
EXTENDS RelayServer, TLAPS

\* Registered in its session, and past the answer to PLAY or about to send it.
Playing == {"respond", "copy", "send", "serve"}

\* What a playing reader has, is being sent by the fan-out, or will be sent by
\* the flush under way.
Due(r) == Has(r, sess[r]) \cup queue[r]

\* A reader is in the list of the session it looked up, and in no other; the
\* fan-out of a session writes to its readers only, what it writes is a packet,
\* and it ends before the next one is published.
RegisteredInv ==
  /\ \A r \in Readers :
       at[r] \in Playing \cup {"unregister"} =>
         sess[r] \in Pubs /\ r \in regs[sess[r]]
  /\ \A p \in Pubs : \A r \in Readers :
       r \in regs[p] \cup todo[p] => sess[r] = p /\ at[r] \notin {"off", "talk"}
  /\ \A p \in Pubs : pubAt[p] \notin Fanning => todo[p] = {}
  /\ \A p \in Pubs : pubAt[p] \in Fanning => count[p] > 0
  /\ \A p \in Pubs : pubAt[p] \in {"wait", "write"} => turn[p] \in todo[p]

\* The flushes to come, and what is read before the first.
FlushInv ==
  \A r \in Readers :
    /\ at[r] \in {"off", "talk"} => got[r] = {}
    /\ at[r] # "send" => queue[r] = {}
    /\ at[r] = "copy" => passes[r] \in 1..2
    /\ at[r] = "send" => passes[r] \in 0..1

\* What is due to a reader has no gap up to the packet published last.
UpwardInv ==
  \A r \in Readers :
    at[r] \in Playing /\ ~lost[r] =>
      \A k \in Due(r) : k..count[sess[r]] \subseteq Due(r)

\* From its first copy of the buffer on, something is due to a reader.
StartedInv ==
  \A r \in Readers :
    /\ at[r] \in {"send", "serve"} \/ (at[r] = "copy" /\ passes[r] = 1)
    /\ ~lost[r] /\ count[sess[r]] > 0
    => Due(r) # {}

\* The inductive invariant.
RelayInv == TypeOK /\ RegisteredInv /\ FlushInv /\ UpwardInv /\ StartedInv

-----------------------------------------------------------------------------
\* A relay that has just started has no publisher and no reader.
LEMMA RelayInit == Init => RelayInv
<1> SUFFICES ASSUME Init PROVE RelayInv
  OBVIOUS
<1> USE RelayAssumption DEF Init
<1>1. TypeOK
  <2>1. extra \in [Readers -> BOOLEAN] /\ lost \in [Readers -> BOOLEAN]
    BY Zenon
  <2>2. QED
    BY <2>1 DEF TypeOK, PubPlaces, ReaderPlaces
<1>2. RegisteredInv /\ FlushInv
  BY DEF RegisteredInv, FlushInv, Playing, Fanning
<1>3. UpwardInv /\ StartedInv
  BY DEF UpwardInv, StartedInv, Playing
<1>4. QED
  BY <1>1, <1>2, <1>3 DEF RelayInv

\* The ring is made of packets, and holds the last one.
LEMMA BufferEnds ==
  ASSUME NEW n \in 0..MaxPackets
  PROVE  /\ Buffer(n) \subseteq 1..MaxPackets
         /\ \A k \in Buffer(n) : k..n \subseteq Buffer(n)
         /\ n > 0 => n \in Buffer(n)
BY RelayAssumption DEF Buffer

\* The camera's side, but for the media, leaves the readers alone, and so does
\* the fan-out on its way to a write.
LEMMA RelayAnnounce ==
  ASSUME RelayInv, NEW p \in Pubs,
         \/ Announce(p) \/ AnnounceAnswered(p) \/ AnnounceFails(p) \/ Record(p)
         \/ PublisherLoopEnds(p) \/ FanOut(p) \/ FanOutTakes(p)
         \/ FanOutEnds(p) \/ Unpublish(p)
  PROVE  RelayInv'
<1> DEFINE Places == /\ pubAt' \in [Pubs -> PubPlaces]
                     /\ turn' \in [Pubs -> Readers \cup {None}]
                     /\ lock' \in [Readers -> {"free", "fan", "reader"}]
           Fans(q) == /\ pubAt'[q] \notin Fanning => todo[q] = {}
                      /\ pubAt'[q] \in Fanning => count[q] > 0
                      /\ pubAt'[q] \in {"wait", "write"} => turn'[q] \in todo[q]
<1>1. /\ UNCHANGED <<count, regs, todo, at, sess, passes, queue, extra, peer,
                     got, lost>>
      /\ cur' \in Pubs \cup {None} /\ latest' \in Pubs \cup {None}
  BY DEF RelayInv, TypeOK, peerVars, Announce, AnnounceAnswered, AnnounceFails,
         Record, PublisherLoopEnds, FanOut, FanOutTakes, FanOutEnds, Unpublish
<1>2. Places /\ \A q \in Pubs : Fans(q)
  <2>1. CASE FanOut(p)
    BY <2>1 DEF RelayInv, TypeOK, RegisteredInv, PubGoes, PubPlaces, Fanning,
                FanOut, peerVars
  <2>2. CASE FanOutTakes(p)
    BY <2>2 DEF RelayInv, TypeOK, RegisteredInv, PubGoes, PubPlaces, Fanning,
                FanOutTakes, peerVars
  <2>3. CASE ~FanOut(p) /\ ~FanOutTakes(p)
    BY <2>3 DEF RelayInv, TypeOK, RegisteredInv, PubGoes, PubPlaces, Fanning,
                Announce, AnnounceAnswered, AnnounceFails, Record,
                PublisherLoopEnds, FanOutEnds, Unpublish, peerVars
  <2>4. QED
    BY <2>1, <2>2, <2>3
<1>3. TypeOK'
  BY <1>1, <1>2 DEF RelayInv, TypeOK
<1>4. RegisteredInv' /\ FlushInv'
  BY <1>1, <1>2 DEF RelayInv, RegisteredInv, FlushInv
<1>5. UpwardInv' /\ StartedInv'
  BY <1>1 DEF RelayInv, UpwardInv, StartedInv, Due, Has
<1>6. QED
  BY <1>3, <1>4, <1>5 DEF RelayInv

\* A packet is due to every reader registered when it enters the buffer.
LEMMA RelayPublish ==
  ASSUME RelayInv, NEW p \in Pubs, Publish(p)
  PROVE  RelayInv'
<1> USE RelayAssumption
<1>1. /\ count[p] \in 0..MaxPackets /\ count[p] < MaxPackets
      /\ count' = [count EXCEPT ![p] = count[p] + 1]
      /\ todo' = [todo EXCEPT ![p] = regs[p]]
      /\ pubAt[p] = "pump" /\ pubAt' = [pubAt EXCEPT ![p] = "fan"]
      /\ UNCHANGED <<cur, latest, regs, turn, at, sess, passes, queue, lock,
                     extra, peer, got, lost>>
  BY DEF RelayInv, TypeOK, Publish, PubGoes, peerVars
<1>2. TypeOK'
  BY <1>1 DEF RelayInv, TypeOK, PubPlaces
<1>3. RegisteredInv' /\ FlushInv'
  BY <1>1 DEF RelayInv, RegisteredInv, FlushInv, TypeOK, Fanning
<1>4. ASSUME NEW r \in Readers, at[r] \in Playing, ~lost[r],
             \A k \in Due(r) : k..count[sess[r]] \subseteq Due(r)
      PROVE  /\ \A k \in Due(r)' : k..count'[sess[r]] \subseteq Due(r)'
             /\ Due(r) \subseteq Due(r)'
             /\ sess[r] = p => Due(r)' # {}
  <2>1. sess[r] \in Pubs /\ r \in regs[sess[r]]
    BY <1>4 DEF RelayInv, RegisteredInv
  <2>2. CASE sess[r] # p
    <3>1. Due(r)' = Due(r) /\ count'[sess[r]] = count[sess[r]]
      BY <1>1, <2>1, <2>2 DEF Due, Has, RelayInv, TypeOK
    <3>2. QED
      BY <1>4, <2>2, <3>1
  <2>3. CASE sess[r] = p
    <3>1. Due(r) = got[r] \cup queue[r]
      BY <1>1, <2>3 DEF Due, Has, RelayInv, RegisteredInv, Fanning
    <3>2. Due(r)' = Due(r) \cup {count[p] + 1}
      BY <1>1, <2>1, <2>3, <3>1 DEF Due, Has, RelayInv, TypeOK
    <3>3. count'[p] = count[p] + 1
      BY <1>1 DEF RelayInv, TypeOK
    <3>4. Due(r) \subseteq Int
      BY <3>1 DEF RelayInv, TypeOK
    <3>5. QED
      BY <1>1, <1>4, <2>3, <3>2, <3>3, <3>4
  <2>4. QED
    BY <2>2, <2>3
<1>5. UpwardInv'
  BY <1>1, <1>4 DEF RelayInv, UpwardInv
<1>6. StartedInv'
  <2> SUFFICES ASSUME NEW r \in Readers,
                      \/ at[r] \in {"send", "serve"}
                      \/ at[r] = "copy" /\ passes[r] = 1,
                      ~lost[r], count'[sess[r]] > 0
               PROVE  Due(r)' # {}
    BY <1>1 DEF StartedInv
  <2>1. at[r] \in Playing
    BY DEF Playing
  <2>2. sess[r] \in Pubs
    BY <2>1 DEF RelayInv, RegisteredInv
  <2>3. sess[r] = p => Due(r)' # {}
    BY <1>4, <2>1 DEF RelayInv, UpwardInv
  <2>4. sess[r] # p => Due(r) # {}
    BY <1>1, <2>2 DEF RelayInv, StartedInv, TypeOK
  <2>5. QED
    BY <1>4, <2>1, <2>3, <2>4 DEF RelayInv, UpwardInv
<1>7. QED
  BY <1>2, <1>3, <1>5, <1>6 DEF RelayInv

\* A write of the fan-out turns a packet that is due into one that is read.
LEMMA RelayFanOut ==
  ASSUME RelayInv, NEW p \in Pubs, FanOutWrites(p)
  PROVE  RelayInv'
<1>1. PICK r \in todo[p] : /\ Write(r, count[p])
                           /\ todo' = [todo EXCEPT ![p] = @ \ {r}]
  BY DEF FanOutWrites, RelayInv, RegisteredInv
<1>2. /\ pubAt[p] = "write" /\ r \in Readers /\ sess[r] = p
      /\ at[r] \notin {"off", "talk"}
      /\ UNCHANGED <<cur, latest, count, regs, at, sess, passes, queue, extra,
                     peer>>
  BY <1>1 DEF FanOutWrites, RelayInv, RegisteredInv, TypeOK
<1>3. count[p] \in 1..MaxPackets
  BY <1>2, RelayAssumption DEF RelayInv, TypeOK, RegisteredInv, Fanning
<1>4. /\ pubAt' = [pubAt EXCEPT ![p] = "fan"]
      /\ turn' \in [Pubs -> Readers \cup {None}]
      /\ \A q \in Pubs \ {p} : turn'[q] = turn[q] /\ pubAt'[q] = pubAt[q]
      /\ lock' \in [Readers -> {"free", "fan", "reader"}]
  BY DEF FanOutWrites, PubGoes, Free, RelayInv, TypeOK
<1>5. /\ \A t \in Readers \ {r} : got'[t] = got[t] /\ lost'[t] = lost[t]
      /\ got'[r] \in SUBSET (1..MaxPackets) /\ lost'[r] \in BOOLEAN
      /\ ~lost'[r] => ~lost[r] /\ got'[r] = got[r] \cup {count[p]}
      /\ got' \in [Readers -> SUBSET (1..MaxPackets)]
      /\ lost' \in [Readers -> BOOLEAN]
  <2>1. CASE peer[r] = "open"
    BY <1>1, <1>2, <1>3, <2>1 DEF Write, RelayInv, TypeOK
  <2>2. CASE peer[r] # "open"
    BY <1>1, <1>2, <1>3, <2>2 DEF Write, RelayInv, TypeOK
  <2>3. QED
    BY <2>1, <2>2
<1>6. TypeOK'
  BY <1>1, <1>2, <1>4, <1>5 DEF RelayInv, TypeOK, PubPlaces
<1>7. RegisteredInv'
  <2>1. \A q \in Pubs : /\ todo'[q] \subseteq todo[q]
                        /\ q # p => todo'[q] = todo[q] /\ turn'[q] = turn[q]
                                    /\ pubAt'[q] = pubAt[q]
    BY <1>1, <1>4 DEF RelayInv, TypeOK
  <2>2. pubAt'[p] = "fan"
    BY <1>4 DEF RelayInv, TypeOK
  <2>3. count[p] > 0
    BY <1>3
  <2>4. QED
    BY <1>2, <2>1, <2>2, <2>3 DEF RelayInv, RegisteredInv, Fanning
<1>8. FlushInv'
  BY <1>1, <1>2, <1>5 DEF RelayInv, FlushInv, TypeOK
<1>9. ASSUME NEW t \in Readers, at[t] \in Playing, ~lost'[t]
      PROVE  ~lost[t] /\ Due(t)' = Due(t)
  <2>1. sess[t] \in Pubs
    BY <1>9 DEF RelayInv, RegisteredInv
  <2>2. CASE t = r
    BY <1>1, <1>2, <1>5, <1>9, <2>2 DEF Due, Has, RelayInv, TypeOK
  <2>3. CASE t # r
    BY <1>1, <1>2, <1>5, <1>9, <2>1, <2>3 DEF Due, Has, RelayInv, TypeOK
  <2>4. QED
    BY <2>2, <2>3
<1>10. UpwardInv' /\ StartedInv'
  BY <1>2, <1>9 DEF RelayInv, UpwardInv, StartedInv, Playing
<1>11. QED
  BY <1>6, <1>7, <1>8, <1>10 DEF RelayInv

-----------------------------------------------------------------------------
\* What the readers' own steps leave alone: the camera's side, and the other
\* readers.
Aside(r) ==
  /\ UNCHANGED <<cur, latest, pubAt, count, todo, turn>>
  /\ \A t \in Readers \ {r} :
       /\ at'[t] = at[t] /\ sess'[t] = sess[t] /\ passes'[t] = passes[t]
       /\ queue'[t] = queue[t] /\ got'[t] = got[t] /\ lost'[t] = lost[t]
       /\ \A p \in Pubs : t \in regs'[p] <=> t \in regs[p]

\* One reader's part of the invariant.
ReaderInv(r) ==
  /\ at[r] \in Playing \cup {"unregister"} =>
       sess[r] \in Pubs /\ r \in regs[sess[r]]
  /\ \A p \in Pubs :
       r \in regs[p] \cup todo[p] => sess[r] = p /\ at[r] \notin {"off", "talk"}
  /\ at[r] \in {"off", "talk"} => got[r] = {}
  /\ at[r] # "send" => queue[r] = {}
  /\ at[r] = "copy" => passes[r] \in 1..2
  /\ at[r] = "send" => passes[r] \in 0..1
  /\ at[r] \in Playing /\ ~lost[r] =>
       \A k \in Due(r) : k..count[sess[r]] \subseteq Due(r)
  /\ /\ at[r] \in {"send", "serve"} \/ (at[r] = "copy" /\ passes[r] = 1)
     /\ ~lost[r] /\ count[sess[r]] > 0
     => Due(r) # {}

\* The parts of the invariant, reader by reader.
LEMMA ReaderParts ==
  ASSUME RelayInv, NEW r \in Readers
  PROVE  ReaderInv(r)
BY DEF RelayInv, RegisteredInv, FlushInv, UpwardInv, StartedInv, ReaderInv

\* A step of one reader is a matter of its own part.
LEMMA ReaderAlone ==
  ASSUME RelayInv, NEW r \in Readers, Aside(r), TypeOK', ReaderInv(r)'
  PROVE  RelayInv'
<1>1. ASSUME NEW t \in Readers PROVE ReaderInv(t)'
  <2>1. CASE t # r
    <3>1. /\ at'[t] = at[t] /\ sess'[t] = sess[t] /\ passes'[t] = passes[t]
          /\ queue'[t] = queue[t] /\ got'[t] = got[t] /\ lost'[t] = lost[t]
          /\ \A p \in Pubs : t \in regs'[p] <=> t \in regs[p]
          /\ count' = count /\ todo' = todo
      BY <2>1 DEF Aside
    <3>2. Due(t)' = Due(t)
      BY <3>1 DEF Due, Has
    <3>3. ReaderInv(t)
      BY ReaderParts
    <3>4. QED
      BY <3>1, <3>2, <3>3 DEF ReaderInv
  <2>2. QED
    BY <2>1
<1>2. RegisteredInv'
  BY <1>1 DEF RelayInv, RegisteredInv, ReaderInv, Aside
<1>3. FlushInv' /\ UpwardInv' /\ StartedInv'
  BY <1>1 DEF FlushInv, UpwardInv, StartedInv, ReaderInv
<1>4. QED
  BY <1>2, <1>3 DEF RelayInv

\* Before PLAY a reader is in no list; a session it finds is a publisher's.
LEMMA RelayTalk ==
  ASSUME RelayInv, NEW r \in Readers,
         \/ FirstOptions(r) \/ FirstDescribe(r) \/ FirstOther(r)
         \/ Describe(r) \/ TalkEnds(r)
  PROVE  RelayInv'
<1>1. /\ at[r] \in {"off", "talk"}
      /\ at' \in [Readers -> ReaderPlaces]
      /\ at'[r] \in {"talk", "leave", "gone"}
      /\ \A t \in Readers \ {r} : at'[t] = at[t] /\ sess'[t] = sess[t]
      /\ sess' \in [Readers -> Pubs \cup {None}]
      /\ UNCHANGED <<pubVars, regs, passes, queue, lock, peerVars>>
  BY DEF RelayInv, TypeOK, Goes, ReaderPlaces, FirstOptions, FirstDescribe,
         FirstOther, Describe, TalkEnds
<1>2. TypeOK'
  BY <1>1 DEF RelayInv, TypeOK, pubVars, peerVars
<1>3. Aside(r)
  BY <1>1 DEF Aside, pubVars, peerVars
<1>4. ReaderInv(r)'
  BY <1>1, ReaderParts DEF ReaderInv, Playing, pubVars, peerVars
<1>5. QED
  BY <1>2, <1>3, <1>4, ReaderAlone

\* PLAY: nothing is due yet, and the next packet will be.
LEMMA RelayPlay ==
  ASSUME RelayInv, NEW r \in Readers, Play(r)
  PROVE  RelayInv'
<1>1. /\ at[r] = "talk" /\ sess[r] \in Pubs
      /\ at' = [at EXCEPT ![r] = "respond"]
      /\ regs' = [regs EXCEPT ![sess[r]] = @ \cup {r}]
      /\ UNCHANGED <<pubVars, sess, passes, queue, lock, peer, got, lost>>
  BY DEF RelayInv, TypeOK, Play, Goes
<1>2. extra' \in [Readers -> BOOLEAN]
  BY Zenon DEF RelayInv, TypeOK, Play
<1>3. TypeOK'
  BY <1>1, <1>2 DEF RelayInv, TypeOK, ReaderPlaces, pubVars
<1>4. Aside(r)
  BY <1>1 DEF Aside, pubVars, RelayInv, TypeOK
<1>5. got[r] = {} /\ queue[r] = {} /\ \A p \in Pubs : r \notin regs[p] \cup todo[p]
  BY <1>1, ReaderParts DEF ReaderInv
<1>6. Due(r)' = {}
  BY <1>1, <1>5 DEF Due, Has, pubVars
<1>7. at'[r] = "respond" /\ \A p \in Pubs : r \in regs'[p] <=> p = sess[r]
  BY <1>1, <1>5 DEF RelayInv, TypeOK
<1>8. ReaderInv(r)'
  BY <1>1, <1>5, <1>6, <1>7 DEF ReaderInv, Playing, pubVars
<1>9. QED
  BY <1>3, <1>4, <1>8, ReaderAlone

\* The answer to PLAY, and the steps after the flushes.
LEMMA RelayServe ==
  ASSUME RelayInv, NEW r \in Readers,
         Respond(r) \/ ServeAnswers(r) \/ FlushEnds(r)
  PROVE  RelayInv'
<1> USE DEF Goes, pubVars, peerVars
<1>1. CASE Respond(r)
  <2>1. /\ at[r] = "respond"
        /\ \/ at' = [at EXCEPT ![r] = "copy"] /\ passes' = [passes EXCEPT ![r] = 2]
           \/ at' = [at EXCEPT ![r] = "leave"] /\ UNCHANGED passes
        /\ UNCHANGED <<pubVars, regs, sess, queue, lock, peerVars>>
    BY <1>1 DEF Respond
  <2>2. TypeOK'
    BY <2>1 DEF RelayInv, TypeOK, ReaderPlaces
  <2>3. Aside(r)
    BY <2>1 DEF Aside, RelayInv, TypeOK
  <2>4. Due(r)' = Due(r)
    BY <2>1 DEF Due, Has
  <2>5. /\ (at'[r] = "copy" /\ passes'[r] = 2) \/ at'[r] = "leave"
        /\ sess' = sess /\ regs' = regs /\ todo' = todo /\ count' = count
        /\ queue' = queue /\ got' = got /\ lost' = lost
    BY <2>1 DEF RelayInv, TypeOK
  <2>6. ReaderInv(r)'
    BY <2>1, <2>4, <2>5, ReaderParts DEF ReaderInv, Playing
  <2>7. QED
    BY <2>2, <2>3, <2>6, ReaderAlone
<1>2. CASE ServeAnswers(r)
  <2>1. /\ at[r] = "serve"
        /\ \/ at' = [at EXCEPT ![r] = "serve"]
           \/ at' = [at EXCEPT ![r] = "unregister"]
        /\ extra' = [extra EXCEPT ![r] = FALSE]
        /\ lock' = [lock EXCEPT ![r] = "free"]
        /\ UNCHANGED <<pubVars, regs, sess, passes, queue, peer, got, lost>>
    BY <1>2 DEF ServeAnswers, Free
  <2>2. TypeOK'
    BY <2>1 DEF RelayInv, TypeOK, ReaderPlaces
  <2>3. Aside(r)
    BY <2>1 DEF Aside, RelayInv, TypeOK
  <2>4. Due(r)' = Due(r) /\ at'[r] \in {"serve", "unregister"}
    BY <2>1 DEF Due, Has, RelayInv, TypeOK
  <2>5. ReaderInv(r)'
    BY <2>1, <2>4, ReaderParts DEF ReaderInv, Playing
  <2>6. QED
    BY <2>2, <2>3, <2>5, ReaderAlone
<1>3. CASE FlushEnds(r)
  <2>1. /\ at[r] = "send" /\ queue[r] = {}
        /\ at' = [at EXCEPT ![r] = IF passes[r] = 0 THEN "serve" ELSE "copy"]
        /\ UNCHANGED <<pubVars, regs, sess, passes, queue, lock, peerVars>>
    BY <1>3 DEF FlushEnds
  <2>2. TypeOK'
    BY <2>1 DEF RelayInv, TypeOK, ReaderPlaces
  <2>3. Aside(r)
    BY <2>1 DEF Aside, RelayInv, TypeOK
  <2>4. /\ Due(r)' = Due(r)
        /\ at'[r] = IF passes[r] = 0 THEN "serve" ELSE "copy"
    BY <2>1 DEF Due, Has, RelayInv, TypeOK
  <2>5. ReaderInv(r)'
    BY <2>1, <2>4, ReaderParts DEF ReaderInv, Playing
  <2>6. QED
    BY <2>2, <2>3, <2>5, ReaderAlone
<1>4. QED
  BY <1>1, <1>2, <1>3
\* flush_to: the ring is due whole, up to the packet published last.
LEMMA RelayFlush ==
  ASSUME RelayInv, NEW r \in Readers, FlushCopies(r) \/ FlushSends(r)
  PROVE  RelayInv'
<1> USE DEF Goes, pubVars, peerVars
<1>1. CASE FlushCopies(r)
  <2>1. /\ at[r] = "copy"
        /\ at' = [at EXCEPT ![r] = "send"]
        /\ queue' = [queue EXCEPT ![r] = Buffer(count[sess[r]])]
        /\ passes' = [passes EXCEPT ![r] = @ - 1]
        /\ UNCHANGED <<pubVars, regs, sess, lock, peerVars>>
    BY <1>1 DEF FlushCopies
  <2>2. passes[r] \in 1..2 /\ queue[r] = {} /\ sess[r] \in Pubs
    BY <2>1, ReaderParts DEF ReaderInv, Playing
  <2>3. /\ Buffer(count[sess[r]]) \subseteq 1..MaxPackets
        /\ \A k \in Buffer(count[sess[r]]) :
             k..count[sess[r]] \subseteq Buffer(count[sess[r]])
        /\ count[sess[r]] > 0 => count[sess[r]] \in Buffer(count[sess[r]])
    BY <2>2, BufferEnds DEF RelayInv, TypeOK
  <2>4. TypeOK'
    BY <2>1, <2>2, <2>3 DEF RelayInv, TypeOK, ReaderPlaces
  <2>5. Aside(r)
    BY <2>1 DEF Aside, RelayInv, TypeOK
  <2>6. Due(r)' = Due(r) \cup Buffer(count[sess[r]])
    BY <2>1, <2>2 DEF Due, Has, RelayInv, TypeOK
  <2>7. at'[r] = "send" /\ passes'[r] \in 0..1
    BY <2>1, <2>2 DEF RelayInv, TypeOK
  <2>8. ReaderInv(r)'
    BY <2>1, <2>3, <2>6, <2>7, ReaderParts DEF ReaderInv, Playing
  <2>9. QED
    BY <2>4, <2>5, <2>8, ReaderAlone
<1>2. CASE FlushSends(r)
  <2>1. PICK k \in queue[r] :
          /\ Write(r, k)
          /\ \E ok \in Sent(r) :
               queue' = [queue EXCEPT ![r] = IF ok THEN @ \ {k} ELSE {}]
    BY <1>2 DEF FlushSends, FlushWrites
  <2>2. /\ at[r] = "send" /\ k \in 1..MaxPackets
        /\ UNCHANGED <<pubVars, regs, at, sess, passes, extra, peer>>
        /\ lock' = [lock EXCEPT ![r] = "free"]
    BY <1>2, <2>1 DEF FlushSends, FlushWrites, Free, RelayInv, TypeOK
  <2>3. /\ queue' \in [Readers -> SUBSET (1..MaxPackets)]
        /\ \A t \in Readers \ {r} : queue'[t] = queue[t]
        /\ peer[r] = "open" => queue'[r] = queue[r] \ {k}
    <3>1. PICK ok \in Sent(r) :
            queue' = [queue EXCEPT ![r] = IF ok THEN @ \ {k} ELSE {}]
      BY <2>1
    <3>2. peer[r] = "open" => ok = TRUE
      BY Zenon DEF Sent
    <3>3. CASE queue' = [queue EXCEPT ![r] = @ \ {k}]
      BY <3>3 DEF RelayInv, TypeOK
    <3>4. CASE queue' = [queue EXCEPT ![r] = {}] /\ peer[r] # "open"
      BY <3>4 DEF RelayInv, TypeOK
    <3>5. CASE ok = TRUE
      BY <3>1, <3>3, <3>5
    <3>6. CASE ok # TRUE
      BY <3>1, <3>2, <3>3, <3>4, <3>6
    <3>7. QED
      BY <3>5, <3>6
  <2>4. /\ got' \in [Readers -> SUBSET (1..MaxPackets)]
        /\ lost' \in [Readers -> BOOLEAN]
        /\ \A t \in Readers \ {r} : got'[t] = got[t] /\ lost'[t] = lost[t]
        /\ ~lost'[r] => /\ ~lost[r] /\ peer[r] = "open"
                        /\ got'[r] = got[r] \cup {k}
    <3>1. CASE peer[r] = "open"
      BY <2>1, <2>2, <3>1 DEF Write, RelayInv, TypeOK
    <3>2. CASE peer[r] # "open"
      BY <2>1, <2>2, <3>2 DEF Write, RelayInv, TypeOK
    <3>3. QED
      BY <3>1, <3>2
  <2>5. TypeOK'
    BY <2>2, <2>3, <2>4 DEF RelayInv, TypeOK
  <2>6. Aside(r)
    BY <2>2, <2>3, <2>4 DEF Aside
  <2>7. ~lost'[r] => ~lost[r] /\ Due(r)' = Due(r)
    <3>1. /\ Due(r) = got[r] \cup queue[r]
                         \cup (IF r \in todo[sess[r]] THEN {count[sess[r]]} ELSE {})
          /\ Due(r)' = got'[r] \cup queue'[r]
                         \cup (IF r \in todo[sess[r]] THEN {count[sess[r]]} ELSE {})
      BY <2>2 DEF Due, Has
    <3>2. QED
      BY <2>1, <2>3, <2>4, <3>1
  <2>8. ReaderInv(r)'
    BY <2>2, <2>7, ReaderParts DEF ReaderInv, Playing
  <2>9. QED
    BY <2>5, <2>6, <2>8, ReaderAlone
<1>3. QED
  BY <1>1, <1>2

\* Leaving, the lock, and what the reader's end of the connection does.
LEMMA RelayLeave ==
  ASSUME RelayInv, NEW r \in Readers,
         Unregister(r) \/ Leave(r) \/ TakesLock(r) \/ Peer(r)
  PROVE  RelayInv'
<1> USE DEF Goes, pubVars, peerVars
<1>1. CASE Unregister(r)
  <2>1. /\ at[r] = "unregister"
        /\ at' = [at EXCEPT ![r] = "leave"]
        /\ regs' = [regs EXCEPT ![sess[r]] = @ \ {r}]
        /\ UNCHANGED <<pubVars, sess, passes, queue, lock, peerVars>>
    BY <1>1 DEF Unregister
  <2>2. TypeOK'
    BY <2>1 DEF RelayInv, TypeOK, ReaderPlaces
  <2>3. Aside(r)
    BY <2>1 DEF Aside, RelayInv, TypeOK
  <2>4. at'[r] = "leave" /\ \A p \in Pubs : regs'[p] \subseteq regs[p]
    BY <2>1 DEF RelayInv, TypeOK
  <2>5. ReaderInv(r)'
    BY <2>1, <2>4, ReaderParts DEF ReaderInv, Playing
  <2>6. QED
    BY <2>2, <2>3, <2>5, ReaderAlone
<1>2. CASE Leave(r) \/ TakesLock(r) \/ Peer(r)
  <2>1. /\ peer' \in [Readers -> {"open", "slow", "closed"}]
        /\ \/ at' = at
           \/ at[r] = "leave" /\ at' = [at EXCEPT ![r] = "gone"]
        /\ UNCHANGED <<pubVars, regs, sess, passes, queue, extra, got, lost>>
        /\ lock' \in [Readers -> {"free", "fan", "reader"}]
    BY <1>2 DEF Leave, TakesLock, Peer, PeerStalls, PeerReads, PeerCloses,
                RelayInv, TypeOK
  <2>2. TypeOK'
    BY <2>1 DEF RelayInv, TypeOK, ReaderPlaces
  <2>3. Aside(r)
    BY <2>1 DEF Aside, RelayInv, TypeOK
  <2>4. /\ Due(r)' = Due(r)
        /\ UNCHANGED <<sess, count, regs, todo, passes, queue, got, lost>>
    BY <2>1 DEF Due, Has
  <2>5. at'[r] = at[r] \/ (at[r] = "leave" /\ at'[r] = "gone")
    BY <2>1 DEF RelayInv, TypeOK
  <2>6. ReaderInv(r)'
    BY <2>1, <2>4, <2>5, ReaderParts DEF ReaderInv, Playing
  <2>7. QED
    BY <2>2, <2>3, <2>6, ReaderAlone
<1>3. QED
  BY <1>1, <1>2

-----------------------------------------------------------------------------
\* Every step keeps the invariant.
LEMMA RelayStep == RelayInv /\ [Next]_vars => RelayInv'
<1> SUFFICES ASSUME RelayInv, [Next]_vars PROVE RelayInv'
  OBVIOUS
<1>1. ASSUME NEW p \in Pubs, Publisher(p) PROVE RelayInv'
  BY <1>1, RelayAnnounce, RelayPublish, RelayFanOut DEF Publisher,
     HandleAnnounce
<1>2. ASSUME NEW r \in Readers, Reader(r) \/ Peer(r) PROVE RelayInv'
  BY <1>2, RelayTalk, RelayPlay, RelayServe, RelayFlush, RelayLeave DEF Reader,
     ReaderContinue
<1>3. CASE UNCHANGED vars
  <2>1. \A r \in Readers : Due(r)' = Due(r)
    BY <1>3 DEF vars, Due, Has
  <2>2. QED
    BY <1>3, <2>1 DEF vars, RelayInv, TypeOK, RegisteredInv, FlushInv,
       UpwardInv, StartedInv
<1>4. QED
  BY <1>1, <1>2, <1>3 DEF Next

\* The invariant holds throughout: what the theorems below are read off.
LEMMA RelayAlways == Spec => []RelayInv
  BY RelayInit, RelayStep, PTL DEF Spec

\* The variables keep their types, for any number of connections and readers.
THEOREM TypeCorrect == Spec => []TypeOK
<1>1. RelayInv => TypeOK
  BY DEF RelayInv
<1>2. QED
  BY <1>1, RelayAlways, PTL

\* A reader whose writes succeed misses nothing (Session.publish, flush_to,
\* _reader_continue), for any ring and any interleaving of any number of
\* readers and camera connections.
THEOREM ReadersMissNothing == Spec => []NoGap
<1>1. RelayInv => NoGap
  <2> SUFFICES ASSUME RelayInv, NEW r \in Readers, at[r] = "serve", ~lost[r]
               PROVE  /\ count[sess[r]] > 0 => Has(r, sess[r]) # {}
                      /\ \A k \in Has(r, sess[r]) :
                           k..count[sess[r]] \subseteq Has(r, sess[r])
    BY DEF NoGap
  <2>1. Due(r) = Has(r, sess[r])
    BY ReaderParts DEF ReaderInv, Due
  <2>2. QED
    BY <2>1 DEF RelayInv, UpwardInv, StartedInv, Playing
<1>2. QED
  BY <1>1, RelayAlways, PTL

-----------------------------------------------------------------------------
\* What a camera's connection does keeps the latest publisher in its place: an
\* announce makes its own connection the latest, and an older connection that
\* ends finds another session under the name.
LEMMA LatestWithPublisher ==
  ASSUME RelayInv, LatestIsPublished, NEW p \in Pubs, Publisher(p)
  PROVE  LatestIsPublished'
<1> USE RelayAssumption DEF LatestIsPublished, RelayInv, TypeOK
<1> DEFINE Replaces == Announce(p) \/ Unpublish(p)
<1>1. CASE Replaces
  BY <1>1 DEF Announce, Unpublish, PubGoes
<1>2. CASE ~Replaces
  <2>1. /\ UNCHANGED <<cur, latest>>
        /\ pubAt[p] # "gone"
        /\ \A q \in Pubs \ {p} : pubAt'[q] = pubAt[q]
    BY <1>2 DEF Publisher, HandleAnnounce, PubGoes, AnnounceAnswered,
       AnnounceFails, Record, PublisherLoopEnds, Publish, FanOut, FanOutTakes,
       FanOutWrites, FanOutEnds
  <2>2. QED
    BY <2>1
<1>3. QED
  BY <1>1, <1>2

\* No reader, and no peer of one, changes who publishes.
LEMMA LatestWithReader ==
  ASSUME NEW r \in Readers, Reader(r) \/ Peer(r)
  PROVE  UNCHANGED <<cur, latest, pubAt>>
BY DEF Reader, ReaderContinue, Peer, pubVars, FirstOptions, FirstDescribe,
   FirstOther, Describe, TalkEnds, Play, Respond, FlushCopies, TakesLock,
   FlushSends, FlushWrites, FlushEnds, ServeAnswers, Unregister, Leave, PeerStalls, PeerReads,
   PeerCloses

\* The latest publisher is the one readers are given (_publish, _unpublish),
\* however many older connections end after it began.
THEOREM LatestStaysPublished == Spec => []LatestIsPublished
<1> DEFINE Published == cur' = cur /\ latest' = latest /\ pubAt' = pubAt
<1>1. LatestIsPublished /\ Published => LatestIsPublished'
  BY DEF LatestIsPublished
<1>2. [Next]_vars => Published \/ \E p \in Pubs : Publisher(p)
  BY LatestWithReader DEF Next, vars
<1>3. RelayInv /\ LatestIsPublished /\ [Next]_vars => LatestIsPublished'
  BY <1>1, <1>2, LatestWithPublisher
<1>4. Init => LatestIsPublished
  BY DEF Init, LatestIsPublished
<1>5. QED
  BY <1>3, <1>4, RelayAlways, PTL DEF Spec

=============================================================================
