------------------------- MODULE CameraLinksProofs -------------------------
(***************************************************************************)
(* What holds of CameraLinks for any number of connections and senders: the *)
(* type invariant, and that camera_links never names a connection whose    *)
(* handler is through with finish().                                       *)
(***************************************************************************)
EXTENDS CameraLinks, TLAPS

\* A thread in send_to knows where it goes on: without this a return could
\* leave the thread nowhere, and the types would not be kept.
ReturnsSomewhere == \A t \in Threads : at[t] \in Sending => then[t] # "none"

\* The inductive invariant.
LinksInv == TypeOK /\ ReturnsSomewhere /\ LinksAreLive

\* A broker that has just started has no link and nobody in send_to.
LEMMA LinksInit == Init => LinksInv
<1> SUFFICES ASSUME Init PROVE LinksInv
  OBVIOUS
<1>1. TypeOK
  <2>1. busy \in BOOLEAN
    BY Zenon DEF Init
  <2>2. /\ at \in [Threads -> {"unused", "idle"}]
        /\ got \in [Conns -> Frames]
        /\ inbox \in [Conns -> Seq(Frames)]
    BY ThreadsAssumption DEF Init
  <2>3. QED
    BY <2>1, <2>2 DEF Init, TypeOK, Holding
<1>2. ReturnsSomewhere /\ LinksAreLive
  BY DEF Init, ReturnsSomewhere, LinksAreLive, Threads, Sending, Holding
<1>3. QED
  BY <1>1, <1>2 DEF LinksInv

\* A step of send_to, by any thread, keeps the invariant: a return goes to a
\* place of the caller's, never to one of finish().
LEMMA LinksSendTo ==
  ASSUME LinksInv, NEW t \in Threads, SendTo(t)
  PROVE  LinksInv'
<1> USE ThreadsAssumption
        DEF LinksInv, TypeOK, ReturnsSomewhere, LinksAreLive, Threads, Sending,
            Holding, Goes
<1>1. CASE SendReads(t)
  <2>1. CASE link = None
    <3>1. /\ at[t] = "send" /\ Returns(t)
          /\ UNCHANGED <<link, lock, busy, got, wire, inbox, camConn>>
      BY <1>1, <2>1 DEF SendReads
    <3>2. TypeOK'
      BY <3>1 DEF Returns
    <3>3. ReturnsSomewhere'
      BY <3>1 DEF Returns
    <3>4. LinksAreLive'
      BY <2>1, <3>1
    <3>5. QED
      BY <3>2, <3>3, <3>4
  <2>2. CASE link # None
    <3>1. /\ at[t] = "send" /\ via' = [via EXCEPT ![t] = link]
          /\ at' = [at EXCEPT ![t] = "lock"]
          /\ UNCHANGED <<link, lock, busy, then, got, wire, inbox, camConn>>
      BY <1>1, <2>2 DEF SendReads
    <3>2. TypeOK'
      BY <2>2, <3>1
    <3>3. ReturnsSomewhere' /\ LinksAreLive'
      BY <3>1
    <3>4. QED
      BY <3>2, <3>3
  <2>3. QED
    BY <2>1, <2>2
<1>2. CASE SendTooLate(t)
  BY <1>2 DEF SendTooLate, Returns
<1>3. CASE SendWrites(t)
  BY <1>3 DEF SendWrites, Returns
<1>4. CASE SendStalls(t)
  BY <1>4 DEF SendStalls
<1>5. CASE SendGivesUp(t)
  BY <1>5 DEF SendGivesUp
<1>6. CASE SendDrops(t)
  BY <1>6 DEF SendDrops
<1>7. CASE SendResetsRow(t)
  BY <1>7 DEF SendResetsRow
<1>8. CASE SendShuts(t)
  BY <1>8 DEF SendShuts, Returns
<1>9. QED
  BY <1>1, <1>2, <1>3, <1>4, <1>5, <1>6, <1>7, <1>8 DEF SendTo

\* A step of a connection's handler outside send_to keeps the invariant: only
\* a handler that is not the link's, or has just popped it, closes.
LEMMA LinksHandler ==
  ASSUME LinksInv, NEW k \in Conns,
         \/ Receives(k) \/ Dispatch(k) \/ Answered(k)
         \/ HandlerEnds(k) \/ FinishPops(k) \/ FinishResetsRow(k)
  PROVE  LinksInv'
<1> USE ThreadsAssumption
        DEF LinksInv, TypeOK, ReturnsSomewhere, LinksAreLive, Threads, Sending,
            Holding, Goes, Calls
<1>1. CASE Receives(k)
  <2>1. Head(inbox[k]) \in Frames /\ Tail(inbox[k]) \in Seq(Frames)
    BY <1>1 DEF Receives
  <2>2. /\ at[k] = "recv" /\ link' = k
        /\ got' = [got EXCEPT ![k] = Head(inbox[k])]
        /\ inbox' = [inbox EXCEPT ![k] = Tail(inbox[k])]
        /\ UNCHANGED <<lock, busy, via, wire, camConn>>
    BY <1>1 DEF Receives
  <2>3. CASE at' = [at EXCEPT ![k] = "dispatch"] /\ UNCHANGED then
    BY <2>1, <2>2, <2>3
  <2>4. CASE /\ at' = [at EXCEPT ![k] = "send"]
             /\ then' = [then EXCEPT ![k] = "dispatch"]
    BY <2>1, <2>2, <2>4
  <2>5. QED
    BY <1>1, <2>3, <2>4 DEF Receives
<1>2. CASE Dispatch(k)
  <2>1. busy' \in BOOLEAN
    BY <1>2, Zenon DEF Dispatch
  <2>2. /\ at[k] = "dispatch"
        /\ got' = [got EXCEPT ![k] = "other"]
        /\ UNCHANGED <<link, lock, via, wire, inbox, camConn>>
    BY <1>2 DEF Dispatch
  <2>3. CASE at' = [at EXCEPT ![k] = "recv"] /\ UNCHANGED then
    BY <2>1, <2>2, <2>3
  <2>4. CASE /\ at' = [at EXCEPT ![k] = "send"]
             /\ then' = [then EXCEPT ![k] = "answered"]
    BY <2>1, <2>2, <2>4
  <2>5. QED
    BY <1>2, <2>3, <2>4 DEF Dispatch
<1>3. CASE Answered(k)
  <2>1. /\ at[k] = "answered"
        /\ UNCHANGED <<link, lock, busy, via, got, wire, inbox, camConn>>
    BY <1>3 DEF Answered
  <2>2. CASE at' = [at EXCEPT ![k] = "recv"] /\ UNCHANGED then
    BY <2>1, <2>2
  <2>3. CASE /\ at' = [at EXCEPT ![k] = "send"]
             /\ then' = [then EXCEPT ![k] = "recv"]
    BY <2>1, <2>3
  <2>4. QED
    BY <1>3, <2>2, <2>3 DEF Answered
<1>4. CASE HandlerEnds(k)
  <2>1. CASE link = k
    BY <1>4, <2>1 DEF HandlerEnds
  <2>2. CASE link # k
    <3>1. /\ at' = [at EXCEPT ![k] = "closed"]
          /\ wire' = [wire EXCEPT ![k] = "down"]
          /\ UNCHANGED <<link, lock, busy, then, via, got, inbox, camConn>>
      BY <1>4, <2>2 DEF HandlerEnds
    <3>2. TypeOK' /\ ReturnsSomewhere'
      BY <3>1
    <3>3. LinksAreLive'
      BY <2>2, <3>1
    <3>4. QED
      BY <3>2, <3>3
  <2>3. QED
    BY <2>1, <2>2
<1>5. CASE FinishPops(k)
  BY <1>5 DEF FinishPops
<1>6. CASE FinishResetsRow(k)
  BY <1>6 DEF FinishResetsRow
<1>7. QED
  BY <1>1, <1>2, <1>3, <1>4, <1>5, <1>6

\* The camera touches no thread but the handler of a connection it opens.
LEMMA LinksCamera ==
  ASSUME LinksInv, Camera
  PROVE  LinksInv'
<1> USE ThreadsAssumption
        DEF LinksInv, TypeOK, ReturnsSomewhere, LinksAreLive, Threads, Sending,
            Holding, Goes
<1>1. ASSUME NEW k \in Conns, CameraConnects(k)
      PROVE  LinksInv'
  BY <1>1 DEF CameraConnects
<1>2. ASSUME NEW frame \in Frames, CameraSends(frame)
      PROVE  LinksInv'
  BY <1>2 DEF CameraSends
<1>3. CASE CameraLeaves
  BY <1>3 DEF CameraLeaves
<1>4. QED
  BY <1>1, <1>2, <1>3 DEF Camera

LEMMA LinksStep == LinksInv /\ [Next]_vars => LinksInv'
<1> SUFFICES ASSUME LinksInv, [Next]_vars PROVE LinksInv'
  OBVIOUS
<1>1. ASSUME NEW k \in Conns, Handler(k) \/ HandlerEnds(k)
      PROVE  LinksInv'
  <2>1. k \in Threads
    BY DEF Threads
  <2>2. QED
    BY <1>1, <2>1, LinksSendTo, LinksHandler DEF Handler
<1>2. ASSUME NEW t \in Senders, SendTo(t)
      PROVE  LinksInv'
  BY <1>2, LinksSendTo DEF Threads
<1>3. ASSUME NEW t \in Senders, SenderCalls(t)
      PROVE  LinksInv'
  BY <1>3, ThreadsAssumption
     DEF SenderCalls, Calls, Goes, LinksInv, TypeOK, ReturnsSomewhere,
         LinksAreLive, Threads, Sending, Holding
<1>4. CASE Camera
  BY <1>4, LinksCamera
<1>5. CASE UNCHANGED vars
  BY <1>5 DEF vars, LinksInv, TypeOK, ReturnsSomewhere, LinksAreLive
<1>6. QED
  BY <1>1, <1>2, <1>3, <1>4, <1>5 DEF Next

\* The invariant holds in every reachable state.
LEMMA LinksAlways == Spec => []LinksInv
BY LinksInit, LinksStep, PTL DEF Spec

\* Every value has its type whatever the interleaving: no thread leaves
\* send_to without a place to go on, none writes without a connection.
THEOREM TypeCorrect == Spec => []TypeOK
<1>1. LinksInv => TypeOK
  BY DEF LinksInv
<1>2. QED
  BY <1>1, LinksAlways, PTL

\* For any number of connections and senders, camera_links names only a
\* connection that has a handler to drop it.
THEOREM LinksStayLive == Spec => []LinksAreLive
<1>1. LinksInv => LinksAreLive
  BY DEF LinksInv
<1>2. QED
  BY <1>1, LinksAlways, PTL

-----------------------------------------------------------------------------
(* The push lock.  What SendsReturn rests on: it is held by a thread whose *)
(* next steps release it, or by none.                                      *)

\* Between `with lock` and the release at its end, past the first write.
Stalling == {"stalled", "drop", "dropRow", "shutdown"}

\* A connection nobody has opened has no handler yet: without this a camera
\* that connects could move a thread that holds the lock.
UnopenedIdle == \A k \in Conns : wire[k] = "unused" => at[k] = "unused"

LockIsHeld == \A t \in Threads : at[t] \in Stalling <=> lock = t

LockInv == UnopenedIdle /\ LockIsHeld

LEMMA LockInit == Init => LockInv
<1> SUFFICES ASSUME Init PROVE LockInv
  OBVIOUS
<1>1. \A t \in Threads : at[t] \in {"unused", "idle"}
  BY DEF Init
<1>2. UnopenedIdle
  BY DEF Init, UnopenedIdle, Threads
<1>3. LockIsHeld
  BY <1>1, ThreadsAssumption DEF Init, LockIsHeld, Stalling, Threads
<1>4. QED
  BY <1>2, <1>3 DEF LockInv

\* A thread in send_to takes the lock only when it is free, and gives it back
\* when it returns.
LEMMA LockSendTo ==
  ASSUME LinksInv, LockInv, NEW t \in Threads, SendTo(t)
  PROVE  LockInv'
<1>1. /\ at \in [Threads -> {"unused", "recv", "dispatch", "answered", "send",
                            "lock", "stalled", "drop", "dropRow", "shutdown",
                            "unlink", "resetRow", "closed", "idle"}]
      /\ then \in [Threads -> {"none", "dispatch", "answered", "recv", "idle"}]
      /\ via \in [Threads -> Conns \cup {None}]
      /\ wire \in [Conns -> {"unused", "up", "down"}]
      /\ Conns \subseteq Threads /\ None \notin Threads
  BY ThreadsAssumption DEF LinksInv, TypeOK, Threads
<1>2. then[t] \notin Stalling \cup {"unused"}
  BY <1>1 DEF Stalling
<1> USE DEF LockInv, UnopenedIdle, LockIsHeld, Stalling, Goes
<1>3. CASE SendReads(t)
  BY <1>1, <1>2, <1>3 DEF SendReads, Returns
<1>4. CASE SendTooLate(t) \/ SendWrites(t)
  BY <1>1, <1>2, <1>4 DEF SendTooLate, SendWrites, Returns
<1>5. CASE SendStalls(t)
  BY <1>1, <1>5 DEF SendStalls
<1>6. CASE SendGivesUp(t) \/ SendDrops(t) \/ SendResetsRow(t)
  BY <1>1, <1>6 DEF SendGivesUp, SendDrops, SendResetsRow
<1>7. CASE SendShuts(t)
  <2>1. /\ at[t] = "shutdown" /\ at' = [at EXCEPT ![t] = then[t]]
        /\ wire' = [wire EXCEPT ![via[t]] = "down"] /\ lock' = None /\ lock = t
    BY <1>1, <1>7 DEF SendShuts, Returns
  <2>2. UnopenedIdle'
    BY <1>1, <2>1
  <2>3. LockIsHeld'
    BY <1>1, <1>2, <2>1
  <2>4. QED
    BY <2>2, <2>3
<1>8. QED
  BY <1>3, <1>4, <1>5, <1>6, <1>7 DEF SendTo

\* Nobody else touches the lock, or a thread that holds it.
LEMMA LockElsewhere ==
  ASSUME LinksInv, LockInv,
         \/ \E k \in Conns : \/ Receives(k) \/ Dispatch(k) \/ Answered(k)
                              \/ HandlerEnds(k) \/ FinishPops(k) \/ FinishResetsRow(k)
         \/ \E t \in Senders : SenderCalls(t)
         \/ Camera
  PROVE  LockInv'
<1>1. /\ at \in [Threads -> {"unused", "recv", "dispatch", "answered", "send",
                            "lock", "stalled", "drop", "dropRow", "shutdown",
                            "unlink", "resetRow", "closed", "idle"}]
      /\ wire \in [Conns -> {"unused", "up", "down"}]
      /\ Conns \subseteq Threads /\ Senders \subseteq Threads
  BY DEF LinksInv, TypeOK, Threads
<1> USE DEF LockInv, UnopenedIdle, LockIsHeld, Stalling, Goes, Calls
<1>2. ASSUME NEW k \in Conns, Receives(k) \/ Dispatch(k) \/ Answered(k)
      PROVE  LockInv'
  BY <1>1, <1>2 DEF Receives, Dispatch, Answered
<1>3. ASSUME NEW k \in Conns, HandlerEnds(k)
      PROVE  LockInv'
  BY <1>1, <1>3 DEF HandlerEnds
<1>4. ASSUME NEW k \in Conns, FinishPops(k) \/ FinishResetsRow(k)
      PROVE  LockInv'
  BY <1>1, <1>4 DEF FinishPops, FinishResetsRow
<1>5. ASSUME NEW t \in Senders, SenderCalls(t)
      PROVE  LockInv'
  BY <1>1, <1>5 DEF SenderCalls
<1>6. ASSUME NEW k \in Conns, CameraConnects(k)
      PROVE  LockInv'
  BY <1>1, <1>6 DEF CameraConnects
<1>7. CASE (\E frame \in Frames : CameraSends(frame)) \/ CameraLeaves
  <2>1. CASE \E frame \in Frames : CameraSends(frame)
    BY <2>1 DEF CameraSends
  <2>2. CASE CameraLeaves
    BY <1>1, <2>2 DEF CameraLeaves
  <2>3. QED
    BY <1>7, <2>1, <2>2
<1>8. QED
  BY <1>2, <1>3, <1>4, <1>5, <1>6, <1>7 DEF Camera

LEMMA LockStep == LinksInv /\ LockInv /\ [Next]_vars => LockInv'
<1> SUFFICES ASSUME LinksInv, LockInv, [Next]_vars PROVE LockInv'
  OBVIOUS
<1>1. CASE \E t \in Threads : SendTo(t)
  BY <1>1, LockSendTo
<1>2. CASE UNCHANGED vars
  BY <1>2 DEF vars, LockInv, UnopenedIdle, LockIsHeld
<1>3. QED
  BY <1>1, <1>2, LockElsewhere DEF Next, Handler, Threads

\* The push lock of any number of senders and connections is held by exactly
\* the thread that waits for the camera to read or is about to drop it: a
\* handler, the worker and the HTTP threads never write at the same time, and
\* none leaves send_to with the lock (send_to).
THEOREM LockHasOneHolder == Spec => []LockIsHeld
<1>1. LockInv => LockIsHeld
  BY DEF LockInv
<1>2. QED
  BY <1>1, LinksAlways, LockInit, LockStep, PTL DEF Spec

=============================================================================
