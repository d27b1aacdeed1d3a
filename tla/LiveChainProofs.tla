-------------------------- MODULE LiveChainProofs --------------------------
(***************************************************************************)
(* What holds of LiveChain for any number of connections, HTTP threads and *)
(* viewer pairs, and any timing: the type invariant, that a report never   *)
(* outlives its chain, and that the resend floor holds for every thread.   *)
(***************************************************************************)
EXTENDS LiveChain, TLAPS

-----------------------------------------------------------------------------
(* Type correctness.                                                       *)

\* A thread past its read of the viewer has a pair, and so has a camera that
\* is binding: what it reports bound is a pair, never None.
PairKnown ==
  /\ \A t \in Requesters : at[t] \in {"check", "send", "record"} => pair[t] \in Pairs
  /\ flag = "binding" => aim \in Pairs

ChainInv == TypeOK /\ PairKnown

\* An age that saturates at the floor stays in range and in order as time passes.
LEMMA AtMostFloor ==
  ASSUME NEW a \in 0..Floor
  PROVE  /\ AtMost(a + 1, Floor) \in 0..Floor
         /\ \A b \in 0..Floor : a <= b => AtMost(a + 1, Floor) <= AtMost(b + 1, Floor)
         /\ a = Floor => AtMost(a + 1, Floor) = Floor
BY ChainAssumption DEF AtMost

LEMMA ChainInit == Init => ChainInv
<1> SUFFICES ASSUME Init PROVE ChainInv
  OBVIOUS
<1>1. /\ at \in [Threads -> {"gone", "idle", "serve"}]
      /\ inbox \in [Handlers -> Seq(Frames)]
  BY ChainAssumption DEF Init
<1>2. mine \in [Requesters -> 0..Floor]
  BY ChainAssumption DEF Init, NoneSent
<1>3. /\ pair = [t \in Threads |-> None] /\ got = [h \in Handlers |-> None]
      /\ viewer \in Pairs \cup {None} /\ saved = viewer
      /\ fire = Absent /\ sentAge = Floor
  BY DEF Init
<1>4. \A t \in Requesters : at[t] \in {"gone", "idle"}
  BY ChainAssumption DEF Init, Requesters, Threads
<1>5. PairKnown
  BY <1>4 DEF Init, PairKnown
<1>6. TypeOK
  BY <1>1, <1>2, <1>3, ChainAssumption, BoundAssumption DEF Init, TypeOK
<1>7. QED
  BY <1>5, <1>6 DEF ChainInv

\* schedule_p2p_live, in any thread that calls it.
LEMMA ChainSchedule ==
  ASSUME ChainInv, NEW t \in Requesters, ScheduleP2PLive(t)
  PROVE  ChainInv'
<1> USE ChainAssumption
        DEF ChainInv, TypeOK, PairKnown, Threads, Requesters, Goes, Leaves,
            Absent, viewVars, chainVars, localVars, cameraVars, boundVars
<1>1. CASE ForcePops(t)
  BY <1>1 DEF ForcePops, NoneSent
<1>2. CASE ReadViewer(t)
  <2>1. CASE link = None \/ viewer = None
    <3>1. Leaves(t)
      BY <1>2, <2>1 DEF ReadViewer
    <3>2. QED
      BY <1>2, <3>1 DEF ReadViewer
  <2>2. CASE ~(link = None \/ viewer = None)
    <3>1. /\ pair' = [pair EXCEPT ![t] = viewer] /\ viewer \in Pairs
          /\ Goes(t, "check") /\ forcing' = forcing
      BY <1>2, <2>2 DEF ReadViewer
    <3>2. QED
      BY <1>2, <3>1 DEF ReadViewer
  <2>3. QED
    BY <2>1, <2>2
<1>3. CASE NotSent(t)
  BY <1>3 DEF NotSent
<1>4. CASE Decides(t)
  BY <1>4 DEF Decides
<1>5. CASE RequestSent(t)
  BY <1>5 DEF RequestSent, Delivered, Hears
<1>6. CASE RequestFails(t)
  BY <1>6 DEF RequestFails, NotDelivered, CameraGone
<1>7. CASE RecordRequest(t)
  BY <1>7 DEF RecordRequest, NoneSent
<1>8. QED
  BY <1>1, <1>2, <1>3, <1>4, <1>5, <1>6, <1>7 DEF ScheduleP2PLive

\* The frames a handler reads.
LEMMA ChainHandler ==
  ASSUME ChainInv, NEW h \in Handlers, Handler(h) \/ HandlerEnds(h)
  PROVE  ChainInv'
<1> USE ChainAssumption
        DEF ChainInv, TypeOK, PairKnown, Threads, Requesters, Goes, Absent,
            viewVars, chainVars, localVars, cameraVars, boundVars
<1>1. CASE ReceiveRegister(h)
  <2>1. inbox' \in [Handlers -> Seq(Frames)] /\ link' \in Handlers
    BY <1>1 DEF ReceiveRegister
  <2>2. /\ UNCHANGED <<viewVars, chainVars, pair, got, camConn, flag, aim,
                        boundVars, mine>>
        /\ \/ UNCHANGED <<at, forcing, forced>>
           \/ at' = [at EXCEPT ![h] = "look"] /\ UNCHANGED <<forcing, forced>>
           \/ /\ at' = [at EXCEPT ![h] = "force"]
              /\ forcing' = forcing \cup {h} /\ forced' = forced \cup {h}
    BY <1>1 DEF ReceiveRegister
  <2>3. /\ at' \in [Threads -> {at[t] : t \in Threads} \cup {"look", "force"}]
        /\ forcing' \subseteq Handlers /\ forced' \subseteq Handlers
    BY <2>2
  <2>4. UNCHANGED <<viewer, saved, fire, ready, sentPair, sentAge, pair, got,
                    camConn, flag, aim, moves, stops, restarts, mine>>
    BY <2>2
  <2>5. at' \in [Threads -> {"gone", "recv", "pending", "settle", "arm", "force",
                              "look", "check", "send", "record", "idle",
                              "saving", "serve", "take", "bound", "play",
                              "dead"}]
    BY <2>3
  <2>6. TypeOK'
    BY <2>1, <2>3, <2>4, <2>5
  <2>7. PairKnown'
    BY <2>2
  <2>8. QED
    BY <2>6, <2>7
<1>2. CASE ReceiveBound(h)
  BY <1>2 DEF ReceiveBound, Frames
<1>3. CASE ReportIgnored(h)
  BY <1>3 DEF ReportIgnored
<1>4. CASE ReportTaken(h)
  BY <1>4 DEF ReportTaken
<1>5. CASE ReportNoted(h)
  BY <1>5 DEF ReportNoted
<1>6. CASE SettlePlay(h)
  BY <1>6 DEF SettlePlay
<1>7. CASE HandlerEnds(h)
  BY <1>7 DEF HandlerEnds
<1>8. QED
  BY <1>1, <1>2, <1>3, <1>4, <1>5, <1>6, <1>7 DEF Handler

\* The viewers' requests.
LEMMA ChainClient ==
  ASSUME ChainInv, NEW c \in Clients,
         \/ ViewerSaved(c) \/ NotifyStart(c) \/ NotifyStop(c)
         \/ \E p \in Pairs : SendStunAddr(c, p)
  PROVE  ChainInv'
<1> USE ChainAssumption
        DEF ChainInv, TypeOK, PairKnown, Threads, Requesters, Goes, Absent,
            viewVars, chainVars, localVars, cameraVars, boundVars
<1>1. CASE ViewerSaved(c)
  BY <1>1 DEF ViewerSaved
<1>2. CASE NotifyStart(c)
  BY <1>2 DEF NotifyStart
<1>3. CASE NotifyStop(c)
  <2>1. stops' \in 0..MaxStops
    BY <1>3, BoundAssumption DEF NotifyStop
  <2>2. UNCHANGED <<viewVars, chainVars, at, localVars, moves, restarts, mine>>
    BY <1>3 DEF NotifyStop
  <2>3. CASE Delivered("stop", None)
    BY <2>1, <2>2, <2>3 DEF Delivered, Hears
  <2>4. CASE NotDelivered
    BY <2>1, <2>2, <2>4 DEF NotDelivered, CameraGone
  <2>5. QED
    BY <1>3, <2>3, <2>4 DEF NotifyStop
<1>4. ASSUME NEW p \in Pairs, SendStunAddr(c, p)
      PROVE  ChainInv'
  <2>1. moves' \in 0..MaxMoves
    BY <1>4, BoundAssumption DEF SendStunAddr
  <2>2. QED
    BY <1>4, <2>1 DEF SendStunAddr
<1>5. QED
  BY <1>1, <1>2, <1>3, <1>4

\* The worker.
LEMMA ChainWorker ==
  ASSUME ChainInv, ServeDueP2PFires
  PROVE  ChainInv'
<1> USE ChainAssumption
        DEF ChainInv, TypeOK, PairKnown, Threads, Requesters, Goes, Absent,
            viewVars, chainVars, localVars, cameraVars, boundVars
<1>1. CASE WorkerLooks
  BY <1>1 DEF WorkerLooks
<1>2. CASE WorkerTakes
  BY <1>2 DEF WorkerTakes
<1>3. CASE WorkerReadies
  BY <1>3 DEF WorkerReadies
<1>4. CASE WorkerPlays
  BY <1>4 DEF WorkerPlays, Delivered, Hears, NotDelivered, CameraGone
<1>5. QED
  BY <1>1, <1>2, <1>3, <1>4 DEF ServeDueP2PFires

\* The camera, a deaf link, a restart and the clock.
LEMMA ChainOutside ==
  ASSUME ChainInv, Camera \/ LinkFails \/ Restart \/ Tick
  PROVE  ChainInv'
<1> USE ChainAssumption
        DEF ChainInv, TypeOK, PairKnown, Threads, Requesters, Goes, Absent,
            viewVars, chainVars, localVars, cameraVars, boundVars
<1>1. ASSUME NEW h \in Handlers, CameraConnects(h)
      PROVE  ChainInv'
  BY <1>1 DEF CameraConnects, Frames
<1>2. CASE CameraLeaves
  BY <1>2 DEF CameraLeaves, CameraGone
<1>3. CASE CameraRegisters
  BY <1>3 DEF CameraRegisters, Sends, Frames
<1>4. CASE CameraBinds
  <2>1. <<"bound", aim>> \in Frames
    BY <1>4 DEF CameraBinds, Frames
  <2>2. QED
    BY <1>4, <2>1 DEF CameraBinds, Sends
<1>5. CASE CameraStops
  BY <1>5 DEF CameraStops
<1>6. CASE LinkFails
  BY <1>6 DEF LinkFails, NotDelivered, CameraGone
<1>7. CASE Restart
  <2>1. restarts' \in 0..MaxRestarts
    BY <1>7, BoundAssumption DEF Restart
  <2>2. /\ at' \in [Threads -> {"gone", "idle", "serve"}]
        /\ \A t \in Requesters : at'[t] \in {"gone", "idle"}
    BY <1>7 DEF Restart
  <2>3. mine' \in [Requesters -> 0..Floor] /\ sentAge' \in 0..Floor
    BY <1>7 DEF Restart, NoneSent
  <2>4. inbox' \in [Handlers -> Seq(Frames)] /\ viewer' \in Pairs \cup {None}
        /\ saved' = viewer'
    BY <1>7 DEF Restart
  <2>5. QED
    BY <1>7, <2>1, <2>2, <2>3, <2>4 DEF Restart
<1>8. CASE Tick
  <2>1. fire' \in {Absent} \cup 0..Fallback
    BY <1>8 DEF Tick
  <2>2. sentAge' \in 0..Floor /\ mine' \in [Requesters -> 0..Floor]
    BY <1>8, AtMostFloor DEF Tick
  <2>3. QED
    BY <1>8, <2>1, <2>2 DEF Tick
<1>9. QED
  BY <1>1, <1>2, <1>3, <1>4, <1>5, <1>6, <1>7, <1>8 DEF Camera

LEMMA ChainStep == ChainInv /\ [Next]_vars => ChainInv'
<1> SUFFICES ASSUME ChainInv, [Next]_vars PROVE ChainInv'
  OBVIOUS
<1>1. ASSUME NEW h \in Handlers,
             Handler(h) \/ HandlerEnds(h) \/ ScheduleP2PLive(h)
      PROVE  ChainInv'
  BY <1>1, ChainHandler, ChainSchedule DEF Requesters
<1>2. ASSUME NEW c \in Clients,
             \/ ViewerSaved(c) \/ NotifyStart(c) \/ NotifyStop(c)
             \/ ScheduleP2PLive(c)
             \/ \E p \in Pairs : SendStunAddr(c, p)
      PROVE  ChainInv'
  BY <1>2, ChainClient, ChainSchedule DEF Requesters
<1>3. CASE ServeDueP2PFires
  BY <1>3, ChainWorker
<1>4. CASE Camera \/ LinkFails \/ Restart \/ Tick
  BY <1>4, ChainOutside
<1>5. CASE UNCHANGED vars
  BY <1>5 DEF vars, ChainInv, TypeOK, PairKnown, viewVars, chainVars, localVars,
              cameraVars, boundVars
<1>6. QED
  BY <1>1, <1>2, <1>3, <1>4, <1>5 DEF Next

LEMMA ChainAlways == Spec => []ChainInv
BY ChainInit, ChainStep, PTL DEF Spec

\* Every value has its type: in particular every deadline is absent or within
\* the fallback, and every report a handler takes is for a viewer pair.
THEOREM TypeCorrect == Spec => []TypeOK
<1>1. ChainInv => TypeOK
  BY DEF ChainInv
<1>2. QED
  BY <1>1, ChainAlways, PTL

-----------------------------------------------------------------------------
(* A report belongs to a chain.                                            *)

\* Where ready and fire stay as they are, the property can only be lost by the
\* worker or a handler moving on.
LEMMA ReportKept ==
  ASSUME ReportHasChain, ready' = ready, fire' = fire,
         at'[Worker] = at[Worker],
         \A h \in Handlers : at[h] = "arm" => at'[h] = "arm"
  PROVE  ReportHasChain'
BY DEF ReportHasChain

LEMMA ReportStep ==
  ASSUME ChainInv, ReportHasChain, [Next]_vars
  PROVE  ReportHasChain'
<1> USE ChainAssumption
<1> USE DEF ChainInv, TypeOK, Threads, Requesters, Goes, Absent,
            viewVars, chainVars, localVars, cameraVars, boundVars
<1>1. ASSUME NEW t \in Requesters, ScheduleP2PLive(t)
      PROVE  ReportHasChain'
  <2>1. CASE ForcePops(t)
    BY <2>1 DEF ForcePops, ReportHasChain
  <2>2. CASE ReadViewer(t)
    BY <2>2, ReportKept DEF ReadViewer, Leaves
  <2>3. CASE NotSent(t)
    BY <2>3, ReportKept DEF NotSent, Leaves
  <2>4. CASE Decides(t)
    BY <2>4 DEF Decides, ReportHasChain
  <2>5. CASE RequestSent(t)
    BY <2>5, ReportKept DEF RequestSent
  <2>6. CASE RequestFails(t)
    BY <2>6, ReportKept DEF RequestFails, Leaves
  <2>7. CASE RecordRequest(t)
    BY <2>7 DEF RecordRequest, ReportHasChain
  <2>8. QED
    BY <1>1, <2>1, <2>2, <2>3, <2>4, <2>5, <2>6, <2>7 DEF ScheduleP2PLive
<1>2. ASSUME NEW h \in Handlers, Handler(h) \/ HandlerEnds(h)
      PROVE  ReportHasChain'
  <2>1. CASE ReceiveRegister(h)
    BY <2>1, ReportKept DEF ReceiveRegister
  <2>2. CASE ReceiveBound(h)
    BY <2>2, ReportKept DEF ReceiveBound
  <2>3. CASE ReportIgnored(h)
    BY <2>3, ReportKept DEF ReportIgnored
  <2>4. CASE ReportTaken(h)
    BY <2>4, ReportKept DEF ReportTaken
  <2>5. CASE ReportNoted(h)
    BY <2>5 DEF ReportNoted, ReportHasChain
  <2>6. CASE SettlePlay(h)
    BY <2>6 DEF SettlePlay, ReportHasChain
  <2>7. CASE HandlerEnds(h)
    BY <2>7, ReportKept DEF HandlerEnds
  <2>8. QED
    BY <1>2, <2>1, <2>2, <2>3, <2>4, <2>5, <2>6, <2>7 DEF Handler
<1>3. ASSUME NEW c \in Clients,
             \/ ViewerSaved(c) \/ NotifyStart(c) \/ NotifyStop(c)
             \/ \E p \in Pairs : SendStunAddr(c, p)
      PROVE  ReportHasChain'
  BY <1>3, ReportKept DEF ViewerSaved, NotifyStart, NotifyStop, SendStunAddr
<1>4. CASE WorkerLooks
  BY <1>4 DEF WorkerLooks, ReportHasChain
<1>5. CASE WorkerTakes
  BY <1>5 DEF WorkerTakes, ReportHasChain
<1>6. CASE WorkerReadies
  BY <1>6 DEF WorkerReadies, ReportHasChain
<1>7. CASE WorkerPlays
  BY <1>7 DEF WorkerPlays, ReportHasChain
<1>8. CASE Camera \/ LinkFails
  <2>1. ASSUME NEW h \in Handlers, CameraConnects(h)
        PROVE  ReportHasChain'
    BY <2>1, ReportKept DEF CameraConnects
  <2>2. CASE LinkFails \/ CameraLeaves \/ CameraRegisters \/ CameraBinds \/ CameraStops
    BY <2>2, ReportKept
       DEF LinkFails, CameraLeaves, CameraRegisters, CameraBinds, CameraStops, Sends
  <2>3. QED
    BY <1>8, <2>1, <2>2 DEF Camera
<1>9. CASE Restart
  BY <1>9 DEF Restart, ReportHasChain
<1>10. CASE Tick
  BY <1>10 DEF Tick, ReportHasChain
<1>11. CASE UNCHANGED vars
  BY <1>11, ReportKept DEF vars
<1>12. QED
  BY <1>1, <1>2, <1>3, <1>4, <1>5, <1>6, <1>7, <1>8, <1>9, <1>10, <1>11
     DEF Next, ServeDueP2PFires

\* However many connections and threads there are, p2p_ready holds a report
\* only while its chain's play is pending or being sent.
THEOREM ReportNeverOutlivesChain == Spec => []ReportHasChain
<1>1. Init => ReportHasChain
  BY DEF Init, ReportHasChain
<1>2. ChainInv /\ ReportHasChain /\ [Next]_vars => ReportHasChain'
  BY ReportStep
<1>3. QED
  BY <1>1, <1>2, ChainAlways, PTL DEF Spec

-----------------------------------------------------------------------------
(* The resend floor.                                                       *)

\* The strengthening.  Outside the window between a thread's send and its
\* record, p2p_sent_at is no older than the thread's own last 0x8101 (so the
\* floor the code measures covers what the thread remembers); and a thread
\* that has passed the check has nothing to remember.
FloorInv ==
  /\ \A t \in Requesters : at[t] # "record" => sentAge <= mine[t]
  /\ \A t \in Requesters :
       at[t] = "send" /\ t \notin forcing /\ sentPair = pair[t] => mine[t] = Floor

\* A step that touches neither the floor nor the requesters' places that
\* FloorInv speaks of keeps it.
LEMMA FloorKept ==
  ASSUME FloorInv, UNCHANGED <<mine, sentAge, sentPair>>,
         \A t \in Requesters :
           /\ at'[t] = "send" => /\ at[t] = "send" /\ pair'[t] = pair[t]
                                 /\ t \in forcing => t \in forcing'
           /\ at[t] = "record" => at'[t] = "record"
  PROVE  FloorInv'
BY DEF FloorInv

LEMMA FloorInit == Init => FloorInv
<1> SUFFICES ASSUME Init PROVE FloorInv
  OBVIOUS
<1>1. /\ sentAge = Floor
      /\ \A t \in Requesters : mine[t] = Floor
  BY DEF Init, NoneSent
<1>2. QED
  BY <1>1, ChainAssumption DEF FloorInv

LEMMA FloorSchedule ==
  ASSUME ChainInv, FloorInv, NEW t \in Requesters, ScheduleP2PLive(t)
  PROVE  FloorInv'
<1> USE ChainAssumption
<1> USE DEF ChainInv, TypeOK, Threads, Requesters, Goes,
            viewVars, chainVars, localVars, cameraVars, boundVars
<1>1. CASE ForcePops(t)
  BY <1>1 DEF ForcePops, NoneSent, FloorInv
<1>2. CASE ReadViewer(t)
  BY <1>2, FloorKept DEF ReadViewer, Leaves
<1>3. CASE NotSent(t)
  BY <1>3, FloorKept DEF NotSent, Leaves
<1>4. CASE Decides(t)
  <2>1. t \notin forcing /\ sentPair = pair[t] => mine[t] = Floor
    BY <1>4 DEF Decides, Held, FloorInv
  <2>2. /\ at[t] = "check" /\ at' = [at EXCEPT ![t] = "send"]
        /\ UNCHANGED <<mine, sentAge, sentPair, pair, forcing>>
    BY <1>4 DEF Decides
  <2>3. QED
    BY <2>1, <2>2 DEF FloorInv
<1>5. CASE RequestSent(t)
  <2>1. /\ at' = [at EXCEPT ![t] = "record"] /\ mine' = [mine EXCEPT ![t] = 0]
        /\ UNCHANGED <<sentAge, sentPair, pair, forcing>>
    BY <1>5 DEF RequestSent
  <2>2. QED
    BY <2>1 DEF FloorInv
<1>6. CASE RequestFails(t)
  <2>1. at[t] = "send"
    BY <1>6 DEF RequestFails
  <2>2. QED
    BY <1>6, <2>1, FloorKept DEF RequestFails, Leaves
<1>7. CASE RecordRequest(t)
  <2>1. /\ at[t] = "record" /\ sentAge' = 0 /\ sentPair' = pair[t]
        /\ at' = [at EXCEPT ![t] = IF t \in Handlers THEN "recv" ELSE "idle"]
        /\ forcing' = forcing \ {t} /\ pair' = [pair EXCEPT ![t] = None]
    BY <1>7 DEF RecordRequest, Leaves
  <2>2. CASE sentPair = pair[t]
    <3>1. mine' = mine /\ sentPair' = sentPair
      BY <1>7, <2>1, <2>2 DEF RecordRequest
    <3>2. QED
      BY <2>1, <3>1 DEF FloorInv
  <2>3. CASE sentPair # pair[t]
    <3>1. /\ mine' \in [Requesters -> 0..Floor]
          /\ \A u \in Requesters : u # t => mine'[u] = Floor
      BY <1>7, <2>3 DEF RecordRequest, NoneSent
    <3>2. QED
      BY <2>1, <3>1 DEF FloorInv
  <2>4. QED
    BY <2>2, <2>3
<1>8. QED
  BY <1>1, <1>2, <1>3, <1>4, <1>5, <1>6, <1>7 DEF ScheduleP2PLive

LEMMA FloorStep ==
  ASSUME ChainInv, FloorInv, [Next]_vars
  PROVE  FloorInv'
<1> USE ChainAssumption
<1> USE DEF ChainInv, TypeOK, Threads, Requesters, Goes,
            viewVars, chainVars, localVars, cameraVars, boundVars
<1>1. ASSUME NEW t \in Requesters, ScheduleP2PLive(t)
      PROVE  FloorInv'
  BY <1>1, FloorSchedule
<1>2. ASSUME NEW h \in Handlers, Handler(h) \/ HandlerEnds(h)
      PROVE  FloorInv'
  <2>1. CASE ReceiveRegister(h)
    BY <2>1, FloorKept DEF ReceiveRegister
  <2>2. CASE ReceiveBound(h)
    BY <2>2, FloorKept DEF ReceiveBound
  <2>3. CASE ReportIgnored(h)
    BY <2>3, FloorKept DEF ReportIgnored
  <2>4. CASE ReportTaken(h)
    BY <2>4, FloorKept DEF ReportTaken
  <2>5. CASE ReportNoted(h)
    BY <2>5, FloorKept DEF ReportNoted
  <2>6. CASE SettlePlay(h)
    BY <2>6, FloorKept DEF SettlePlay
  <2>7. CASE HandlerEnds(h)
    BY <2>7, FloorKept DEF HandlerEnds
  <2>8. QED
    BY <1>2, <2>1, <2>2, <2>3, <2>4, <2>5, <2>6, <2>7 DEF Handler
<1>3. ASSUME NEW c \in Clients,
             \/ ViewerSaved(c) \/ NotifyStart(c) \/ NotifyStop(c)
             \/ \E p \in Pairs : SendStunAddr(c, p)
      PROVE  FloorInv'
  BY <1>3, FloorKept DEF ViewerSaved, NotifyStart, NotifyStop, SendStunAddr
<1>4. CASE ServeDueP2PFires
  <2>1. /\ UNCHANGED <<mine, sentAge, sentPair, pair, forcing>>
        /\ \A t \in Requesters : at'[t] = at[t]
    BY <1>4 DEF ServeDueP2PFires, WorkerLooks, WorkerTakes, WorkerReadies,
                WorkerPlays
  <2>2. QED
    BY <2>1, FloorKept
<1>5. CASE Camera \/ LinkFails
  <2>1. ASSUME NEW h \in Handlers, CameraConnects(h)
        PROVE  FloorInv'
    BY <2>1, FloorKept DEF CameraConnects
  <2>2. CASE LinkFails \/ CameraLeaves \/ CameraRegisters \/ CameraBinds \/ CameraStops
    BY <2>2, FloorKept
       DEF LinkFails, CameraLeaves, CameraRegisters, CameraBinds, CameraStops, Sends
  <2>3. QED
    BY <1>5, <2>1, <2>2 DEF Camera
<1>6. CASE Restart
  <2>1. /\ sentAge' = Floor
        /\ \A t \in Requesters : mine'[t] = Floor /\ at'[t] \in {"gone", "idle"}
    BY <1>6 DEF Restart, NoneSent
  <2>2. QED
    BY <2>1 DEF FloorInv
<1>7. CASE Tick
  <2>1. /\ sentAge' = AtMost(sentAge + 1, Floor)
        /\ \A t \in Requesters : mine'[t] = AtMost(mine[t] + 1, Floor)
        /\ UNCHANGED <<at, pair, forcing, sentPair>>
    BY <1>7 DEF Tick
  <2>2. sentAge \in 0..Floor /\ \A t \in Requesters : mine[t] \in 0..Floor
    OBVIOUS
  <2>3. \A t \in Requesters : sentAge <= mine[t] => sentAge' <= mine'[t]
    BY <2>1, <2>2, AtMostFloor
  <2>4. \A t \in Requesters : mine[t] = Floor => mine'[t] = Floor
    BY <2>1, <2>2, AtMostFloor
  <2>5. QED
    BY <2>1, <2>3, <2>4, Zenon DEF FloorInv
<1>8. CASE UNCHANGED vars
  BY <1>8, FloorKept DEF vars
<1>9. QED
  BY <1>1, <1>2, <1>3, <1>4, <1>5, <1>6, <1>7, <1>8 DEF Next

\* For any number of connections, HTTP threads and viewer pairs, no thread's
\* own retries send the camera 0x8101 twice within the resend floor.
THEOREM ResendFloorKept == Spec => ResendFloorHolds
<1>1. FloorInv /\ [Next]_vars
        => [\A t \in Requesters :
              RequestSent(t) /\ t \notin forcing /\ sentPair = pair[t]
                => mine[t] = Floor]_vars
  BY DEF FloorInv, RequestSent
<1>2. ChainInv /\ FloorInv /\ [Next]_vars => FloorInv'
  BY FloorStep
<1>3. QED
  BY <1>1, <1>2, FloorInit, ChainAlways, PTL DEF Spec, ResendFloorHolds

=============================================================================
