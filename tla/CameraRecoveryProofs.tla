------------------------ MODULE CameraRecoveryProofs ------------------------
(***************************************************************************)
(* What holds of CameraRecovery for every value of its constants: its type *)
(* invariant, the three safety invariants the runs check and that no wake  *)
(* is lost, each from an inductive strengthening of its own.               *)
(***************************************************************************)
EXTENDS CameraRecovery, TLAPS

-----------------------------------------------------------------------------
(* The backoff.                                                            *)

\* The smaller of two naturals is a natural bounded by both.
LEMMA AtMostBounds ==
  ASSUME NEW a \in Nat, NEW b \in Nat
  PROVE  AtMost(a, b) \in 0..b /\ AtMost(a, b) <= a
BY DEF AtMost

\* An attempt never leaves the backoff under the floor or over the ceiling,
\* whatever the poller's zero did to it.
LEMMA DoubledBounds ==
  ASSUME backoff \in 0..MaxBackoff
  PROVE  Doubled \in InitialBackoff..MaxBackoff
BY TimingAssumption DEF Doubled, AtMost

-----------------------------------------------------------------------------
(* Type correctness.                                                       *)

\* The Boolean part of TypeOK: Zenon follows Boolean variables and not numbers,
\* the SMT solver the reverse, so a step that assigns both is proved in two.
FlagsOK ==
  /\ cloudOn \in BOOLEAN /\ wake \in BOOLEAN /\ ok \in BOOLEAN
  /\ sawWake \in BOOLEAN /\ dead \in BOOLEAN /\ stopped \in BOOLEAN
  /\ owed \in BOOLEAN /\ trial \in BOOLEAN

LEMMA TypeInit == Init => TypeOK
<1> SUFFICES ASSUME Init PROVE TypeOK
  OBVIOUS
<1>1. FlagsOK
  BY Zenon DEF Init, FlagsOK
<1>2. QED
  BY <1>1, TimingAssumption, BoundAssumption DEF Init, TypeOK, FlagsOK, Transport

\* A tick of the recovery thread keeps the types.
LEMMA TypeRecoveryTick == TypeOK /\ RecoveryTick => TypeOK'
<1> SUFFICES ASSUME TypeOK, RecoveryTick PROVE TypeOK'
  OBVIOUS
<1> USE TimingAssumption, BoundAssumption DEF TypeOK
<1> USE DEF sharedVars, privateVars, localVars, otherVars, historyVars
<1>1. CASE RecoveryStops
  BY <1>1 DEF RecoveryStops
<1>2. CASE TickRelaySilent
  BY <1>2 DEF TickRelaySilent, StopRelay
<1>3. CASE TickStayRelayed
  BY <1>3 DEF TickStayRelayed
<1>4. CASE TickTryDirect
  BY <1>4 DEF TickTryDirect, StopRelay
<1>5. CASE TickStreaming
  <2>1. FlagsOK'
    BY <1>5, Zenon DEF FlagsOK, TickStreaming
  <2>2. QED
    BY <1>5, <2>1 DEF FlagsOK, TickStreaming
<1>6. CASE TickDead
  BY <1>6 DEF TickDead
<1>7. CASE ClearWake
  <2>1. FlagsOK'
    BY <1>7, Zenon DEF FlagsOK, ClearWake
  <2>2. QED
    BY <1>7, <2>1 DEF FlagsOK, ClearWake
<1>8. CASE GateHolds
  <2>1. FlagsOK'
    BY <1>8, Zenon DEF FlagsOK, GateHolds, GateLocalsDropped
  <2>2. QED
    BY <1>8, <2>1 DEF FlagsOK, GateHolds, GateLocalsDropped
<1>9. CASE GateSweeps
  <2>1. FlagsOK'
    BY <1>9, Zenon DEF FlagsOK, GateSweeps, CountAttempt, GateLocalsDropped
  <2>2. QED
    BY <1>9, <2>1 DEF FlagsOK, GateSweeps, CountAttempt, GateLocalsDropped
<1>10. CASE GateReannounces
  <2>1. FlagsOK'
    BY <1>10, Zenon DEF FlagsOK, GateReannounces, CountAttempt, GateLocalsDropped
  <2>2. QED
    BY <1>10, <2>1 DEF FlagsOK, GateReannounces, CountAttempt, GateLocalsDropped
<1>11. CASE GateAttempts
  <2>1. FlagsOK'
    BY <1>11, Zenon DEF FlagsOK, GateAttempts, CountAttempt, GateLocalsDropped, Transport
  <2>2. QED
    BY <1>11, <2>1 DEF FlagsOK, GateAttempts, CountAttempt, GateLocalsDropped, Transport
<1>12. CASE Reannounce
  BY <1>12, DoubledBounds DEF Reannounce
<1>13. CASE SweepAccounted
  BY <1>13, DoubledBounds DEF SweepAccounted, RecordAttempt, AtMost
<1>14. QED
  BY <1>1, <1>2, <1>3, <1>4, <1>5, <1>6, <1>7, <1>8, <1>9, <1>10, <1>11,
     <1>12, <1>13 DEF RecoveryTick

\* A step of a transport attempt keeps the types.
LEMMA TypeTransportAttempt == TypeOK /\ TransportAttempt => TypeOK'
<1> SUFFICES ASSUME TypeOK, TransportAttempt PROVE TypeOK'
  OBVIOUS
<1> USE TimingAssumption, BoundAssumption DEF TypeOK
<1> USE DEF sharedVars, privateVars, localVars, otherVars, historyVars
<1>1. CASE BindSocket
  <2>1. FlagsOK'
    BY <1>1, Zenon DEF FlagsOK, BindSocket
  <2>2. QED
    BY <1>1, <2>1 DEF FlagsOK, BindSocket
<1>2. CASE Install
  <2>1. FlagsOK'
    BY <1>2, Zenon DEF FlagsOK, Install
  <2>2. QED
    BY <1>2, <2>1 DEF FlagsOK, Install
<1>3. CASE SweepEnds
  BY <1>3 DEF SweepEnds
<1>4. CASE NoAddress
  BY <1>4 DEF NoAddress
<1>5. CASE Unregister
  <2>1. FlagsOK'
    BY <1>5, Zenon DEF FlagsOK, Unregister
  <2>2. QED
    BY <1>5, <2>1 DEF FlagsOK, Unregister
<1>6. ASSUME NEW s \in Streams, RelayPlays(s) PROVE TypeOK'
  BY <1>6 DEF RelayPlays
<1>7. ASSUME NEW s \in Streams, RegisterRelay(s) PROVE TypeOK'
  <2>1. FlagsOK'
    BY <1>7, Zenon DEF FlagsOK, RegisterRelay, RelayReturns
  <2>2. QED
    BY <1>7, <2>1 DEF FlagsOK, RegisterRelay, RelayReturns
<1>8. CASE NoRelay
  <2>1. FlagsOK'
    BY <1>8, Zenon DEF FlagsOK, NoRelay, RelayReturns
  <2>2. QED
    BY <1>8, <2>1 DEF FlagsOK, NoRelay, RelayReturns
<1>9. CASE StartReturns
  <2>1. FlagsOK'
    BY <1>9, Zenon DEF FlagsOK, StartReturns
  <2>2. QED
    BY <1>9, <2>1 DEF FlagsOK, StartReturns
<1>10. CASE TrialReturns
  <2>1. FlagsOK'
    BY <1>10, Zenon DEF FlagsOK, TrialReturns
  <2>2. QED
    BY <1>10, <2>1 DEF FlagsOK, TrialReturns
<1>11. CASE WaitSlice
  BY <1>11 DEF WaitSlice
<1>12. CASE AccountAttempt
  <2>1. FlagsOK'
    BY <1>12, Zenon DEF FlagsOK, AccountAttempt, RecordAttempt
  <2>2. QED
    BY <1>12, <2>1, DoubledBounds DEF FlagsOK, AccountAttempt, RecordAttempt, AtMost
<1>13. QED
  BY <1>1, <1>2, <1>3, <1>4, <1>5, <1>6, <1>7, <1>8, <1>9, <1>10, <1>11,
     <1>12 DEF TransportAttempt

\* A step of the other threads, or of the clock, keeps the types.
LEMMA TypeOthers ==
  ASSUME TypeOK,
         \/ \E s \in Streams : RelayMedia(s) \/ RelayDrops(s) \/ PumpExit(s)
         \/ Receive \/ (\E on \in BOOLEAN : PollRow(on)) \/ PollWrites
         \/ StopEvent \/ StopCloses \/ Tick
  PROVE  TypeOK'
<1> USE TimingAssumption, BoundAssumption DEF TypeOK
<1> USE DEF sharedVars, privateVars, localVars, otherVars, historyVars
<1>1. ASSUME NEW s \in Streams, RelayMedia(s) PROVE TypeOK'
  BY <1>1 DEF RelayMedia
<1>2. ASSUME NEW s \in Streams, RelayDrops(s) PROVE TypeOK'
  BY <1>2 DEF RelayDrops
<1>3. ASSUME NEW s \in Streams, PumpExit(s) PROVE TypeOK'
  BY <1>3 DEF PumpExit, PumpNotices, PumpChecks, PumpClears
<1>4. CASE Receive
  <2>1. FlagsOK'
    BY <1>4, Zenon DEF FlagsOK, Receive, ReceiveBegins, DirectMedia, ReceiveNothing
  <2>2. QED
    BY <1>4, <2>1 DEF FlagsOK, Receive, ReceiveBegins, DirectMedia, ReceiveNothing
<1>5. ASSUME NEW on \in BOOLEAN, PollRow(on) PROVE TypeOK'
  BY <1>5 DEF PollRow
<1>6. CASE PollWrites
  <2>1. FlagsOK'
    BY <1>6, Zenon DEF FlagsOK, PollWrites, PollJudges, PollSetsWake, PollSetsBackoff, PollSetsLast
  <2>2. QED
    BY <1>6, <2>1 DEF FlagsOK, PollWrites, PollJudges, PollSetsWake, PollSetsBackoff, PollSetsLast
<1>7. CASE StopEvent
  BY <1>7 DEF StopEvent
<1>8. CASE StopCloses
  BY <1>8 DEF StopCloses, StopDropsRelay, StopRelay, StopClosesSocket
<1>9. CASE Tick
  <2>1. /\ rxAge' \in 0..DeadThreshold /\ sinceLast' \in 0..MaxBackoff
        /\ sinceTrial' \in 0..RelayRetryDirect
        /\ sinceAttempt' \in 0..InitialBackoff
    BY <1>9 DEF Tick, AtMost
  <2>2. QED
    BY <1>9, <2>1 DEF Tick
<1>10. QED
  BY <1>1, <1>2, <1>3, <1>4, <1>5, <1>6, <1>7, <1>8, <1>9

LEMMA TypeStep == TypeOK /\ [Next]_vars => TypeOK'
<1> SUFFICES ASSUME TypeOK, [Next]_vars PROVE TypeOK'
  OBVIOUS
<1>1. CASE Next
  BY <1>1, TypeRecoveryTick, TypeTransportAttempt, TypeOthers DEF Next, Recovery
<1>2. CASE UNCHANGED vars
  BY <1>2 DEF TypeOK, vars, sharedVars, privateVars, localVars, otherVars,
              historyVars
<1>3. QED
  BY <1>1, <1>2

\* Every attribute stays in its range; the backoff never passes MaxBackoff,
\* however the poller's writes interleave with the attempts.
THEOREM TypeCorrect == Spec => []TypeOK
BY TypeInit, TypeStep, PTL DEF Spec

-----------------------------------------------------------------------------
(* The registered socket.  A closed socket stays registered between the two *)
(* steps of _close_sock only, and there the rendezvous still holds it; the  *)
(* other way to lose a held socket is stop().                               *)

SocketInv ==
  /\ ~stopped /\ sock = "closed" => pc = "unregister" /\ held = "registered"
  /\ held = "lost" => stopped
  /\ stopper # "idle" => stopped

LEMMA SocketStep == TypeOK /\ SocketInv /\ [Next]_vars => SocketInv'
<1> SUFFICES ASSUME TypeOK, SocketInv, [Next]_vars PROVE SocketInv'
  OBVIOUS
<1> USE DEF SocketInv, sharedVars, privateVars, localVars, otherVars, historyVars
<1>1. CASE RecoveryTick
  \* No step of a tick touches the socket, and none is taken at "unregister".
  <2>1. UNCHANGED <<sock, held, stopper, stopped>>
    BY <1>1 DEF RecoveryTick, RecoveryStops, TickRelaySilent, TickStayRelayed,
       TickTryDirect, TickStreaming, TickDead, ClearWake, GateHolds, GateSweeps,
       GateReannounces, GateAttempts, Reannounce, SweepAccounted
  <2>2. pc # "unregister"
    BY <1>1 DEF RecoveryTick, RecoveryStops, TickBegins, TickRelaySilent,
       TickStayRelayed, TickTryDirect, TickStreaming, TickDead, ClearWake,
       GateHolds, GateSweeps, GateReannounces, GateAttempts, Reannounce,
       SweepAccounted
  <2>3. QED
    BY <2>1, <2>2
<1>2. CASE TransportAttempt
  <2>1. CASE BindSocket
    BY <2>1 DEF BindSocket
  <2>2. CASE Install
    <3>1. held = "fresh" => sock' = "open"
      BY <2>2 DEF Install
    <3>2. held \notin {"fresh", "lost"} => sock' = sock
      BY <2>2 DEF Install
    <3>3. pc = "negotiate" /\ held' = "none" /\ UNCHANGED <<stopper, stopped>>
      BY <2>2 DEF Install
    <3>4. QED
      BY <3>1, <3>2, <3>3
  <2>3. CASE NoAddress
    BY <2>3 DEF NoAddress
  <2>4. CASE Unregister
    BY <2>4 DEF Unregister
  <2>5. CASE \/ SweepEnds \/ NoRelay \/ StartReturns \/ TrialReturns
             \/ WaitSlice \/ AccountAttempt
    BY <2>5 DEF SweepEnds, NoRelay, StartReturns, TrialReturns, WaitSlice,
       AccountAttempt
  <2>6. ASSUME NEW s \in Streams, RelayPlays(s) \/ RegisterRelay(s)
        PROVE  SocketInv'
    BY <2>6 DEF RelayPlays, RegisterRelay
  <2>7. QED
    BY <1>2, <2>1, <2>2, <2>3, <2>4, <2>5, <2>6 DEF TransportAttempt
<1>3. ASSUME NEW s \in Streams, RelayMedia(s) \/ RelayDrops(s) \/ PumpExit(s)
      PROVE  SocketInv'
  BY <1>3 DEF RelayMedia, RelayDrops, PumpExit, PumpNotices, PumpChecks, PumpClears
<1>4. CASE Receive
  BY <1>4 DEF Receive, ReceiveBegins, DirectMedia, ReceiveNothing
<1>5. CASE (\E on \in BOOLEAN : PollRow(on)) \/ PollWrites
  BY <1>5 DEF PollRow, PollWrites, PollJudges, PollSetsWake, PollSetsBackoff,
     PollSetsLast
<1>6. CASE StopEvent
  BY <1>6 DEF StopEvent
<1>7. CASE StopCloses
  BY <1>7 DEF StopCloses, StopDropsRelay, StopClosesSocket
<1>8. CASE Tick
  <2>1. pc = "unregister" => pc' = "unregister"
    BY <1>8 DEF Tick
  <2>2. UNCHANGED <<sock, held, stopper, stopped>>
    BY <1>8 DEF Tick
  <2>3. QED
    BY <2>1, <2>2
<1>9. CASE UNCHANGED vars
  BY <1>9 DEF vars
<1>10. QED
  BY <1>1, <1>2, <1>3, <1>4, <1>5, <1>6, <1>7, <1>8, <1>9 DEF Next, Recovery

\* While the camera runs, the registered socket is closed only while the failed
\* rendezvous that closed it is about to forget it.
THEOREM RegisteredSocketIsOpen == Spec => []DirectModeIsOpen
<1>1. Init => SocketInv
  BY DEF Init, SocketInv
<1>2. SocketInv => DirectModeIsOpen
  BY DEF SocketInv, DirectModeIsOpen
<1>3. QED
  BY <1>1, <1>2, SocketStep, TypeCorrect, PTL DEF Spec

-----------------------------------------------------------------------------
(* The registered relay.  The property is inductive: a stream is registered *)
(* and set playing in one step, and its pump thread's finally clears the    *)
(* registration before the thread ends.                                     *)

LEMMA RelayStep ==
  TypeOK /\ RelayModeIsPumped /\ [Next]_vars => RelayModeIsPumped'
<1> SUFFICES ASSUME TypeOK, RelayModeIsPumped, [Next]_vars
             PROVE  RelayModeIsPumped'
  OBVIOUS
<1> USE BoundAssumption DEF RelayModeIsPumped, Relayed
<1> USE DEF sharedVars, privateVars, localVars, otherVars, historyVars
<1>0. relay \in Streams \cup {NoStream} /\ DOMAIN pump = Streams
  BY DEF TypeOK
<1>1. CASE UNCHANGED <<relay, pump>>
  BY <1>1
<1>2. CASE StopRelay
  BY <1>2 DEF StopRelay
<1>3. ASSUME NEW s \in Streams, RelayPlays(s) PROVE RelayModeIsPumped'
  BY <1>0, <1>3 DEF RelayPlays
<1>4. ASSUME NEW s \in Streams, RegisterRelay(s) PROVE RelayModeIsPumped'
  BY <1>0, <1>4 DEF RegisterRelay
<1>5. ASSUME NEW s \in Streams, RelayDrops(s) \/ PumpExit(s)
      PROVE  RelayModeIsPumped'
  BY <1>0, <1>5 DEF RelayDrops, PumpExit, PumpNotices, PumpChecks, PumpClears
<1>6. CASE RecoveryTick
  <2>1. UNCHANGED <<relay, pump>> \/ StopRelay
    BY <1>6 DEF RecoveryTick, RecoveryStops, TickRelaySilent, TickStayRelayed,
       TickTryDirect, TickStreaming, TickDead, ClearWake, GateHolds, GateSweeps,
       GateReannounces, GateAttempts, Reannounce, SweepAccounted
  <2>2. QED
    BY <2>1, <1>1, <1>2
<1>7. CASE TransportAttempt
  <2>1. \/ UNCHANGED <<relay, pump>>
        \/ \E s \in Streams : RelayPlays(s) \/ RegisterRelay(s)
    BY <1>7 DEF TransportAttempt, BindSocket, Install, SweepEnds, NoAddress,
       Unregister, NoRelay, StartReturns, TrialReturns, WaitSlice,
       AccountAttempt
  <2>2. QED
    BY <2>1, <1>1, <1>3, <1>4
<1>8. CASE Receive \/ (\E on \in BOOLEAN : PollRow(on)) \/ PollWrites
           \/ StopEvent \/ Tick \/ (\E s \in Streams : RelayMedia(s))
  <2>1. UNCHANGED <<relay, pump>>
    BY <1>8 DEF Receive, ReceiveBegins, DirectMedia, ReceiveNothing, PollRow,
       PollWrites, PollJudges, PollSetsWake, PollSetsBackoff, PollSetsLast,
       StopEvent, Tick, RelayMedia
  <2>2. QED
    BY <2>1, <1>1
<1>9. CASE StopCloses
  <2>1. UNCHANGED <<relay, pump>> \/ StopRelay
    BY <1>9 DEF StopCloses, StopDropsRelay, StopClosesSocket
  <2>2. QED
    BY <2>1, <1>1, <1>2
<1>10. CASE UNCHANGED vars
  BY <1>10, <1>1 DEF vars
<1>11. QED
  BY <1>5, <1>6, <1>7, <1>8, <1>9, <1>10 DEF Next, Recovery

\* /health says "relay" only over a stream whose pump thread is alive.
THEOREM RegisteredRelayIsPumped == Spec => []RelayModeIsPumped
<1>1. Init => RelayModeIsPumped
  BY DEF Init, RelayModeIsPumped, Relayed
<1>2. QED
  BY <1>1, RelayStep, TypeCorrect, PTL DEF Spec

-----------------------------------------------------------------------------
(* The early attempts.  Each of the three fields a transition writes is     *)
(* worth one early attempt until it is used: a wake flag until the gate has *)
(* acted on it, a backoff below the floor until an attempt is in flight     *)
(* that will double it, a timestamp older than the last attempt until the   *)
(* next attempt renews it; and each write the poller has yet to make.  The  *)
(* credit never falls below what these are worth together.                  *)

\* An attempt the gate let through, whose end doubles the backoff.
InFlight ==
  \/ pc = "reannounce"
  \/ caller = "punch" /\ pc = "sweep"
  \/ /\ caller = "tick"
     /\ pc \in {"sweep", "bind", "negotiate", "unregister", "relayOpen",
                "relayUp", "opened", "waiting"}

BackoffWorth ==
  (IF backoff < InitialBackoff /\ ~InFlight THEN 1 ELSE 0)
  + (IF poller \in {"setWake", "setBackoff"} THEN 1 ELSE 0)

LastWorth ==
  (IF sinceAttempt < sinceLast /\ sinceAttempt < InitialBackoff THEN 1 ELSE 0)
  + (IF poller \in {"setWake", "setBackoff", "setLast"} THEN 1 ELSE 0)

WakeWorth ==
  (IF sawWake THEN 1 ELSE 0)
  + (IF wake /\ pc # "clearWake" THEN 1 ELSE 0)
  + (IF poller = "setWake" THEN 1 ELSE 0)

CreditInv == credit >= WakeWorth + BackoffWorth + LastWorth

LEMMA WorthsOrder ==
  \A c, a1, a2, a3, b1, b2, b3 \in Int :
    c >= a1 + a2 + a3 /\ b1 <= a1 /\ b2 <= a2 /\ b3 <= a3 => c >= b1 + b2 + b3
OBVIOUS

\* A step that lowers no credit and raises no worth keeps the invariant.
LEMMA WorthsFall ==
  ASSUME CreditInv, credit \in Int, credit' = credit,
         WakeWorth \in Nat, BackoffWorth \in Nat, LastWorth \in Nat,
         WakeWorth' \in Nat, BackoffWorth' \in Nat, LastWorth' \in Nat,
         WakeWorth' <= WakeWorth, BackoffWorth' <= BackoffWorth,
         LastWorth' <= LastWorth
  PROVE  CreditInv'
<1>1. {credit, WakeWorth, BackoffWorth, LastWorth, WakeWorth', BackoffWorth',
       LastWorth'} \subseteq Int
  OBVIOUS
<1>2. credit >= WakeWorth' + BackoffWorth' + LastWorth'
  BY <1>1, WorthsOrder DEF CreditInv
<1>3. QED
  BY <1>2 DEF CreditInv

\* A step that leaves the three fields, the poller and the accounts alone, or
\* only renews the timestamp, costs nothing unless it drops an attempt in flight
\* with the backoff still below the floor.
LEMMA QuietStep ==
  ASSUME TypeOK, TypeOK', CreditInv,
         UNCHANGED <<wake, sawWake, poller, credit, sinceAttempt>>,
         sinceLast' <= sinceLast,
         \/ backoff' = backoff /\ (InFlight => InFlight')
         \/ backoff' >= InitialBackoff,
         pc' = "clearWake" <=> pc = "clearWake"
  PROVE  CreditInv'
<1>1. WakeWorth' <= WakeWorth /\ WakeWorth \in Nat /\ WakeWorth' \in Nat
  BY DEF WakeWorth
<1>2. BackoffWorth' <= BackoffWorth /\ BackoffWorth \in Nat /\ BackoffWorth' \in Nat
  BY TimingAssumption DEF BackoffWorth, TypeOK
<1>3. LastWorth' <= LastWorth /\ LastWorth \in Nat /\ LastWorth' \in Nat
  BY TimingAssumption DEF LastWorth, TypeOK
<1>4. credit' = credit /\ credit \in Int
  BY DEF TypeOK
<1>5. QED
  BY <1>1, <1>2, <1>3, <1>4, WorthsFall

\* An attempt the gate lets through is paid for by the field that let it.
LEMMA AttemptStep ==
  ASSUME TypeOK, TypeOK', CreditInv, pc = "gate", Due, CountAttempt, InFlight',
         UNCHANGED <<wake, backoff, poller>>, pc' # "clearWake"
  PROVE  CreditInv'
<1>1. ~InFlight
  BY DEF InFlight
<1>2. sinceAttempt' = 0 /\ sinceLast' = 0 /\ sawWake' = FALSE
  BY DEF CountAttempt, GateLocalsDropped
<1>3. LastWorth' = (IF poller \in {"setWake", "setBackoff", "setLast"} THEN 1 ELSE 0)
  BY <1>2 DEF LastWorth
<1>4. BackoffWorth' = (IF poller \in {"setWake", "setBackoff"} THEN 1 ELSE 0)
  BY DEF BackoffWorth
<1>5. WakeWorth' = (IF wake THEN 1 ELSE 0) + (IF poller = "setWake" THEN 1 ELSE 0)
  BY <1>2 DEF WakeWorth
<1>6. CASE sinceAttempt >= InitialBackoff
  <2>1. credit' = credit /\ credit \in Int
    BY <1>6, TimingAssumption DEF CountAttempt, TypeOK
  <2>2. QED
    BY <1>3, <1>4, <1>5, <2>1 DEF CreditInv, WakeWorth, BackoffWorth, LastWorth
<1>7. CASE sinceAttempt < InitialBackoff
  <2>1. credit' = credit - 1 /\ credit \in Int
    BY <1>7 DEF CountAttempt, TypeOK
  <2>2. CASE sawWake
    BY <1>3, <1>4, <1>5, <2>1, <2>2 DEF CreditInv, WakeWorth, BackoffWorth, LastWorth
  <2>3. CASE ~sawWake /\ backoff < InitialBackoff
    BY <1>1, <1>3, <1>4, <1>5, <2>1, <2>3
       DEF CreditInv, WakeWorth, BackoffWorth, LastWorth
  <2>4. CASE ~sawWake /\ backoff >= InitialBackoff
    <3>1. sinceAttempt < sinceLast
      BY <1>7, <2>4, TimingAssumption DEF Due, TypeOK
    <3>2. QED
      BY <1>3, <1>4, <1>5, <1>7, <2>1, <3>1
         DEF CreditInv, WakeWorth, BackoffWorth, LastWorth
  <2>5. QED
    BY <2>2, <2>3, <2>4, TimingAssumption DEF TypeOK
<1>8. QED
  BY <1>6, <1>7, TimingAssumption DEF TypeOK

LEMMA CreditRecoveryTick ==
  ASSUME TypeOK, TypeOK', CreditInv, RecoveryTick
  PROVE  CreditInv'
<1> USE DEF sharedVars, privateVars, localVars, otherVars, historyVars
<1>1. CASE \/ RecoveryStops \/ TickRelaySilent \/ TickStayRelayed
           \/ TickTryDirect
  BY <1>1, QuietStep DEF RecoveryStops, TickRelaySilent, TickStayRelayed,
     TickTryDirect, TickBegins, InFlight, TypeOK
<1>2. CASE TickStreaming
  BY <1>2, QuietStep, TimingAssumption DEF TickStreaming, TickBegins, TypeOK
<1>3. CASE TickDead
  <2>1. /\ UNCHANGED <<wake, backoff, sinceLast, poller, credit, sinceAttempt>>
        /\ sawWake' = wake /\ pc = "ready" /\ pc' = "clearWake"
    BY <1>3 DEF TickDead, TickBegins
  <2>2. WakeWorth' <= WakeWorth /\ WakeWorth \in Nat /\ WakeWorth' \in Nat
    BY <2>1 DEF WakeWorth
  <2>3. /\ BackoffWorth' <= BackoffWorth
        /\ BackoffWorth \in Nat /\ BackoffWorth' \in Nat
    BY <2>1 DEF BackoffWorth, InFlight
  <2>4. LastWorth' <= LastWorth /\ LastWorth \in Nat /\ LastWorth' \in Nat
    BY <2>1 DEF LastWorth
  <2>5. credit' = credit /\ credit \in Int
    BY <2>1 DEF TypeOK
  <2>6. QED
    BY <2>2, <2>3, <2>4, <2>5, WorthsFall
<1>4. CASE ClearWake
  <2>1. /\ UNCHANGED <<backoff, sinceLast, poller, credit, sinceAttempt, sawWake>>
        /\ wake' = FALSE /\ pc = "clearWake" /\ pc' = "gate"
    BY <1>4 DEF ClearWake
  <2>2. WakeWorth' = WakeWorth /\ LastWorth' = LastWorth
    BY <2>1 DEF WakeWorth, LastWorth
  <2>3. BackoffWorth' = BackoffWorth
    BY <2>1 DEF BackoffWorth, InFlight
  <2>4. QED
    BY <2>1, <2>2, <2>3 DEF CreditInv
<1>5. CASE GateHolds
  <2>1. sawWake = FALSE
    BY <1>5 DEF GateHolds, Due, TypeOK
  <2>2. sawWake' = sawWake
    BY <1>5, <2>1 DEF GateHolds, GateLocalsDropped
  <2>3. QED
    BY <1>5, <2>2, QuietStep DEF GateHolds, InFlight, TypeOK
<1>6. CASE GateSweeps
  BY <1>6, AttemptStep DEF GateSweeps, InFlight
<1>7. CASE GateReannounces
  BY <1>7, AttemptStep DEF GateReannounces, InFlight
<1>8. CASE GateAttempts
  BY <1>8, AttemptStep DEF GateAttempts, Transport, InFlight
<1>9. CASE Reannounce
  BY <1>9, QuietStep, DoubledBounds, TimingAssumption DEF Reannounce, TypeOK
<1>10. CASE SweepAccounted
  BY <1>10, QuietStep, DoubledBounds, TimingAssumption
     DEF SweepAccounted, RecordAttempt, TypeOK
<1>11. QED
  BY <1>1, <1>2, <1>3, <1>4, <1>5, <1>6, <1>7, <1>8, <1>9, <1>10
     DEF RecoveryTick

\* An attempt in flight stays in flight until its end has doubled the backoff.
LEMMA CreditTransportAttempt ==
  ASSUME TypeOK, TypeOK', CreditInv, TransportAttempt
  PROVE  CreditInv'
<1> USE DEF sharedVars, privateVars, localVars, otherVars, historyVars
<1>1. CASE \/ BindSocket \/ NoAddress \/ Unregister \/ StartReturns
           \/ WaitSlice
  BY <1>1, QuietStep DEF BindSocket, NoAddress, Unregister, StartReturns,
     WaitSlice, InFlight, TypeOK
<1>2. CASE Install
  <2>1. UNCHANGED <<wake, sawWake, poller, credit, sinceAttempt, backoff, caller>>
    BY <1>2 DEF Install
  <2>2. pc = "negotiate" /\ pc' \in {"opened", "sweep"} /\ sinceLast' \in {0, sinceLast}
    BY <1>2 DEF Install
  <2>3. QED
    BY <2>1, <2>2, QuietStep DEF InFlight, TypeOK
<1>3. CASE SweepEnds
  BY <1>3, QuietStep DEF SweepEnds, InFlight, TypeOK
<1>4. ASSUME NEW s \in Streams, RelayPlays(s) PROVE CreditInv'
  BY <1>4, QuietStep DEF RelayPlays, InFlight, TypeOK
<1>5. CASE (\E s \in Streams : RegisterRelay(s)) \/ NoRelay
  <2>1. UNCHANGED <<wake, sawWake, poller, credit, sinceAttempt, sinceLast, backoff>>
    BY <1>5 DEF RegisterRelay, NoRelay
  <2>2. pc \in {"relayOpen", "relayUp"} /\ pc' \in {"opened", "idle"}
    BY <1>5 DEF RegisterRelay, NoRelay, RelayReturns
  <2>3. caller = "tick" => pc' = "opened" /\ caller' = "tick"
    BY <1>5 DEF RegisterRelay, NoRelay, RelayReturns
  <2>4. QED
    BY <2>1, <2>2, <2>3, QuietStep DEF InFlight, TypeOK
<1>6. CASE TrialReturns
  <2>1. UNCHANGED <<wake, sawWake, poller, credit, sinceAttempt, sinceLast>>
    BY <1>6 DEF TrialReturns
  <2>2. ~InFlight /\ pc = "opened" /\ pc' \in {"idle", "relayOpen"}
    BY <1>6 DEF TrialReturns, InFlight
  <2>3. backoff' \in {backoff, InitialBackoff}
    BY <1>6 DEF TrialReturns
  <2>4. QED
    BY <2>1, <2>2, <2>3, QuietStep, TimingAssumption DEF TypeOK
<1>7. CASE AccountAttempt
  <2>1. UNCHANGED <<wake, sawWake, poller, credit, sinceAttempt, sinceLast>>
    BY <1>7 DEF AccountAttempt
  <2>2. backoff' >= InitialBackoff
    BY <1>7, DoubledBounds, TimingAssumption DEF AccountAttempt, RecordAttempt, TypeOK
  <2>3. pc = "opened" /\ pc' \in {"relayOpen", "idle"}
    BY <1>7 DEF AccountAttempt
  <2>4. QED
    BY <2>1, <2>2, <2>3, QuietStep DEF TypeOK
<1>8. QED
  BY <1>1, <1>2, <1>3, <1>4, <1>5, <1>6, <1>7 DEF TransportAttempt

LEMMA CreditPollWrites ==
  ASSUME TypeOK, TypeOK', CreditInv, PollWrites
  PROVE  CreditInv'
<1> USE DEF sharedVars, privateVars, localVars, otherVars, historyVars
<1>0. InFlight' <=> InFlight
  BY DEF PollWrites, PollJudges, PollSetsWake, PollSetsBackoff, PollSetsLast, InFlight
<1>1. CASE PollJudges
  <2>1. /\ UNCHANGED <<wake, sawWake, backoff, sinceLast, sinceAttempt, pc>>
        /\ poller = "judge"
        /\ \/ poller' = "idle" /\ credit' = credit
           \/ poller' = "setWake" /\ credit' = credit + 3
    BY <1>1 DEF PollJudges
  <2>2. QED
    BY <1>0, <2>1 DEF CreditInv, WakeWorth, BackoffWorth, LastWorth, TypeOK
<1>2. CASE PollSetsWake
  <2>1. /\ UNCHANGED <<sawWake, backoff, sinceLast, sinceAttempt, pc, credit>>
        /\ poller = "setWake" /\ poller' = "setBackoff"
    BY <1>2 DEF PollSetsWake
  <2>2. /\ LastWorth' <= LastWorth /\ LastWorth \in Nat /\ LastWorth' \in Nat
        /\ BackoffWorth' <= BackoffWorth
        /\ BackoffWorth \in Nat /\ BackoffWorth' \in Nat
    BY <1>0, <2>1 DEF LastWorth, BackoffWorth
  <2>3. WakeWorth' <= WakeWorth /\ WakeWorth \in Nat /\ WakeWorth' \in Nat
    BY <2>1 DEF WakeWorth
  <2>4. credit \in Int
    BY DEF TypeOK
  <2>5. QED
    BY <2>1, <2>2, <2>3, <2>4, WorthsFall
<1>3. CASE PollSetsBackoff
  <2>1. /\ UNCHANGED <<wake, sawWake, sinceLast, sinceAttempt, pc, credit>>
        /\ poller = "setBackoff" /\ poller' = "setLast"
    BY <1>3 DEF PollSetsBackoff
  <2>2. QED
    BY <1>0, <2>1 DEF CreditInv, WakeWorth, BackoffWorth, LastWorth, TypeOK
<1>4. CASE PollSetsLast
  <2>1. /\ UNCHANGED <<wake, sawWake, backoff, sinceAttempt, pc, credit>>
        /\ poller = "setLast" /\ poller' = "idle"
    BY <1>4 DEF PollSetsLast
  <2>2. QED
    BY <1>0, <2>1 DEF CreditInv, WakeWorth, BackoffWorth, LastWorth, TypeOK
<1>5. QED
  BY <1>1, <1>2, <1>3, <1>4 DEF PollWrites

\* Time ages the timestamp and the attempt alike.
LEMMA CreditClock ==
  ASSUME TypeOK, TypeOK', CreditInv, Tick
  PROVE  CreditInv'
<1> USE DEF sharedVars, privateVars, localVars, otherVars, historyVars
<1>1. UNCHANGED <<wake, sawWake, backoff, poller, credit>>
  BY DEF Tick
<1>2. WakeWorth' <= WakeWorth /\ WakeWorth \in Nat /\ WakeWorth' \in Nat
  <2>1. pc' = "clearWake" <=> pc = "clearWake"
    BY DEF Tick, TypeOK
  <2>2. QED
    BY <1>1, <2>1 DEF WakeWorth
<1>3. /\ BackoffWorth' <= BackoffWorth
      /\ BackoffWorth \in Nat /\ BackoffWorth' \in Nat
  <2>1. caller' = caller
    BY DEF Tick
  <2>3. pc = "waiting" => pc' = "opened"
    BY DEF Tick
  <2>4. pc = "idle" => pc' = "ready"
    BY DEF Tick
  <2>5. pc \notin {"idle", "waiting"} => pc' = pc
    BY DEF Tick
  <2>6. InFlight' <=> InFlight
    BY <2>1, <2>3, <2>4, <2>5 DEF InFlight
  <2>7. QED
    BY <1>1, <2>6 DEF BackoffWorth
<1>4. LastWorth' <= LastWorth /\ LastWorth \in Nat /\ LastWorth' \in Nat
  <2>1. /\ sinceLast' = AtMost(sinceLast + 1, MaxBackoff)
        /\ sinceAttempt' = AtMost(sinceAttempt + 1, InitialBackoff)
    BY DEF Tick
  <2>2. sinceAttempt' < sinceLast' /\ sinceAttempt' < InitialBackoff
        => sinceAttempt < sinceLast /\ sinceAttempt < InitialBackoff
    BY <2>1, TimingAssumption DEF AtMost, TypeOK
  <2>3. QED
    BY <1>1, <2>2 DEF LastWorth
<1>5. credit \in Int
  BY DEF TypeOK
<1>6. QED
  BY <1>1, <1>2, <1>3, <1>4, <1>5, WorthsFall

LEMMA CreditStep == TypeOK /\ CreditInv /\ [Next]_vars => CreditInv'
<1> SUFFICES ASSUME TypeOK, CreditInv, [Next]_vars PROVE CreditInv'
  OBVIOUS
<1>0. TypeOK'
  BY TypeStep
<1>1. CASE RecoveryTick
  BY <1>0, <1>1, CreditRecoveryTick
<1>2. CASE TransportAttempt
  BY <1>0, <1>2, CreditTransportAttempt
<1>3. CASE PollWrites
  BY <1>0, <1>3, CreditPollWrites
<1>4. CASE Tick
  BY <1>0, <1>4, CreditClock
<1>5. CASE \/ \E s \in Streams : RelayMedia(s) \/ RelayDrops(s) \/ PumpExit(s)
           \/ Receive \/ (\E on \in BOOLEAN : PollRow(on) /\ poller' = poller)
           \/ StopEvent \/ StopCloses \/ UNCHANGED vars
  <2>1. /\ UNCHANGED <<wake, sawWake, backoff, sinceLast, poller, credit>>
        /\ UNCHANGED <<sinceAttempt, pc, caller>>
    BY <1>5 DEF RelayMedia, RelayDrops, PumpExit, PumpNotices, PumpChecks,
       PumpClears, Receive, ReceiveBegins, DirectMedia, ReceiveNothing, PollRow,
       StopEvent, StopCloses, StopDropsRelay, StopClosesSocket, vars,
       sharedVars, privateVars, localVars, otherVars, historyVars
  <2>2. QED
    BY <1>0, <2>1, QuietStep DEF InFlight, TypeOK
<1>6. ASSUME NEW on \in BOOLEAN, PollRow(on), poller' # poller PROVE CreditInv'
  \* The poller saw a transition and has yet to judge it.
  <2>1. /\ UNCHANGED <<wake, sawWake, backoff, sinceLast, credit>>
        /\ UNCHANGED <<sinceAttempt, pc, caller>>
        /\ poller = "idle" /\ poller' = "judge"
    BY <1>6 DEF PollRow, localVars
  <2>2. InFlight' <=> InFlight
    BY <2>1 DEF InFlight
  <2>3. QED
    BY <2>1, <2>2 DEF CreditInv, WakeWorth, BackoffWorth, LastWorth
<1>7. QED
  BY <1>1, <1>2, <1>3, <1>4, <1>5, <1>6 DEF Next, Recovery

\* However the poller's three unlocked writes interleave with the attempts, an
\* offline-to-online transition buys at most one early attempt per field.
THEOREM WakesBuyEarlyAttempts == Spec => []EarlyAttemptsPaidFor
<1>1. Init => CreditInv
  BY TimingAssumption DEF Init, CreditInv, WakeWorth, BackoffWorth, LastWorth
<1>2. TypeOK /\ CreditInv => EarlyAttemptsPaidFor
  BY DEF CreditInv, WakeWorth, BackoffWorth, LastWorth, EarlyAttemptsPaidFor, TypeOK
<1>3. QED
  BY <1>1, <1>2, CreditStep, TypeCorrect, PTL DEF Spec

-----------------------------------------------------------------------------
(* The wake.  From the poller's first write on, a transition no attempt has *)
(* answered is held in one of three places: in the flag, where the next     *)
(* tick that finds the camera dead reads it; in what that tick has read; or, *)
(* when the flag was set between the read and the clearing or after both,   *)
(* in the zero the poller's next write leaves in the backoff, which nothing *)
(* but an attempt, media or a relay then raises.                            *)

Reading == pc \in {"clearWake", "gate"}

HeldByBackoff ==
  /\ backoff = 0 \/ poller = "setBackoff"
  /\ ~Relayed
  /\ pc \in {"idle", "ready", "clearWake", "gate", "done"}

WakeHeld == (wake /\ ~Reading) \/ sawWake \/ HeldByBackoff

WakeInv ==
  /\ sawWake => Reading
  /\ Reading => ~Relayed
  /\ owed /\ poller # "setWake" => WakeHeld

\* A step between two ticks, or of another thread, that leaves the wake and
\* the poller alone.
LEMMA WakeQuiet ==
  ASSUME WakeInv,
         UNCHANGED <<wake, sawWake, poller, backoff, owed>>,
         relay' \in {relay, NoStream},
         \/ pc' = pc
         \/ /\ ~Reading /\ ~Reading'
            /\ pc \in {"idle", "ready", "done"} => pc' \in {"idle", "ready", "done"}
  PROVE  WakeInv'
BY DEF WakeInv, WakeHeld, HeldByBackoff, Reading, Relayed

\* Where no attempt, media or relay is left behind, the flag alone holds it.
LEMMA WakeElsewhere ==
  ASSUME WakeInv, UNCHANGED <<wake, sawWake, poller, owed>>,
         ~Reading, ~Reading',
         pc \notin {"idle", "ready", "done"} \/ Relayed
  PROVE  WakeInv'
BY DEF WakeInv, WakeHeld, HeldByBackoff, Reading

LEMMA WakeRecoveryTick ==
  ASSUME TypeOK, WakeInv, RecoveryTick
  PROVE  WakeInv'
<1> USE DEF sharedVars, privateVars, localVars, otherVars, historyVars
<1>1. CASE RecoveryStops \/ TickStayRelayed
  BY <1>1, WakeQuiet DEF RecoveryStops, TickStayRelayed, TickBegins, Reading
<1>2. CASE TickRelaySilent
  BY <1>2, WakeQuiet DEF TickRelaySilent, TickBegins, StopRelay, Reading
<1>3. CASE TickTryDirect
  BY <1>3, WakeElsewhere DEF TickTryDirect, TickBegins, Reading
<1>4. CASE TickStreaming
  <2>1. ~owed'
    BY <1>4 DEF TickStreaming
  <2>2. ~Reading /\ ~Reading' /\ sawWake' = sawWake
    BY <1>4 DEF TickStreaming, TickBegins, Reading
  <2>3. QED
    BY <2>1, <2>2 DEF WakeInv
<1>5. CASE TickDead
  <2>1. /\ pc = "ready" /\ pc' = "clearWake" /\ ~Relayed /\ ~Reading
        /\ UNCHANGED <<wake, poller, backoff, owed, relay>>
    BY <1>5 DEF TickDead, TickBegins, Reading
  <2>2. sawWake' = wake
    BY <1>5 DEF TickDead
  <2>3. ~sawWake
    BY <2>1 DEF WakeInv
  <2>4. QED
    BY <2>1, <2>2, <2>3 DEF WakeInv, WakeHeld, HeldByBackoff, Reading, Relayed
<1>6. CASE ClearWake
  <2>1. /\ pc = "clearWake" /\ pc' = "gate"
        /\ UNCHANGED <<sawWake, poller, backoff, owed, relay>>
    BY <1>6 DEF ClearWake
  <2>2. QED
    BY <2>1 DEF WakeInv, WakeHeld, HeldByBackoff, Reading, Relayed
<1>7. CASE GateHolds
  <2>1. /\ pc = "gate" /\ pc' = "idle" /\ ~sawWake
        /\ UNCHANGED <<wake, poller, backoff, owed, relay>>
    BY <1>7 DEF GateHolds, Due
  <2>2. ~sawWake'
    BY <1>7 DEF GateHolds, GateLocalsDropped
  <2>3. QED
    BY <2>1, <2>2 DEF WakeInv, WakeHeld, HeldByBackoff, Reading, Relayed
<1>8. CASE GateSweeps \/ GateReannounces \/ GateAttempts
  <2>1. ~owed' /\ ~sawWake'
    BY <1>8 DEF GateSweeps, GateReannounces, GateAttempts, CountAttempt,
       GateLocalsDropped
  <2>2. ~Reading'
    BY <1>8 DEF GateSweeps, GateReannounces, GateAttempts, Transport, Reading
  <2>3. QED
    BY <2>1, <2>2 DEF WakeInv
<1>9. CASE Reannounce \/ SweepAccounted
  BY <1>9, WakeElsewhere DEF Reannounce, SweepAccounted, Reading
<1>10. QED
  BY <1>1, <1>2, <1>3, <1>4, <1>5, <1>6, <1>7, <1>8, <1>9 DEF RecoveryTick

LEMMA WakeStep == TypeOK /\ WakeInv /\ [Next]_vars => WakeInv'
<1> SUFFICES ASSUME TypeOK, WakeInv, [Next]_vars PROVE WakeInv'
  OBVIOUS
<1> USE DEF sharedVars, privateVars, localVars, otherVars, historyVars
<1>1. CASE RecoveryTick
  BY <1>1, WakeRecoveryTick
<1>2. CASE TransportAttempt
  <2>1. UNCHANGED <<wake, sawWake, poller, owed>>
    BY <1>2 DEF TransportAttempt, BindSocket, Install, SweepEnds, NoAddress,
       Unregister, RelayPlays, RegisterRelay, NoRelay, StartReturns,
       TrialReturns, WaitSlice, AccountAttempt
  <2>2. pc \notin {"idle", "ready", "done", "clearWake", "gate"}
    BY <1>2 DEF TransportAttempt, BindSocket, Install, SweepEnds, NoAddress,
       Unregister, RelayPlays, RegisterRelay, NoRelay, StartReturns,
       TrialReturns, WaitSlice, AccountAttempt
  <2>3. ~Reading'
    BY <1>2 DEF TransportAttempt, BindSocket, Install, SweepEnds, NoAddress,
       Unregister, RelayPlays, RegisterRelay, NoRelay, RelayReturns,
       StartReturns, TrialReturns, WaitSlice, AccountAttempt, Reading
  <2>4. QED
    BY <2>1, <2>2, <2>3, WakeElsewhere DEF Reading
<1>3. CASE \/ \E s \in Streams : RelayMedia(s) \/ RelayDrops(s) \/ PumpExit(s)
           \/ Receive \/ StopEvent \/ StopCloses
  <2>1. UNCHANGED <<wake, sawWake, poller, backoff, owed, pc>>
    BY <1>3 DEF RelayMedia, RelayDrops, PumpExit, PumpNotices, PumpChecks,
       PumpClears, Receive, ReceiveBegins, DirectMedia, ReceiveNothing,
       StopEvent, StopCloses, StopDropsRelay, StopClosesSocket
  <2>2. relay' \in {relay, NoStream}
    BY <1>3 DEF RelayMedia, RelayDrops, PumpExit, PumpNotices, PumpChecks,
       PumpClears, Receive, ReceiveBegins, DirectMedia, ReceiveNothing,
       StopEvent, StopCloses, StopDropsRelay, StopRelay, StopClosesSocket
  <2>3. QED
    BY <2>1, <2>2, WakeQuiet
<1>4. CASE (\E on \in BOOLEAN : PollRow(on)) \/ PollJudges
  <2>1. /\ UNCHANGED <<wake, sawWake, backoff, relay, pc>>
        /\ poller \in {"idle", "judge"}
        /\ poller' \in {"idle", "judge", "setWake"}
    BY <1>4 DEF PollRow, PollJudges
  <2>2. poller' # "setWake" /\ owed' => owed
    BY <1>4 DEF PollRow, PollJudges
  <2>3. QED
    BY <2>1, <2>2 DEF WakeInv, WakeHeld, HeldByBackoff, Reading, Relayed
<1>5. CASE PollSetsWake
  <2>1. /\ UNCHANGED <<sawWake, backoff, relay, pc, owed>>
        /\ poller' = "setBackoff"
    BY <1>5 DEF PollSetsWake
  <2>2. wake'
    BY <1>5 DEF PollSetsWake
  <2>3. QED
    BY <2>1, <2>2 DEF WakeInv, WakeHeld, HeldByBackoff, Reading, Relayed
<1>6. CASE PollSetsBackoff
  <2>1. /\ UNCHANGED <<wake, sawWake, relay, pc, owed>>
        /\ poller = "setBackoff" /\ poller' = "setLast" /\ backoff' = 0
    BY <1>6 DEF PollSetsBackoff
  <2>2. QED
    BY <2>1 DEF WakeInv, WakeHeld, HeldByBackoff, Reading, Relayed
<1>7. CASE PollSetsLast
  <2>1. /\ UNCHANGED <<wake, sawWake, backoff, relay, pc, owed>>
        /\ poller = "setLast" /\ poller' = "idle"
    BY <1>7 DEF PollSetsLast
  <2>2. QED
    BY <2>1 DEF WakeInv, WakeHeld, HeldByBackoff, Reading, Relayed
<1>8. CASE Tick
  <2>1. UNCHANGED <<wake, sawWake, poller, backoff, owed, relay>>
    BY <1>8 DEF Tick
  <2>2. /\ pc = "idle" => pc' = "ready"
        /\ pc = "waiting" => pc' = "opened"
        /\ pc \notin {"idle", "waiting"} => pc' = pc
    BY <1>8 DEF Tick
  <2>3. QED
    BY <2>1, <2>2, WakeQuiet DEF Reading
<1>9. CASE UNCHANGED vars
  BY <1>9, WakeQuiet DEF vars
<1>10. QED
  BY <1>1, <1>2, <1>3, <1>4, <1>5, <1>6, <1>7, <1>8, <1>9
     DEF Next, Recovery, PollWrites

\* A wake the flag lost is in the backoff by the time the poller is through, so
\* the gate does not hold the tick back.
LEMMA GateAnswers ==
  ASSUME TypeOK, WakeInv, GateHolds, owed, poller = "idle", dead
  PROVE  FALSE
<1>1. pc = "gate" /\ ~Due /\ ~sawWake
  BY DEF GateHolds, Due
<1>2. backoff = 0
  BY <1>1 DEF WakeInv, WakeHeld, HeldByBackoff, Reading
<1>3. Due
  <2>1. sinceLast >= backoff
    BY <1>2, TimingAssumption DEF TypeOK
  <2>2. QED
    BY <2>1 DEF Due
<1>4. QED
  BY <1>1, <1>3

\* However the poller's unlocked writes fall among the recovery thread's reads,
\* a tick that finds the camera dead after them answers the transition.
THEOREM WakesAreAnswered == Spec => WakeAnswered
<1>1. Init => WakeInv
  <2> SUFFICES ASSUME Init PROVE WakeInv
    OBVIOUS
  <2>1. ~owed /\ ~sawWake
    BY DEF Init
  <2>2. ~Reading
    BY DEF Init, Transport, Reading
  <2>3. QED
    BY <2>1, <2>2 DEF WakeInv
<1>2. TypeOK /\ WakeInv => (GateHolds => ~(owed /\ poller = "idle" /\ dead))
  BY GateAnswers
<1>3. TypeOK /\ WakeInv
      => [GateHolds => ~(owed /\ poller = "idle" /\ dead)]_vars
  BY <1>2
<1>4. QED
  BY <1>1, <1>3, WakeStep, TypeCorrect, PTL DEF Spec, WakeAnswered

=============================================================================
