----------------------------- MODULE LiveChain -----------------------------
(***************************************************************************)
(* The fake cloud's direct live-view chain for one camera                  *)
(* (ziot_fake_cloud.py): 0x8101 hands the camera the viewer's address, the *)
(* camera reports its P2P socket bound, 0x8004 makes it play.  The chain's *)
(* state is a handful of dictionaries that the handlers of the camera's    *)
(* connections, the HTTP threads and the keepalive worker share without a  *)
(* lock.  A send is one step here: it reaches the camera or loses the link *)
(* (CameraLinks has its parts).  Time passes by Tick.                      *)
(***************************************************************************)
EXTENDS Integers, Sequences, FiniteSets

CONSTANTS
  Handlers,     \* handlers of the camera's connections (bound: at one time)
  Clients,      \* HTTP threads (bound: at one time)
  Worker,       \* the keepalive worker
  Pairs,        \* viewer address pairs
  None,         \* no link, no viewer, no pair sent, no report
  Settle,       \* P2P_PLAY_SETTLE_S
  Fallback,     \* P2P_PLAY_FALLBACK_S
  Floor,        \* P2P_RESEND_MIN_S
  MaxInbox,     \* bound: camera frames in flight per connection
  MaxMoves,     \* bound: times a viewer registers another pair
  MaxStops,     \* bound: pause and stop events
  MaxRestarts   \* bound: restarts of the broker

ASSUME ChainAssumption ==
  /\ Settle \in Nat /\ Fallback \in Nat /\ Floor \in Nat
  /\ Settle <= Fallback /\ Fallback <= Floor
  /\ None \notin Pairs \cup Handlers
  /\ Handlers \cap Clients = {} /\ Worker \notin Handlers \cup Clients

ASSUME BoundAssumption ==
  /\ MaxInbox \in Nat \ {0} /\ MaxMoves \in Nat
  /\ MaxStops \in Nat /\ MaxRestarts \in Nat

VARIABLES
  \* HttpApi's dictionaries, at this uid
  link,         \* camera_links: the connection of this handler
  viewer,       \* viewers
  saved,        \* viewer_file
  fire,         \* p2p_fire_at: what is left of the wait, -1 when absent
  ready,        \* p2p_ready; its value is the pair reported bound (history)
  sentPair,     \* p2p_sent_pair
  sentAge,      \* seconds since p2p_sent_at, saturating at Floor
  \* the threads
  at,           \* where each one is
  pair,         \* the viewer pair schedule_p2p_live has read
  got,          \* the pair of the report a handler is taking (history)
  forcing,      \* handlers inside schedule_p2p_live(force=True)
  forced,       \* handlers that have forced already (_forced_uids)
  \* the camera
  camConn,      \* the connection it is using
  inbox,        \* per connection, its frames not read yet
  flag,         \* its view: idle, binding the P2P socket, bound, playing
  aim,          \* the viewer pair of the last 0x8101 it received
  \* bounds and history
  moves, stops, restarts,
  mine          \* per thread, seconds since its last 0x8101, saturating; a
                \* force, another viewer pair or a restart ends the count

viewVars == <<viewer, saved>>
chainVars  == <<fire, ready, sentPair, sentAge>>
localVars  == <<pair, got, forcing, forced>>
cameraVars == <<camConn, inbox, flag, aim>>
boundVars  == <<moves, stops, restarts>>
vars ==
  <<link, viewVars, chainVars, at, localVars, cameraVars, boundVars, mine>>

-----------------------------------------------------------------------------
Threads == Handlers \cup Clients \cup {Worker}

\* The threads that call schedule_p2p_live.
Requesters == Handlers \cup Clients

NoneSent == [t \in Requesters |-> Floor]

Absent == -1

AtMost(a, b) == IF a < b THEN a ELSE b

\* A register, or the report of a socket bound for a pair.
Frames == {<<"register", None>>} \cup ({"bound"} \X Pairs)

TypeOK ==
  /\ link \in Handlers \cup {None}
  /\ viewer \in Pairs \cup {None} /\ saved \in Pairs \cup {None}
  /\ fire \in {Absent} \cup 0..Fallback
  /\ ready \in Pairs \cup {None}
  /\ sentPair \in Pairs \cup {None}
  /\ sentAge \in 0..Floor
  /\ at \in [Threads -> {"gone", "recv", "pending", "settle", "arm", "force",
                         "look", "check", "send", "record", "idle", "saving", "serve",
                         "take", "bound", "play", "dead"}]
  /\ pair \in [Threads -> Pairs \cup {None}]
  /\ got \in [Handlers -> Pairs \cup {None}]
  /\ forcing \subseteq Handlers /\ forced \subseteq Handlers
  /\ camConn \in Handlers \cup {None}
  /\ inbox \in [Handlers -> Seq(Frames)]
  /\ flag \in {"idle", "binding", "bound", "playing"}
  /\ aim \in Pairs \cup {None}
  /\ moves \in 0..MaxMoves /\ stops \in 0..MaxStops
  /\ restarts \in 0..MaxRestarts /\ mine \in [Requesters -> 0..Floor]

\* A broker just started, with the viewer its file held, if any.
Init ==
  /\ link = None
  /\ viewer \in Pairs \cup {None} /\ saved = viewer
  /\ fire = Absent /\ ready = None /\ sentPair = None /\ sentAge = Floor
  /\ at = [t \in Threads |-> IF t \in Handlers THEN "gone"
                             ELSE IF t \in Clients THEN "idle" ELSE "serve"]
  /\ pair = [t \in Threads |-> None]
  /\ got = [h \in Handlers |-> None]
  /\ forcing = {} /\ forced = {}
  /\ camConn = None /\ inbox = [h \in Handlers |-> <<>>]
  /\ flag = "idle" /\ aim = None
  /\ moves = 0 /\ stops = 0 /\ restarts = 0 /\ mine = NoneSent

Goes(t, p) == at' = [at EXCEPT ![t] = p]

-----------------------------------------------------------------------------
(* One send_to, seen from outside.                                         *)

\* What the firmware does with a frame: 0x8101 ends any view and binds the
\* P2P socket anew, 0x8004 plays only on a bound one, or stops.
Hears(frame, p) ==
  CASE frame = "request" -> flag' = "binding" /\ aim' = p
    [] frame = "play" -> flag' = (IF flag = "bound" THEN "playing" ELSE flag)
                         /\ UNCHANGED aim
    [] frame = "stop" -> flag' = "idle" /\ UNCHANGED aim

\* Written to the camera's connection, or to one it has left.
Delivered(frame, p) ==
  /\ link # None
  /\ IF link = camConn THEN Hears(frame, p) ELSE UNCHANGED <<flag, aim>>
  /\ UNCHANGED <<link, camConn, inbox>>

\* The camera leaves, or loses, the connection it is using.
CameraGone ==
  camConn' = None /\ flag' = "idle" /\ aim' = None /\ UNCHANGED inbox

\* No link, or a send that stalled or failed: the connection is shut down.
NotDelivered ==
  /\ link' = None
  /\ IF link # None /\ link = camConn THEN CameraGone ELSE UNCHANGED cameraVars

-----------------------------------------------------------------------------
(* schedule_p2p_live: deliver the viewer's pair, arm the play's deadline.  *)

Leaves(t) ==
  /\ Goes(t, IF t \in Handlers THEN "recv" ELSE "idle")
  /\ pair' = [pair EXCEPT ![t] = None]
  /\ forcing' = forcing \ {t}

\* Mutant of ForcePops: the report of the previous connection is kept.
MutForcePopsKeepsReport(t) ==
  /\ at[t] = "force"
  /\ fire' = Absent /\ sentAge' = Floor
  /\ mine' = NoneSent
  /\ Goes(t, "look")
  /\ UNCHANGED <<link, viewVars, ready, sentPair, localVars, cameraVars, boundVars>>

\* force: drop the previous connection's chain and resend floor.
ForcePops(t) ==
  /\ at[t] = "force"
  /\ fire' = Absent /\ ready' = None /\ sentAge' = Floor
  /\ mine' = NoneSent
  /\ Goes(t, "look")
  /\ UNCHANGED <<link, viewVars, sentPair, localVars, cameraVars, boundVars>>

ReadViewer(t) ==
  /\ at[t] = "look"
  /\ IF link = None \/ viewer = None
     THEN Leaves(t)
     ELSE /\ pair' = [pair EXCEPT ![t] = viewer]
          /\ Goes(t, "check")
          /\ UNCHANGED forcing
  /\ UNCHANGED <<link, viewVars, chainVars, got, forced, cameraVars, boundVars,
                 mine>>

\* A play is pending for this pair already.
PlayPending(t) == fire # Absent /\ sentPair = pair[t]

\* The same pair within the resend floor.
Held(t) == t \notin forcing /\ sentPair = pair[t] /\ sentAge < Floor

NotSent(t) ==
  /\ at[t] = "check" /\ (PlayPending(t) \/ Held(t))
  /\ Leaves(t)
  /\ UNCHANGED <<link, viewVars, chainVars, got, forced, cameraVars, boundVars,
                 mine>>

\* A pending play of another pair loses the report it had.
Decides(t) ==
  /\ at[t] = "check" /\ ~PlayPending(t) /\ ~Held(t)
  /\ ready' = IF fire # Absent THEN None ELSE ready
  /\ Goes(t, "send")
  /\ UNCHANGED <<link, viewVars, fire, sentPair, sentAge, localVars, cameraVars,
                 boundVars, mine>>

RequestSent(t) ==
  /\ at[t] = "send"
  /\ Delivered("request", pair[t])
  /\ mine' = [mine EXCEPT ![t] = 0]
  /\ Goes(t, "record")
  /\ UNCHANGED <<viewVars, chainVars, localVars, boundVars>>

RequestFails(t) ==
  /\ at[t] = "send"
  /\ NotDelivered
  /\ Leaves(t)
  /\ UNCHANGED <<viewVars, chainVars, got, forced, boundVars, mine>>

\* Mutant of RecordRequest: the play's deadline is the resend floor.
MutRecordRequestLate(t) ==
  /\ at[t] = "record"
  /\ sentPair' = pair[t] /\ sentAge' = 0 /\ fire' = Floor
  /\ mine' = IF sentPair = pair[t] THEN mine
              ELSE [NoneSent EXCEPT ![t] = mine[t]]
  /\ Leaves(t)
  /\ UNCHANGED <<link, viewVars, ready, got, forced, cameraVars, boundVars>>

\* Mutant of RecordRequest: the floor is counted from the first 0x8101 for it.
MutRecordRequestUntimed(t) ==
  /\ at[t] = "record"
  /\ sentPair' = pair[t] /\ fire' = Fallback
  /\ sentAge' = IF sentPair = pair[t] THEN sentAge ELSE 0
  /\ mine' = IF sentPair = pair[t] THEN mine
              ELSE [NoneSent EXCEPT ![t] = mine[t]]
  /\ Leaves(t)
  /\ UNCHANGED <<link, viewVars, ready, got, forced, cameraVars, boundVars>>

RecordRequest(t) ==
  /\ at[t] = "record"
  /\ sentPair' = pair[t] /\ sentAge' = 0 /\ fire' = Fallback
  /\ mine' = IF sentPair = pair[t] THEN mine
              ELSE [NoneSent EXCEPT ![t] = mine[t]]
  /\ Leaves(t)
  /\ UNCHANGED <<link, viewVars, ready, got, forced, cameraVars, boundVars>>

ScheduleP2PLive(t) ==
  \/ ForcePops(t) \/ ReadViewer(t) \/ NotSent(t) \/ Decides(t)
  \/ RequestSent(t) \/ RequestFails(t) \/ RecordRequest(t)

-----------------------------------------------------------------------------
(* The handler of a connection: the frames that touch the chain.           *)

\* A register whose answer arms a viewer starts the chain, by force when it
\* is the first one of its connection.
ReceiveRegister(h) ==
  /\ at[h] = "recv" /\ inbox[h] # <<>> /\ Head(inbox[h])[1] = "register"
  /\ inbox' = [inbox EXCEPT ![h] = Tail(@)]
  /\ link' = h
  /\ CASE viewer = None ->
            UNCHANGED <<at, forcing, forced>>
       [] viewer # None /\ h \in forced ->
            Goes(h, "look") /\ UNCHANGED <<forcing, forced>>
       [] OTHER ->
            /\ Goes(h, "force")
            /\ forcing' = forcing \cup {h} /\ forced' = forced \cup {h}
  /\ UNCHANGED <<viewVars, chainVars, pair, got, camConn, flag, aim, boundVars,
                 mine>>

\* The report of a bound socket.
ReceiveBound(h) ==
  /\ at[h] = "recv" /\ inbox[h] # <<>> /\ Head(inbox[h])[1] = "bound"
  /\ inbox' = [inbox EXCEPT ![h] = Tail(@)]
  /\ got' = [got EXCEPT ![h] = Head(inbox[h])[2]]
  /\ link' = h
  /\ Goes(h, "pending")
  /\ UNCHANGED <<viewVars, chainVars, pair, forcing, forced, camConn, flag, aim,
                 boundVars, mine>>

\* p2p_socket_bound: a report without a pending play is ignored ...
ReportIgnored(h) ==
  /\ at[h] = "pending" /\ fire = Absent
  /\ got' = [got EXCEPT ![h] = None]
  /\ Goes(h, "recv")
  /\ UNCHANGED <<link, viewVars, chainVars, pair, forcing, forced, cameraVars,
                 boundVars, mine>>

ReportTaken(h) ==
  /\ at[h] = "pending" /\ fire # Absent
  /\ Goes(h, "settle")
  /\ UNCHANGED <<link, viewVars, chainVars, localVars, cameraVars, boundVars,
                 mine>>

\* ... and one with it is noted, then sets the play's time.
ReportNoted(h) ==
  /\ at[h] = "settle"
  /\ ready' = got[h]
  /\ got' = [got EXCEPT ![h] = None]
  /\ Goes(h, "arm")
  /\ UNCHANGED <<link, viewVars, fire, sentPair, sentAge, pair, forcing, forced,
                 cameraVars, boundVars, mine>>

SettlePlay(h) ==
  /\ at[h] = "arm"
  /\ fire' = Settle
  /\ Goes(h, "recv")
  /\ UNCHANGED <<link, viewVars, ready, sentPair, sentAge, localVars, cameraVars,
                 boundVars, mine>>

\* The connection has ended: finish() drops it if it is the link.
HandlerEnds(h) ==
  /\ at[h] = "recv" /\ camConn # h
  /\ link' = IF link = h THEN None ELSE link
  /\ inbox' = [inbox EXCEPT ![h] = <<>>]
  /\ forced' = forced \ {h}
  /\ Goes(h, "gone")
  /\ UNCHANGED <<viewVars, chainVars, pair, got, forcing, camConn, flag, aim,
                 boundVars, mine>>

Handler(h) ==
  \/ ReceiveRegister(h) \/ ReceiveBound(h) \/ ReportIgnored(h)
  \/ ReportTaken(h) \/ ReportNoted(h) \/ SettlePlay(h)

-----------------------------------------------------------------------------
(* The viewers' HTTP requests.                                             *)

\* send-stun-addr: the viewer is registered, then the file is written.
SendStunAddr(c, p) ==
  /\ at[c] = "idle"
  /\ IF p = viewer THEN UNCHANGED moves
     ELSE moves < MaxMoves /\ moves' = moves + 1
  /\ viewer' = p
  /\ Goes(c, "saving")
  /\ UNCHANGED <<link, saved, chainVars, localVars, cameraVars, stops, restarts, mine>>

ViewerSaved(c) ==
  /\ at[c] = "saving"
  /\ saved' = viewer
  /\ Goes(c, "look")
  /\ UNCHANGED <<link, viewer, chainVars, localVars, cameraVars, boundVars,
                 mine>>

\* notify-live-event 1 (start) and 4 (connected).
NotifyStart(c) ==
  /\ at[c] = "idle"
  /\ Goes(c, "look")
  /\ UNCHANGED <<link, viewVars, chainVars, localVars, cameraVars, boundVars,
                 mine>>

\* notify-live-event 2 (pause) and 3 (stop).
NotifyStop(c) ==
  /\ at[c] = "idle" /\ stops < MaxStops
  /\ stops' = stops + 1
  /\ Delivered("stop", None) \/ NotDelivered
  /\ UNCHANGED <<viewVars, chainVars, at, localVars, moves, restarts, mine>>

-----------------------------------------------------------------------------
(* The keepalive worker: serve_due_p2p_fires.                              *)

\* Mutant of WorkerLooks: only a play whose report is in is due.
MutWorkerLooksForReport ==
  /\ at[Worker] = "serve" /\ fire = 0 /\ ready # None
  /\ Goes(Worker, "take")
  /\ UNCHANGED <<link, viewVars, chainVars, localVars, cameraVars, boundVars,
                 mine>>

\* A due entry is in its snapshot of p2p_fire_at.
WorkerLooks ==
  /\ at[Worker] = "serve" /\ fire = 0
  /\ Goes(Worker, "take")
  /\ UNCHANGED <<link, viewVars, chainVars, localVars, cameraVars, boundVars,
                 mine>>

\* `del self.p2p_fire_at[uid]`: the KeyError of a missing entry ends the thread.
WorkerTakes ==
  /\ at[Worker] = "take"
  /\ Goes(Worker, IF fire = Absent THEN "dead" ELSE "bound")
  /\ fire' = Absent
  /\ UNCHANGED <<link, viewVars, ready, sentPair, sentAge, localVars, cameraVars,
                 boundVars, mine>>

\* The report is used up; without one, or without a link, nothing is sent.
WorkerReadies ==
  /\ at[Worker] = "bound"
  /\ ready' = None
  /\ Goes(Worker, IF ready = None \/ link = None THEN "serve" ELSE "play")
  /\ UNCHANGED <<link, viewVars, fire, sentPair, sentAge, localVars, cameraVars,
                 boundVars, mine>>

\* The hello, then the play.
WorkerPlays ==
  /\ at[Worker] = "play"
  /\ Delivered("play", None) \/ NotDelivered
  /\ Goes(Worker, "serve")
  /\ UNCHANGED <<viewVars, chainVars, localVars, boundVars, mine>>

\* Any other frame, the keepalive first of all, finds the camera deaf.
LinkFails ==
  /\ link # None
  /\ NotDelivered
  /\ UNCHANGED <<viewVars, chainVars, at, localVars, boundVars, mine>>

ServeDueP2PFires == WorkerLooks \/ WorkerTakes \/ WorkerReadies \/ WorkerPlays

-----------------------------------------------------------------------------
(* The camera (external), the broker's restarts, and time.                 *)

CameraConnects(h) ==
  /\ camConn = None /\ at[h] = "gone"
  /\ camConn' = h
  /\ inbox' = [inbox EXCEPT ![h] = <<<<"register", None>>>>]
  /\ Goes(h, "recv")
  /\ UNCHANGED <<link, viewVars, chainVars, localVars, flag, aim, boundVars, mine>>

\* The broker learns of it when the connection's handler does.
CameraLeaves ==
  /\ camConn # None
  /\ CameraGone
  /\ UNCHANGED <<link, viewVars, chainVars, at, localVars, boundVars, mine>>

Sends(frame) ==
  /\ camConn # None /\ Len(inbox[camConn]) < MaxInbox
  /\ inbox' = [inbox EXCEPT ![camConn] = Append(@, frame)]
  /\ UNCHANGED <<link, viewVars, chainVars, at, localVars, camConn, aim, boundVars,
                 mine>>

\* It repeats its register.
CameraRegisters ==
  /\ camConn # None /\ inbox[camConn] = <<>>
  /\ Sends(<<"register", None>>) /\ UNCHANGED flag

\* Its P2P socket is bound, which it reports at once.
CameraBinds ==
  /\ flag = "binding" /\ flag' = "bound"
  /\ Sends(<<"bound", aim>>)

\* A view ends by itself, by the camera's own heartbeat timeout.
CameraStops ==
  /\ flag = "playing" /\ flag' = "idle"
  /\ UNCHANGED <<link, viewVars, chainVars, at, localVars, camConn, inbox, aim,
                 boundVars, mine>>

\* Every connection is lost and only the viewer file survives, unless the
\* restart cut its write short.
Restart ==
  /\ restarts < MaxRestarts /\ restarts' = restarts + 1
  /\ \/ viewer' = saved
     \/ viewer' = None /\ \E c \in Clients : at[c] = "saving"
  /\ saved' = viewer'
  /\ link' = None
  /\ fire' = Absent /\ ready' = None /\ sentPair' = None /\ sentAge' = Floor
  /\ at' = [t \in Threads |-> IF t \in Handlers THEN "gone"
                              ELSE IF t \in Clients THEN "idle" ELSE "serve"]
  /\ pair' = [t \in Threads |-> None]
  /\ got' = [h \in Handlers |-> None]
  /\ forcing' = {} /\ forced' = {}
  /\ camConn' = None /\ flag' = "idle" /\ aim' = None
  /\ inbox' = [h \in Handlers |-> <<>>]
  /\ mine' = NoneSent
  /\ UNCHANGED <<moves, stops>>

Tick ==
  /\ fire' = IF fire > 0 THEN fire - 1 ELSE fire
  /\ sentAge' = AtMost(sentAge + 1, Floor)
  /\ mine' = [t \in Requesters |-> AtMost(mine[t] + 1, Floor)]
  /\ UNCHANGED <<link, viewVars, ready, sentPair, at, localVars, cameraVars,
                 boundVars>>

Camera ==
  \/ \E h \in Handlers : CameraConnects(h)
  \/ CameraLeaves \/ CameraRegisters \/ CameraBinds \/ CameraStops

-----------------------------------------------------------------------------
Next ==
  \/ \E h \in Handlers : Handler(h) \/ HandlerEnds(h) \/ ScheduleP2PLive(h)
  \/ \E c \in Clients :
       \/ ViewerSaved(c) \/ NotifyStart(c) \/ NotifyStop(c) \/ ScheduleP2PLive(c)
       \/ \E p \in Pairs : SendStunAddr(c, p)
  \/ ServeDueP2PFires \/ LinkFails
  \/ Camera \/ Restart \/ Tick

Spec == Init /\ [][Next]_vars

\* Threads are scheduled and clocks advance; a viewer keeps asking; a camera
\* without a connection connects, and binds the socket it was told to bind.
Fairness ==
  /\ \A h \in Handlers : WF_vars(Handler(h) \/ ScheduleP2PLive(h))
  /\ \A c \in Clients : /\ WF_vars(ViewerSaved(c) \/ ScheduleP2PLive(c))
                        /\ WF_vars(NotifyStart(c))
  /\ WF_vars(ServeDueP2PFires) /\ WF_vars(Tick) /\ SF_vars(CameraBinds)

FairSpec == Spec /\ Fairness

-----------------------------------------------------------------------------
(* Properties.                                                             *)

\* A report never outlives the play it was made for: without a pending play,
\* or one the worker has just taken, p2p_ready is empty.  One left behind
\* would send the next chain's play although its socket was never bound, which
\* serve_due_p2p_fires drops ("a play sent now is the one the firmware
\* ignores").
ReportHasChain ==
  ready # None => \/ fire # Absent
                  \/ at[Worker] = "bound"
                  \/ \E h \in Handlers : at[h] = "arm"

\* The resend floor (P2P_RESEND_MIN_S): a thread that retries for one viewer
\* pair, whatever the others do in between, never sends the camera 0x8101 twice
\* within the floor, unless a new connection forced the chain.  Bursts leave
\* the camera deaf.
ResendFloorHolds ==
  [][\A t \in Requesters :
       RequestSent(t) /\ t \notin forcing /\ sentPair = pair[t]
         => mine[t] = Floor]_vars

\* The ways a chain ends: a view; a play the camera rejects, as a second
\* 0x8101 has unbound its socket; a deadline without a report; a report that
\* comes after its deadline.
ChainEnds ==
  \/ flag = "playing"
  \/ at[Worker] = "play" /\ flag # "bound"
  \/ at[Worker] = "bound" /\ ready = None
  \/ \E h \in Handlers : at[h] = "pending" /\ fire = Absent

\* A viewer that keeps asking is never silently held back: as long as it is
\* registered, the camera connected and the worker alive, chain after chain
\* runs to one of its ends.  Neither the pending play nor the resend floor
\* may suppress every 0x8101.
ViewerServed ==
  []<>(ChainEnds \/ viewer = None \/ camConn = None \/ at[Worker] = "dead")

\* start_keepalive_worker: "the keepalive has its own timer, and a camera is
\* fed whether or not it is talking".  The thread never ends.
WorkerLives == at[Worker] # "dead"

=============================================================================
