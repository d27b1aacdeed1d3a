---------------------------- MODULE PunchTarget ----------------------------
(***************************************************************************)
(* How the bridge finds the camera's P2P socket: the camera binds a new    *)
(* port at every 0x8101 and reports it (0x0003); a handler of the broker   *)
(* stores the report while HTTP requests send the next 0x8101 and read     *)
(* stun-addr; in the bridge the punch thread (_resolve) and the recovery   *)
(* thread (_rendezvous, _reannounce) ask, pass _accept_stun and store the  *)
(* address on their own.  None of it is locked but the last store.         *)
(*                                                                         *)
(* One camera with a token and no static address.  LiveChain has the play  *)
(* that follows the 0x8101, CameraRecovery the gate before an attempt.     *)
(***************************************************************************)
EXTENDS Naturals, Sequences

CONSTANTS
  Ports,       \* the ports a camera may bind (0: none)
  Sockets,     \* media sockets of the bridge, as the viewer pairs they are (0: none)
  MaxSeq,      \* bound: the camera's frame counter stops here
  Tries,       \* lookups of one rendezvous
  Floor,       \* lookups of the punch thread per P2P_RESEND_MIN_S
  InFlight,    \* bound: frames of earlier attempts on their way when one starts
  MaxUpsets,   \* bound: failures of any kind
  None

Threads == {"punch", "recover"}
\* Where the recovery thread is when its request has sent a 0x8101.
Noting == {"noteRegister", "clearRegister", "noteNotify", "clearNotify"}
Numbers == 0..MaxSeq
Frames == [kind : {"register", "report"}, seq : Numbers, n : Numbers,
           port : Ports \cup {0}]
Requests == [seq : Numbers, pair : Sockets]
Replies == [port : Ports \cup {0}, n : Numbers]

ASSUME PunchAssumption ==
  /\ Ports \subseteq Nat \ {0} /\ Sockets \subseteq Nat \ {0}
  /\ MaxSeq \in Nat \ {0} /\ Tries \in Nat \ {0}
  /\ Floor \in Nat \ {0} /\ InFlight \in Nat /\ MaxUpsets \in Nat
  /\ None \notin Nat /\ None \notin Frames /\ None \notin Requests
  /\ None \notin Replies

VARIABLES
  \* the camera
  linked,      \* its signalling connection is up
  counter,     \* the number of its last frame
  bound,       \* the port of its P2P socket, 0 before the first 0x8101
  armed,       \* the pair of the last 0x8101
  live,        \* it streams to that pair
  up, down,    \* frames to the broker, 0x8101s to the camera
  \* the broker
  lastSeq,     \* last_seq
  row,         \* cameras[uid]["_port"], 0 when unknown
  reported,    \* reported_seq, 0 when absent
  answer,      \* p2p_answer, 0 when absent
  sentSeq,     \* p2p_sent_seq
  sentPair,    \* p2p_sent_pair
  viewer,      \* viewers, 0 when absent
  floor,       \* lookups of the punch thread until an unchanged pair is sent again
  hpc, frame,  \* the handler: where it is, the frame it answers
  request,     \* per thread in schedule_p2p_live, the 0x8101 sent, not yet noted
  \* the bridge
  sock, addr,  \* the registered socket and the punch destination, 0 when None
  stunSeq,     \* _stun_seq
  pc, got,     \* per thread, where it is and what stun-addr answered
  mine, tries, \* _rendezvous: the socket it holds, the lookups left
  \* bound and history
  upsets,
  known        \* the answer of the socket that is bound was stored after every
               \* 0x8101 had been noted, and no other has been sent since

cameraVars  == <<linked, counter, bound, armed, live, up, down>>
brokerVars  == <<lastSeq, row, reported, answer, sentSeq, sentPair, viewer, floor,
                 hpc, frame, request>>
targetVars  == <<sock, addr, stunSeq>>
threadVars  == <<pc, got, mine, tries>>
vars == <<cameraVars, brokerVars, targetVars, threadVars, upsets, known>>

CameraTypeOK ==
  /\ linked \in BOOLEAN /\ counter \in Numbers /\ live \in BOOLEAN
  /\ bound \in Ports \cup {0} /\ armed \in Sockets \cup {0}
  /\ bound = 0 => ~live
  /\ up \in Seq(Frames) /\ down \in Seq(Requests)

BrokerTypeOK ==
  /\ lastSeq \in Numbers /\ reported \in Numbers /\ sentSeq \in Numbers \cup {None}
  /\ row \in Ports \cup {0} /\ answer \in Ports \cup {0}
  /\ sentPair \in Sockets \cup {0} /\ viewer \in Sockets \cup {0}
  /\ floor \in 0..Floor
  /\ hpc \in {"idle", "note", "clear", "store"}
  /\ frame \in Frames \cup {None} /\ (hpc = "store" <=> frame # None)
  /\ request \in [{"recover", "handler"} -> Requests \cup {None}]
  /\ hpc \in {"note", "clear"} <=> request["handler"] # None

TargetTypeOK ==
  /\ sock \in Sockets \cup {0} /\ addr \in Ports \cup {0}
  /\ stunSeq \in Numbers \cup {None}
  /\ pc \in [Threads -> {"idle", "register", "notify", "forget", "ask", "accept",
                         "store"} \cup Noting]
  /\ pc["punch"] \in {"idle", "accept"}
  /\ pc["recover"] \in Noting <=> request["recover"] # None
  /\ got \in [Threads -> Replies \cup {None}]
  /\ \A t \in Threads : pc[t] \in {"accept", "store"} <=> got[t] # None
  /\ mine \in Sockets \cup {0} /\ tries \in 0..Tries

TypeOK ==
  /\ CameraTypeOK /\ BrokerTypeOK /\ TargetTypeOK
  /\ upsets \in 0..MaxUpsets /\ known \in BOOLEAN

\* Nobody has spoken to anybody.
Init ==
  /\ linked = FALSE /\ counter = 0 /\ bound = 0 /\ armed = 0 /\ live = FALSE
  /\ up = <<>> /\ down = <<>>
  /\ lastSeq = 0 /\ row = 0 /\ reported = 0
  /\ answer = 0 /\ sentSeq = None /\ sentPair = 0 /\ viewer = 0 /\ floor = 0
  /\ hpc = "idle" /\ frame = None
  /\ request = [t \in {"recover", "handler"} |-> None]
  /\ sock = 0 /\ addr = 0 /\ stunSeq = None
  /\ pc = [t \in Threads |-> "idle"]
  /\ got = [t \in Threads |-> None]
  /\ mine = 0 /\ tries = 0 /\ upsets = 0 /\ known = FALSE

Upset == upsets < MaxUpsets /\ upsets' = upsets + 1

-----------------------------------------------------------------------------
\* The camera.  Its frames carry its own counter, which a reboot restarts; a
\* report names the header number of the 0x8101 it answers.
Counted == IF counter = MaxSeq THEN MaxSeq ELSE counter + 1

CameraConnects ==
  /\ ~linked /\ linked' = TRUE
  /\ counter' = Counted
  /\ up' = Append(up, [kind |-> "register", seq |-> counter', n |-> 0, port |-> 0])
  /\ UNCHANGED <<bound, armed, live, down, brokerVars, targetVars, threadVars,
                 upsets, known>>

\* It binds its socket anew and says where.
CameraBinds ==
  /\ linked /\ down # <<>>
  /\ down' = Tail(down) /\ armed' = Head(down).pair
  /\ bound' \in Ports \ {bound}
  /\ live' = FALSE /\ known' = FALSE
  /\ counter' = Counted
  /\ up' = Append(up, [kind |-> "report", seq |-> counter', n |-> Head(down).seq,
                       port |-> bound'])
  /\ UNCHANGED <<linked, brokerVars, targetVars, threadVars, upsets>>

\* A later report without a number, of a port that is not the P2P socket's.
CameraRedraws ==
  /\ linked /\ bound # 0 /\ Upset
  /\ counter' = Counted
  /\ \E p \in Ports \ {bound} :
       up' = Append(up, [kind |-> "report", seq |-> counter', n |-> 0, port |-> p])
  /\ UNCHANGED <<linked, bound, armed, live, down, brokerVars, targetVars,
                 threadVars, known>>

CameraReboots ==
  /\ linked /\ Upset
  /\ linked' = FALSE /\ counter' = 0 /\ bound' = 0 /\ armed' = 0
  /\ live' = FALSE /\ down' = <<>> /\ known' = FALSE
  /\ UNCHANGED <<up, brokerVars, targetVars, threadVars>>

LinkDrops ==
  /\ linked /\ Upset
  /\ linked' = FALSE /\ down' = <<>>
  /\ UNCHANGED <<counter, bound, armed, live, up, brokerVars, targetVars,
                 threadVars, known>>

ViewTimesOut ==
  /\ live /\ Upset /\ live' = FALSE
  /\ UNCHANGED <<linked, counter, bound, armed, up, down, brokerVars, targetVars,
                 threadVars, known>>

-----------------------------------------------------------------------------
\* Mutant of Held: an unchanged pair is never sent again.
MutHeldForGood(v, force) == ~force /\ v = sentPair

\* schedule_p2p_live for pair v: an unchanged pair is held for the floor.
Held(v, force) == ~force /\ v = sentPair /\ floor > 0

Sends(t, v, force) ==
  LET r == [seq |-> lastSeq', pair |-> v]
  IN /\ linked /\ v # 0 /\ ~Held(v, force)
     /\ down' = Append(down, r) /\ request' = [request EXCEPT ![t] = r]
     /\ known' = FALSE

Skips(v, force) ==
  /\ ~linked \/ v = 0 \/ Held(v, force)
  /\ UNCHANGED <<down, request, known>>

\* The bookkeeping after send_to, without a lock: first what the camera's report is
\* compared with ...
NoteSent(t) ==
  /\ sentSeq' = request[t].seq /\ sentPair' = request[t].pair
  /\ UNCHANGED <<answer, floor, request>>

\* ... and then the answer stored so far is dropped, as the camera binds anew: it
\* may be the answer to this very 0x8101.
NoteClears(t) ==
  /\ answer' = 0 /\ floor' = Floor
  /\ request' = [request EXCEPT ![t] = None]
  /\ UNCHANGED <<sentSeq, sentPair>>

\* Mutant of Answers: a redraw counts as an answer.
MutAnswersAny(f) == TRUE

\* note_p2p_answer's condition: the report names the last 0x8101.
Answers(f) == f.n # 0 /\ f.n = sentSeq

\* The handler takes an address report: last_seq, the row, set_reported_seq if it
\* has a number, and note_p2p_answer's condition ...
HandlerTakesReport ==
  /\ hpc = "idle" /\ up # <<>> /\ Head(up).kind = "report"
  /\ up' = Tail(up) /\ lastSeq' = Head(up).seq /\ row' = Head(up).port
  /\ reported' = IF Head(up).n # 0 THEN Head(up).n ELSE reported
  /\ IF Answers(Head(up)) THEN hpc' = "store" /\ frame' = Head(up)
                          ELSE UNCHANGED <<hpc, frame>>
  /\ UNCHANGED <<linked, counter, bound, armed, live, down, answer, sentSeq,
                 sentPair, viewer, floor, request, targetVars, threadVars, upsets,
                 known>>

\* ... and its store.
AnswerStored ==
  /\ hpc = "store" /\ hpc' = "idle" /\ frame' = None
  /\ answer' = frame.port
  /\ known' = (known \/ /\ frame.port = bound
                        /\ \A i \in 1..Len(up) : up[i].n = 0
                        /\ \A t \in {"recover", "handler"} : request[t] = None)
  /\ UNCHANGED <<cameraVars, lastSeq, row, reported, sentSeq, sentPair, viewer,
                 floor, request, targetVars, threadVars, upsets>>

\* The first register of a connection: the chain starts over.
HandlerTakesRegister ==
  /\ hpc = "idle" /\ up # <<>> /\ Head(up).kind = "register"
  /\ up' = Tail(up) /\ lastSeq' = Head(up).seq
  /\ floor' = 0
  /\ \/ Sends("handler", viewer, TRUE) /\ hpc' = "note"
     \/ Skips(viewer, TRUE) /\ hpc' = "idle"
  /\ UNCHANGED <<linked, counter, bound, armed, live, row, reported, answer,
                 sentSeq, sentPair, viewer, frame, targetVars, threadVars, upsets>>

HandlerNotes ==
  /\ \/ hpc = "note" /\ NoteSent("handler") /\ hpc' = "clear"
     \/ hpc = "clear" /\ NoteClears("handler") /\ hpc' = "idle"
  /\ UNCHANGED <<cameraVars, lastSeq, row, reported, viewer, frame, targetVars,
                 threadVars, upsets, known>>

\* What _stun serves as the address.
Served == IF answer # 0 THEN answer ELSE row

-----------------------------------------------------------------------------
\* The bridge.  An answer passes _accept_stun, which keeps its number;
\* _pick_endpoint raises without a usable address, after the number was taken.
Stale(n) == stunSeq # None /\ n < stunSeq
Usable(a) == ~Stale(a.n) /\ a.port # 0
Taken(a) == IF Stale(a.n) THEN stunSeq ELSE a.n

Goes(t, where) == pc' = [pc EXCEPT ![t] = where]
Asks(t) == got' = [got EXCEPT ![t] = [port |-> Served, n |-> reported]]

\* _punch: without media _resolve asks where the camera is.  Its lookups are the
\* clock of the resend floor; a frame that is on its way or in its handler's hands
\* is there before the floor ends.
PunchAsks ==
  /\ pc["punch"] = "idle" /\ ~live /\ Goes("punch", "accept")
  /\ Asks("punch")
  /\ floor' = IF floor = 0 \/ up # <<>> \/ down # <<>> \/ hpc # "idle" THEN floor
              ELSE floor - 1
  /\ UNCHANGED <<cameraVars, lastSeq, row, reported, answer, sentSeq, sentPair,
                 viewer, hpc, frame, request, targetVars, mine, tries, upsets, known>>

\* It stores the address, unless the answer is no use, and the hello goes out.
PunchHello ==
  /\ pc["punch"] = "accept" /\ Goes("punch", "idle")
  /\ stunSeq' = Taken(got["punch"])
  /\ addr' = IF Usable(got["punch"]) THEN got["punch"].port ELSE addr
  /\ live' = (live \/ (sock # 0 /\ addr' # 0 /\ addr' = bound /\ sock = armed))
  /\ got' = [got EXCEPT !["punch"] = None]
  /\ UNCHANGED <<linked, counter, bound, armed, up, down, brokerVars, sock, mine,
                 tries, upsets, known>>

\* The recovery thread: a rendezvous keeps its socket or binds one, a reannounce
\* needs one (tries = 0 tells them apart).  The backoff spaces the attempts.
RecoveryStarts ==
  /\ Len(up) + Len(down) <= InFlight
  /\ pc["recover"] = "idle" /\ ~live /\ Goes("recover", "register")
  /\ \/ /\ tries' = Tries
        /\ mine' \in IF sock # 0 THEN {sock} ELSE Sockets
     \/ tries' = 0 /\ sock # 0 /\ mine' = sock
  /\ UNCHANGED <<cameraVars, brokerVars, targetVars, got, upsets, known>>

\* send-stun-addr registers the socket as the viewer and starts the chain.
Register ==
  /\ pc["recover"] = "register" /\ viewer' = mine /\ UNCHANGED lastSeq
  /\ \/ Sends("recover", mine, FALSE) /\ Goes("recover", "noteRegister")
     \/ Skips(mine, FALSE) /\ Goes("recover", "notify")
  /\ UNCHANGED <<linked, counter, bound, armed, live, up, row, reported,
                 answer, sentSeq, sentPair, floor, hpc, frame, targetVars, got, mine,
                 tries, upsets>>

\* notify(start) starts it as well.
Notify ==
  /\ pc["recover"] = "notify" /\ UNCHANGED lastSeq
  /\ \/ Sends("recover", viewer, FALSE) /\ Goes("recover", "noteNotify")
     \/ Skips(viewer, FALSE) /\ Goes("recover", "forget")
  /\ UNCHANGED <<linked, counter, bound, armed, live, up, row, reported,
                 answer, sentSeq, sentPair, viewer, floor, hpc, frame, targetVars,
                 got, mine, tries, upsets>>

RecoveryNotes ==
  /\ \/ /\ pc["recover"] = "noteRegister" /\ Goes("recover", "clearRegister")
        /\ NoteSent("recover")
     \/ /\ pc["recover"] = "clearRegister" /\ Goes("recover", "notify")
        /\ NoteClears("recover")
     \/ /\ pc["recover"] = "noteNotify" /\ Goes("recover", "clearNotify")
        /\ NoteSent("recover")
     \/ /\ pc["recover"] = "clearNotify" /\ Goes("recover", "forget")
        /\ NoteClears("recover")
  /\ UNCHANGED <<cameraVars, lastSeq, row, reported, viewer, hpc, frame, targetVars,
                 got, mine, tries, upsets, known>>

\* A new conversation: the last number is forgotten ...
Forget == pc["recover"] = "forget" /\ stunSeq' = None

\* ... and the first lookup follows.
Looks == Forget \/ (pc["recover"] = "ask" /\ UNCHANGED stunSeq)

RecoveryAsks ==
  /\ Looks /\ Goes("recover", "accept") /\ Asks("recover")
  /\ UNCHANGED <<cameraVars, brokerVars, sock, addr, mine, tries, upsets, known>>

\* Mutant of NoAddress: a reannounce counts a lookup that it does not have.
MutNoAddressCounts ==
  /\ tries' = tries - 1
  /\ Goes("recover", IF tries > 1 THEN "ask" ELSE "idle")
  /\ UNCHANGED <<mine, sock, addr>>

\* Without an address a reannounce is over; a rendezvous asks again and then gives
\* its socket up (_close_sock).
NoAddress ==
  /\ tries' = IF tries = 0 THEN 0 ELSE tries - 1
  /\ IF tries > 1 THEN Goes("recover", "ask") /\ UNCHANGED <<mine, sock, addr>>
     ELSE /\ Goes("recover", "idle") /\ mine' = 0
          /\ IF tries = 1 /\ sock = mine THEN sock' = 0 /\ addr' = 0
             ELSE UNCHANGED <<sock, addr>>

RecoveryAccepts ==
  /\ pc["recover"] = "accept" /\ stunSeq' = Taken(got["recover"])
  /\ IF Usable(got["recover"])
       THEN Goes("recover", "store") /\ UNCHANGED <<got, mine, tries, sock, addr>>
       ELSE NoAddress /\ got' = [got EXCEPT !["recover"] = None]
  /\ UNCHANGED <<cameraVars, brokerVars, upsets, known>>

\* The address is stored, by a rendezvous with the socket, whatever the other
\* thread has stored since.
RecoveryStores ==
  /\ pc["recover"] = "store" /\ Goes("recover", "idle")
  /\ addr' = got["recover"].port
  /\ sock' = IF tries > 0 THEN mine ELSE sock
  /\ mine' = 0 /\ tries' = 0 /\ got' = [got EXCEPT !["recover"] = None]
  /\ UNCHANGED <<cameraVars, brokerVars, stunSeq, upsets, known>>

\* A request of the bridge fails: a lookup has no answer, the others are passed
\* over.
RequestFails ==
  /\ Upset
  /\ \/ Looks /\ NoAddress
     \/ /\ pc["recover"] = "register" /\ Goes("recover", "notify")
        /\ UNCHANGED <<mine, tries, sock, addr, stunSeq>>
     \/ /\ pc["recover"] = "notify" /\ Goes("recover", "forget")
        /\ UNCHANGED <<mine, tries, sock, addr, stunSeq>>
  /\ UNCHANGED <<cameraVars, brokerVars, got, known>>

\* The broker restarts between two requests of the recovery thread: the cameras'
\* rows and the viewers are in files, the rest is gone, and so is the link.
BrokerRestarts ==
  /\ Upset /\ request["recover"] = None
  /\ linked' = FALSE /\ up' = <<>> /\ down' = <<>>
  /\ lastSeq' = 0 /\ reported' = 0 /\ answer' = 0 /\ sentSeq' = None
  /\ sentPair' = 0 /\ floor' = 0 /\ known' = FALSE
  /\ hpc' = "idle" /\ frame' = None
  /\ request' = [request EXCEPT !["handler"] = None]
  /\ UNCHANGED <<counter, bound, armed, live, row, viewer, targetVars, threadVars>>

-----------------------------------------------------------------------------
Handler == \/ HandlerTakesReport \/ AnswerStored
           \/ HandlerTakesRegister \/ HandlerNotes
Punch == PunchAsks \/ PunchHello
Recover == \/ RecoveryStarts \/ Register \/ Notify \/ RecoveryNotes
           \/ RecoveryAsks \/ RecoveryAccepts \/ RecoveryStores
Camera == CameraConnects \/ CameraBinds
Upsets == \/ CameraRedraws \/ CameraReboots \/ LinkDrops \/ ViewTimesOut
          \/ BrokerRestarts \/ RequestFails

Next == Camera \/ Handler \/ Punch \/ Recover \/ Upsets

Spec == Init /\ [][Next]_vars

\* Every thread runs, and the camera reconnects and answers what it hears.
FairSpec == Spec /\ WF_vars(Camera) /\ WF_vars(Handler) /\ WF_vars(Punch)
                 /\ WF_vars(Recover)

-----------------------------------------------------------------------------
\* A camera that does not stream is found again: whatever reports, requests,
\* links, sockets and numbers were lost, the bridge's hello comes to the port of
\* its P2P socket while it is armed with the socket the hello comes from.
SilentCameraIsFound == ~live ~> live

\* An answer of the P2P socket that is stored when every 0x8101 sent so far has
\* been noted, and is the last on its way, goes on being what stun-addr serves
\* until the next 0x8101 is sent, whatever other ports the camera reports.  An
\* answer that overtakes the bookkeeping of its own 0x8101 is not promised this:
\* the bookkeeping drops it and stun-addr is back at the row.
StoredAnswerStays == known => Served = bound

=============================================================================
