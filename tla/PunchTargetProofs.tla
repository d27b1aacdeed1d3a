------------------------- MODULE PunchTargetProofs -------------------------
(***************************************************************************)
(* What holds of PunchTarget for any ports, viewer pairs, frame numbers,   *)
(* retries and failures: the types, and that an answer of the P2P socket   *)
(* which is stored after every 0x8101 was noted stays what stun-addr       *)
(* serves until the next one is sent.                                      *)
(***************************************************************************)
EXTENDS PunchTarget, TLAPS

\* A report has a port; what note_p2p_answer is about to store came with one.
ReportsHavePorts ==
  /\ \A i \in 1..Len(up) : up[i].kind = "report" => up[i].port \in Ports
  /\ hpc = "store" => frame.port \in Ports

\* Once the answer is known nothing is left that could replace or drop it: no
\* report with a number is on its way, no handler holds one, and no thread has a
\* 0x8101 to note.
AnswerIsLast ==
  known => /\ answer = bound /\ bound # 0 /\ hpc # "store"
           /\ request["recover"] = None /\ request["handler"] = None
           /\ \A i \in 1..Len(up) : up[i].n = 0

PunchInv == TypeOK /\ ReportsHavePorts /\ AnswerIsLast

LEMMA PunchInit == Init => PunchInv
<1> SUFFICES ASSUME Init PROVE PunchInv
  OBVIOUS
<1> USE PunchAssumption DEF Init
<1>1. /\ linked \in BOOLEAN /\ live \in BOOLEAN /\ known \in BOOLEAN
  BY Zenon
<1>2. up \in Seq(Frames) /\ down \in Seq(Requests)
  OBVIOUS
<1>3. /\ request \in [{"recover", "handler"} -> {None}]
      /\ pc \in [Threads -> {"idle"}]
      /\ got \in [Threads -> {None}]
  OBVIOUS
<1>4. CameraTypeOK /\ BrokerTypeOK /\ TargetTypeOK
  <2>1. /\ request["handler"] = None /\ request["recover"] = None
        /\ \A t \in Threads : pc[t] = "idle" /\ got[t] = None
        /\ pc["punch"] = "idle" /\ pc["recover"] = "idle"
    BY DEF Threads
  <2>2. CameraTypeOK
    BY <1>1, <1>2 DEF CameraTypeOK, Numbers
  <2>3. BrokerTypeOK
    BY <1>3, <2>1 DEF BrokerTypeOK, Numbers
  <2>4. TargetTypeOK
    <3>1. /\ pc \in [Threads -> {"idle", "register", "notify", "forget", "ask",
                                 "accept", "store"} \cup Noting]
          /\ pc["recover"] \notin Noting
          /\ got \in [Threads -> Replies \cup {None}]
      BY <1>3, <2>1 DEF Noting
    <3>2. \A t \in Threads : pc[t] \in {"accept", "store"} <=> got[t] # None
      BY <2>1
    <3>3. QED
      BY <2>1, <3>1, <3>2 DEF TargetTypeOK, Numbers
  <2>5. QED
    BY <2>2, <2>3, <2>4
<1>5. TypeOK
  BY <1>1, <1>4 DEF TypeOK
<1>6. ReportsHavePorts /\ AnswerIsLast
  BY DEF ReportsHavePorts, AnswerIsLast
<1>7. QED
  BY <1>5, <1>6 DEF PunchInv

\* What a step of the camera leaves alone.
LEMMA OthersTyped ==
  ASSUME TypeOK, UNCHANGED <<brokerVars, targetVars, threadVars>>
  PROVE  BrokerTypeOK' /\ TargetTypeOK' /\ UNCHANGED <<answer, hpc, frame, request>>
BY DEF TypeOK, brokerVars, targetVars, threadVars, BrokerTypeOK, TargetTypeOK

LEMMA CountedTyped == ASSUME TypeOK PROVE Counted \in Numbers
BY PunchAssumption DEF TypeOK, CameraTypeOK, Counted, Numbers

\* A frame more on its way: the queue keeps its type, and what held of every
\* frame and of the new one holds of all.
LEMMA FrameSent ==
  ASSUME TypeOK, NEW f \in Frames, up' = Append(up, f)
  PROVE  /\ up' \in Seq(Frames)
         /\ Len(up') = Len(up) + 1
         /\ \A i \in 1..Len(up') : IF i = Len(up') THEN up'[i] = f
                                                   ELSE i \in 1..Len(up) /\ up'[i] = up[i]
BY DEF TypeOK, CameraTypeOK

\* The camera's own steps.
LEMMA CameraKeeps ==
  ASSUME PunchInv,
         \/ CameraConnects \/ CameraBinds \/ CameraRedraws \/ CameraReboots
         \/ LinkDrops \/ ViewTimesOut
  PROVE  PunchInv'
<1> USE PunchAssumption, CountedTyped, OthersTyped DEF PunchInv, Upset
<1>1. CASE CameraConnects
  <2> DEFINE f == [kind |-> "register", seq |-> Counted, n |-> 0, port |-> 0]
  <2>1. f \in Frames /\ up' = Append(up, f)
    BY <1>1 DEF CameraConnects, Frames, Numbers
  <2>2. CameraTypeOK'
    BY <1>1, <2>1, FrameSent DEF CameraConnects, CameraTypeOK, TypeOK
  <2>3. TypeOK'
    BY <1>1, <2>2 DEF CameraConnects, TypeOK
  <2>4. ReportsHavePorts' /\ AnswerIsLast'
    BY <1>1, <2>1, FrameSent DEF CameraConnects, ReportsHavePorts, AnswerIsLast
  <2>5. QED
    BY <2>3, <2>4
<1>2. CASE CameraBinds
  <2> DEFINE f == [kind |-> "report", seq |-> Counted, n |-> Head(down).seq,
                   port |-> bound']
  <2>1. /\ Head(down) \in Requests /\ Tail(down) \in Seq(Requests)
        /\ bound' \in Ports
    BY <1>2 DEF CameraBinds, TypeOK, CameraTypeOK
  <2>2. f \in Frames /\ up' = Append(up, f)
    BY <1>2, <2>1 DEF CameraBinds, Frames, Requests, Numbers
  <2>3. CameraTypeOK'
    BY <1>2, <2>1, <2>2, FrameSent DEF CameraBinds, CameraTypeOK, TypeOK, Requests
  <2>4. TypeOK'
    BY <1>2, <2>3 DEF CameraBinds, TypeOK
  <2>5. ReportsHavePorts' /\ AnswerIsLast'
    BY <1>2, <2>1, <2>2, FrameSent DEF CameraBinds, ReportsHavePorts, AnswerIsLast
  <2>6. QED
    BY <2>4, <2>5
<1>3. CASE CameraRedraws
  <2>1. PICK p \in Ports :
          up' = Append(up, [kind |-> "report", seq |-> Counted, n |-> 0, port |-> p])
    BY <1>3 DEF CameraRedraws
  <2> DEFINE f == [kind |-> "report", seq |-> Counted, n |-> 0, port |-> p]
  <2>2. f \in Frames
    BY DEF Frames, Numbers
  <2>3. CameraTypeOK'
    BY <1>3, <2>1, <2>2, FrameSent DEF CameraRedraws, CameraTypeOK, TypeOK
  <2>4. TypeOK'
    BY <1>3, <2>3 DEF CameraRedraws, TypeOK
  <2>5. ReportsHavePorts' /\ AnswerIsLast'
    BY <1>3, <2>1, <2>2, FrameSent DEF CameraRedraws, ReportsHavePorts, AnswerIsLast
  <2>6. QED
    BY <2>4, <2>5
<1>4. CASE CameraReboots
  <2>1. CameraTypeOK'
    <3>1. linked' \in BOOLEAN /\ live' \in BOOLEAN /\ ~live'
      BY <1>4, Zenon DEF CameraReboots
    <3>2. counter' = 0 /\ bound' = 0 /\ armed' = 0 /\ up' = up /\ down' = <<>>
      BY <1>4 DEF CameraReboots
    <3>3. down' \in Seq(Requests)
      BY <3>2
    <3>4. QED
      BY <3>1, <3>2, <3>3 DEF TypeOK, CameraTypeOK, Numbers
  <2>2. TypeOK'
    <3>1. known' \in BOOLEAN
      BY <1>4, Zenon DEF CameraReboots
    <3>2. upsets' \in 0..MaxUpsets
      BY <1>4 DEF CameraReboots, TypeOK
    <3>3. QED
      BY <1>4, <2>1, <3>1, <3>2 DEF CameraReboots, TypeOK
  <2>3. ReportsHavePorts' /\ AnswerIsLast'
    BY <1>4 DEF CameraReboots, ReportsHavePorts, AnswerIsLast
  <2>4. QED
    BY <2>2, <2>3
<1>5. CASE LinkDrops
  <2>1. CameraTypeOK'
    <3>1. linked' \in BOOLEAN
      BY <1>5, Zenon DEF LinkDrops
    <3>2. down' \in Seq(Requests)
      BY <1>5 DEF LinkDrops
    <3>3. QED
      BY <1>5, <3>1, <3>2 DEF LinkDrops, TypeOK, CameraTypeOK
  <2>2. TypeOK'
    BY <1>5, <2>1 DEF LinkDrops, TypeOK
  <2>3. ReportsHavePorts' /\ AnswerIsLast'
    BY <1>5 DEF LinkDrops, ReportsHavePorts, AnswerIsLast
  <2>4. QED
    BY <2>2, <2>3
<1>6. CASE ViewTimesOut
  <2>1. CameraTypeOK'
    BY <1>6 DEF ViewTimesOut, TypeOK, CameraTypeOK
  <2>2. TypeOK'
    BY <1>6, <2>1 DEF ViewTimesOut, TypeOK
  <2>3. ReportsHavePorts' /\ AnswerIsLast'
    BY <1>6 DEF ViewTimesOut, ReportsHavePorts, AnswerIsLast
  <2>4. QED
    BY <2>2, <2>3
<1>7. QED
  BY <1>1, <1>2, <1>3, <1>4, <1>5, <1>6

-----------------------------------------------------------------------------
\* A frame that the handler takes is one of those on their way, and leaves the
\* others as they are.
LEMMA FrameTaken ==
  ASSUME PunchInv, up # <<>>, up' = Tail(up)
  PROVE  /\ Head(up) \in Frames /\ up' \in Seq(Frames)
         /\ Head(up).kind = "report" => Head(up).port \in Ports
         /\ known => Head(up).n = 0
         /\ \A i \in 1..Len(up') : i + 1 \in 1..Len(up) /\ up'[i] = up[i + 1]
<1>1. up \in Seq(Frames) /\ 1 \in 1..Len(up) /\ Head(up) = up[1]
  BY DEF PunchInv, TypeOK, CameraTypeOK
<1>2. Head(up) \in Frames /\ up' \in Seq(Frames)
  BY <1>1
<1>3. \A i \in 1..Len(up') : i + 1 \in 1..Len(up) /\ up'[i] = up[i + 1]
  BY <1>1
<1>4. QED
  BY <1>1, <1>2, <1>3 DEF PunchInv, ReportsHavePorts, AnswerIsLast

\* A request that is sent, or not, is one with the number last heard.
LEMMA RequestSent ==
  ASSUME TypeOK, lastSeq' \in Numbers, NEW t \in {"recover", "handler"},
         NEW v \in Sockets \cup {0}, NEW force \in BOOLEAN, Sends(t, v, force)
  PROVE  /\ down' \in Seq(Requests)
         /\ request' \in [{"recover", "handler"} -> Requests \cup {None}]
         /\ request'[t] # None
         /\ \A u \in {"recover", "handler"} \ {t} : request'[u] = request[u]
         /\ known' = FALSE
<1>1. v \in Sockets
  BY DEF Sends
<1>2. PICK r \in Requests : /\ down' = Append(down, r)
                            /\ request' = [request EXCEPT ![t] = r]
  BY <1>1 DEF Sends, Requests
<1>3. known' = FALSE
  BY Zenon DEF Sends
<1>4. QED
  BY <1>2, <1>3, PunchAssumption, SMT DEF TypeOK, CameraTypeOK, BrokerTypeOK

\* The bookkeeping after a request keeps the types, and its second half is the end
\* of the request.
LEMMA NoteTyped ==
  ASSUME TypeOK, NEW t \in {"recover", "handler"}, request[t] # None,
         NoteSent(t) \/ NoteClears(t)
  PROVE  /\ sentSeq' \in Numbers \cup {None} /\ sentPair' \in Sockets \cup {0}
         /\ answer' \in Ports \cup {0} /\ floor' \in 0..Floor
         /\ request' \in [{"recover", "handler"} -> Requests \cup {None}]
         /\ \A u \in {"recover", "handler"} \ {t} : request'[u] = request[u]
         /\ NoteSent(t) => request' = request
         /\ NoteClears(t) => request'[t] = None
<1>1. request[t] \in Requests
  BY DEF TypeOK, BrokerTypeOK
<1>2. CASE NoteSent(t)
  <2>1. /\ sentSeq' \in Numbers /\ sentPair' \in Sockets
        /\ answer' = answer /\ floor' = floor /\ request' = request
    BY <1>1, <1>2 DEF NoteSent, Requests
  <2>2. NoteClears(t) => request'[t] = None
    BY DEF NoteClears, TypeOK, BrokerTypeOK
  <2>3. QED
    BY <2>1, <2>2 DEF TypeOK, BrokerTypeOK
<1>3. CASE NoteClears(t)
  <2>1. sentSeq' = sentSeq /\ sentPair' = sentPair /\ answer' = 0 /\ floor' = Floor
    BY <1>3 DEF NoteClears
  <2>2. /\ request' \in [{"recover", "handler"} -> Requests \cup {None}]
        /\ \A u \in {"recover", "handler"} \ {t} : request'[u] = request[u]
        /\ request'[t] = None
    BY <1>3 DEF NoteClears, TypeOK, BrokerTypeOK
  <2>3. NoteSent(t) => request' = request
    BY DEF NoteSent
  <2>4. QED
    BY <2>1, <2>2, <2>3, PunchAssumption DEF TypeOK, BrokerTypeOK
<1>4. QED
  BY <1>2, <1>3

\* The broker's handler.
LEMMA HandlerKeeps ==
  ASSUME PunchInv, Handler PROVE PunchInv'
<1> USE PunchAssumption DEF PunchInv
<1>1. CASE HandlerTakesReport
  <2>1. /\ Head(up) \in Frames /\ up' \in Seq(Frames) /\ Head(up).port \in Ports
        /\ known => Head(up).n = 0
        /\ \A i \in 1..Len(up') : i + 1 \in 1..Len(up) /\ up'[i] = up[i + 1]
    BY <1>1, FrameTaken DEF HandlerTakesReport
  <2>2. CameraTypeOK' /\ TargetTypeOK'
    BY <1>1, <2>1
       DEF HandlerTakesReport, targetVars, threadVars, TypeOK, CameraTypeOK,
           TargetTypeOK
  <2>3. CASE Answers(Head(up))
    <3>1. ~known
      BY <2>1, <2>3 DEF Answers, Frames, Numbers
    <3>2. BrokerTypeOK'
      BY <1>1, <2>1, <2>3 DEF HandlerTakesReport, TypeOK, BrokerTypeOK, Frames
    <3>3. QED
      BY <1>1, <2>1, <2>2, <2>3, <3>1, <3>2
         DEF HandlerTakesReport, TypeOK, ReportsHavePorts, AnswerIsLast
  <2>4. CASE ~Answers(Head(up))
    <3>1. BrokerTypeOK'
      BY <1>1, <2>1, <2>4 DEF HandlerTakesReport, TypeOK, BrokerTypeOK, Frames
    <3>2. QED
      BY <1>1, <2>1, <2>2, <2>4, <3>1
         DEF HandlerTakesReport, TypeOK, ReportsHavePorts, AnswerIsLast
  <2>5. QED
    BY <2>3, <2>4
<1>2. CASE AnswerStored
  <2>1. frame \in Frames /\ frame.port \in Ports
    BY <1>2 DEF AnswerStored, TypeOK, BrokerTypeOK, ReportsHavePorts
  <2>2. known' \in BOOLEAN /\ ~known
        /\ (known' => /\ frame.port = bound
                      /\ request["recover"] = None /\ request["handler"] = None
                      /\ \A i \in 1..Len(up) : up[i].n = 0)
    BY <1>2, Zenon DEF AnswerStored, AnswerIsLast, TypeOK
  <2>3. CameraTypeOK' /\ BrokerTypeOK' /\ TargetTypeOK'
    BY <1>2, <2>1
       DEF AnswerStored, cameraVars, targetVars, threadVars, TypeOK, CameraTypeOK,
           BrokerTypeOK, TargetTypeOK
  <2>4. QED
    BY <1>2, <2>1, <2>2, <2>3
       DEF AnswerStored, cameraVars, TypeOK, ReportsHavePorts, AnswerIsLast
<1>3. CASE HandlerTakesRegister
  <2>1. /\ Head(up) \in Frames /\ up' \in Seq(Frames)
        /\ known => Head(up).n = 0
        /\ \A i \in 1..Len(up') : i + 1 \in 1..Len(up) /\ up'[i] = up[i + 1]
    BY <1>3, FrameTaken DEF HandlerTakesRegister
  <2>2. lastSeq' \in Numbers /\ viewer \in Sockets \cup {0} /\ floor' = 0
    BY <1>3, <2>1 DEF HandlerTakesRegister, Frames, TypeOK, BrokerTypeOK
  <2>3. /\ down' \in Seq(Requests)
        /\ request' \in [{"recover", "handler"} -> Requests \cup {None}]
        /\ request'["recover"] = request["recover"]
        /\ hpc' = "note" <=> request'["handler"] # None
        /\ hpc' \in {"note", "idle"}
        /\ \/ known' = FALSE
           \/ known' = known /\ request' = request
    <3>1. CASE Sends("handler", viewer, TRUE) /\ hpc' = "note"
      BY <2>2, <3>1, RequestSent
    <3>2. CASE Skips(viewer, TRUE) /\ hpc' = "idle"
      BY <1>3, <3>2
         DEF HandlerTakesRegister, Skips, TypeOK, CameraTypeOK, BrokerTypeOK
    <3>3. QED
      BY <1>3, <3>1, <3>2 DEF HandlerTakesRegister
  <2>4. CameraTypeOK' /\ BrokerTypeOK' /\ TargetTypeOK'
    BY <1>3, <2>1, <2>2, <2>3
       DEF HandlerTakesRegister, targetVars, threadVars, TypeOK, CameraTypeOK,
           BrokerTypeOK, TargetTypeOK
  <2>5. known' \in BOOLEAN
    BY <2>3, Zenon DEF TypeOK
  <2>6. ReportsHavePorts' /\ AnswerIsLast'
    BY <1>3, <2>1, <2>3 DEF HandlerTakesRegister, ReportsHavePorts, AnswerIsLast
  <2>7. QED
    BY <1>3, <2>4, <2>5, <2>6 DEF HandlerTakesRegister, TypeOK
<1>4. CASE HandlerNotes
  <2>1. request["handler"] # None /\ ~known
    <3>1. request["handler"] # None
      BY <1>4 DEF HandlerNotes, TypeOK, BrokerTypeOK
    <3>2. QED
      BY <3>1 DEF AnswerIsLast
  <2>2. /\ sentSeq' \in Numbers \cup {None} /\ sentPair' \in Sockets \cup {0}
        /\ answer' \in Ports \cup {0} /\ floor' \in 0..Floor
        /\ request' \in [{"recover", "handler"} -> Requests \cup {None}]
        /\ request'["recover"] = request["recover"]
    BY <1>4, <2>1, NoteTyped DEF HandlerNotes
  <2>3. hpc' \in {"clear", "idle"} /\ (hpc' = "clear" <=> request'["handler"] # None)
    BY <1>4, <2>1, NoteTyped DEF HandlerNotes
  <2>4. CameraTypeOK'
    BY <1>4 DEF HandlerNotes, cameraVars, TypeOK, CameraTypeOK
  <2>5. BrokerTypeOK'
    BY <1>4, <2>2, <2>3 DEF HandlerNotes, TypeOK, BrokerTypeOK
  <2>6. TargetTypeOK'
    BY <1>4, <2>2 DEF HandlerNotes, targetVars, threadVars, TypeOK, TargetTypeOK
  <2>7. QED
    BY <1>4, <2>1, <2>3, <2>4, <2>5, <2>6
       DEF HandlerNotes, cameraVars, TypeOK, ReportsHavePorts, AnswerIsLast
<1>5. QED
  BY <1>1, <1>2, <1>3, <1>4 DEF Handler

-----------------------------------------------------------------------------
\* What a step of the bridge leaves alone of the camera and of the answer.
LEMMA CameraLeftAlone ==
  ASSUME PunchInv, UNCHANGED <<up, bound, answer, hpc, frame, request, known>>
  PROVE  ReportsHavePorts' /\ AnswerIsLast' /\ known' \in BOOLEAN
BY DEF PunchInv, TypeOK, ReportsHavePorts, AnswerIsLast

LEMMA TakenTyped ==
  ASSUME TypeOK, NEW t \in Threads, got[t] # None
  PROVE  /\ got[t] \in Replies /\ got[t].port \in Ports \cup {0}
         /\ Taken(got[t]) \in Numbers \cup {None}
<1>1. got[t] \in Replies
  BY DEF TypeOK, TargetTypeOK
<1>2. got[t].port \in Ports \cup {0} /\ got[t].n \in Numbers
  BY <1>1 DEF Replies
<1>3. QED
  BY <1>1, <1>2 DEF TypeOK, TargetTypeOK, Taken

\* The punch thread.
LEMMA PunchKeeps ==
  ASSUME PunchInv, Punch PROVE PunchInv'
<1> USE PunchAssumption DEF PunchInv
<1>1. CASE PunchAsks
  <2>1. /\ got' = [got EXCEPT !["punch"] = [port |-> Served, n |-> reported]]
        /\ [port |-> Served, n |-> reported] \in Replies
        /\ floor' \in 0..Floor
    BY <1>1 DEF PunchAsks, Asks, Served, Replies, TypeOK, BrokerTypeOK
  <2>2. CameraTypeOK' /\ BrokerTypeOK'
    BY <1>1, <2>1 DEF PunchAsks, cameraVars, TypeOK, CameraTypeOK, BrokerTypeOK
  <2>3. TargetTypeOK'
    BY <1>1, <2>1 DEF PunchAsks, Goes, targetVars, Threads, TypeOK, TargetTypeOK
  <2>4. QED
    BY <1>1, <2>2, <2>3, CameraLeftAlone DEF PunchAsks, cameraVars, TypeOK
<1>2. CASE PunchHello
  <2>1. got["punch"] # None
    BY <1>2 DEF PunchHello, TypeOK, TargetTypeOK, Threads
  <2>2. addr' \in Ports \cup {0} /\ stunSeq' \in Numbers \cup {None}
    BY <1>2, <2>1, TakenTyped DEF PunchHello, Threads, TypeOK, TargetTypeOK
  <2>3. live' \in BOOLEAN /\ (live' => live \/ (addr' # 0 /\ addr' = bound))
    BY <1>2, Zenon DEF PunchHello
  <2>4. CameraTypeOK' /\ BrokerTypeOK'
    BY <1>2, <2>3
       DEF PunchHello, brokerVars, TypeOK, CameraTypeOK, BrokerTypeOK
  <2>5. TargetTypeOK'
    BY <1>2, <2>2
       DEF PunchHello, Goes, brokerVars, Threads, TypeOK, TargetTypeOK
  <2>6. QED
    BY <1>2, <2>4, <2>5, CameraLeftAlone DEF PunchHello, brokerVars, TypeOK
<1>3. QED
  BY <1>1, <1>2 DEF Punch

\* A lookup without an address leaves the recovery thread where it may be.
LEMMA NoAddressTyped ==
  ASSUME TypeOK, NoAddress
  PROVE  /\ tries' \in 0..Tries /\ mine' \in Sockets \cup {0}
         /\ sock' \in Sockets \cup {0} /\ addr' \in Ports \cup {0}
         /\ \E where \in {"ask", "idle"} : Goes("recover", where)
<1>1. tries \in 0..Tries
  BY DEF TypeOK, TargetTypeOK
<1>2. tries' \in 0..Tries
  BY <1>1, PunchAssumption DEF NoAddress
<1>3. /\ mine' \in Sockets \cup {0}
      /\ sock' \in Sockets \cup {0} /\ addr' \in Ports \cup {0}
  BY DEF TypeOK, TargetTypeOK, NoAddress
<1>4. QED
  BY <1>2, <1>3 DEF NoAddress

\* The recovery thread.
LEMMA RecoverKeeps ==
  ASSUME PunchInv, Recover PROVE PunchInv'
<1> USE PunchAssumption DEF PunchInv
<1>1. CASE RecoveryStarts
  <2>1. /\ tries' \in 0..Tries /\ mine' \in Sockets \cup {0}
    BY <1>1 DEF RecoveryStarts, TypeOK, TargetTypeOK
  <2>2. CameraTypeOK' /\ BrokerTypeOK'
    BY <1>1
       DEF RecoveryStarts, cameraVars, brokerVars, TypeOK, CameraTypeOK, BrokerTypeOK
  <2>3. TargetTypeOK'
    BY <1>1, <2>1
       DEF RecoveryStarts, Goes, brokerVars, targetVars, Threads, TypeOK,
           TargetTypeOK, Noting
  <2>4. QED
    BY <1>1, <2>2, <2>3, CameraLeftAlone
       DEF RecoveryStarts, cameraVars, brokerVars, TypeOK
<1>2. CASE Register \/ Notify
  <2>1. PICK where \in {"noteRegister", "notify", "noteNotify", "forget"},
             v \in Sockets \cup {0} :
          /\ Goes("recover", where)
          /\ \/ Sends("recover", v, FALSE) /\ where \in {"noteRegister", "noteNotify"}
             \/ Skips(v, FALSE) /\ where \in {"notify", "forget"}
    BY <1>2 DEF Register, Notify, TypeOK, BrokerTypeOK, TargetTypeOK
  <2>2. /\ pc["recover"] \in {"register", "notify"} /\ lastSeq' = lastSeq
        /\ viewer' \in Sockets \cup {0}
        /\ UNCHANGED <<linked, counter, bound, armed, live, up, row, reported,
                       answer, sentSeq, sentPair, floor, hpc, frame, targetVars,
                       got, mine, tries, upsets>>
    BY <1>2 DEF Register, Notify, TypeOK, BrokerTypeOK, TargetTypeOK
  <2>3. request["recover"] = None
    BY <2>2 DEF TypeOK, TargetTypeOK, Noting
  <2>4. /\ down' \in Seq(Requests)
        /\ request' \in [{"recover", "handler"} -> Requests \cup {None}]
        /\ request'["handler"] = request["handler"]
        /\ where \in {"noteRegister", "noteNotify"} <=> request'["recover"] # None
        /\ \/ known' = FALSE
           \/ known' = known /\ request' = request
    <3>1. CASE Sends("recover", v, FALSE) /\ where \in {"noteRegister", "noteNotify"}
      BY <2>2, <3>1, RequestSent DEF TypeOK, BrokerTypeOK
    <3>2. CASE Skips(v, FALSE) /\ where \in {"notify", "forget"}
      BY <2>3, <3>2 DEF Skips, TypeOK, CameraTypeOK, BrokerTypeOK
    <3>3. QED
      BY <2>1, <3>1, <3>2
  <2>5. CameraTypeOK' /\ BrokerTypeOK'
    BY <2>2, <2>4 DEF TypeOK, CameraTypeOK, BrokerTypeOK
  <2>6. TargetTypeOK'
    BY <2>1, <2>2, <2>4 DEF Goes, targetVars, Threads, TypeOK, TargetTypeOK, Noting
  <2>7. known' \in BOOLEAN
    BY <2>4, Zenon DEF TypeOK
  <2>8. ReportsHavePorts' /\ AnswerIsLast'
    BY <2>2, <2>4 DEF ReportsHavePorts, AnswerIsLast
  <2>9. QED
    BY <2>2, <2>5, <2>6, <2>7, <2>8 DEF TypeOK
<1>3. CASE RecoveryNotes
  <2>1. /\ request["recover"] # None /\ ~known
        /\ pc["recover"] \in Noting
    <3>1. pc["recover"] \in Noting
      BY <1>3 DEF RecoveryNotes, Noting
    <3>2. QED
      BY <3>1 DEF TypeOK, TargetTypeOK, AnswerIsLast
  <2>2. /\ sentSeq' \in Numbers \cup {None} /\ sentPair' \in Sockets \cup {0}
        /\ answer' \in Ports \cup {0} /\ floor' \in 0..Floor
        /\ request' \in [{"recover", "handler"} -> Requests \cup {None}]
        /\ request'["handler"] = request["handler"]
    BY <1>3, <2>1, NoteTyped DEF RecoveryNotes
  <2>3. PICK where \in {"clearRegister", "notify", "clearNotify", "forget"} :
          /\ Goes("recover", where)
          /\ where \in Noting <=> request'["recover"] # None
    BY <1>3, <2>1, NoteTyped DEF RecoveryNotes, Noting
  <2>4. CameraTypeOK' /\ BrokerTypeOK'
    BY <1>3, <2>2
       DEF RecoveryNotes, cameraVars, TypeOK, CameraTypeOK, BrokerTypeOK
  <2>5. TargetTypeOK'
    BY <1>3, <2>1, <2>2, <2>3
       DEF RecoveryNotes, Goes, targetVars, Threads, TypeOK, TargetTypeOK, Noting
  <2>6. QED
    BY <1>3, <2>1, <2>4, <2>5
       DEF RecoveryNotes, cameraVars, TypeOK, ReportsHavePorts, AnswerIsLast
<1>4. CASE RecoveryAsks
  <2>1. /\ got' = [got EXCEPT !["recover"] = [port |-> Served, n |-> reported]]
        /\ [port |-> Served, n |-> reported] \in Replies
        /\ pc["recover"] \in {"forget", "ask"}
        /\ stunSeq' \in Numbers \cup {None}
    BY <1>4 DEF RecoveryAsks, Looks, Forget, Asks, Served, Replies, TypeOK, BrokerTypeOK,
                TargetTypeOK
  <2>2. CameraTypeOK' /\ BrokerTypeOK'
    BY <1>4
       DEF RecoveryAsks, cameraVars, brokerVars, TypeOK, CameraTypeOK, BrokerTypeOK
  <2>3. TargetTypeOK'
    BY <1>4, <2>1
       DEF RecoveryAsks, Goes, brokerVars, Threads, TypeOK, TargetTypeOK, Noting
  <2>4. QED
    BY <1>4, <2>2, <2>3, CameraLeftAlone
       DEF RecoveryAsks, cameraVars, brokerVars, TypeOK
<1>5. CASE RecoveryAccepts
  <2>1. got["recover"] # None /\ request["recover"] = None
    BY <1>5 DEF RecoveryAccepts, TypeOK, TargetTypeOK, Threads, Noting
  <2>2. stunSeq' \in Numbers \cup {None}
    BY <1>5, <2>1, TakenTyped DEF RecoveryAccepts, Threads
  <2>3. CameraTypeOK' /\ BrokerTypeOK'
    BY <1>5
       DEF RecoveryAccepts, cameraVars, brokerVars, TypeOK, CameraTypeOK,
           BrokerTypeOK
  <2>4. TargetTypeOK'
    <3>1. CASE Usable(got["recover"])
      BY <1>5, <2>1, <2>2, <3>1
         DEF RecoveryAccepts, Goes, brokerVars, Threads, TypeOK, TargetTypeOK, Noting
    <3>2. CASE ~Usable(got["recover"])
      <4>1. NoAddress /\ got' = [got EXCEPT !["recover"] = None]
        BY <1>5, <3>2 DEF RecoveryAccepts
      <4>2. PICK where \in {"ask", "idle"} : Goes("recover", where)
        BY <4>1, NoAddressTyped
      <4>3. QED
        BY <1>5, <2>1, <2>2, <4>1, <4>2, NoAddressTyped
           DEF RecoveryAccepts, Goes, brokerVars, Threads, TypeOK, TargetTypeOK, Noting
    <3>3. QED
      BY <3>1, <3>2
  <2>5. QED
    BY <1>5, <2>3, <2>4, CameraLeftAlone
       DEF RecoveryAccepts, cameraVars, brokerVars, TypeOK
<1>6. CASE RecoveryStores
  <2>1. got["recover"] # None
    BY <1>6 DEF RecoveryStores, TypeOK, TargetTypeOK, Threads
  <2>2. CameraTypeOK' /\ BrokerTypeOK'
    BY <1>6
       DEF RecoveryStores, cameraVars, brokerVars, TypeOK, CameraTypeOK, BrokerTypeOK
  <2>3. TargetTypeOK'
    BY <1>6, <2>1, TakenTyped
       DEF RecoveryStores, Goes, brokerVars, Threads, TypeOK, TargetTypeOK, Noting
  <2>4. QED
    BY <1>6, <2>2, <2>3, CameraLeftAlone
       DEF RecoveryStores, cameraVars, brokerVars, TypeOK
<1>7. QED
  BY <1>1, <1>2, <1>3, <1>4, <1>5, <1>6 DEF Recover

\* Failures of the bridge's requests and of the broker.
LEMMA FailuresKeep ==
  ASSUME PunchInv, RequestFails \/ BrokerRestarts PROVE PunchInv'
<1> USE PunchAssumption DEF PunchInv, Upset
<1>1. CASE RequestFails
  <2>1. /\ tries' \in 0..Tries /\ mine' \in Sockets \cup {0}
        /\ sock' \in Sockets \cup {0} /\ addr' \in Ports \cup {0}
        /\ \E where \in {"ask", "idle", "notify", "forget"} : Goes("recover", where)
    BY <1>1, NoAddressTyped DEF RequestFails, TypeOK, TargetTypeOK
  <2>2. /\ pc["recover"] \in {"forget", "ask", "register", "notify"}
        /\ stunSeq' \in Numbers \cup {None}
    BY <1>1 DEF RequestFails, Looks, Forget, TypeOK, TargetTypeOK
  <2>3. CameraTypeOK' /\ BrokerTypeOK'
    BY <1>1
       DEF RequestFails, cameraVars, brokerVars, TypeOK, CameraTypeOK, BrokerTypeOK
  <2>4. TargetTypeOK'
    BY <1>1, <2>1, <2>2
       DEF RequestFails, Goes, brokerVars, Threads, TypeOK, TargetTypeOK, Noting
  <2>5. QED
    BY <1>1, <2>3, <2>4, CameraLeftAlone
       DEF RequestFails, cameraVars, brokerVars, TypeOK
<1>2. CASE BrokerRestarts
  <2>1. /\ linked' \in BOOLEAN /\ known' \in BOOLEAN /\ ~known'
    BY <1>2, Zenon DEF BrokerRestarts
  <2>2. /\ up' = <<>> /\ down' = <<>> /\ up' \in Seq(Frames)
        /\ down' \in Seq(Requests) /\ hpc' = "idle"
    BY <1>2 DEF BrokerRestarts
  <2>3. CameraTypeOK'
    BY <1>2, <2>1, <2>2 DEF BrokerRestarts, TypeOK, CameraTypeOK
  <2>4. BrokerTypeOK'
    BY <1>2 DEF BrokerRestarts, TypeOK, BrokerTypeOK, Numbers
  <2>5. TargetTypeOK'
    BY <1>2
       DEF BrokerRestarts, targetVars, threadVars, Threads, TypeOK, BrokerTypeOK,
           TargetTypeOK
  <2>6. upsets' \in 0..MaxUpsets
    BY <1>2 DEF BrokerRestarts, TypeOK
  <2>7. TypeOK'
    BY <2>1, <2>3, <2>4, <2>5, <2>6 DEF TypeOK
  <2>8. ReportsHavePorts' /\ AnswerIsLast'
    BY <2>1, <2>2 DEF ReportsHavePorts, AnswerIsLast
  <2>9. QED
    BY <2>7, <2>8
<1>3. QED
  BY <1>1, <1>2

LEMMA PunchStep == PunchInv /\ [Next]_vars => PunchInv'
<1> SUFFICES ASSUME PunchInv, [Next]_vars PROVE PunchInv'
  OBVIOUS
<1>1. CASE UNCHANGED vars
  <2>1. /\ UNCHANGED <<cameraVars, upsets, known>>
        /\ UNCHANGED <<brokerVars, targetVars, threadVars>>
    BY <1>1 DEF vars
  <2>2. CameraTypeOK'
    BY <2>1 DEF cameraVars, PunchInv, TypeOK, CameraTypeOK
  <2>3. TypeOK'
    BY <2>1, <2>2, OthersTyped DEF PunchInv, TypeOK
  <2>4. QED
    BY <2>1, <2>3, OthersTyped
       DEF cameraVars, PunchInv, ReportsHavePorts, AnswerIsLast
<1>2. QED
  BY <1>1, CameraKeeps, HandlerKeeps, PunchKeeps, RecoverKeeps, FailuresKeep
     DEF Next, Camera, Upsets

LEMMA PunchInvariant == Spec => []PunchInv
BY PunchInit, PunchStep, PTL DEF Spec

\* Camera, broker and bridge keep their types, whatever is lost.
THEOREM TypeCorrect == Spec => []TypeOK
<1>1. PunchInv => TypeOK
  BY DEF PunchInv
<1>2. QED
  BY <1>1, PunchInvariant, PTL

\* An answer of the P2P socket that is stored after every 0x8101 sent was noted
\* is what stun-addr serves until the next 0x8101 is sent.
THEOREM SocketStays == Spec => []StoredAnswerStays
<1>1. PunchInv => StoredAnswerStays
  BY DEF PunchInv, AnswerIsLast, StoredAnswerStays, Served
<1>2. QED
  BY <1>1, PunchInvariant, PTL

=============================================================================
