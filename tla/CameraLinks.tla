---------------------------- MODULE CameraLinks ----------------------------
(***************************************************************************)
(* The fake cloud's connection to one camera (ziot_fake_cloud.py): which   *)
(* TCP connection camera_links names for its uid, and who may write to it. *)
(* The handler thread of every connection the camera opens, the HTTP       *)
(* threads and the keepalive worker read and write the dictionary without  *)
(* a lock; the per-camera push lock only serialises the sends.  An access  *)
(* another thread can separate from the next one is a step of its own.     *)
(***************************************************************************)
EXTENDS Integers, Sequences

CONSTANTS
  Conns,      \* the camera's connections, each with its handler (bound)
  Senders,    \* the keepalive worker and the HTTP threads that may send
  Frames,     \* what the camera sends (bound): reports of a view that runs
              \* or has stopped, of its address, or any other frame
  None,       \* no link, a free lock
  MaxInbox    \* bound: camera frames in flight per connection

ASSUME ThreadsAssumption ==
  /\ None \notin Conns \cup Senders
  /\ Conns \cap Senders = {}
  /\ "other" \in Frames /\ Frames \subseteq {"playing", "stopped", "address", "other"}
  /\ MaxInbox \in Nat \ {0}

VARIABLES
  link,       \* camera_links[uid]
  lock,       \* push_locks[uid]: the thread that holds it
  busy,       \* cameras[uid]["mediaState"] is not "0"
  at,         \* where each thread is
  then,       \* where it goes on when its send_to returns
  via,        \* `conn` in its send_to
  got,        \* per handler, the kind of the frame it is answering
  wire,       \* per connection: unused, up, down
  inbox,      \* per connection, the frames not read yet
  camConn     \* the connection the camera is using

vars == <<link, lock, busy, at, then, via, got, wire, inbox, camConn>>

-----------------------------------------------------------------------------
Threads == Conns \cup Senders

\* In send_to with a connection to write to.
Holding == {"lock", "stalled", "drop", "dropRow", "shutdown"}

TypeOK ==
  /\ link \in Conns \cup {None}
  /\ lock \in Threads \cup {None}
  /\ busy \in BOOLEAN
  /\ at \in [Threads -> {"unused", "recv", "dispatch", "answered", "send",
                         "lock", "stalled", "drop", "dropRow", "shutdown",
                         "unlink", "resetRow", "closed", "idle"}]
  /\ then \in [Threads -> {"none", "dispatch", "answered", "recv", "idle"}]
  /\ via \in [Threads -> Conns \cup {None}]
  /\ \A t \in Threads : at[t] \in Holding => via[t] \in Conns
  /\ got \in [Conns -> Frames]
  /\ wire \in [Conns -> {"unused", "up", "down"}]
  /\ inbox \in [Conns -> Seq(Frames)]
  /\ camConn \in Conns \cup {None}

\* The broker has started; load_cameras made every row idle.
Init ==
  /\ link = None /\ lock = None /\ busy = FALSE
  /\ at = [t \in Threads |-> IF t \in Conns THEN "unused" ELSE "idle"]
  /\ then = [t \in Threads |-> "none"]
  /\ via = [t \in Threads |-> None]
  /\ got = [k \in Conns |-> "other"]
  /\ wire = [k \in Conns |-> "unused"]
  /\ inbox = [k \in Conns |-> <<>>]
  /\ camConn = None

Goes(t, p) == at' = [at EXCEPT ![t] = p]

-----------------------------------------------------------------------------
(* send_to: one frame to the camera, with at most SEND_DEADLINE_S to go.   *)

\* Call send_to and go on at `next`.
Calls(t, next) ==
  /\ Goes(t, "send")
  /\ then' = [then EXCEPT ![t] = next]

Returns(t) ==
  /\ Goes(t, then[t])
  /\ then' = [then EXCEPT ![t] = "none"]
  /\ via' = [via EXCEPT ![t] = None]

\* Mutant of SendReads: a camera without a link is not turned away.
MutSendReadsUnchecked(t) ==
  /\ at[t] = "send"
  /\ via' = [via EXCEPT ![t] = link] /\ Goes(t, "lock") /\ UNCHANGED then
  /\ UNCHANGED <<link, lock, busy, got, wire, inbox, camConn>>

SendReads(t) ==
  /\ at[t] = "send"
  /\ IF link = None
     THEN Returns(t)
     ELSE via' = [via EXCEPT ![t] = link] /\ Goes(t, "lock") /\ UNCHANGED then
  /\ UNCHANGED <<link, lock, busy, got, wire, inbox, camConn>>

\* With the lock: the link was dropped while this send waited its turn ...
SendTooLate(t) ==
  /\ at[t] = "lock" /\ lock = None /\ link # via[t]
  /\ Returns(t)
  /\ UNCHANGED <<link, lock, busy, got, wire, inbox, camConn>>

\* ... or the socket takes the frame, read by the camera or not ...
SendWrites(t) ==
  /\ at[t] = "lock" /\ lock = None /\ link = via[t]
  /\ Returns(t)
  /\ UNCHANGED <<link, lock, busy, got, wire, inbox, camConn>>

\* ... or it does not, and the thread waits with the lock held.
SendStalls(t) ==
  /\ at[t] = "lock" /\ lock = None /\ link = via[t]
  /\ lock' = t
  /\ Goes(t, "stalled")
  /\ UNCHANGED <<link, busy, then, via, got, wire, inbox, camConn>>

\* The deadline, or an error of the socket: the camera is treated as gone.
SendGivesUp(t) ==
  /\ at[t] = "stalled"
  /\ Goes(t, IF link = via[t] THEN "drop" ELSE "shutdown")
  /\ UNCHANGED <<link, lock, busy, then, via, got, wire, inbox, camConn>>

SendDrops(t) ==
  /\ at[t] = "drop"
  /\ link' = None
  /\ Goes(t, "dropRow")
  /\ UNCHANGED <<lock, busy, then, via, got, wire, inbox, camConn>>

SendResetsRow(t) ==
  /\ at[t] = "dropRow"
  /\ busy' = FALSE
  /\ Goes(t, "shutdown")
  /\ UNCHANGED <<link, lock, then, via, got, wire, inbox, camConn>>

\* Mutant of SendShuts: the early return keeps the lock.
MutSendShutsLocked(t) ==
  /\ at[t] = "shutdown"
  /\ wire' = [wire EXCEPT ![via[t]] = "down"]
  /\ Returns(t)
  /\ UNCHANGED <<link, lock, busy, got, inbox, camConn>>

\* The shutdown wakes the connection's handler; the lock is released.
SendShuts(t) ==
  /\ at[t] = "shutdown"
  /\ wire' = [wire EXCEPT ![via[t]] = "down"]
  /\ lock' = None
  /\ Returns(t)
  /\ UNCHANGED <<link, busy, got, inbox, camConn>>

SendTo(t) ==
  \/ SendReads(t) \/ SendTooLate(t) \/ SendWrites(t) \/ SendStalls(t)
  \/ SendGivesUp(t) \/ SendDrops(t) \/ SendResetsRow(t) \/ SendShuts(t)

\* A keepalive, a heartbeat, a viewer's pair, a play or a stop.
SenderCalls(t) ==
  /\ at[t] = "idle"
  /\ Calls(t, "idle")
  /\ UNCHANGED <<link, lock, busy, via, got, wire, inbox, camConn>>

-----------------------------------------------------------------------------
(* The handler thread of a connection.                                     *)

\* Mutant of Receives: only a camera without a link gets one.
MutReceivesKeepsLink(k) ==
  /\ at[k] = "recv" /\ inbox[k] # <<>>
  /\ got' = [got EXCEPT ![k] = Head(inbox[k])]
  /\ inbox' = [inbox EXCEPT ![k] = Tail(@)]
  /\ link' = IF link = None THEN k ELSE link
  /\ \/ Goes(k, "dispatch") /\ UNCHANGED then
     \/ Calls(k, "dispatch")
  /\ UNCHANGED <<lock, busy, via, wire, camConn>>

\* A frame makes its connection the camera's link; the camera may be due a
\* keepalive before the frame is looked at.
Receives(k) ==
  /\ at[k] = "recv" /\ inbox[k] # <<>>
  /\ got' = [got EXCEPT ![k] = Head(inbox[k])]
  /\ inbox' = [inbox EXCEPT ![k] = Tail(@)]
  /\ link' = k
  /\ \/ Goes(k, "dispatch") /\ UNCHANGED then
     \/ Calls(k, "dispatch")
  /\ UNCHANGED <<lock, busy, via, wire, camConn>>

\* A status report is the row's mediaState; an address report is taken without an
\* answer, every other frame is answered.
Dispatch(k) ==
  /\ at[k] = "dispatch"
  /\ busy' = CASE got[k] = "playing" -> TRUE
               [] got[k] = "stopped" -> FALSE
               [] OTHER -> busy
  /\ got' = [got EXCEPT ![k] = "other"]
  /\ \/ got[k] = "address" /\ Goes(k, "recv") /\ UNCHANGED then
     \/ got[k] # "address" /\ Calls(k, "answered")
  /\ UNCHANGED <<link, lock, via, wire, inbox, camConn>>

\* A register may be followed by a 0x8101 of its own.
Answered(k) ==
  /\ at[k] = "answered"
  /\ \/ Goes(k, "recv") /\ UNCHANGED then
     \/ Calls(k, "recv")
  /\ UNCHANGED <<link, lock, busy, via, got, wire, inbox, camConn>>

\* Mutant of HandlerEnds: finish() drops no link.
MutHandlerEndsLinked(k) ==
  /\ at[k] = "recv" /\ (wire[k] = "down" \/ inbox[k] = <<>>)
  /\ Goes(k, "closed") /\ wire' = [wire EXCEPT ![k] = "down"]
  /\ UNCHANGED <<link, lock, busy, then, via, got, inbox, camConn>>

\* recv fails, finds the end of the stream, or STREAM_IDLE_S of silence: the
\* handler returns and finish() looks whether the link is its connection ...
HandlerEnds(k) ==
  /\ at[k] = "recv" /\ (wire[k] = "down" \/ inbox[k] = <<>>)
  /\ IF link = k
     THEN Goes(k, "unlink") /\ UNCHANGED wire
     ELSE Goes(k, "closed") /\ wire' = [wire EXCEPT ![k] = "down"]
  /\ UNCHANGED <<link, lock, busy, then, via, got, inbox, camConn>>

\* ... and pops the uid's entry, whichever connection that names by now.
FinishPops(k) ==
  /\ at[k] = "unlink"
  /\ link' = None
  /\ Goes(k, "resetRow")
  /\ UNCHANGED <<lock, busy, then, via, got, wire, inbox, camConn>>

FinishResetsRow(k) ==
  /\ at[k] = "resetRow"
  /\ busy' = FALSE
  /\ wire' = [wire EXCEPT ![k] = "down"]
  /\ Goes(k, "closed")
  /\ UNCHANGED <<link, lock, then, via, got, inbox, camConn>>

Handler(k) ==
  \/ SendTo(k) \/ Receives(k) \/ Dispatch(k) \/ Answered(k)
  \/ FinishPops(k) \/ FinishResetsRow(k)

-----------------------------------------------------------------------------
(* The camera (external).                                                  *)

CameraConnects(k) ==
  /\ camConn = None /\ wire[k] = "unused"
  /\ camConn' = k
  /\ wire' = [wire EXCEPT ![k] = "up"]
  /\ inbox' = [inbox EXCEPT ![k] = <<"other">>]
  /\ Goes(k, "recv")
  /\ UNCHANGED <<link, lock, busy, then, via, got>>

\* It sends its register, a request, or a status report.
CameraSends(frame) ==
  /\ camConn # None /\ wire[camConn] = "up" /\ Len(inbox[camConn]) < MaxInbox
  /\ inbox' = [inbox EXCEPT ![camConn] = Append(@, frame)]
  /\ UNCHANGED <<link, lock, busy, at, then, via, got, wire, camConn>>

\* It leaves its connection, or finds it closed; what it had sent is still
\* there to be read.
CameraLeaves ==
  /\ camConn # None
  /\ wire' = [wire EXCEPT ![camConn] = "down"]
  /\ camConn' = None
  /\ UNCHANGED <<link, lock, busy, at, then, via, got, inbox>>

Camera ==
  \/ \E k \in Conns : CameraConnects(k)
  \/ \E frame \in Frames : CameraSends(frame)
  \/ CameraLeaves

-----------------------------------------------------------------------------
Next ==
  \/ \E k \in Conns : Handler(k) \/ HandlerEnds(k)
  \/ \E t \in Senders : SendTo(t) \/ SenderCalls(t)
  \/ Camera

Spec == Init /\ [][Next]_vars

\* Threads are scheduled and a stalled send ends at its deadline; a connected
\* camera keeps talking (it polls every second or two).
Fairness ==
  /\ \A k \in Conns : WF_vars(Handler(k))
  /\ \A t \in Senders : WF_vars(SendTo(t))
  /\ WF_vars(\E frame \in Frames : CameraSends(frame))

FairSpec == Spec /\ Fairness

-----------------------------------------------------------------------------
(* Properties.                                                             *)

\* "Leaving dead links registered is what made 22 pushes end in Bad file
\* descriptor": no order of the unlocked reads and writes leaves camera_links
\* naming a connection whose handler is through with finish().
LinksAreLive ==
  link # None => at[link] \notin {"unused", "resetRow", "closed"}

\* A late handler of an older connection can take the link over, and the end
\* of one can drop it, but never for good: a camera that stays connected and
\* keeps talking is, again and again, the one the broker writes to.
LinkRecovers ==
  []<>(camConn = None \/ wire[camConn] = "down" \/ link = camConn)

Sending == {"send"} \cup Holding

\* A camera that does not read delays the threads that write to it, and each
\* of them gets away: no order of stalls leaves the push lock held.
SendsReturn == \A t \in Threads : at[t] \in Sending ~> at[t] \notin Sending

=============================================================================
