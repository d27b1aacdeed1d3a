--------------------------- MODULE CameraRecovery ---------------------------
(***************************************************************************)
(* One ZiotCamera of ziot_rtp_bridge.py: how it finds its camera again.    *)
(* The recovery thread, the shared cloud poller, the receive thread, the   *)
(* relay pump threads and the thread that stops the camera share unlocked  *)
(* attributes; every read and write that another thread can separate is a  *)
(* step of its own.  Time passes by Tick, one second of the code.          *)
(***************************************************************************)
EXTENDS Integers

CONSTANTS
  StreamingWindow,     \* is_streaming: media in the last 3.0 s
  DeadThreshold,       \* RECOVERY_DEAD_THRESHOLD
  InitialBackoff,      \* RECOVERY_INITIAL_BACKOFF
  MaxBackoff,          \* RECOVERY_MAX_BACKOFF
  RelayAfterFailures,  \* RELAY_AFTER_FAILURES
  RelayRetryDirect,    \* RELAY_RETRY_DIRECT
  Streams,             \* RelayStream objects (bound: those alive at one time)
  NoStream,            \* self._relay is None
  MaxFlips             \* bound: offline-to-online transitions the cloud reports

ASSUME TimingAssumption ==
  /\ StreamingWindow \in Nat \ {0}
  /\ DeadThreshold \in Nat /\ StreamingWindow <= DeadThreshold
  /\ InitialBackoff \in Nat \ {0}
  /\ MaxBackoff \in Nat /\ InitialBackoff <= MaxBackoff
  /\ RelayRetryDirect \in Nat

ASSUME BoundAssumption ==
  /\ RelayAfterFailures \in Nat \ {0}
  /\ MaxFlips \in Nat
  /\ NoStream \notin Streams

VARIABLES
  setup,         \* how main() built the camera: has it an api, --force-relay
  \* attributes of the camera that several threads touch
  cloudOn,       \* cloud_is_on(self.cloud)
  wake,          \* _wake_now
  backoff,       \* _backoff
  sinceLast,     \* seconds since _last_re_rendezvous, saturating
  rxAge,         \* seconds since _last_rx, saturating at DeadThreshold
  sock,          \* self.sock: "none", or the state of the socket it names
  relay,         \* self._relay
  \* attributes only the recovery thread touches
  failures,      \* _consec_failures, saturating at RelayAfterFailures
  sinceTrial,    \* seconds since _relay_last_direct_try, saturating
  \* the threads
  pc, caller,    \* recovery: where it is, and who called the transport attempt
  held,          \* the socket _rendezvous holds in its local variable
  ok, sawWake, dead, waited,      \* recovery's other locals
  pump,          \* per RelayStream, where its _relay_pump thread is
  rcv,           \* the receive thread
  poller,        \* the cloud poller inside update_cloud
  stopper,       \* the thread in stop()
  stopped,       \* the _stop event
  \* history, read by properties and never by the code's steps
  flips,         \* transitions reported so far
  sinceAttempt,  \* seconds since the last counted attempt, saturating
  credit,        \* early attempts the transitions so far still allow
  owed,          \* a transition found no media and no attempt has answered it
  trial          \* the relay was given up for a direct trial that has no media yet

sharedVars  == <<cloudOn, wake, backoff, sinceLast, rxAge, sock, relay>>
privateVars == <<failures, sinceTrial>>
localVars   == <<held, ok, sawWake, dead, waited>>
otherVars   == <<pump, rcv, poller, stopper, stopped>>
historyVars == <<flips, sinceAttempt, credit, owed, trial>>
vars == <<setup, sharedVars, privateVars, pc, caller, localVars, otherVars,
          historyVars>>

-----------------------------------------------------------------------------
AtMost(a, b) == IF a < b THEN a ELSE b

IsStreaming == rxAge < StreamingWindow

Relayed == relay # NoStream

\* Mutant of Due: the wake flag does not bypass the gate.
MutDueNoBypass == sinceLast >= backoff /\ dead

Due == sawWake \/ (sinceLast >= backoff /\ dead)

\* Mutant of Doubled: no ceiling.
MutDoubledUncapped == 2 * (IF backoff < InitialBackoff THEN InitialBackoff
                           ELSE backoff)

\* Mutant of Doubled: no floor, so that a wake's zero stays zero.
MutDoubledNoFloor == AtMost(2 * backoff, MaxBackoff)

\* What _record_attempt and the reannounce branch make of the backoff.
Doubled == AtMost(2 * (IF backoff < InitialBackoff THEN InitialBackoff
                       ELSE backoff), MaxBackoff)

\* The locals of the gate go out of use with it.
GateLocalsDropped == sawWake' = FALSE /\ dead' = FALSE

Transport == IF setup.force THEN "relayOpen" ELSE "bind"

\* start() has returned: the threads run and the camera is registered.
Started == caller # "start"

TypeOK ==
  /\ setup \in [api : BOOLEAN, force : BOOLEAN]
  /\ cloudOn \in BOOLEAN /\ wake \in BOOLEAN
  /\ backoff \in 0..MaxBackoff
  /\ sinceLast \in 0..MaxBackoff
  /\ rxAge \in 0..DeadThreshold
  /\ sock \in {"none", "open", "closed"}
  /\ relay \in Streams \cup {NoStream}
  /\ failures \in 0..RelayAfterFailures
  /\ sinceTrial \in 0..RelayRetryDirect
  /\ pc \in {"idle", "ready", "clearWake", "gate", "reannounce", "sweep",
             "bind", "negotiate", "unregister", "relayOpen", "relayUp",
             "opened", "waiting", "done"}
  /\ caller \in {"start", "tick", "punch", "return", "fallback"}
  /\ held \in {"none", "fresh", "registered", "lost"}
  /\ ok \in BOOLEAN /\ sawWake \in BOOLEAN /\ dead \in BOOLEAN
  /\ waited \in Nat
  /\ pump \in [Streams -> {"idle", "opened", "playing", "closing", "ending",
                           "clearing"}]
  /\ rcv \in {"top", "recv"}
  /\ poller \in {"idle", "judge", "setWake", "setBackoff", "setLast"}
  /\ stopper \in {"idle", "relay", "sock", "done"}
  /\ stopped \in BOOLEAN
  /\ flips \in 0..MaxFlips
  /\ sinceAttempt \in 0..InitialBackoff
  /\ credit \in Int
  /\ owed \in BOOLEAN /\ trial \in BOOLEAN

\* start() runs the first transport attempt before any thread exists.
Init ==
  /\ setup \in [api : BOOLEAN, force : BOOLEAN]
  /\ cloudOn \in IF setup.api THEN BOOLEAN ELSE {FALSE}
  /\ wake = FALSE
  /\ backoff = InitialBackoff
  /\ sinceLast = MaxBackoff
  /\ rxAge = DeadThreshold
  /\ sock = "none" /\ relay = NoStream
  /\ failures = 0 /\ sinceTrial = RelayRetryDirect
  /\ pc = Transport /\ caller = "start" /\ held = "none"
  /\ ok = FALSE /\ sawWake = FALSE /\ dead = FALSE /\ waited = 0
  /\ pump = [s \in Streams |-> "idle"]
  /\ rcv = "top" /\ poller = "idle" /\ stopper = "idle" /\ stopped = FALSE
  /\ flips = 0 /\ sinceAttempt = InitialBackoff /\ credit = 0
  /\ owed = FALSE /\ trial = FALSE

-----------------------------------------------------------------------------
(* Dropping the relay: _stop_relay, from the recovery thread or stop().    *)

StopRelay ==
  /\ relay' = NoStream
  /\ pump' = [s \in Streams |->
                IF s = relay /\ pump[s] = "playing" THEN "closing" ELSE pump[s]]

-----------------------------------------------------------------------------
(* The recovery thread: one pass of _recovery_tick.                        *)

\* _recovery: `while not self._stop.is_set()`.
RecoveryStops ==
  /\ pc = "ready" /\ stopped
  /\ pc' = "done"
  /\ UNCHANGED <<setup, sharedVars, privateVars, caller, localVars, otherVars,
                 historyVars>>

TickBegins == pc = "ready" /\ ~stopped

\* Relayed but silent: drop the relay, let the next trial come at once.
TickRelaySilent ==
  /\ TickBegins /\ Relayed /\ ~IsStreaming
  /\ StopRelay
  /\ sinceTrial' = RelayRetryDirect
  /\ pc' = "idle"
  /\ UNCHANGED <<setup, cloudOn, wake, backoff, sinceLast, rxAge, sock, failures,
                 caller, localVars, rcv, poller, stopper, stopped, historyVars>>

\* _try_return_direct returns early: forced, or tried too recently.
TickStayRelayed ==
  /\ TickBegins /\ Relayed /\ IsStreaming
  /\ setup.force \/ sinceTrial < RelayRetryDirect
  /\ pc' = "idle"
  /\ UNCHANGED <<setup, sharedVars, privateVars, caller, localVars, otherVars,
                 historyVars>>

\* _try_return_direct gives the relay up and starts a rendezvous.
TickTryDirect ==
  /\ TickBegins /\ Relayed /\ IsStreaming
  /\ ~setup.force /\ sinceTrial >= RelayRetryDirect
  /\ sinceTrial' = 0
  /\ StopRelay
  /\ rxAge' = DeadThreshold
  /\ pc' = "bind" /\ caller' = "return"
  /\ trial' = TRUE
  /\ UNCHANGED <<setup, cloudOn, wake, backoff, sinceLast, sock, failures,
                 localVars, rcv, poller, stopper, stopped, flips, sinceAttempt,
                 credit, owed>>

TickStreaming ==
  /\ TickBegins /\ ~Relayed /\ IsStreaming
  /\ backoff' = InitialBackoff
  /\ failures' = 0
  /\ pc' = "idle"
  /\ owed' = FALSE
  /\ UNCHANGED <<setup, cloudOn, wake, sinceLast, rxAge, sock, relay, sinceTrial,
                 caller, localVars, otherVars, flips, sinceAttempt, credit,
                 trial>>

\* The stream is dead: dead_for and the wake flag are read here, the flag is
\* cleared in the next step, and both are used in the one after.
TickDead ==
  /\ TickBegins /\ ~Relayed /\ ~IsStreaming
  /\ dead' = (rxAge >= DeadThreshold)
  /\ sawWake' = wake
  /\ pc' = "clearWake"
  /\ UNCHANGED <<setup, sharedVars, privateVars, caller, held, ok, waited,
                 otherVars, historyVars>>

ClearWake ==
  /\ pc = "clearWake"
  /\ wake' = FALSE
  /\ pc' = "gate"
  /\ UNCHANGED <<setup, cloudOn, backoff, sinceLast, rxAge, sock, relay,
                 privateVars, caller, localVars, otherVars, historyVars>>

\* Not a wake, and too soon after the last attempt or the last packet.
GateHolds ==
  /\ pc = "gate" /\ ~Due
  /\ pc' = "idle"
  /\ GateLocalsDropped
  /\ UNCHANGED <<setup, sharedVars, privateVars, caller, held, ok, waited,
                 otherVars, historyVars>>

\* _last_re_rendezvous = now and _re_rendezvous_count += 1, on every branch.
CountAttempt ==
  /\ sinceLast' = 0
  /\ GateLocalsDropped
  /\ sinceAttempt' = 0
  /\ credit' = IF sinceAttempt < InitialBackoff THEN credit - 1 ELSE credit
  /\ owed' = FALSE

\* The cloud says the camera sleeps and there is a socket to keep.
Asleep == ~sawWake /\ ~cloudOn /\ sock # "none"

GateSweeps ==
  /\ pc = "gate" /\ Due /\ ~setup.api
  /\ CountAttempt
  /\ pc' = "sweep" /\ caller' = "punch"
  /\ UNCHANGED <<setup, cloudOn, wake, backoff, rxAge, sock, relay, privateVars,
                 held, ok, waited, otherVars, flips, trial>>

GateReannounces ==
  /\ pc = "gate" /\ Due /\ setup.api /\ Asleep
  /\ CountAttempt
  /\ pc' = "reannounce"
  /\ UNCHANGED <<setup, cloudOn, wake, backoff, rxAge, sock, relay, privateVars,
                 caller, held, ok, waited, otherVars, flips, trial>>

GateAttempts ==
  /\ pc = "gate" /\ Due /\ setup.api /\ ~Asleep
  /\ CountAttempt
  /\ pc' = Transport /\ caller' = "tick"
  /\ UNCHANGED <<setup, cloudOn, wake, backoff, rxAge, sock, relay, privateVars,
                 held, ok, waited, otherVars, flips, trial>>

\* _reannounce (same socket, no rebind), then the backoff doubles.
Reannounce ==
  /\ pc = "reannounce"
  /\ backoff' = Doubled
  /\ pc' = "idle"
  /\ UNCHANGED <<setup, cloudOn, wake, sinceLast, rxAge, sock, relay,
                 privateVars, caller, localVars, otherVars, historyVars>>

-----------------------------------------------------------------------------
(* _record_attempt: what an attempt that did or did not stream costs.      *)

RecordAttempt(streamed) ==
  /\ failures' = IF streamed THEN 0 ELSE AtMost(failures + 1, RelayAfterFailures)
  /\ backoff' = Doubled

\* Punch-only: the sweep of the LAN is the attempt, accounted at once.
SweepAccounted ==
  /\ pc = "sweep" /\ caller = "punch"
  /\ \/ IsStreaming /\ failures' = 0 /\ backoff' = InitialBackoff
     \/ ~IsStreaming /\ RecordAttempt(FALSE)
  /\ pc' = "idle" /\ caller' = "tick"
  /\ UNCHANGED <<setup, cloudOn, wake, sinceLast, rxAge, sock, relay, sinceTrial,
                 localVars, otherVars, historyVars>>

-----------------------------------------------------------------------------
(* _rendezvous, for start(), for a recovery tick or for a direct trial.    *)

\* Mutant of BindSocket: the error of a bind escapes and ends the thread.
MutBindRaises ==
  /\ pc = "bind"
  /\ \/ sock = "open" /\ held' = "registered" /\ pc' = "negotiate" /\ ok' = ok
     \/ sock = "none" /\ held' = "fresh" /\ pc' = "negotiate" /\ ok' = ok
     \/ sock # "open" /\ held' = "none" /\ pc' = "done" /\ ok' = FALSE
  /\ UNCHANGED <<setup, sharedVars, privateVars, caller, sawWake, dead, waited,
                 otherVars, historyVars>>

\* The registered socket is kept; without one a new one is bound, which an
\* address that is not local refuses.
BindSocket ==
  /\ pc = "bind"
  /\ \/ sock = "open" /\ held' = "registered" /\ pc' = "negotiate" /\ ok' = ok
     \/ sock = "none" /\ held' = "fresh" /\ pc' = "negotiate" /\ ok' = ok
     \/ sock # "open" /\ held' = "none" /\ pc' = "opened" /\ ok' = FALSE
  /\ UNCHANGED <<setup, sharedVars, privateVars, caller, sawWake, dead, waited,
                 otherVars, historyVars>>

\* send_stun_addr, notify(start) and the lookup gave an address to aim at (or
\* the configured one is used): the socket is installed under _sock_lock.  An
\* address without a port is swept before the rendezvous returns.
Install ==
  /\ pc = "negotiate"
  /\ sock' = CASE held = "fresh" -> "open"
               [] held = "lost" -> "closed"
               [] OTHER -> sock
  /\ held' = "none"
  /\ \/ sinceLast' = 0 /\ ok' = TRUE /\ pc' = "opened"
     \/ pc' = "sweep" /\ UNCHANGED <<sinceLast, ok>>
  /\ UNCHANGED <<setup, cloudOn, wake, backoff, rxAge, relay, privateVars,
                 caller, sawWake, dead, waited, otherVars, historyVars>>

SweepEnds ==
  /\ pc = "sweep" /\ caller # "punch"
  /\ sinceLast' = 0 /\ ok' = TRUE
  /\ pc' = "opened"
  /\ UNCHANGED <<setup, cloudOn, wake, backoff, rxAge, sock, relay, privateVars,
                 caller, held, sawWake, dead, waited, otherVars, historyVars>>

\* No address at all: _close_sock closes the socket first ...
NoAddress ==
  /\ pc = "negotiate" /\ setup.api
  /\ sock' = IF held = "registered" THEN "closed" ELSE sock
  /\ pc' = "unregister"
  /\ UNCHANGED <<setup, cloudOn, wake, backoff, sinceLast, rxAge, relay,
                 privateVars, caller, localVars, otherVars, historyVars>>

\* Mutant of Unregister: the socket is closed but not forgotten.
MutUnregisterForgets ==
  /\ pc = "unregister"
  /\ held' = "none" /\ ok' = FALSE
  /\ pc' = "opened"
  /\ UNCHANGED <<setup, sharedVars, privateVars, caller, sawWake, dead, waited,
                 otherVars, historyVars>>

\* ... and then forgets it, if it is still the registered one.
Unregister ==
  /\ pc = "unregister"
  /\ sock' = IF held = "registered" THEN "none" ELSE sock
  /\ held' = "none" /\ ok' = FALSE
  /\ pc' = "opened"
  /\ UNCHANGED <<setup, cloudOn, wake, backoff, sinceLast, rxAge, relay,
                 privateVars, caller, sawWake, dead, waited, otherVars,
                 historyVars>>

-----------------------------------------------------------------------------
(* _start_relay: open() plays a URL, then the stream is registered and its *)
(* pump thread started.                                                    *)

\* start() and a forced attempt look at the outcome; a fallback and a lost
\* direct trial end the tick whatever it was.
RelayReturns(played) ==
  IF caller \in {"start", "tick"}
  THEN ok' = played /\ pc' = "opened" /\ UNCHANGED caller
  ELSE ok' = FALSE /\ pc' = "idle" /\ caller' = "tick"

\* Only an account row names a relay; a set stop event fails every request.
RelayPlays(s) ==
  /\ pc = "relayOpen" /\ setup.api /\ ~stopped
  /\ pump[s] = "idle"
  /\ pump' = [pump EXCEPT ![s] = "opened"]
  /\ pc' = "relayUp"
  /\ UNCHANGED <<setup, sharedVars, privateVars, caller, localVars, rcv, poller,
                 stopper, stopped, historyVars>>

RegisterRelay(s) ==
  /\ pc = "relayUp" /\ pump[s] = "opened"
  /\ pump' = [pump EXCEPT ![s] = "playing"]
  /\ relay' = s
  /\ RelayReturns(TRUE)
  /\ trial' = FALSE
  /\ UNCHANGED <<setup, cloudOn, wake, backoff, sinceLast, rxAge, sock,
                 privateVars, held, sawWake, dead, waited, rcv, poller, stopper,
                 stopped, flips, sinceAttempt, credit, owed>>

NoRelay ==
  /\ pc = "relayOpen"
  /\ RelayReturns(FALSE)
  /\ UNCHANGED <<setup, sharedVars, privateVars, held, sawWake, dead, waited,
                 otherVars, historyVars>>

-----------------------------------------------------------------------------
(* The transport attempt has returned `ok` to its caller.                  *)

StartReturns ==
  /\ pc = "opened" /\ caller = "start"
  /\ pc' = "idle" /\ caller' = "tick" /\ ok' = FALSE
  /\ UNCHANGED <<setup, sharedVars, privateVars, held, sawWake, dead, waited,
                 otherVars, historyVars>>

TrialReturns ==
  /\ pc = "opened" /\ caller = "return"
  /\ \/ /\ ok
        /\ failures' = 0 /\ backoff' = InitialBackoff
        /\ pc' = "idle" /\ caller' = "tick"
     \/ /\ ~ok
        /\ failures' = RelayAfterFailures
        /\ pc' = "relayOpen" /\ UNCHANGED <<backoff, caller>>
  /\ ok' = FALSE
  /\ UNCHANGED <<setup, cloudOn, wake, sinceLast, rxAge, sock, relay, sinceTrial,
                 held, sawWake, dead, waited, otherVars, historyVars>>

\* The sliced wait of one backoff; no write of another thread revokes its end.
WaitOver == waited >= backoff \/ stopped \/ wake

WaitSlice ==
  /\ pc = "opened" /\ caller = "tick" /\ ~WaitOver
  /\ pc' = "waiting"
  /\ UNCHANGED <<setup, sharedVars, privateVars, caller, localVars, otherVars,
                 historyVars>>

\* The attempt is accounted.  If the direct path is not coming back the relay
\* is tried next; otherwise the tick ends.
AccountAttempt ==
  /\ pc = "opened" /\ caller = "tick" /\ WaitOver
  /\ RecordAttempt(ok /\ IsStreaming)
  /\ ok' = FALSE /\ waited' = 0
  /\ IF failures' >= RelayAfterFailures /\ ~Relayed /\ ~setup.force
     THEN sinceTrial' = 0 /\ pc' = "relayOpen" /\ caller' = "fallback"
     ELSE pc' = "idle" /\ UNCHANGED <<sinceTrial, caller>>
  /\ UNCHANGED <<setup, cloudOn, wake, sinceLast, rxAge, sock, relay, held,
                 sawWake, dead, otherVars, historyVars>>

-----------------------------------------------------------------------------
(* The relay pump threads.                                                 *)

\* A packet of the relay marks rx.  A stream being closed can still hand over
\* what it had buffered.
RelayMedia(s) ==
  /\ pump[s] \in {"playing", "closing"}
  /\ rxAge' = 0
  /\ UNCHANGED <<setup, cloudOn, wake, backoff, sinceLast, sock, relay,
                 privateVars, pc, caller, localVars, otherVars, historyVars>>

\* The server hangs up, or errors.
RelayDrops(s) ==
  /\ pump[s] = "playing"
  /\ pump' = [pump EXCEPT ![s] = "ending"]
  /\ UNCHANGED <<setup, sharedVars, privateVars, pc, caller, localVars, rcv,
                 poller, stopper, stopped, historyVars>>

\* Mutant of PumpNotices: the pump loop does not look at the stop event.
MutPumpIgnoresStop(s) ==
  /\ pump[s] = "closing"
  /\ pump' = [pump EXCEPT ![s] = "ending"]
  /\ UNCHANGED <<setup, sharedVars, privateVars, pc, caller, localVars, rcv,
                 poller, stopper, stopped, historyVars>>

\* The pump sees its socket closed under it, or the stop event.
PumpNotices(s) ==
  /\ pump[s] = "closing" \/ (pump[s] = "playing" /\ stopped)
  /\ pump' = [pump EXCEPT ![s] = "ending"]
  /\ UNCHANGED <<setup, sharedVars, privateVars, pc, caller, localVars, rcv,
                 poller, stopper, stopped, historyVars>>

\* Mutant of PumpChecks: the stream is closed but stays registered.
MutPumpStaysRegistered(s) ==
  /\ pump[s] = "ending"
  /\ pump' = [pump EXCEPT ![s] = "idle"]
  /\ UNCHANGED <<setup, sharedVars, privateVars, pc, caller, localVars, rcv,
                 poller, stopper, stopped, historyVars>>

\* _relay_pump's finally: close the stream, test whether it is registered ...
PumpChecks(s) ==
  /\ pump[s] = "ending"
  /\ pump' = [pump EXCEPT ![s] = IF relay = s THEN "clearing" ELSE "idle"]
  /\ UNCHANGED <<setup, sharedVars, privateVars, pc, caller, localVars, rcv,
                 poller, stopper, stopped, historyVars>>

\* ... and clear self._relay, whatever it names by now.
PumpClears(s) ==
  /\ pump[s] = "clearing"
  /\ pump' = [pump EXCEPT ![s] = "idle"]
  /\ relay' = NoStream
  /\ UNCHANGED <<setup, cloudOn, wake, backoff, sinceLast, rxAge, sock,
                 privateVars, pc, caller, localVars, rcv, poller, stopper,
                 stopped, historyVars>>

-----------------------------------------------------------------------------
(* The receive thread: it looks for a relay and a socket, then blocks for  *)
(* up to half a second, during which either may change.                    *)

ReceiveBegins ==
  /\ rcv = "top" /\ Started /\ ~stopped
  /\ ~Relayed /\ sock = "open"
  /\ rcv' = "recv"
  /\ UNCHANGED <<setup, sharedVars, privateVars, pc, caller, localVars, pump,
                 poller, stopper, stopped, historyVars>>

\* A packet the socket and SSRC checks accept.
DirectMedia ==
  /\ rcv = "recv" /\ sock = "open"
  /\ rxAge' = 0
  /\ rcv' = "top"
  /\ trial' = FALSE
  /\ UNCHANGED <<setup, cloudOn, wake, backoff, sinceLast, sock, relay,
                 privateVars, pc, caller, localVars, pump, poller, stopper,
                 stopped, flips, sinceAttempt, credit, owed>>

\* Nothing within the timeout, a closed socket, or a packet that is refused.
ReceiveNothing ==
  /\ rcv = "recv"
  /\ rcv' = "top"
  /\ UNCHANGED <<setup, sharedVars, privateVars, pc, caller, localVars, pump,
                 poller, stopper, stopped, historyVars>>

-----------------------------------------------------------------------------
(* The cloud poller in update_cloud, which takes no lock.                  *)

\* main() stops the poller before the cameras, so no poll begins after.
PollRow(on) ==
  /\ poller = "idle" /\ setup.api /\ Started /\ ~stopped
  /\ cloudOn' = on
  /\ IF on /\ ~cloudOn
     THEN flips < MaxFlips /\ flips' = flips + 1 /\ poller' = "judge"
     ELSE UNCHANGED <<flips, poller>>
  /\ UNCHANGED <<setup, wake, backoff, sinceLast, rxAge, sock, relay,
                 privateVars, pc, caller, localVars, pump, rcv, stopper, stopped,
                 sinceAttempt, credit, owed, trial>>

\* Each of the three fields about to be written may buy one early attempt.
PollJudges ==
  /\ poller = "judge"
  /\ poller' = IF IsStreaming THEN "idle" ELSE "setWake"
  /\ owed' = (owed \/ ~IsStreaming)
  /\ credit' = IF IsStreaming THEN credit ELSE credit + 3
  /\ UNCHANGED <<setup, sharedVars, privateVars, pc, caller, localVars, pump,
                 rcv, stopper, stopped, flips, sinceAttempt, trial>>

PollSetsWake ==
  /\ poller = "setWake"
  /\ wake' = TRUE
  /\ poller' = "setBackoff"
  /\ UNCHANGED <<setup, cloudOn, backoff, sinceLast, rxAge, sock, relay,
                 privateVars, pc, caller, localVars, pump, rcv, stopper, stopped,
                 historyVars>>

PollSetsBackoff ==
  /\ poller = "setBackoff"
  /\ backoff' = 0
  /\ poller' = "setLast"
  /\ UNCHANGED <<setup, cloudOn, wake, sinceLast, rxAge, sock, relay,
                 privateVars, pc, caller, localVars, pump, rcv, stopper, stopped,
                 historyVars>>

PollSetsLast ==
  /\ poller = "setLast"
  /\ sinceLast' = MaxBackoff
  /\ poller' = "idle"
  /\ UNCHANGED <<setup, cloudOn, wake, backoff, rxAge, sock, relay, privateVars,
                 pc, caller, localVars, pump, rcv, stopper, stopped, historyVars>>

-----------------------------------------------------------------------------
(* stop(), from the main thread.                                           *)

StopEvent ==
  /\ stopper = "idle" /\ Started
  /\ stopped' = TRUE
  /\ stopper' = "relay"
  /\ UNCHANGED <<setup, sharedVars, privateVars, pc, caller, localVars, pump,
                 rcv, poller, historyVars>>

StopDropsRelay ==
  /\ stopper = "relay"
  /\ StopRelay
  /\ stopper' = "sock"
  /\ UNCHANGED <<setup, cloudOn, wake, backoff, sinceLast, rxAge, sock,
                 privateVars, pc, caller, localVars, rcv, poller, stopped,
                 historyVars>>

\* Under _sock_lock; a rendezvous in flight keeps its own reference.
StopClosesSocket ==
  /\ stopper = "sock"
  /\ sock' = "none"
  /\ held' = IF held = "registered" THEN "lost" ELSE held
  /\ stopper' = "done"
  /\ UNCHANGED <<setup, cloudOn, wake, backoff, sinceLast, rxAge, relay,
                 privateVars, pc, caller, ok, sawWake, dead, waited, pump, rcv,
                 poller, stopped, historyVars>>

-----------------------------------------------------------------------------
(* One second passes; it ends the recovery thread's one-second waits.      *)

Tick ==
  /\ rxAge' = AtMost(rxAge + 1, DeadThreshold)
  /\ sinceLast' = AtMost(sinceLast + 1, MaxBackoff)
  /\ sinceTrial' = AtMost(sinceTrial + 1, RelayRetryDirect)
  /\ sinceAttempt' = AtMost(sinceAttempt + 1, InitialBackoff)
  /\ pc' = CASE pc = "idle" -> "ready"
             [] pc = "waiting" -> "opened"
             [] OTHER -> pc
  /\ waited' = IF pc = "waiting" THEN waited + 1 ELSE waited
  /\ UNCHANGED <<setup, cloudOn, wake, backoff, sock, relay, failures, caller,
                 held, ok, sawWake, dead, otherVars, flips, credit, owed, trial>>

-----------------------------------------------------------------------------
RecoveryTick ==
  \/ RecoveryStops \/ TickRelaySilent \/ TickStayRelayed \/ TickTryDirect
  \/ TickStreaming \/ TickDead \/ ClearWake
  \/ GateHolds \/ GateSweeps \/ GateReannounces \/ GateAttempts
  \/ Reannounce \/ SweepAccounted

TransportAttempt ==
  \/ BindSocket \/ Install \/ SweepEnds \/ NoAddress \/ Unregister
  \/ \E s \in Streams : RelayPlays(s) \/ RegisterRelay(s)
  \/ NoRelay \/ StartReturns \/ TrialReturns \/ WaitSlice \/ AccountAttempt

Recovery == RecoveryTick \/ TransportAttempt

PumpExit(s) == PumpNotices(s) \/ PumpChecks(s) \/ PumpClears(s)

Receive == ReceiveBegins \/ DirectMedia \/ ReceiveNothing

PollWrites == PollJudges \/ PollSetsWake \/ PollSetsBackoff \/ PollSetsLast

StopCloses == StopDropsRelay \/ StopClosesSocket

Next ==
  \/ Recovery
  \/ \E s \in Streams : RelayMedia(s) \/ RelayDrops(s) \/ PumpExit(s)
  \/ Receive
  \/ \E on \in BOOLEAN : PollRow(on)
  \/ PollWrites
  \/ StopEvent \/ StopCloses
  \/ Tick

Spec == Init /\ [][Next]_vars

\* Threads are scheduled, clocks advance, and no call blocks for ever (each
\* has a timeout).  Nothing is assumed of the camera, the cloud or the relay.
Fairness ==
  /\ WF_vars(Recovery) /\ WF_vars(Tick)
  /\ WF_vars(PollWrites) /\ WF_vars(StopCloses)
  /\ \A s \in Streams : WF_vars(PumpExit(s))

FairSpec == Spec /\ Fairness

-----------------------------------------------------------------------------
(* Properties.                                                             *)

\* "A wake must not kill the gate for good": however the poller's three
\* unlocked writes interleave with an attempt, an offline-to-online
\* transition buys at most one early attempt per field it writes; every other
\* attempt starts at least InitialBackoff after the one before.
EarlyAttemptsPaidFor == credit >= 0

\* A registered socket is never a closed one, except while the rendezvous
\* that failed is between closing and forgetting it: /health must not say
\* "direct" over a dead transport while the camera runs.
DirectModeIsOpen == ~stopped => (sock = "closed" => pc = "unregister")

\* /health never says "relay" over a stream whose pump thread has gone.
RelayModeIsPumped == Relayed => pump[relay] \notin {"idle", "opened"}

\* A wake is never lost to the unlocked read-then-clear of the flag: once the
\* poller is through, a tick that finds the camera dead past the threshold
\* answers the transition instead of going back to sleep on its backoff.
WakeAnswered ==
  [][GateHolds => ~(owed /\ poller = "idle" /\ dead)]_vars

\* The recovery thread is at something that can bring media.  A sweep is that only
\* with a socket: without one it returns before the first hello.
AttemptInFlight ==
  \/ pc \in {"reannounce", "bind", "negotiate", "unregister", "relayOpen",
             "relayUp", "opened"}
  \/ pc = "sweep" /\ sock = "open"

\* The recovery thread never gives a camera up: while it is not stopped there
\* is, again and again, media or an attempt.  The one exception is a punch-only
\* camera that never had a socket: nothing but the first attempt binds one, and
\* when that bind is refused every later sweep has nothing to send from.
NeverGivesUp ==
  (setup.api \/ <>(sock = "open"))
    => []<>(stopped \/ IsStreaming \/ AttemptInFlight)

\* After stop() the recovery thread ends and every relay stream with it, even
\* one that was being opened when the event was set.
StopQuiesces ==
  stopped ~> [](pc = "done" /\ \A s \in Streams : pump[s] = "idle")

=============================================================================
