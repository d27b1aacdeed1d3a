# A TLA+ model of ziot-rtp-bridge

The repository runs a pair of battery cameras without their vendor. Two daemons
matter:

* the **bridge** (`ziot_rtp_bridge.py`) asks a cloud where a camera is, punches
  to it over UDP, reassembles its RTP/JPEG and serves it to go2rtc; it falls back
  to an RTSP relay when the direct path fails;
* the **broker** (`ziot_fake_cloud.py`) is the local stand-in for that cloud: it
  keeps one TCP signalling connection per camera, answers the bridge's and the
  app's HTTP requests, and starts a live view by pushing frames to the camera.

Around them: a local relay server (`ziot_relay.py`), a cron watchdog
(`ziot_watchdog.py`), and reverse-engineering tools. Everything in the daemons is
Python threads over shared attributes and dictionaries, mostly without locks. The
project models that: an access to shared state that another thread can separate
from the next access is a step of its own.

## Inventory

| Part | State | Operations | Hard behaviour | What makes it right |
|---|---|---|---|---|
| Camera recovery (`ZiotCamera`, bridge) | `_wake_now`, `_backoff`, `_last_re_rendezvous`, `_last_rx`, `sock`, `_relay`, `_consec_failures` | `_recovery_tick`, `_rendezvous`, `_reannounce`, `_lan_resweep`, `_start_relay`, `_try_return_direct`, `update_cloud`, `_receive`, `stop` | six threads on unlocked attributes; blocking calls of seconds between a read and its use; stop during an attempt | backoff is a promise to the network, a wake is not lost, a registered transport works, no thread survives stop |
| STUN endpoint and punching (bridge) | `addr`, `sock`, `_stun_seq` | `_accept_stun`, `_resolve`, `_rendezvous`, `_punch`, `_keepalive` | two threads fetch and store the endpoint; the camera's numbers start over | a camera without media is found again |
| Ingest, reassembly, fan-out (bridge) | `_learned_ssrc`, `_frags`, `_meta`, `Fanout._subs`, queues | `ingest_rtp_media`, `RtpJpegReassembler`, `Fanout.publish` | reordering, loss, timestamp wrap, slow consumers | a frame is complete or dropped; the newest survives; only the camera's media are taken |
| Boot and cloud poll (bridge) | `BootState`, `CloudState` | `bring_up`, `retry_boot`, poll | retry thread against poller, rejected tokens, crashes | the phase tells the truth and settles |
| Camera connections and sends (broker) | `camera_links`, `push_locks`, `mediaState` of the row | `handle`, `_answer_camera`, `send_to`, `keepalive`, `finish` | replaced connections, deaf cameras, a check and its pop in two steps | the link is a live connection, a deaf camera blocks nobody for good, a gone camera is idle |
| Direct live-view chain (broker) | `viewers`, `p2p_fire_at`, `p2p_ready`, `p2p_sent_pair`, `p2p_sent_at` | `schedule_p2p_live`, `p2p_socket_bound`, `serve_due_p2p_fires`, `send-stun-addr`, `notify-live-event` | deadline against report, retries against each other, moving viewers, restarts | no bursts of 0x8101, no play without its report, no viewer held back |
| Registration numbers and STUN answers (broker) | `seq_no`, `pending_seq`, `reported_seq`, `p2p_answer`, `p2p_ports` | `_register_viewer`, `note_p2p_answer`, `_stun` | concurrent viewers, late reports | a number is one viewer's; a stale report does not move what is served |
| Relay trigger (broker) | due times | `schedule_relay_trigger`, `serve_due_relay_triggers` | due times against lost links | one trigger per arm |
| Relay server | `sessions`, readers, buffers | ANNOUNCE, RECORD, PLAY, `publish`, `flush_to` | fan-out against registration, dead readers | a reader misses nothing, and is let go |
| Watchdog | dead streaks | one run per cron tick | state that must survive a run | a restart needs two dead observations |
| Stream cutting (broker, bridge, relay) | a connection's buffer | `split_signalling`, `handle`, `RelayStream.open`/`pump`, `_pump_interleaved` | TCP splits and joins what was written | no message is lost, invented or answered by halves |
| DNS, HTTP layout, tools, deployment | none shared | – | – | byte layouts and I/O, covered by the repository's tests |

The bridge calls the broker over HTTP (`send-stun-addr`, `notify-live-event`, the
STUN queries, the camera rows); the broker calls the camera over its signalling
connection; the camera answers there and sends media to the bridge.

## Modules

### CameraRecovery (bridge, `ZiotCamera` 1107-2054)

One camera and the threads that find it again. `pc` is the recovery thread: each
place is a point of `_recovery_tick` or of a call it makes where another thread's
write can come between (`TickStreaming`, `TickDead`, `ClearWake`, the four
`Gate...` outcomes, `Reannounce`, `BindSocket`, `Install`, `Unregister`,
`RelayPlays`, `RegisterRelay`, `WaitSlice`, `AccountAttempt`). `caller` says who
called the transport attempt (`start`, the tick, a direct trial). `poller` is
`update_cloud`, whose three writes (`_wake_now`, `_backoff`, the last state) are
three steps; `pump` is `_relay_pump` per relay stream, `rcv` the receive thread,
`stopper` the thread in `stop()`. `setup` fixes what `main` decides once
(`--force-relay`, an api or none). Ages saturate where the code stops telling
values apart; a timestamp of 0.0, "never", is the saturated age.

Simplifications: registering a relay stream and starting its pump thread are one
step; a poll does not begin after `stop` (`main` stops the poller first); what the
network and the camera do is free.

### CameraLinks (broker, connections and `send_to`)

One camera, several connections of it, their handler threads and any number of
other senders. `at` is where each thread is: in `send_to` (reads the link, takes
the push lock, writes or stalls, gives up, pops, resets the row, shuts down), in
the handler (a frame makes its connection the link, its report is stored, and unless it
is the address report it is answered) or in `finish()` (check, pop, reset). `then` is where a caller of
`send_to` goes on. `wire` and `inbox` are the TCP connections; the camera connects,
sends, leaves, and may stop reading at any time.

### LiveChain (broker, the direct chain)

The dictionaries of one uid, and the threads: handlers of the camera's connections,
HTTP threads, and the keepalive worker. `schedule_p2p_live` is
`ForcePops` (force only) – `ReadViewer` – `NotSent` or `Decides` – `RequestSent` or
`RequestFails` – `RecordRequest`; `p2p_socket_bound` is `ReportIgnored` or
`ReportTaken` – `ReportNoted` – `SettlePlay`; `serve_due_p2p_fires` is `WorkerLooks`
(the snapshot) – `WorkerTakes` (the `del`) – `WorkerReadies` – `WorkerPlays`. The
assignments of one of these steps, between which the code only logs, are one step.
`fire` is the time left until `p2p_fire_at`, or `Absent`; `sentAge` the age of
`p2p_sent_at`. A whole `send_to` is one step here with two outcomes, delivered or
link lost: CameraLinks has its parts. `saved` is the viewer file, which a restart
reads back, or finds truncated when it cut a write short.

The camera is external and modelled from what the comments and the protocol notes
report of it: `0x8101` ends any view and binds the P2P socket anew, it reports the
bound socket once, `0x8004` plays only on a bound socket.
`p2p_ready` holds a time in the code, of which only its presence is read; the model
keeps the pair the report was for, as history. `mine` is history too.

### RelayServer (`ziot_relay.py`)

One camera's sessions: `pubAt` is the thread of each connection the camera opens
(`Announce` publishes the session, then `AnnounceAnswered` or `AnnounceFails`,
`Record`, `Publish` and the fan-out per packet, `Unpublish`), `at` the thread of each
reader (first request, `Describe`, `Play` registers, `Respond` answers, `FlushCopies` –
`FlushSends` – `FlushEnds` twice, `ServeAnswers`, `Unregister`, `Leave`). A packet is its
number, so the ring is a function of `count` (`Buffer`). Media and the answers of
`_serve_media` are written under the reader's `lock`, which fan-out and flush contend
for: `FanOut` comes to a reader, `FanOutTakes` its lock when it is free, `FanOutWrites`
writes and gives it back; `TakesLock` is the reader's own thread. Between taking and
giving back, the other side waits and the reader's end may change. The outcome of a write
depends on that end: open, slow (its buffer is full, `sendall` times out) or closed
(`sendall` raises, sooner or later). `lost` marks a reader a write has not reached whole.
The answer to PLAY is written without the lock, as in the code. Left out: the
bytes, so that a frame cut by a timeout counts as lost; the order and the repeats of
packets a reader gets (each packet of the buffer comes twice); requests that change
nothing (SETUP, OPTIONS); `relay.stop`, which is set as the process exits.

### PunchTarget (bridge and broker, the camera's P2P socket)

Three programs compose here. The camera binds a new port at each `0x8101` and
reports it with that frame's number. In the broker a handler takes the report in two
steps (`HandlerTakesReport` the row, `AnswerStored` = `note_p2p_answer`) while
`_register_viewer`, `notify-live-event` and `schedule_p2p_live` send the next `0x8101`
(`Sends`) and note it afterwards, in two steps: what its answer is compared with
(`NoteSent`), then the old answer goes and the floor starts (`NoteClears`). The report
may be handled before, between and after them. `Served` is `_stun`'s choice. In the
bridge the punch thread (`PunchAsks`, `PunchHello` = `_resolve`) and the recovery
thread (`_rendezvous` and `_reannounce`, from `RecoveryStarts` to `RecoveryStores`)
each ask, pass `_accept_stun` (`Stale`, `Taken`) and store the address, so that an
older answer may be stored last. `Upsets` are the failures: a lost link, a redraw, a
reboot, a view that times out, a restart of the broker (the files stay, the rest
goes), a request that fails.

`StoredAnswerStays` begins when an answer of the socket that is bound is stored, no
other numbered report is on its way and no thread has a `0x8101` to note; it ends with
the next `0x8101` sent, bind, reboot or restart of the broker. What the code does to an
answer that overtakes the bookkeeping is under the known divergences.

Simplifications: one handler thread, so that an older connection's handler never holds
a report back past a newer one; `_accept_stun`'s comparison and store are one
step; the 5-second gate of `_resolve`, the choice between private and public
address, the static address, `p2p_ports` and `punch_camera` are left out; two
requests that read the same registration number (broker 2282) are one after the
other, since what the camera echoes is the number of the `0x8101` header. The
sequence number saturates at `MaxSeq` instead of wrapping at 2^16. A failed lookup
of the punch thread equals a stale one.

### MediaPath and LatestFrames (bridge, direct transport)

`MediaPath` is `_receive` – `_handle_direct_packet` – `RtpJpegReassembler.feed` –
`Fanout.publish`, one datagram per `Receive`, and the viewers' handlers (`Subscribe`,
`Take`, `Idle`, `Write`, `Leave`). Every queue operation is a step of its own: `Put`
finds a queue full, `DropOldest` takes its head if the handler has not drained it
meanwhile. `net` loses (a datagram that stays), repeats and reorders; a stray RTP
packet and the echo of the bridge's hello may come at any time. A datagram is its
SSRC, frame and fragment; timestamps are modulo `TsRange`, so they wrap.

`LatestFrames` is what one viewer is promised: frames in order and once, at most
`Capacity` waiting, room made by giving up the oldest only, and a frame missed only
when the viewer has just emptied its queue. (That exception is the code's: a handler
that drains the queue between `Full` and `get_nowait` makes `publish` give the new
frame up.) `MediaPath` implements it for each viewer: `ViewerGetsLatest` is
`LatestFrames` under a refinement mapping.

### BridgeBoot and Watchdog

`BridgeBoot` is a bridge process from its start on: `main`'s first list or
`retry_boot`'s, `bring_up` with a `boot_one` thread per camera and their join, the
poller that parks on a rejected token, and the phase that both write. A crash is
followed by Docker's restart. The finally of `main` (shutdown) is left out, as
nothing follows it. `Watchdog` extends it by one tick of `ziot_watchdog.py`:
`/health` is read in two steps, as `_health` copies the cameras before it reads the
phase, then go2rtc's streams, then the streaks are judged (`Streak`) and Frigate is
restarted. `OneShot` says whether each tick is a new process (cron) or one process
runs on (as `tests/test_ziot_watchdog.py` calls `main` twice).

### Framing

Four loops that cut messages from a TCP stream: the broker's handler on a camera's
signalling connection (the frames in the buffer, `DecodeSignalling`, the vendor's
answers, the status and address reports) and on an HTTP connection, the bridge's
`RelayStream` (negotiation with a challenge, SDP, channels, responses among media,
`rtp_payload`) and the relay's side of a publisher. One behaviour is one connection
on one `lane`. The peer writes the conversation `sent`: its bytes, and the messages
among them, each with its `first` and `last` byte and what its reader has `said`
once it is taken. `loop` is the reader with its buffers; it makes passes over them
(`Passes`, one turn of a `while` in the code), and when a pass changes nothing more
it `Waits` in `recv`, which hands it any next chunk (`Reads`) or times out (`Quiet`).
The properties compare what it has made with what has arrived whole. Headers are
shortened to a symbol per field, which keeps what a boundary can cut; bodies are up to
four symbols long, since a length in a header is one digit of which the models' parser
knows those.

The last part of the module says what a peer sends, as hypotheses of the theorems:
`CameraStream` (frames, and between them anything that is none), `RequestStream`
(requests with bodies), `PublisherStream` (ANNOUNCE, requests, RECORD, then packets,
responses and stray bytes), `PlayedStream` (the relay grants what `RelayStream.open`
asks, then packets and answers to keepalives), and for any lane with one buffer
`TakenWhole` (each message is taken by one pass when it comes alone). `MCFraming`
assumes them of the conversations of its run (`SentAsAssumed`), which TLC evaluates: the
hypotheses are met by everything the run sends, save the HTTP request on the signalling
port, which `CameraStream` excludes.

## Runs

| Run | Shows |
|---|---|
| `recovery_wake` | With recovery, receive, poller and stop interleaved: attempts earlier than the backoff are paid for by wakes (`EarlyAttemptsPaidFor`), a wake is answered (`WakeAnswered`), the registered socket is open (`DirectModeIsOpen`). |
| `recovery_relay` | Two relay streams: relay mode has a pump (`RelayModeIsPumped`), the camera is never given up unless it is punch-only and never got a socket (`NeverGivesUp`), stop ends the recovery thread and every pump (`StopQuiesces`). |
| `links_recover` | `camera_links` never names a finished handler's connection (`LinksAreLive`), a talking camera becomes the link again (`LinkRecovers`), no stall holds the lock for good (`SendsReturn`). |
| `chain_floor` | No report outlives its chain (`ReportHasChain`); no thread's unforced retries for one pair send `0x8101` twice within the floor (`ResendFloorHolds`), with a viewer that moves or a stop event. |
| `chain_served` | A viewer that keeps asking keeps getting chains that run to an end (`ViewerServed`), across lost links and a restart. |
| `relay_flush` | A served reader misses nothing (`NoGap`); the latest publisher is the one given (`LatestIsPublished`); a fan-out that waits for the lock of a stalled reader, which the reader's own thread holds, comes to its end (`FanOutDone`). |
| `punch_finds` | An answer of the P2P socket that is stored after every `0x8101` sent was noted stays what `stun-addr` serves until the next is sent (`StoredAnswerStays`); a camera that does not stream is found again, whatever one failure came in between, and although its answer may be ignored or dropped by the bookkeeping (`SilentCameraIsFound`). |
| `media_served` | Frames handed out are whole and of one camera (`FrameIsWhole`), only identified media are held (`MediaIsIdentified`), the reassembler's memory is bounded (`PendingIsBounded`) and pruning spares the newest frame (`NewestGetsThrough`); a viewer that left is let go (`GoneViewerLeaves`), and each viewer's end implements `LatestFrames` (`ViewerGetsLatest`). |
| `watch_restarts` | "ready" means every camera is up or given up (`ReadyIsWhole`), the boot settles once the cloud does (`BootSettles`); a healthy tick missed no lasting trouble (`NothingMissed`), Frigate is restarted only after two readings of one process found a stream without video (`RestartIsEarned`), and a stream that stays dead gets one (`DeadStreamIsRestarted`). |
| `framing` | Over every way to split and join what was written: signalling frames are cut and answered as soon as they are whole (`SignallingSurvives`), requests with their whole bodies (`RequestsAreWhole`), media and answers told apart (`MediaSurvives`). |

Two runs end in a violation: the code does not do what a comment or document says.
`PROJECT.json` quotes them under `findings`.

| Run | Claim | What happens |
|---|---|---|
| `chain_worker` | the keepalive feeds a camera whether or not it is talking | a forced chain empties `p2p_fire_at` between the worker's snapshot and its `del`; the KeyError ends the thread |
| `watch_cron` | `_DEAD_STREAK` counts across cron runs | it is a dictionary of the process: under cron each tick starts from zero, the grace of two is never reached and Frigate is never restarted. `watch_restarts` has the same tick in one lasting process, where it works |

### Known divergences

Met while modelling, as behaviours of these models, and not checked by a run:

* A recovery tick that finds the camera streaming returns before it clears the wake
  flag (bridge 1768), so a later two-second gap is taken for a dead camera, against
  the comment at 1785.
* `_try_return_direct` counts an address as regained and resets the failure counter
  (1526), so a direct trial without media does not bring the relay "straight back"
  (1508).
* A handler may store a report's `mediaState` after its own keepalive dropped the link
  (broker 1035); `finish()` then leaves the row, which stays busy without a connection.
* A report still in flight when the viewer moves arms the new pair's play (broker
  1862, against the comment at 1802).
* `_serve_media` never reads its socket (relay 349): a reader that left is not noticed
  and its keepalive not answered.
* An exception of `bring_up` in the retry thread ends it with the phase "retrying".
  `bring_up`'s `set("ready")` (2679) may overwrite the poller's "failed", and as the
  rejection is latched the phase stays "ready" while every poll is rejected.
* A punch-only camera whose first bind is refused is given up for good: nothing else
  binds a socket in that mode (bridge 1795-1806), and `_lan_resweep` returns without one
  (1717-1720), against `_open_transport` ("the camera would never retry again", 1537-1543)
  and `start` (1553-1557). TLC finds `NeverGivesUp` violated without its first line.
* The streak of a stream is not cleared by the restart it led to (watchdog 215-257), so
  the first empty reading of the restarted Frigate is enough for the next restart,
  against "a restart triggered on the first zero-byte observation self-triggers" (102-106).
* `schedule_p2p_live` sends the `0x8101` before it notes it (broker 1817-1824). A report
  that is handled before `p2p_sent_seq` is set is not taken for the answer; one that is
  stored before `p2p_answer.pop` is dropped as "the old answer", and a redraw then moves
  what `stun-addr` serves, against the docstring at 2096-2106 and the comment at
  1007-1009. Two requests that send at once may also note in the other order. The bridge
  finds the camera again (`SilentCameraIsFound`).
* The answer to PLAY is sent without the reader's lock while the reader is on the
  session's list (relay 606-612), against "every write goes through `lock`" (136-139): a
  fan-out may write a packet before the answer or into it.
* `split_signalling` gives up a frame that straddles two reads and holds a magic of its
  own (header number `0x8686`, port 34438). Bytes `0d 0a 0d 0a` inside a camera's
  frame are taken for an HTTP head. The models' frames hold neither.
* A negative `Content-Length` passes `int` (broker 1246, relay 269), and the slices that
  follow then take the body up to that far from the buffer's end. The models' lengths are
  the ones a request has.
* The acknowledgement of an unknown command has one byte more than the comment above it
  lists (broker 1100-1113).
* The relay answers every SETUP with `interleaved=0-1`; the bridge maps the tracks'
  channels to 0 and 2, so audio over the local relay goes unheard.

### Bounds

* Recovery: the constants of the code (3, 10, 5, 60 seconds; 3 failures; 120
  seconds between trials) are scaled to 1, 2, 2, 3; 2; 1, which keeps their order
  and a unit between any two that are compared, and like them puts the ceiling
  between two doublings. One transition (`MaxFlips`) is
  enough for a wake to race an attempt; `recovery_relay` needs two streams, an old
  pump and its successor, and takes every time as one unit.
* Links: two connections, an old one and its replacement, one sender, one frame in
  flight: one that is answered, or the address report, which is not. A third connection
  only repeats the overlap. No frame carries a status, as the properties do not read
  the row.
* Chain: one connection at a time and one HTTP thread besides the worker: the three
  kinds of thread that share the dictionaries. The handler can end and be reused for
  the next connection. Settle, fallback and floor (1.5, 6 and 30 s) are 0, 1 and 2;
  `chain_floor` has two viewer pairs and one move or one stop (`OneUpset`);
  `chain_served` one pair and one restart of the broker. 
* Relay: a camera that reconnects once, one reader (readers meet only in the
  fan-out's snapshot), a ring of one packet and one packet more. A camera may stop
  sending and a reader may be gone, so deadlock is not checked there.

* Punching: two ports, so that a socket is bound anew and an old port is still
  around; one viewer pair (a moving pair is LiveChain's; a replaced socket of the bridge is the
  same pair here); numbers up to two, which lets
  them start over below a number taken before; two lookups per rendezvous, the floor
  two lookups, so that a lookup and the hello that follows it fit into it; one failure of any kind at any moment; no frame of an earlier attempt
  still on its way when one starts (the 30-second floor outlasts a frame in flight).
* Media: two frames of three fragments, timestamps modulo three, so that a frame may
  wrap; two pending timestamps allowed and one kept (8 and 4 in the code), so that a
  stray packet and two frames force a pruning; one repeated datagram; one viewer with a
  queue of one. Viewers meet only in the copy of `_subs`, which the proofs have for any
  number.
* Boot and watchdog: one camera, two changes of the cloud or crashes, two faults of
  camera, stream or go2rtc, the grace of two.
* Framing: up to three messages per connection (three more after the opening of a
  relay's stream), chosen so that half a magic, a whole one, an overlong header and
  each kind of message precede and follow each other; every chunking of them. A
  connection ends, so deadlock is not checked.

The theorems below hold without these bounds.

### Fairness

`Spec` has none; safety is checked on it. `FairSpec` assumes that threads are
scheduled, that clocks advance and that blocking calls end (each has a timeout in
the code: sockets, `SEND_DEADLINE_S`, HTTP). In CameraRecovery nothing is assumed of
the camera, the cloud or the relay. In CameraLinks a connected camera keeps talking
(it polls every second or two; a silent one is closed after `STREAM_IDLE_S`). In
LiveChain a viewer keeps asking (the bridge retries for as long as it has no media)
and a camera binds the socket it is told to bind, if it stays connected long enough
again and again (strong fairness, since a reconnect interrupts it). In RelayServer
nothing is assumed of the camera or of the readers; a write ends at the socket's
timeout (1 s while serving, 30 s before). A thread that waits for a reader's lock gets it
once nobody takes it any more: its flush and its buffered answer take it finitely often,
so weak fairness is enough. In PunchTarget the threads run and the camera
reconnects and answers what it hears; in MediaPath the receive thread gets through its
`publish` and every handler runs, and nothing is assumed of network and clients; in
Watchdog the bridge's threads run, Docker restarts a process that ended, and a tick of
the watchdog follows the last.

`ViewerServed` says what the code can promise: chain after chain runs to an end.
The ends it names are a view, a deadline without a report, a report after its
deadline, and a play rejected since a second `0x8101` had unbound the socket. A view
itself cannot be promised: a camera slower than the deadline never plays.

## Proofs

The theorems hold for every value of the constants (under the named assumptions
on them: times are naturals in the code's order, threads are distinct, bounds are
naturals) and are checked by TLAPS.

* `CameraRecoveryProofs`: `TypeCorrect` (inductive as it stands);
  `RegisteredSocketIsOpen`, from `SocketInv`, which adds what the rendezvous' local
  variable and the stopping thread may hold; `RegisteredRelayIsPumped`;
  `WakesBuyEarlyAttempts`, from `CreditInv`: each of the three fields the poller
  writes is worth one early attempt as long as it can still cause one, and the
  credit left is at least the sum of their worths. The invariant is needed because
  the credit alone says nothing of an attempt that a half-written transition may
  still cause; `WakesAreAnswered` (an action property), from `WakeInv`: a wake that is
  owed an attempt is held somewhere at every moment, in the flag unless the tick is about
  to clear it, in the copy the tick took before, or in the zero the poller's next write
  leaves in the backoff.
* `CameraLinksProofs`: `TypeCorrect` and `LinksStayLive`, for any number of
  connections and senders, from `LinksInv`, which adds that a thread in `send_to`
  knows where it returns to: otherwise a return could lead into `finish()`.
  `LockHasOneHolder`: the push lock is held by exactly the thread that stalls or is
  dropping the camera, the safe half of what `SendsReturn` says of its release; its
  invariant adds that a connection nobody opened has no handler.
* `LiveChainProofs`: `TypeCorrect` (with `PairKnown`: past its read of the viewer a
  thread has a pair); `ReportNeverOutlivesChain`, inductive over the types;
  `ResendFloorKept`, from `FloorInv`: outside the window between a thread's send and
  its record, `p2p_sent_at` is no older than the thread's own last `0x8101`, and a
  thread that has passed the check has waited out the floor. This is where the
  unlocked check, send and record of any number of threads meet; the run has two.
* `RelayServerProofs`: `TypeCorrect`, `ReadersMissNothing` and `LatestStaysPublished`.
  `RelayInv` looks at what is due to a reader: what it has read, what the fan-out
  under way and the flush under way will still write. That set has no gap up to the
  last packet from the registration on (`UpwardInv`), and is not empty from the first
  copy of the buffer on (`StartedInv`); the lists of readers (`RegisteredInv`) and the
  flushes' counters (`FlushInv`) are what keeps it so. `NoGap` itself, which speaks of
  served readers only, says too little of a reader in its flush to be inductive.

* `WatchdogProofs`: `TypeCorrect`, `ReadyMeansWhole`, `HealthyMissesNothing`,
  `RestartsAreEarned`, from `WatchInv`: the order in which a boot goes (`BootOrder`),
  what a tick has read relative to what the history says of it (`TickReads`), and that
  a streak of one or more was seen dead at the last reading (`StreaksAreSeen`).
* `PunchTargetProofs`: `TypeCorrect` and `SocketStays`, from `PunchInv`, which adds
  that reports carry ports (`ReportsHavePorts`) and that nothing is left which could
  replace or drop the stored answer (`AnswerIsLast`): no numbered report on its way or in
  the handler's hands, no `0x8101` to note.
* `MediaPathProofs`: `TypeCorrect`, `OnlyWholeFrames`, `OnlyIdentifiedMedia`,
  `PendingStaysBounded`, `NewestIsEmitted` and `ViewersChannel`, the
  refinement of `LatestFrames`. `RxInv` says that what is held under a timestamp is of
  one frame (the clock does not come round within the frames there are); with it the
  test for an unbroken chain suffices for a whole frame. Pruning is bounded since the
  timestamps kept have pairwise different numbers of later ones (`PruneBounds`), and
  spares the newest since of the later ones it keeps one at least (`PruneKeepsLast`).
  `FanInv` relates queue, last frame taken and last frame offered while a publication
  is under way.
* `FramingProofs`, for streams of any length cut in any way: `LoopsAreTyped`;
  `FramesAreCutOut`, `RequestsStayWhole`, `RequestsAreAnsweredWhole`,
  `MediaIsToldApart`, `PublishedIsToldApart`, `PlayedIsToldApart`. There are two
  arguments. A loop with one buffer: what a pass does to a buffer it also does, and
  leaves the same, when more is behind it (`PassKept`), so a loop stays where it would
  be after the first messages, with a part of the rest in its buffer (`Follows`,
  `InStep`); that each message is taken whole when it comes alone is a hypothesis of
  `RequestsStayWhole` and `MediaIsToldApart` and shown for the streams named above by
  the other three (`TakenInTurn`, `PlayedAlong`). The signalling port drops what is no
  frame, so its buffer is a stretch of the stream that begins behind the last frame
  answered (`SigFollows`): a frame of the stretch is one of the stream
  (`FrameOfStretch`), the first one is the next (`NextInBuffer`, `SigCuts`), and what is
  dropped holds no start of a frame, not even half a magic (`TailAt`, `SigDrops`). Both
  need the first of the places a search finds, which is the lowest member of a set
  (`LowestIn`, from the ordering of finite sets in place of an induction).

  `FramesAreCutOut` assumes what the code relies on and does not test: no frame holds a
  magic of its own, and nothing in the stream reads as an HTTP request (see the
  divergences above).

Only model-checked: the liveness properties (`NeverGivesUp`, `StopQuiesces`,
`LinkRecovers`, `SendsReturn`, `ViewerServed`, `FanOutDone`, `SilentCameraIsFound`,
`GoneViewerLeaves`, `BootSettles`, `DeadStreamIsRestarted`), which rest on fairness and
so on ENABLED, out of the prover's reach; of `SignallingSurvives`, an HTTP request that
comes to the signalling port; of `MediaSurvives`, a relay that challenges, refuses, has
nothing to play or sends media before its answer to PLAY, of which the theorem takes it
that each message is taken whole by itself (`TakenWhole`), as TLC finds for those of the
run. Every safety invariant and action property of a passing run is stated by a theorem.

## Not modelled

Byte layouts where no boundary cuts them (payload fields, JPEG headers and tables, the
text of RTSP, SDP and HTTP), DNS and the UDP STUN answers as datagrams, the address
fields of a row, logging, the BLE and capture tools, the offline probe, deployment
files: pure I/O or formatting without shared state. The relay trigger is off unless
`--relay-start` asks for it, and is a due time per uid as in LiveChain without a
report. In the modelled parts: the cost of a LAN sweep, keepalive pacing and
RelayStream's keepalive write and TEARDOWN, the shutdown at the end of `main`, the
audio stream (the same Fanout without reassembly), the growth of a signalling
connection's buffer, `punch_camera` and the `ack_sweep` experiment.

## Plan

What is left, most important first:

1. `RelayTrigger`: due times against lost links, as a part of LiveChain.
2. PunchTarget with a moving viewer, composed with LiveChain's play.
3. Abstract specifications of a link that is the camera's latest or none (refined by
   CameraLinks up to late handlers) and of a chain request – report – play.
4. Theorems: `TakenWhole` for the relay's other answers to `RelayStream.open`; the
   refinements of 3.
