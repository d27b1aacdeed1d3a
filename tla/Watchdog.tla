------------------------------ MODULE Watchdog ------------------------------
(***************************************************************************)
(* ziot_watchdog.py beside the bridge and go2rtc.  One tick reads /health, *)
(* which the bridge puts together in steps of its own, then go2rtc's       *)
(* streams, and then judges both; nothing holds the three together.        *)
(* A camera's media are what /health makes of them, one go2rtc stream per  *)
(* camera is fed by the bridge and lives inside Frigate.                   *)
(***************************************************************************)
EXTENDS BridgeBoot

CONSTANTS
  OneShot,     \* each tick is a process of its own, as cron starts it
  GraceTicks,  \* DEAD_GRACE_TICKS
  MaxFaults    \* bound: cameras that change and streams that die

ASSUME WatchdogAssumption ==
  OneShot \in BOOLEAN /\ GraceTicks \in Nat \ {0, 1} /\ MaxFaults \in Nat

VARIABLES
  media,       \* per camera: "live", "marked" (low fps or relayed), "blip", "dark"
  faults,      \* changes of the media, dead streams and outages of go2rtc so far
  go2rtc,      \* "up", "down" (no answer)
  fed,         \* the streams with more than 1000 bytes received
  wd,          \* where the watchdog is
  reached,     \* /health was answered
  listed,      \* the cameras of the /health answer
  streaming,   \* those it gives as streaming
  issues,      \* the list of issues is not empty
  deadStreak,  \* _DEAD_STREAK
  exit,        \* how the last tick ended: "healthy", "issues", "critical"
  \* history, read by the properties only
  served,      \* since the tick began the bridge was ready at some moment
  excused,     \* the cameras that were unlisted, or not dark, at some moment
  unfed        \* the streams without video at this process' last reading; a
               \* restart of Frigate resets it as little as it does the streaks

watchVars   == <<wd, reached, listed, streaming, issues, deadStreak, exit>>
worldVars   == <<media, faults, go2rtc, fed>>
historyVars == <<served, excused, unfed>>
vars == <<bridgeVars, worldVars, watchVars, historyVars>>

-----------------------------------------------------------------------------
Ready == proc = "up" /\ phase = "ready"

\* is_streaming of a camera, as the rows of /health have it.
Streams(c) == media[c] \in {"live", "marked"}

TypeOK ==
  /\ BridgeTypeOK
  /\ media \in [Cams -> {"live", "marked", "blip", "dark"}]
  /\ faults \in 0..MaxFaults
  /\ go2rtc \in {"up", "down"} /\ fed \subseteq Cams
  /\ wd \in {"idle", "phase", "rows", "go2rtc", "restart"}
  /\ reached \in BOOLEAN
  /\ listed \subseteq Cams /\ streaming \subseteq listed
  /\ issues \in BOOLEAN
  /\ deadStreak \in [Cams -> 0..GraceTicks]
  /\ exit \in {"none", "healthy", "issues", "critical"}
  /\ served \in BOOLEAN /\ excused \subseteq Cams /\ unfed \subseteq Cams

Init ==
  /\ BridgeInit
  /\ media = [c \in Cams |-> "dark"] /\ faults = 0
  /\ go2rtc = "up" /\ fed = {}
  /\ wd = "idle" /\ reached = FALSE /\ listed = {} /\ streaming = {}
  /\ issues = FALSE
  /\ deadStreak = [c \in Cams |-> 0]
  /\ exit = "none"
  /\ served = FALSE /\ excused = {} /\ unfed = {}

-----------------------------------------------------------------------------
\* What a tick may leave unreported: nothing of the bridge if it was ready at
\* some moment, and a camera that was unlisted or not dark at some moment.
Excusable == {c \in Cams : c \notin Live \/ media[c] # "dark"}

Note ==
  /\ served' = (served \/ Ready')
  /\ excused' = excused \cup Excusable'
  /\ UNCHANGED unfed

\* A step of the bridge.  If the process ends, the request it was answering is
\* cut off and the watchdog has no bridge this tick; the media end with it.
BridgeStep(step) ==
  /\ step
  /\ IF proc' = "down" /\ wd \in {"phase", "rows"}
       THEN /\ wd' = "go2rtc" /\ reached' = FALSE /\ issues' = TRUE
            /\ listed' = {} /\ streaming' = {}
            /\ UNCHANGED <<deadStreak, exit>>
       ELSE UNCHANGED watchVars
  /\ media' = IF proc' = "down" THEN [c \in Cams |-> "dark"] ELSE media
  /\ UNCHANGED <<faults, go2rtc, fed>>
  /\ Note

\* Media of a camera that is up, a stream of Frigate's, or go2rtc itself.
MediaChange(c) ==
  /\ c \in Live /\ proc = "up" /\ faults < MaxFaults /\ faults' = faults + 1
  /\ \E m \in {"live", "marked", "blip", "dark"} \ {media[c]} :
       media' = [media EXCEPT ![c] = m]
  /\ UNCHANGED <<go2rtc, fed>>

StreamConnects(c) ==
  /\ go2rtc = "up" /\ proc = "up" /\ c \in Live /\ Streams(c)
  /\ fed' = fed \cup {c}
  /\ UNCHANGED <<media, faults, go2rtc>>

StreamDies(c) ==
  /\ c \in fed /\ faults < MaxFaults /\ faults' = faults + 1
  /\ fed' = fed \ {c}
  /\ UNCHANGED <<media, go2rtc>>

Go2rtcChanges ==
  /\ go2rtc = "up" => faults < MaxFaults
  /\ faults' = IF go2rtc = "up" THEN faults + 1 ELSE faults
  /\ go2rtc' = IF go2rtc = "up" THEN "down" ELSE "up"
  /\ fed' = {}
  /\ UNCHANGED media

WorldStep ==
  /\ \/ \E c \in Cams : MediaChange(c) \/ StreamConnects(c) \/ StreamDies(c)
     \/ Go2rtcChanges
  /\ UNCHANGED <<bridgeVars, watchVars>>
  /\ Note

-----------------------------------------------------------------------------
\* main() begins.  The handler of /health copies the cameras under the lock;
\* without a process there is nobody to answer.
TickBegins ==
  /\ wd = "idle"
  /\ reached' = (proc = "up") /\ issues' = (proc = "down")
  /\ wd' = IF proc = "up" THEN "phase" ELSE "go2rtc"
  /\ listed' = (IF proc = "up" THEN Live ELSE {}) /\ streaming' = {}
  /\ deadStreak' = IF OneShot THEN [c \in Cams |-> 0] ELSE deadStreak
  /\ unfed' = IF OneShot THEN {} ELSE unfed
  /\ served' = Ready /\ excused' = Excusable
  /\ UNCHANGED <<bridgeVars, worldVars, exit>>

\* The handler reads the boot phase after it has copied the cameras.
HealthPhase ==
  /\ wd = "phase"
  /\ issues' = (phase # "ready")
  /\ wd' = "rows"
  /\ UNCHANGED <<bridgeVars, worldVars, reached, listed, streaming, deadStreak,
                 exit, historyVars>>

\* Mutant of HealthRows: a camera silent for long is taken for a blip.
MutHealthRowsLenient ==
  /\ wd = "rows"
  /\ streaming' = {c \in listed : Streams(c)}
  /\ issues' = (issues \/ \E c \in listed : media[c] = "marked")
  /\ wd' = "go2rtc"
  /\ UNCHANGED <<bridgeVars, worldVars, reached, listed, deadStreak, exit,
                 historyVars>>

\* Mutant of HealthRows: the shared roster is read again for the rows.
MutHealthRowsShared ==
  /\ wd = "rows"
  /\ streaming' = {c \in Live : Streams(c)}
  /\ issues' = (issues \/ \E c \in Live : media[c] \in {"marked", "dark"})
  /\ wd' = "go2rtc"
  /\ UNCHANGED <<bridgeVars, worldVars, reached, listed, deadStreak, exit,
                 historyVars>>

\* The rows of the cameras, and what main() makes of each.
HealthRows ==
  /\ wd = "rows"
  /\ streaming' = {c \in listed : Streams(c)}
  /\ issues' = (issues \/ \E c \in listed : media[c] \in {"marked", "dark"})
  /\ wd' = "go2rtc"
  /\ UNCHANGED <<bridgeVars, worldVars, reached, listed, deadStreak, exit,
                 historyVars>>

\* main() ends: what it has read is gone.
Exit(code) ==
  /\ wd' = "idle" /\ exit' = code
  /\ reached' = FALSE /\ listed' = {} /\ streaming' = {} /\ issues' = FALSE

\* go2rtc_stream_state: dead when it has no video and its camera is not known
\* to be dark.
Dead(c) == c \notin fed /\ (c \in streaming \/ c \notin listed)

\* Mutant of Streak: a stream with video keeps its streak.
MutStreakKept(c) == IF ~Dead(c) THEN deadStreak[c]
                    ELSE IF deadStreak[c] < GraceTicks THEN deadStreak[c] + 1
                                                       ELSE GraceTicks

\* Mutant of Streak: the grace is never used up.
MutStreakForgets(c) == IF Dead(c) /\ deadStreak[c] = 0 THEN 1 ELSE 0

\* The streak of a stream after this reading, not counted beyond the grace.
Streak(c) == IF ~Dead(c) THEN 0
             ELSE IF deadStreak[c] < GraceTicks THEN deadStreak[c] + 1
                                                ELSE GraceTicks

\* go2rtc does not answer: no restart can fix it, the streaks stay.
Go2rtcUnreachable ==
  /\ wd = "go2rtc" /\ go2rtc = "down"
  /\ Exit("issues")
  /\ UNCHANGED <<bridgeVars, worldVars, deadStreak, historyVars>>

\* go2rtc's streams are judged by what /health said before.
JudgeStreams ==
  /\ wd = "go2rtc" /\ go2rtc = "up"
  /\ deadStreak' = [c \in Cams |-> Streak(c)]
  /\ unfed' = Cams \ fed
  /\ IF reached /\ \E c \in Cams : Dead(c) /\ Streak(c) >= GraceTicks
       THEN /\ wd' = "restart"
            /\ UNCHANGED <<reached, listed, streaming, issues, exit>>
       ELSE Exit(IF issues \/ \E c \in Cams : Dead(c) THEN "issues"
                                                      ELSE "healthy")
  /\ UNCHANGED <<bridgeVars, worldVars, served, excused>>

\* restart_frigate: every stream starts over, or docker refuses.  The streaks stay
\* as they are, so that the first reading after it may be the next restart's.
RestartFrigate ==
  /\ wd = "restart"
  /\ \/ Exit("issues") /\ fed' = {}
     \/ Exit("critical") /\ UNCHANGED fed
  /\ UNCHANGED <<bridgeVars, media, faults, go2rtc, deadStreak, historyVars>>

WatchdogSteps ==
  \/ TickBegins \/ HealthPhase \/ HealthRows
  \/ Go2rtcUnreachable \/ JudgeStreams \/ RestartFrigate

Next == BridgeStep(BridgeNext) \/ WorldStep \/ WatchdogSteps

Spec == Init /\ [][Next]_vars

\* The bridge's threads run, Docker restarts a process that ended, go2rtc comes
\* back, and cron starts a tick when the last one is over.
FairSpec ==
  /\ Spec
  /\ WF_vars(BridgeStep(BootSteps))
  /\ WF_vars(BridgeStep(PollerSteps))
  /\ WF_vars(BridgeStep(Restart))
  /\ WF_vars(WatchdogSteps)

-----------------------------------------------------------------------------
\* The boot phase has two writers, and neither says "ready" before every camera
\* the boot kept is in the roster or has been given up, and the poller runs.
ReadyIsWhole ==
  phase = "ready" => poller # "off" /\ \A c \in matched : Returned(c)
                                      /\ camera[c] # "absent"

\* Once the cloud stays up, a bridge that has cameras to serve says "ready" for
\* good, whatever outages and rejected tokens came before, and the latch of a
\* rejected token is undone.  Excepted: a retry thread that parked on a rejected
\* token (by design) or that an exception of bring_up ended.
BootSettles ==
  <>[](cloud = "up" /\ matched # {})
    => <>[](\/ Ready /\ ~authFailed
            \/ boot \in {"parked", "dead"})

\* A tick that ends "ALL HEALTHY" has missed nothing that lasted: neither a
\* bridge that was not ready throughout, nor a camera in the roster that was
\* dark throughout.  The parts of the tick are read at different moments.
NothingMissed ==
  [][wd = "go2rtc" /\ wd' = "idle" /\ exit' = "healthy"
       => served /\ excused = Cams]_vars

\* Frigate is restarted only if one and the same stream was without video at this
\* reading and at the one before of the same process.  No more is promised: the
\* reading before may lie before the last restart, since restart_frigate leaves
\* the streaks alone, and then one empty reading of the new Frigate is enough.
RestartIsEarned ==
  [][wd' = "restart" => wd = "restart" \/ unfed \ fed # {}]_vars

\* The watchdog's purpose: a stream that stays dead while its camera streams
\* does not stay unnoticed, Frigate is restarted.
DeadStreamIsRestarted ==
  \A c \in Cams :
    ~<>[](/\ Ready /\ c \in Live /\ media[c] = "live"
          /\ go2rtc = "up" /\ c \notin fed /\ wd # "restart")

=============================================================================
