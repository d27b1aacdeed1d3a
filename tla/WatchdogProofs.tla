--------------------------- MODULE WatchdogProofs ---------------------------
(***************************************************************************)
(* What holds of Watchdog for any set of cameras, any grace above one and  *)
(* any number of faults: the types, that "ready" is said of a whole boot,  *)
(* that Frigate is restarted for a second empty reading of one process     *)
(* only, and that a healthy tick has missed nothing.                       *)
(***************************************************************************)
EXTENDS Watchdog, TLAPS

\* Where the boot is decides what the poller and the roster may be: "ready" has
\* two writers, and both come after the roster is whole.
BootOrder ==
  /\ boot \in {"setReady", "done"} <=> poller # "off"
  /\ phase = "ready" => boot \in {"setReady", "done"}
  /\ boot = "join" => \A c \in matched : camera[c] # "absent"
  /\ boot \in {"startPoller", "setReady", "done"} =>
       \A c \in matched : Returned(c) /\ camera[c] # "absent"

BridgeInv == BridgeTypeOK /\ BootOrder

\* A process that has just started is at the beginning of its boot.
LEMMA BridgeInitInv == BridgeInit => BridgeInv
<1> SUFFICES ASSUME BridgeInit PROVE BridgeInv
  OBVIOUS
<1>1. background \in BOOLEAN /\ authFailed \in BOOLEAN
  BY Zenon DEF BridgeInit
<1>2. matched \subseteq Cams /\ upsets \in 0..MaxUpsets
  BY UpsetsAssumption DEF BridgeInit
<1>3. camera \in [Cams -> {"absent"}]
  BY DEF BridgeInit
<1>4. BootOrder
  BY DEF BridgeInit, BootOrder
<1>5. QED
  BY <1>1, <1>2, <1>3, <1>4 DEF BridgeInit, BridgeInv, BridgeTypeOK

\* Every step of the boot, whichever thread makes it, keeps the order.
LEMMA BootStepsKeep ==
  ASSUME BridgeInv, BootSteps PROVE BridgeInv'
<1> USE UpsetsAssumption
        DEF BridgeInv, BridgeTypeOK, BootOrder, Returned, SetPhase, ProcessEnds,
            cloudVars, pollerVars
<1>1. CASE FirstList
  BY <1>1 DEF FirstList
<1>2. CASE RetryList
  BY <1>2 DEF RetryList
<1>3. CASE NoCameras
  BY <1>3 DEF NoCameras
<1>4. CASE BringUp
  BY <1>4 DEF BringUp
<1>5. ASSUME NEW c \in Cams, BootOne(c) PROVE BridgeInv'
  BY <1>5 DEF BootOne
<1>6. ASSUME NEW c \in Cams, Register(c) PROVE BridgeInv'
  BY <1>6 DEF Register
<1>7. CASE Join
  BY <1>7 DEF Join
<1>8. CASE StartPoller
  BY <1>8 DEF StartPoller
<1>9. CASE SetReady
  BY <1>9 DEF SetReady
<1>10. QED
  BY <1>1, <1>2, <1>3, <1>4, <1>5, <1>6, <1>7, <1>8, <1>9 DEF BootSteps

\* So does every step of the poller and of the world around the bridge.
LEMMA BridgeNextKeeps ==
  ASSUME BridgeInv, BridgeNext PROVE BridgeInv'
<1> USE UpsetsAssumption
        DEF BridgeInv, BridgeTypeOK, BootOrder, Returned, SetPhase, ProcessEnds,
            cloudVars, bootVars, pollerVars
<1>1. CASE BootSteps
  BY <1>1, BootStepsKeep
<1>2. CASE Poll
  BY <1>2 DEF Poll
<1>3. CASE PollParks
  BY <1>3 DEF PollParks
<1>4. CASE PollUnparks
  BY <1>4 DEF PollUnparks
<1>5. CASE PollWaits
  BY <1>5 DEF PollWaits
<1>6. CASE BringUpRaises
  BY <1>6 DEF BringUpRaises
<1>7. CASE CloudChanges
  BY <1>7 DEF CloudChanges
<1>8. CASE Crash
  BY <1>8 DEF Crash
<1>9. CASE Restart
  BY <1>9 DEF Restart, Fresh
<1>10. QED
  BY <1>1, <1>2, <1>3, <1>4, <1>5, <1>6, <1>7, <1>8, <1>9
     DEF BridgeNext, PollerSteps
-----------------------------------------------------------------------------
\* What the tick has read, against what it may still leave unreported.
TickReads ==
  /\ wd \in {"phase", "rows"} => proc = "up" /\ Cams \ listed \subseteq excused
  /\ wd # "idle" => (Ready => served) /\ Excusable \subseteq excused
  /\ wd = "rows" /\ ~issues => served
  /\ wd = "go2rtc" /\ ~issues => served /\ Cams \subseteq excused

\* A streak is there only if the last reading of this process was empty.
StreaksAreSeen == \A c \in Cams : deadStreak[c] # 0 => c \in unfed

WatchInv == TypeOK /\ BridgeInv /\ TickReads /\ StreaksAreSeen

LEMMA WatchInit == Init => WatchInv
<1> SUFFICES ASSUME Init PROVE WatchInv
  OBVIOUS
<1>1. BridgeInv
  BY BridgeInitInv DEF Init
<1>2. /\ reached \in BOOLEAN /\ issues \in BOOLEAN /\ served \in BOOLEAN
  BY Zenon DEF Init
<1>3. /\ media \in [Cams -> {"dark"}] /\ deadStreak \in [Cams -> {0}]
  BY DEF Init
<1>4. /\ faults \in 0..MaxFaults
      /\ 0 \in 0..GraceTicks
  BY WatchdogAssumption DEF Init
<1>5. TypeOK
  BY <1>1, <1>2, <1>3, <1>4 DEF Init, TypeOK, BridgeInv
<1>6. TickReads /\ StreaksAreSeen
  BY <1>3 DEF Init, TickReads, StreaksAreSeen
<1>7. QED
  BY <1>1, <1>5, <1>6 DEF WatchInv

\* The types of the watchdog's own part.
WatchTypeOK ==
  /\ media \in [Cams -> {"live", "marked", "blip", "dark"}]
  /\ faults \in 0..MaxFaults
  /\ go2rtc \in {"up", "down"} /\ fed \subseteq Cams
  /\ wd \in {"idle", "phase", "rows", "go2rtc", "restart"}
  /\ reached \in BOOLEAN
  /\ listed \subseteq Cams /\ streaming \subseteq listed
  /\ issues \in BOOLEAN
  /\ deadStreak \in [Cams -> 0..GraceTicks]
  /\ exit \in {"none", "healthy", "issues", "critical"}
  /\ served \in BOOLEAN /\ excused \subseteq Cams /\ unfed \subseteq Cams

\* The history grows by what is there after a step that is noted.
LEMMA NoteTypes ==
  ASSUME WatchTypeOK, Note
  PROVE  /\ served' \in BOOLEAN /\ excused' \subseteq Cams /\ unfed' = unfed
         /\ Ready' => served'
         /\ Excusable' \subseteq excused'
         /\ excused \subseteq excused'
         /\ served => served'
BY Zenon DEF WatchTypeOK, Note, Excusable

\* The bridge's own steps: a process that ends takes its answer along.
LEMMA BridgeStepKeeps ==
  ASSUME WatchInv, BridgeStep(BridgeNext) PROVE WatchInv'
<1> USE DEF WatchInv
<1>1. BridgeInv'
  BY BridgeNextKeeps DEF BridgeStep
<1>2. Note /\ WatchTypeOK
  BY DEF BridgeStep, TypeOK, WatchTypeOK
<1>3. /\ faults' = faults /\ go2rtc' = go2rtc /\ fed' = fed
      /\ deadStreak' = deadStreak /\ exit' = exit
  BY DEF BridgeStep, watchVars
<1>4. media' \in [Cams -> {"live", "marked", "blip", "dark"}]
  BY <1>2 DEF BridgeStep, WatchTypeOK
<1>5. CASE proc' = "down" /\ wd \in {"phase", "rows"}
  <2>1. /\ wd' = "go2rtc" /\ reached' = FALSE /\ issues' = TRUE
        /\ listed' = {} /\ streaming' = {}
    BY <1>5 DEF BridgeStep
  <2>2. TypeOK'
    BY <1>1, <1>2, <1>3, <1>4, <2>1, NoteTypes DEF TypeOK, BridgeInv, WatchTypeOK
  <2>3. TickReads'
    BY <1>2, <2>1, NoteTypes DEF TickReads
  <2>4. QED
    BY <1>1, <1>2, <1>3, <2>2, <2>3, NoteTypes DEF StreaksAreSeen
<1>6. CASE ~(proc' = "down" /\ wd \in {"phase", "rows"})
  <2>1. UNCHANGED watchVars
    BY <1>6 DEF BridgeStep
  <2>2. TypeOK'
    BY <1>1, <1>2, <1>3, <1>4, <2>1, NoteTypes
       DEF TypeOK, BridgeInv, WatchTypeOK, watchVars
  <2>3. proc' \in {"up", "down"}
    BY <1>1 DEF BridgeInv, BridgeTypeOK
  <2>4. TickReads'
    BY <1>2, <1>6, <2>1, <2>3, NoteTypes DEF TickReads, watchVars
  <2>5. QED
    BY <1>1, <1>2, <1>3, <2>2, <2>4, NoteTypes DEF StreaksAreSeen
<1>7. QED
  BY <1>5, <1>6

\* Cameras, streams and go2rtc change beside the tick.
LEMMA WorldStepKeeps ==
  ASSUME WatchInv, WorldStep PROVE WatchInv'
<1> USE DEF WatchInv
<1>1. /\ UNCHANGED bridgeVars /\ UNCHANGED watchVars /\ Note /\ WatchTypeOK
  BY DEF WorldStep, TypeOK, WatchTypeOK
<1>2. BridgeInv'
  BY <1>1 DEF bridgeVars, cloudVars, bootVars, pollerVars, BridgeInv,
              BridgeTypeOK, BootOrder, Returned
<1> DEFINE WorldTyped == /\ media \in [Cams -> {"live", "marked", "blip", "dark"}]
                         /\ faults \in 0..MaxFaults
                         /\ go2rtc \in {"up", "down"} /\ fed \subseteq Cams
<1>3. WorldTyped'
  <2> USE WatchdogAssumption DEF WatchTypeOK
  <2>1. ASSUME NEW c \in Cams, MediaChange(c) PROVE WorldTyped'
    BY <1>1, <2>1 DEF MediaChange
  <2>2. ASSUME NEW c \in Cams, StreamConnects(c) PROVE WorldTyped'
    BY <1>1, <2>2 DEF StreamConnects
  <2>3. ASSUME NEW c \in Cams, StreamDies(c) PROVE WorldTyped'
    BY <1>1, <2>3 DEF StreamDies
  <2>4. CASE Go2rtcChanges
    BY <1>1, <2>4 DEF Go2rtcChanges
  <2>5. QED
    BY <2>1, <2>2, <2>3, <2>4 DEF WorldStep
<1>4. TypeOK'
  BY <1>1, <1>2, <1>3, NoteTypes DEF TypeOK, BridgeInv, WatchTypeOK, watchVars
<1>5. TickReads'
  BY <1>1, NoteTypes DEF TickReads, watchVars, bridgeVars, bootVars
<1>6. StreaksAreSeen'
  BY <1>1, NoteTypes DEF StreaksAreSeen, watchVars
<1>7. QED
  BY <1>2, <1>4, <1>5, <1>6
\* The watchdog's own steps: what an answer says is excused or an issue.
LEMMA WatchdogStepsKeep ==
  ASSUME WatchInv, WatchdogSteps PROVE WatchInv'
<1> USE DEF WatchInv
<1>1. UNCHANGED bridgeVars
  BY DEF WatchdogSteps, TickBegins, HealthPhase, HealthRows, Go2rtcUnreachable,
         JudgeStreams, RestartFrigate
<1>2. /\ BridgeInv'
      /\ UNCHANGED <<Ready, Live>>
  BY <1>1 DEF bridgeVars, cloudVars, bootVars, pollerVars, BridgeInv, BridgeTypeOK,
              BootOrder, Returned, Ready, Live
<1>3. WatchTypeOK
  BY DEF TypeOK, WatchTypeOK
<1> USE WatchdogAssumption DEF WatchTypeOK, TypeOK, BridgeInv, worldVars,
        historyVars, Excusable
<1>4. CASE TickBegins
  <2>1. proc \in {"up", "down"} /\ Live \subseteq Cams
    BY DEF BridgeTypeOK, Live
  <2>2. TypeOK'
    <3>1. /\ reached' \in BOOLEAN /\ issues' \in BOOLEAN /\ served' \in BOOLEAN
      BY <1>4, Zenon DEF TickBegins, Ready
    <3>2. deadStreak' \in [Cams -> 0..GraceTicks]
      BY <1>3, <1>4 DEF TickBegins
    <3>3. QED
      BY <1>2, <1>3, <1>4, <2>1, <3>1, <3>2 DEF TickBegins
  <2>3. TickReads'
    BY <1>1, <1>2, <1>4, <2>1 DEF TickBegins, TickReads, bridgeVars, bootVars
  <2>4. StreaksAreSeen'
    BY <1>3, <1>4 DEF TickBegins, StreaksAreSeen
  <2>5. QED
    BY <1>2, <2>2, <2>3, <2>4
<1>5. CASE HealthPhase
  <2>1. issues' \in BOOLEAN /\ (~issues' => phase = "ready")
    BY <1>5, Zenon DEF HealthPhase
  <2>2. TypeOK'
    BY <1>2, <1>3, <1>5, <2>1 DEF HealthPhase
  <2>3. TickReads'
    BY <1>1, <1>2, <1>5, <2>1 DEF HealthPhase, TickReads, Ready, bridgeVars, bootVars
  <2>4. StreaksAreSeen'
    BY <1>5 DEF HealthPhase, StreaksAreSeen
  <2>5. QED
    BY <1>2, <2>2, <2>3, <2>4
<1>6. CASE HealthRows
  <2>1. issues' \in BOOLEAN
        /\ (~issues' => ~issues /\ \A c \in listed : media[c] # "dark")
    BY <1>3, <1>6, Zenon DEF HealthRows
  <2>2. TypeOK'
    BY <1>2, <1>3, <1>6, <2>1 DEF HealthRows
  <2>3. ~issues' => Cams \subseteq excused
    BY <1>6, <2>1 DEF HealthRows, TickReads
  <2>4. TickReads'
    BY <1>2, <1>6, <2>1, <2>3 DEF HealthRows, TickReads
  <2>5. StreaksAreSeen'
    BY <1>6 DEF HealthRows, StreaksAreSeen
  <2>6. QED
    BY <1>2, <2>2, <2>4, <2>5
<1>7. CASE Go2rtcUnreachable
  BY <1>2, <1>3, <1>7 DEF Go2rtcUnreachable, Exit, TickReads, StreaksAreSeen
<1>8. CASE JudgeStreams
  <2>1. /\ deadStreak' = [c \in Cams |-> Streak(c)]
        /\ unfed' = Cams \ fed /\ served' = served /\ excused' = excused
    BY <1>8 DEF JudgeStreams
  <2>2. \A c \in Cams : Streak(c) \in 0..GraceTicks /\ (Streak(c) # 0 => c \notin fed)
    BY <1>3 DEF Streak, Dead
  <2>3. CASE /\ wd' = "restart"
             /\ UNCHANGED <<reached, listed, streaming, issues, exit>>
    BY <1>2, <1>3, <1>8, <2>1, <2>2, <2>3 DEF JudgeStreams, TickReads, StreaksAreSeen
  <2>4. ASSUME NEW code \in {"issues", "healthy"}, Exit(code) PROVE WatchInv'
    BY <1>2, <1>3, <1>8, <2>1, <2>2, <2>4
       DEF JudgeStreams, Exit, TickReads, StreaksAreSeen
  <2>5. QED
    BY <1>8, <2>3, <2>4 DEF JudgeStreams
<1>9. CASE RestartFrigate
  <2>1. /\ deadStreak' = deadStreak /\ unfed' = unfed /\ media' = media
        /\ faults' = faults /\ go2rtc' = go2rtc
        /\ served' = served /\ excused' = excused
        /\ fed' \subseteq Cams
    BY <1>3, <1>9 DEF RestartFrigate
  <2>2. ASSUME NEW code \in {"issues", "critical"}, Exit(code) PROVE WatchInv'
    BY <1>2, <1>3, <2>1, <2>2 DEF Exit, TickReads, StreaksAreSeen
  <2>3. QED
    BY <1>9, <2>2 DEF RestartFrigate
<1>10. QED
  BY <1>4, <1>5, <1>6, <1>7, <1>8, <1>9 DEF WatchdogSteps

LEMMA WatchStep == WatchInv /\ [Next]_vars => WatchInv'
<1> SUFFICES ASSUME WatchInv, [Next]_vars PROVE WatchInv'
  OBVIOUS
<1>1. CASE UNCHANGED vars
  BY <1>1 DEF vars, bridgeVars, cloudVars, bootVars, pollerVars, worldVars,
              watchVars, historyVars, WatchInv, TypeOK, BridgeInv, BridgeTypeOK,
              BootOrder, Returned, TickReads, StreaksAreSeen, Ready, Excusable, Live
<1>2. QED
  BY <1>1, BridgeStepKeeps, WorldStepKeeps, WatchdogStepsKeep DEF Next

LEMMA WatchInvariant == Spec => []WatchInv
BY WatchInit, WatchStep, PTL DEF Spec

-----------------------------------------------------------------------------
\* The bridge, its boot and the watchdog keep their types.
THEOREM TypeCorrect == Spec => []TypeOK
<1>1. WatchInv => TypeOK
  BY DEF WatchInv
<1>2. QED
  BY <1>1, WatchInvariant, PTL

\* BootState's "ready", which bring_up and the poller both write, always means
\* that every camera of the boot is in the roster or given up.
THEOREM ReadyMeansWhole == Spec => []ReadyIsWhole
<1>1. WatchInv => ReadyIsWhole
  BY DEF WatchInv, BridgeInv, BootOrder, ReadyIsWhole
<1>2. QED
  BY <1>1, WatchInvariant, PTL

\* A tick whose issues are empty has missed no lasting trouble, though /health
\* and go2rtc were read at different moments.
THEOREM HealthyMissesNothing == Spec => NothingMissed
<1>1. WatchInv /\ [Next]_vars =>
        [wd = "go2rtc" /\ wd' = "idle" /\ exit' = "healthy"
           => served /\ excused = Cams]_vars
  <2> SUFFICES ASSUME WatchInv, Next, wd = "go2rtc", wd' = "idle",
                      exit' = "healthy"
               PROVE  served /\ excused = Cams
    OBVIOUS
  <2>1. CASE BridgeStep(BridgeNext) \/ WorldStep
    BY <2>1 DEF BridgeStep, WorldStep, watchVars
  <2>2. CASE WatchdogSteps
    <3>1. JudgeStreams
      BY <2>2 DEF WatchdogSteps, TickBegins, HealthPhase, HealthRows,
                  Go2rtcUnreachable, Exit, RestartFrigate
    <3>2. ~issues
      BY <3>1 DEF JudgeStreams, Exit
    <3>3. QED
      BY <3>2 DEF WatchInv, TickReads, TypeOK
  <2>3. QED
    BY <2>1, <2>2 DEF Next
<1>2. QED
  BY <1>1, WatchInvariant, PTL DEF Spec, NothingMissed

\* Frigate is restarted only for a stream that was empty at this reading and at
\* the one before of the same process, on whichever side of a restart that lies.
THEOREM RestartsAreEarned == Spec => RestartIsEarned
<1>1. WatchInv /\ [Next]_vars =>
        [wd' = "restart" => wd = "restart" \/ unfed \ fed # {}]_vars
  <2> SUFFICES ASSUME WatchInv, Next, wd' = "restart", wd # "restart"
               PROVE  unfed \ fed # {}
    OBVIOUS
  <2>1. CASE BridgeStep(BridgeNext) \/ WorldStep
    BY <2>1 DEF BridgeStep, WorldStep, watchVars
  <2>2. CASE WatchdogSteps
    <3>1. JudgeStreams
      BY <2>2 DEF WatchdogSteps, TickBegins, HealthPhase, HealthRows,
                  Go2rtcUnreachable, Exit, RestartFrigate
    <3>2. PICK c \in Cams : Dead(c) /\ Streak(c) >= GraceTicks
      BY <3>1 DEF JudgeStreams, Exit
    <3>3. deadStreak[c] # 0
      BY <3>2, WatchdogAssumption DEF Streak
    <3>4. c \in unfed \ fed
      BY <3>2, <3>3 DEF WatchInv, StreaksAreSeen, Dead
    <3>5. QED
      BY <3>4
  <2>3. QED
    BY <2>1, <2>2 DEF Next
<1>2. QED
  BY <1>1, WatchInvariant, PTL DEF Spec, RestartIsEarned

=============================================================================
