----------------------------- MODULE BridgeBoot -----------------------------
(***************************************************************************)
(* The bridge process of ziot_rtp_bridge.py from its start on: main() asks *)
(* the cloud for the device list and brings the cameras up, retry_boot     *)
(* does it in the background when the cloud does not answer, CloudState's  *)
(* poller runs beside it, and /health is answered from the first second.   *)
(* The boot phase has two writers, the thread that boots and the poller.   *)
(* Waits and back-offs are not timed: a step may take any time.            *)
(***************************************************************************)
EXTENDS Naturals, FiniteSets

CONSTANTS
  Cams,        \* the cameras of the account's device list
  MaxUpsets    \* bound: changes of the cloud, crashes and lost routes

ASSUME UpsetsAssumption == MaxUpsets \in Nat

VARIABLES
  cloud,       \* what list_cameras meets: "up", "down", "rejects" the token
  matched,     \* the cameras that pass bring_up's allow-list and only_online
  upsets,      \* how many changes there have been
  proc,        \* the process: "up", "down" (Docker starts it again)
  boot,        \* where the thread that boots is
  background,  \* that thread is retry_boot's, main() serves already
  camera,      \* per camera, where its boot_one thread is
  phase,       \* BootState._phase
  poller,      \* where CloudState's thread is; "off" before start()
  authFailed   \* CloudState._auth_failed

cloudVars  == <<cloud, matched, upsets>>
bootVars   == <<proc, boot, background, camera>>
pollerVars == <<poller, authFailed>>
bridgeVars == <<cloudVars, bootVars, phase, pollerVars>>

-----------------------------------------------------------------------------
\* The shared map `live`: what /health lists.
Live == {c \in Cams : camera[c] \in {"live", "registered"}}

\* boot_one has returned for this camera.
Returned(c) == camera[c] \in {"absent", "skipped", "registered"}

BridgeTypeOK ==
  /\ cloud \in {"up", "down", "rejects"}
  /\ matched \subseteq Cams
  /\ upsets \in 0..MaxUpsets
  /\ proc \in {"up", "down"}
  /\ boot \in {"list", "retry", "bringUp", "join", "startPoller", "setReady",
               "done", "parked", "dead"}
  /\ background \in BOOLEAN
  /\ camera \in [Cams -> {"absent", "starting", "live", "registered", "skipped"}]
  /\ phase \in {"starting", "retrying", "failed", "no-cameras", "ready"}
  /\ poller \in {"off", "list", "park", "unpark", "wait"}
  /\ authFailed \in BOOLEAN

\* What a process begins with: main() up to the first list_cameras.
Fresh ==
  /\ proc' = "up" /\ boot' = "list" /\ background' = FALSE
  /\ camera' = [c \in Cams |-> "absent"]
  /\ phase' = "starting"
  /\ poller' = "off" /\ authFailed' = FALSE

BridgeInit ==
  /\ cloud \in {"up", "down", "rejects"} /\ upsets = 0
  /\ matched \in SUBSET Cams
  /\ proc = "up" /\ boot = "list" /\ background = FALSE
  /\ camera = [c \in Cams |-> "absent"]
  /\ phase = "starting"
  /\ poller = "off" /\ authFailed = FALSE

-----------------------------------------------------------------------------
\* BootState.set
SetPhase(p) == phase' = p

\* main() ends: an exit code, or an exception nobody catches.
ProcessEnds ==
  /\ proc' = "down"
  /\ UNCHANGED <<boot, background, camera, phase, pollerVars>>

\* main(): the first device list.  A rejected token ends the process.
FirstList ==
  /\ proc = "up" /\ boot = "list"
  /\ \/ cloud = "up" /\ boot' = "bringUp"
        /\ UNCHANGED <<proc, background, camera, phase, pollerVars>>
     \/ cloud = "rejects" /\ ProcessEnds
     \/ /\ cloud = "down" /\ SetPhase("retrying")
        /\ boot' = "retry" /\ background' = TRUE
        /\ UNCHANGED <<proc, camera, pollerVars>>
  /\ UNCHANGED cloudVars

\* retry_boot: a rejected token parks the thread, which never asks again.
RetryList ==
  /\ proc = "up" /\ boot = "retry"
  /\ \/ cloud = "up" /\ boot' = "bringUp" /\ UNCHANGED phase
     \/ cloud = "rejects" /\ boot' = "parked" /\ SetPhase("failed")
     \/ cloud = "down" /\ SetPhase("retrying") /\ UNCHANGED boot
  /\ UNCHANGED <<cloudVars, proc, background, camera, pollerVars>>

\* bring_up finds no camera it was asked for: main() returns, retry_boot
\* leaves the bridge serving an empty roster.
NoCameras ==
  /\ proc = "up" /\ boot = "bringUp" /\ matched = {}
  /\ SetPhase("no-cameras")
  /\ IF background THEN boot' = "parked" /\ UNCHANGED proc
                   ELSE proc' = "down" /\ UNCHANGED boot
  /\ UNCHANGED <<cloudVars, background, camera, pollerVars>>

\* local_ip_for raises (no route): main() dies with it, retry_boot's thread
\* ends and the phase stays.
BringUpRaises ==
  /\ proc = "up" /\ boot = "bringUp" /\ upsets < MaxUpsets
  /\ upsets' = upsets + 1
  /\ IF background THEN boot' = "dead" /\ UNCHANGED proc
                   ELSE proc' = "down" /\ UNCHANGED boot
  /\ UNCHANGED <<cloud, matched, background, camera, phase, pollerVars>>

\* bring_up: one boot_one thread per camera that passed the filters.
BringUp ==
  /\ proc = "up" /\ boot = "bringUp"
  /\ matched # {}
  /\ camera' = [c \in Cams |-> IF c \in matched THEN "starting" ELSE "absent"]
  /\ boot' = "join"
  /\ UNCHANGED <<cloudVars, proc, background, phase, pollerVars>>

\* boot_one: the constructor raised, or start() returned (or raised) and the
\* camera is put in `live` whatever came of it.
BootOne(c) ==
  /\ proc = "up" /\ camera[c] = "starting"
  /\ \E stage \in {"skipped", "live"} : camera' = [camera EXCEPT ![c] = stage]
  /\ UNCHANGED <<cloudVars, proc, boot, background, phase, pollerVars>>

\* boot_one: cloud.register(z).
Register(c) ==
  /\ proc = "up" /\ camera[c] = "live"
  /\ camera' = [camera EXCEPT ![c] = "registered"]
  /\ UNCHANGED <<cloudVars, proc, boot, background, phase, pollerVars>>

\* Mutant of Join: the thread does not wait for boot_one.
MutJoinNothing ==
  /\ proc = "up" /\ boot = "join"
  /\ boot' = "startPoller"
  /\ UNCHANGED <<cloudVars, proc, background, camera, phase, pollerVars>>

Join ==
  /\ proc = "up" /\ boot = "join" /\ \A c \in Cams : Returned(c)
  /\ boot' = "startPoller"
  /\ UNCHANGED <<cloudVars, proc, background, camera, phase, pollerVars>>

\* bring_up: cloud.start() ...
StartPoller ==
  /\ proc = "up" /\ boot = "startPoller"
  /\ poller' = "list" /\ boot' = "setReady"
  /\ UNCHANGED <<cloudVars, proc, background, camera, phase, authFailed>>

\* ... and the last thing bring_up does, whatever the first poll has found.
SetReady ==
  /\ proc = "up" /\ boot = "setReady"
  /\ SetPhase("ready") /\ boot' = "done"
  /\ UNCHANGED <<cloudVars, proc, background, camera, pollerVars>>

-----------------------------------------------------------------------------
\* CloudState.poll: the answer, and the latch both ways.
Poll ==
  /\ proc = "up" /\ poller = "list"
  /\ \/ cloud = "up" /\ authFailed' = FALSE
        /\ poller' = IF authFailed THEN "unpark" ELSE "wait"
     \/ cloud = "down" /\ poller' = "wait" /\ UNCHANGED authFailed
     \/ cloud = "rejects" /\ authFailed' = TRUE
        /\ poller' = IF authFailed THEN "wait" ELSE "park"
  /\ UNCHANGED <<cloudVars, bootVars, phase>>

PollParks ==
  /\ proc = "up" /\ poller = "park"
  /\ SetPhase("failed") /\ poller' = "wait"
  /\ UNCHANGED <<cloudVars, bootVars, authFailed>>

\* Mutant of PollUnparks: the latch is undone, the phase is not.
MutPollUnparksSilently ==
  /\ proc = "up" /\ poller = "unpark"
  /\ poller' = "wait"
  /\ UNCHANGED <<cloudVars, bootVars, phase, authFailed>>

PollUnparks ==
  /\ proc = "up" /\ poller = "unpark"
  /\ SetPhase("ready") /\ poller' = "wait"
  /\ UNCHANGED <<cloudVars, bootVars, authFailed>>

PollWaits ==
  /\ proc = "up" /\ poller = "wait"
  /\ poller' = "list"
  /\ UNCHANGED <<cloudVars, bootVars, phase, authFailed>>

-----------------------------------------------------------------------------
CloudChanges ==
  /\ upsets < MaxUpsets /\ upsets' = upsets + 1
  /\ cloud' \in {"up", "down", "rejects"} \ {cloud}
  /\ UNCHANGED <<matched, bootVars, phase, pollerVars>>

Crash ==
  /\ proc = "up" /\ upsets < MaxUpsets /\ upsets' = upsets + 1
  /\ ProcessEnds
  /\ UNCHANGED <<cloud, matched>>

\* Docker, `restart: unless-stopped`.
Restart == proc = "down" /\ Fresh /\ UNCHANGED cloudVars

BootSteps ==
  \/ FirstList \/ RetryList \/ NoCameras \/ BringUp
  \/ (\E c \in Cams : BootOne(c) \/ Register(c))
  \/ Join \/ StartPoller \/ SetReady

PollerSteps == Poll \/ PollParks \/ PollUnparks \/ PollWaits

BridgeNext ==
  \/ BootSteps \/ PollerSteps \/ BringUpRaises
  \/ CloudChanges \/ Crash \/ Restart

=============================================================================
