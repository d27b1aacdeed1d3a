----------------------------- MODULE MCWatchdog -----------------------------
(***************************************************************************)
(* Watchdog for TLC: the bridge, one or two cameras and their streams.     *)
(***************************************************************************)
EXTENDS Watchdog

=============================================================================
