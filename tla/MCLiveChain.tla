---------------------------- MODULE MCLiveChain ----------------------------
(***************************************************************************)
(* LiveChain on small instances: one connection at a time, one HTTP        *)
(* thread, the worker, one or two viewer pairs.                            *)
(***************************************************************************)
EXTENDS LiveChain

\* Bound of ChainFloor: the viewer moves once or the camera stops once.
OneUpset == moves + stops <= 1

=============================================================================
