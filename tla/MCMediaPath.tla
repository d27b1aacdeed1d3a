---------------------------- MODULE MCMediaPath ----------------------------
(***************************************************************************)
(* MediaPath for TLC: two frames of three packets each, one viewer, and a  *)
(* timestamp range that every run of frames can wrap in.                   *)
(***************************************************************************)
EXTENDS MediaPath

=============================================================================
