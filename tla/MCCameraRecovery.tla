-------------------------- MODULE MCCameraRecovery --------------------------
(***************************************************************************)
(* CameraRecovery on a scaled clock: one unit for the streaming window, two *)
(* for the dead threshold, backoffs of 2 and 3, two failures to the relay. *)
(* The scaling keeps the order of the code's values and at least one unit   *)
(* between any two that the code compares.                                  *)
(***************************************************************************)
EXTENDS CameraRecovery

=============================================================================
