--------------------------- MODULE MCCameraLinks ---------------------------
(***************************************************************************)
(* CameraLinks with two connections of the camera, so that an old one and  *)
(* its replacement overlap, and one thread besides their handlers.         *)
(***************************************************************************)
EXTENDS CameraLinks

=============================================================================
