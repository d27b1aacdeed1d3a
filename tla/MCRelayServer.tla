--------------------------- MODULE MCRelayServer ---------------------------
(***************************************************************************)
(* RelayServer with a camera that reconnects once, one reader, and one     *)
(* packet more than the ring holds.                                        *)
(***************************************************************************)
EXTENDS RelayServer

=============================================================================
