--------------------------- MODULE MCPunchTarget ---------------------------
(***************************************************************************)
(* PunchTarget for TLC: one pair, two ports to bind, a camera counter that *)
(* stops at two, and one failure at any moment.                            *)
(***************************************************************************)
EXTENDS PunchTarget

=============================================================================
