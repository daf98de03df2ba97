------------------------- MODULE MCCommandPipeline -------------------------
(***************************************************************************)
(* A request of POST /cmd next to the WebSocket session.                   *)
(***************************************************************************)
EXTENDS CommandPipeline, TLC

CONSTANT r1

=============================================================================
