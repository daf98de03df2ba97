------------------------------ MODULE Handlers -------------------------------
(***************************************************************************)
(* What the command handlers that rewrite a secret or an interface have in *)
(* common (Rotation, Tunnels): axum and the WebSocket client run several   *)
(* of them at a time, each at a place of its own between two calls that    *)
(* change something; a call may fail, and a file that is rewritten is      *)
(* truncated first.                                                        *)
(***************************************************************************)
CONSTANTS
  Handler,      \* commands that may run at the same time
  Faults,       \* what may go wrong, of the faults a component names
  Overlap,      \* FALSE: no two commands on the same thing at a time
  Torn,         \* a file that was truncated and not written to the end
  None          \* nothing: no file, no key, no interface, no answer

ASSUME HandlersAssumption == Overlap \in BOOLEAN /\ Torn # None

VARIABLE pc     \* per handler: its place, "idle" before and after a command

AllIdle == [h \in Handler |-> "idle"]

Fails(what) == what \in Faults

Goto(h, label) == pc' = [pc EXCEPT ![h] = label]

=============================================================================
