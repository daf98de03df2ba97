------------------------------ MODULE MCNginx ------------------------------
(***************************************************************************)
(* Two commands next to the watchdog, one image besides the watchdog's     *)
(* own, and two configurations, of which either may replace the other.     *)
(***************************************************************************)
EXTENDS Nginx, TLC

CONSTANTS h1, h2, i1, c1, c2

=============================================================================
