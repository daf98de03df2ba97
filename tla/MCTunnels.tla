----------------------------- MODULE MCTunnels ------------------------------
(***************************************************************************)
(* Two tunnels with two sets of parameters each.  Tunnel ids are UUIDv7:   *)
(* two of them made within a minute start with the same eight characters.  *)
(***************************************************************************)
EXTENDS Tunnels, TLC

CONSTANTS h1, h2, h3, t1, t2, a, b, i1, i2, p1

Apart == t1 :> i1 @@ t2 :> i2
Alike == t1 :> i1 @@ t2 :> i1

=============================================================================
