----------------------------- MODULE MCNftables -----------------------------
(***************************************************************************)
(* Instances of the firewall: two chains, two bodies and two ports, so     *)
(* that a command can disturb the chain or the port of another one.  The   *)
(* run with faults keeps one port.                                         *)
(***************************************************************************)
EXTENDS Nftables, TLC

CONSTANTS h1, h2, global, local, b0, b1

MCChain == {global, local}
MCBody == {b0, b1}
MCPort == {51820, 51821}
OnePort == {51820}

=============================================================================
