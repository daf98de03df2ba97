--------------------------- MODULE MCCommandAuth ---------------------------
(***************************************************************************)
(* A small instance: two handlers and three genuine envelopes, of which    *)
(* one is a heartbeat_ack, and one envelope that fails verification.       *)
(* Skew 1, Stall 1 and Retention 3 keep the relation 2*Skew+Stall <=       *)
(* Retention tight, so that any shorter retention or longer window breaks  *)
(* it, and MaxTime lets a row expire while its envelope is redelivered.    *)
(***************************************************************************)
EXTENDS CommandAuth, FiniteSets, TLC

CONSTANTS h1, h2, early, late, ack, forged

MCHandler == {h1, h2}
HandlerSymmetry == Permutations(MCHandler)
MCEnvelope == {early, late, ack, forged}
MCGenuine == {early, late, ack}
MCAck == {ack}
MCStamp == early :> 1 @@ late :> 2 @@ ack :> 0 @@ forged :> 1

=============================================================================
