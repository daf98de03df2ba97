---------------------------- MODULE MCSelfUpdate ----------------------------
(***************************************************************************)
(* Four releases: two that come up, the newest, which runs and does not    *)
(* answer, and a later one, not yet the newest on GitHub, that ends during *)
(* its start.                                                              *)
(***************************************************************************)
EXTENDS SelfUpdate, TLC

CONSTANTS u1, u2

MCVersion == 1 .. 4
MCStays == {1, 2, 3}
MCHealthy == {1, 2}

=============================================================================
