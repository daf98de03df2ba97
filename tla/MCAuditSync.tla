---------------------------- MODULE MCAuditSync ----------------------------
(***************************************************************************)
(* Three rows and batches of two: the log does not fit one batch, and a    *)
(* row can be added while another is under way.                            *)
(***************************************************************************)
EXTENDS AuditSync, TLC

CONSTANTS a1, a2, e1, e2, e3

MCEntry == {e1, e2, e3}
MCResultOf == [e \in MCEntry |-> "success"]

MCSymmetry == Permutations(MCEntry)

=============================================================================
