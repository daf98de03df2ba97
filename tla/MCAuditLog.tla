----------------------------- MODULE MCAuditLog -----------------------------
(***************************************************************************)
(* Entries of the audit log for model checking: one of them records a      *)
(* rate-limited command, the only result the CHECK constraint refuses.     *)
(***************************************************************************)
EXTENDS AuditLog, TLC

CONSTANTS a1, a2, e1, e2, e3, e4

MCEntry == {e1, e2, e3, e4}
MCResultOf ==
  e1 :> "success" @@ e2 :> "failed" @@ e3 :> "rejected_rate_limit"
    @@ e4 :> "success"

MCSymmetry == Permutations({a1, a2})

=============================================================================
