---------------------------- MODULE MCContainers ----------------------------
(***************************************************************************)
(* Two tenants, two projects of one of them and two handlers, so that      *)
(* commands run next to one another and a range half assigned meets        *)
(* another one, and two compose files, so that a deployment can replace    *)
(* another.  Handlers are alike, and so are compose files.                 *)
(***************************************************************************)
EXTENDS Containers, TLC

CONSTANTS h1, h2, t1, t2, p1, p2, c1, c2

MCHandler == {h1, h2}
MCTenant == {t1, t2}
MCProject == {p1, p2}
MCOwnerOf == p1 :> t1 @@ p2 :> t1
MCCompose == {c1, c2}
MCSymmetry ==
  Permutations(MCHandler) \cup Permutations(MCCompose) \cup Permutations(MCProject)

=============================================================================
