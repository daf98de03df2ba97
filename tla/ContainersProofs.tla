--------------------------- MODULE ContainersProofs ---------------------------
(***************************************************************************)
(* Proofs about module Containers, for any number of tenants, projects,    *)
(* compose files and handlers, with every failure the module has.  All but *)
(* the types assumes that two commands on one project, and two             *)
(* tenant.ensure, do not run at the same time; nothing in the agent keeps  *)
(* them apart.                                                             *)
(***************************************************************************)
EXTENDS Containers, TLAPS

Ensuring(h) == pc[h] \in {"range", "subuids", "subgids"}
OnProject(h) == pc[h] \in {"up", "insert", "update"}

(* Commands are kept apart, and run only while the agent serves them.      *)
ApartInv ==
  /\ \A g, h \in Handler : Ensuring(g) /\ Ensuring(h) => g = h
  /\ \A g, h \in Handler : OnProject(g) /\ OnProject(h) /\ on[g] = on[h] => g = h
  /\ agent # "up" => \A h \in Handler : pc[h] = "idle"
  /\ agent # "recovering" => todo = {}

(* A range that is about to be assigned starts where ranges may.           *)
FoundInv ==
  \A h \in Handler : pc[h] \in {"subuids", "subgids"} => IsStart(start[h])

(* A range that is about to be assigned starts after those of the others.  *)
Above(n, ids, t) == \A u \in Tenant \ {t} : ids[u] # 0 => ids[u] + Count <= n

RangeInv ==
  \A h \in Handler :
    pc[h] \in {"subuids", "subgids"} =>
      /\ IsStart(start[h])
      /\ Above(start[h], subuid, on[h]) /\ Above(start[h], subgid, on[h])

(* Where a command on a project stands; without a file nothing was made.   *)
CommandInv ==
  /\ \A h \in Handler :
       /\ OnProject(h) => answer[on[h]] = None
       /\ pc[h] \in {"up", "insert"} =>
            want[h] \in Compose /\ file[on[h]] = want[h]
       /\ pc[h] = "insert" => actual[on[h]] = "up" /\ made[on[h]] = want[h]
       /\ pc[h] = "update" => actual[on[h]] = "absent"
  /\ \A p \in Project : file[p] = None => actual[p] = "absent"

(* What an answer has left behind, also while the agent is down.           *)
AnswerInv ==
  \A p \in Project :
    /\ answer[p] \in Compose =>
         /\ actual[p] # "absent" /\ made[p] = answer[p]
         /\ p \in unrecovered \/ p \in todo \/ agent = "down" \/ actual[p] = "up"
    /\ answer[p] = "down" => actual[p] = "absent"
    /\ p \in todo => desired[p] = "running"

ContainersInv ==
  /\ TypeOK /\ ApartInv
  /\ RangeInv /\ RangesDisjoint
  /\ CommandInv /\ AnswerInv /\ AnswerIsDesired

(* Every step keeps the types, whatever fails and overlaps.                *)
LEMMA TypeStep ==
  ASSUME TypeOK, FoundInv, [Next]_vars
  PROVE  TypeOK'
<1> USE ContainersAssumption DEF TypeOK, hostVars, projectVars, handlerVars
<1>1. ASSUME NEW h \in Handler, NEW t \in Tenant, CreateUser(h, t)
      PROVE  TypeOK'
  BY <1>1 DEF CreateUser, Take
<1>2. ASSUME NEW h \in Handler, FindRange(h)
      PROVE  TypeOK'
  BY <1>2 DEF FindRange, Goto, Ends
<1>3. ASSUME NEW h \in Handler, AddSubuids(h)
      PROVE  TypeOK'
  BY <1>3 DEF AddSubuids, Goto, FoundInv, IsStart
<1>4. ASSUME NEW h \in Handler, AddSubgids(h)
      PROVE  TypeOK'
  BY <1>4 DEF AddSubgids, Return, FoundInv, IsStart
<1>5. ASSUME NEW h \in Handler, UsermodFails(h)
      PROVE  TypeOK'
  BY <1>5 DEF UsermodFails, Return
<1>6. ASSUME NEW h \in Handler, NEW p \in Project, NEW c \in Compose,
             BeginDeploy(h, p, c)
      PROVE  TypeOK'
  BY <1>6 DEF BeginDeploy, Take, Promises
<1>7. ASSUME NEW h \in Handler, NEW p \in Project, ComposeDown(h, p)
      PROVE  TypeOK'
  BY <1>7 DEF ComposeDown, Take, Promises
<1>8. ASSUME NEW h \in Handler, ComposeUp(h)
      PROVE  TypeOK'
  BY <1>8 DEF ComposeUp, Goto, Return
<1>9. ASSUME NEW h \in Handler, InsertRow(h)
      PROVE  TypeOK'
  BY <1>9 DEF InsertRow, Inserted, Promises, Return
<1>10. ASSUME NEW h \in Handler, UpdateRow(h)
       PROVE  TypeOK'
  BY <1>10 DEF UpdateRow, Updated, Promises, Return
<1>11. ASSUME NEW h \in Handler, StatementBroken(h)
       PROVE  TypeOK'
  BY <1>11 DEF StatementBroken, Inserted, Updated, Return
<1>12. ASSUME NEW p \in Project, ComposeDownFails(p)
       PROVE  TypeOK'
  BY <1>12 DEF ComposeDownFails, Promises
<1>13. ASSUME NEW p \in Project, WriteFails(p)
       PROVE  TypeOK'
  BY <1>13 DEF WriteFails, Promises
<1>14. ASSUME NEW p \in Project, ContainerCommand(p)
       PROVE  TypeOK'
  BY <1>14 DEF ContainerCommand, Promises
<1>15. ASSUME NEW p \in Project, Recover(p)
       PROVE  TypeOK'
  BY <1>15 DEF Recover
<1>16. CASE Die
  BY <1>16 DEF Die
<1>17. CASE Start
  BY <1>17 DEF Start
<1>18. CASE Serve
  BY <1>18 DEF Serve
<1>19. CASE UNCHANGED vars
  BY <1>19 DEF vars
<1> QED
  BY <1>1, <1>2, <1>3, <1>4, <1>5, <1>6, <1>7, <1>8, <1>9, <1>10, <1>11,
     <1>12, <1>13, <1>14, <1>15, <1>16, <1>17, <1>18, <1>19 DEF Next

(* FindRange finds the largest end of a range there is.                    *)
LEMMA FoundStep ==
  ASSUME TypeOK, FoundInv, [Next]_vars
  PROVE  FoundInv'
<1> USE ContainersAssumption DEF TypeOK, FoundInv
<1>1. ASSUME NEW h \in Handler, FindRange(h)
      PROVE  FoundInv'
  BY <1>1 DEF FindRange, Goto, Ends, IsNextStart, IsStart
<1>2. ASSUME NEW h \in Handler, AddSubuids(h)
      PROVE  FoundInv'
  BY <1>2 DEF AddSubuids, Goto
<1>3. ASSUME NEW h \in Handler, AddSubgids(h) \/ UsermodFails(h)
      PROVE  FoundInv'
  BY <1>3 DEF AddSubgids, UsermodFails, Return
<1>4. ASSUME NEW h \in Handler,
             \/ \E t \in Tenant : CreateUser(h, t)
             \/ \E p \in Project, c \in Compose : BeginDeploy(h, p, c)
             \/ \E p \in Project : ComposeDown(h, p)
      PROVE  FoundInv'
  BY <1>4 DEF CreateUser, BeginDeploy, ComposeDown, Take
<1>5. ASSUME NEW h \in Handler,
             ComposeUp(h) \/ InsertRow(h) \/ UpdateRow(h) \/ StatementBroken(h)
      PROVE  FoundInv'
  BY <1>5 DEF ComposeUp, InsertRow, UpdateRow, StatementBroken, Goto, Return
<1>6. ASSUME NEW p \in Project,
             WriteFails(p) \/ ComposeDownFails(p) \/ ContainerCommand(p) \/ Recover(p)
      PROVE  FoundInv'
  BY <1>6 DEF WriteFails, ComposeDownFails, ContainerCommand, Recover, handlerVars
<1>7. CASE Die \/ Start \/ Serve \/ UNCHANGED vars
  BY <1>7 DEF Die, Start, Serve, vars, handlerVars
<1> QED
  BY <1>1, <1>2, <1>3, <1>4, <1>5, <1>6, <1>7 DEF Next

(* Every step keeps the commands under way apart.                          *)
LEMMA ApartStep ==
  ASSUME ~ Overlap, TypeOK, ApartInv, [Next]_vars
  PROVE  ApartInv'
<1> USE ContainersAssumption
    DEF TypeOK, ApartInv, Ensuring, OnProject, hostVars, projectVars, handlerVars
<1>1. ASSUME NEW h \in Handler, NEW t \in Tenant, CreateUser(h, t)
      PROVE  ApartInv'
  BY <1>1 DEF CreateUser, Take, Conflicts
<1>2. ASSUME NEW h \in Handler, FindRange(h)
      PROVE  ApartInv'
  BY <1>2 DEF FindRange, Goto, Ends
<1>3. ASSUME NEW h \in Handler, AddSubuids(h)
      PROVE  ApartInv'
  BY <1>3 DEF AddSubuids, Goto
<1>4. ASSUME NEW h \in Handler, AddSubgids(h)
      PROVE  ApartInv'
  BY <1>4 DEF AddSubgids, Return
<1>5. ASSUME NEW h \in Handler, UsermodFails(h)
      PROVE  ApartInv'
  BY <1>5 DEF UsermodFails, Return
<1>6. ASSUME NEW h \in Handler, NEW p \in Project, NEW c \in Compose,
             BeginDeploy(h, p, c)
      PROVE  ApartInv'
  BY <1>6 DEF BeginDeploy, Take, Conflicts, Promises
<1>7. ASSUME NEW h \in Handler, NEW p \in Project, ComposeDown(h, p)
      PROVE  ApartInv'
  BY <1>7 DEF ComposeDown, Take, Conflicts, Promises
<1>8. ASSUME NEW h \in Handler, ComposeUp(h)
      PROVE  ApartInv'
  BY <1>8 DEF ComposeUp, Goto, Return
<1>9. ASSUME NEW h \in Handler, InsertRow(h)
      PROVE  ApartInv'
  BY <1>9 DEF InsertRow, Inserted, Promises, Return
<1>10. ASSUME NEW h \in Handler, UpdateRow(h)
       PROVE  ApartInv'
  BY <1>10 DEF UpdateRow, Updated, Promises, Return
<1>11. ASSUME NEW h \in Handler, StatementBroken(h)
       PROVE  ApartInv'
  BY <1>11 DEF StatementBroken, Inserted, Updated, Return
<1>12. ASSUME NEW p \in Project, ComposeDownFails(p)
       PROVE  ApartInv'
  BY <1>12 DEF ComposeDownFails, Undisturbed, Promises
<1>13. ASSUME NEW p \in Project, WriteFails(p)
       PROVE  ApartInv'
  BY <1>13 DEF WriteFails, Undisturbed, Promises
<1>14. ASSUME NEW p \in Project, ContainerCommand(p)
       PROVE  ApartInv'
  BY <1>14 DEF ContainerCommand, Undisturbed, Promises
<1>15. ASSUME NEW p \in Project, Recover(p)
       PROVE  ApartInv'
  BY <1>15 DEF Recover
<1>16. CASE Die
  BY <1>16 DEF Die
<1>17. CASE Start
  BY <1>17 DEF Start
<1>18. CASE Serve
  BY <1>18 DEF Serve
<1>19. CASE UNCHANGED vars
  BY <1>19 DEF vars
<1> QED
  BY <1>1, <1>2, <1>3, <1>4, <1>5, <1>6, <1>7, <1>8, <1>9, <1>10, <1>11,
     <1>12, <1>13, <1>14, <1>15, <1>16, <1>17, <1>18, <1>19 DEF Next

(* Every step keeps a found range above those of the other tenants.        *)
LEMMA RangeStep ==
  ASSUME TypeOK, ApartInv, RangeInv, [Next]_vars
  PROVE  RangeInv'
<1> USE ContainersAssumption
    DEF TypeOK, ApartInv, RangeInv, Ensuring, Above, IsStart,
        hostVars, projectVars, handlerVars
<1>1. ASSUME NEW h \in Handler, NEW t \in Tenant, CreateUser(h, t)
      PROVE  RangeInv'
  BY <1>1 DEF CreateUser, Take, Conflicts
<1>2. ASSUME NEW h \in Handler, FindRange(h)
      PROVE  RangeInv'
  BY <1>2 DEF FindRange, Goto, Ends, IsNextStart
<1>3. ASSUME NEW h \in Handler, AddSubuids(h)
      PROVE  RangeInv'
  BY <1>3 DEF AddSubuids, Goto
<1>4. ASSUME NEW h \in Handler, AddSubgids(h)
      PROVE  RangeInv'
  BY <1>4 DEF AddSubgids, Return
<1>5. ASSUME NEW h \in Handler, UsermodFails(h)
      PROVE  RangeInv'
  BY <1>5 DEF UsermodFails, Return
<1>6. ASSUME NEW h \in Handler, NEW p \in Project, NEW c \in Compose,
             BeginDeploy(h, p, c)
      PROVE  RangeInv'
  BY <1>6 DEF BeginDeploy, Take, Conflicts, Promises
<1>7. ASSUME NEW h \in Handler, NEW p \in Project, ComposeDown(h, p)
      PROVE  RangeInv'
  BY <1>7 DEF ComposeDown, Take, Conflicts, Promises
<1>8. ASSUME NEW h \in Handler, ComposeUp(h)
      PROVE  RangeInv'
  BY <1>8 DEF ComposeUp, Goto, Return
<1>9. ASSUME NEW h \in Handler, InsertRow(h)
      PROVE  RangeInv'
  BY <1>9 DEF InsertRow, Inserted, Promises, Return
<1>10. ASSUME NEW h \in Handler, UpdateRow(h)
       PROVE  RangeInv'
  BY <1>10 DEF UpdateRow, Updated, Promises, Return
<1>11. ASSUME NEW h \in Handler, StatementBroken(h)
       PROVE  RangeInv'
  BY <1>11 DEF StatementBroken, Inserted, Updated, Return
<1>12. ASSUME NEW p \in Project, ComposeDownFails(p)
       PROVE  RangeInv'
  BY <1>12 DEF ComposeDownFails, Undisturbed, Promises
<1>13. ASSUME NEW p \in Project, WriteFails(p)
       PROVE  RangeInv'
  BY <1>13 DEF WriteFails, Undisturbed, Promises
<1>14. ASSUME NEW p \in Project, ContainerCommand(p)
       PROVE  RangeInv'
  BY <1>14 DEF ContainerCommand, Undisturbed, Promises
<1>15. ASSUME NEW p \in Project, Recover(p)
       PROVE  RangeInv'
  BY <1>15 DEF Recover
<1>16. CASE Die
  BY <1>16 DEF Die
<1>17. CASE Start
  BY <1>17 DEF Start
<1>18. CASE Serve
  BY <1>18 DEF Serve
<1>19. CASE UNCHANGED vars
  BY <1>19 DEF vars
<1> QED
  BY <1>1, <1>2, <1>3, <1>4, <1>5, <1>6, <1>7, <1>8, <1>9, <1>10, <1>11,
     <1>12, <1>13, <1>14, <1>15, <1>16, <1>17, <1>18, <1>19 DEF Next

(* Every step keeps what a command under way has already changed.          *)
LEMMA CommandStep ==
  ASSUME ~ Overlap, TypeOK, ApartInv, CommandInv, [Next]_vars
  PROVE  CommandInv'
<1> USE ContainersAssumption
    DEF TypeOK, ApartInv, CommandInv, OnProject, hostVars, projectVars, handlerVars
<1>1. ASSUME NEW h \in Handler, NEW t \in Tenant, CreateUser(h, t)
      PROVE  CommandInv'
  BY <1>1 DEF CreateUser, Take, Conflicts
<1>2. ASSUME NEW h \in Handler, FindRange(h)
      PROVE  CommandInv'
  BY <1>2 DEF FindRange, Goto, Ends
<1>3. ASSUME NEW h \in Handler, AddSubuids(h)
      PROVE  CommandInv'
  BY <1>3 DEF AddSubuids, Goto
<1>4. ASSUME NEW h \in Handler, AddSubgids(h)
      PROVE  CommandInv'
  BY <1>4 DEF AddSubgids, Return
<1>5. ASSUME NEW h \in Handler, UsermodFails(h)
      PROVE  CommandInv'
  BY <1>5 DEF UsermodFails, Return
<1>6. ASSUME NEW h \in Handler, NEW p \in Project, NEW c \in Compose,
             BeginDeploy(h, p, c)
      PROVE  CommandInv'
  BY <1>6 DEF BeginDeploy, Take, Conflicts, Promises
<1>7. ASSUME NEW h \in Handler, NEW p \in Project, ComposeDown(h, p)
      PROVE  CommandInv'
  BY <1>7 DEF ComposeDown, Take, Conflicts, Promises
<1>8. ASSUME NEW h \in Handler, ComposeUp(h)
      PROVE  CommandInv'
  BY <1>8 DEF ComposeUp, Goto, Return
<1>9. ASSUME NEW h \in Handler, InsertRow(h)
      PROVE  CommandInv'
  BY <1>9 DEF InsertRow, Inserted, Promises, Return
<1>10. ASSUME NEW h \in Handler, UpdateRow(h)
       PROVE  CommandInv'
  BY <1>10 DEF UpdateRow, Updated, Promises, Return
<1>11. ASSUME NEW h \in Handler, StatementBroken(h)
       PROVE  CommandInv'
  BY <1>11 DEF StatementBroken, Inserted, Updated, Return
<1>12. ASSUME NEW p \in Project, ComposeDownFails(p)
       PROVE  CommandInv'
  BY <1>12 DEF ComposeDownFails, Undisturbed, Promises
<1>13. ASSUME NEW p \in Project, WriteFails(p)
       PROVE  CommandInv'
  BY <1>13 DEF WriteFails, Undisturbed, Promises
<1>14. ASSUME NEW p \in Project, ContainerCommand(p)
       PROVE  CommandInv'
  BY <1>14 DEF ContainerCommand, Undisturbed, Promises
<1>15. ASSUME NEW p \in Project, Recover(p)
       PROVE  CommandInv'
  BY <1>15 DEF Recover
<1>16. CASE Die
  BY <1>16 DEF Die
<1>17. CASE Start
  BY <1>17 DEF Start
<1>18. CASE Serve
  BY <1>18 DEF Serve
<1>19. CASE UNCHANGED vars
  BY <1>19 DEF vars
<1> QED
  BY <1>1, <1>2, <1>3, <1>4, <1>5, <1>6, <1>7, <1>8, <1>9, <1>10, <1>11,
     <1>12, <1>13, <1>14, <1>15, <1>16, <1>17, <1>18, <1>19 DEF Next

(* Every step keeps what was answered in force.                            *)
LEMMA AnswerStep ==
  ASSUME ~ Overlap, TypeOK, ApartInv, CommandInv, AnswerInv,
         AnswerIsDesired, [Next]_vars
  PROVE  (AnswerInv /\ AnswerIsDesired)'
<1> USE ContainersAssumption
    DEF TypeOK, ApartInv, CommandInv, OnProject, AnswerInv, AnswerIsDesired,
        hostVars, projectVars, handlerVars
<1>1. ASSUME NEW h \in Handler, NEW t \in Tenant, CreateUser(h, t)
      PROVE  (AnswerInv /\ AnswerIsDesired)'
  BY <1>1 DEF CreateUser, Take, Conflicts
<1>2. ASSUME NEW h \in Handler, FindRange(h)
      PROVE  (AnswerInv /\ AnswerIsDesired)'
  BY <1>2 DEF FindRange, Goto, Ends
<1>3. ASSUME NEW h \in Handler, AddSubuids(h)
      PROVE  (AnswerInv /\ AnswerIsDesired)'
  BY <1>3 DEF AddSubuids, Goto
<1>4. ASSUME NEW h \in Handler, AddSubgids(h)
      PROVE  (AnswerInv /\ AnswerIsDesired)'
  BY <1>4 DEF AddSubgids, Return
<1>5. ASSUME NEW h \in Handler, UsermodFails(h)
      PROVE  (AnswerInv /\ AnswerIsDesired)'
  BY <1>5 DEF UsermodFails, Return
<1>6. ASSUME NEW h \in Handler, NEW p \in Project, NEW c \in Compose,
             BeginDeploy(h, p, c)
      PROVE  (AnswerInv /\ AnswerIsDesired)'
  BY <1>6 DEF BeginDeploy, Take, Conflicts, Promises
<1>7. ASSUME NEW h \in Handler, NEW p \in Project, ComposeDown(h, p)
      PROVE  (AnswerInv /\ AnswerIsDesired)'
  BY <1>7 DEF ComposeDown, Take, Conflicts, Promises
<1>8. ASSUME NEW h \in Handler, ComposeUp(h)
      PROVE  (AnswerInv /\ AnswerIsDesired)'
  BY <1>8 DEF ComposeUp, Goto, Return
<1>9. ASSUME NEW h \in Handler, InsertRow(h)
      PROVE  (AnswerInv /\ AnswerIsDesired)'
  BY <1>9 DEF InsertRow, Inserted, Promises, Return
<1>10. ASSUME NEW h \in Handler, UpdateRow(h)
       PROVE  (AnswerInv /\ AnswerIsDesired)'
  BY <1>10 DEF UpdateRow, Updated, Promises, Return
<1>11. ASSUME NEW h \in Handler, StatementBroken(h)
       PROVE  (AnswerInv /\ AnswerIsDesired)'
  BY <1>11 DEF StatementBroken, Inserted, Updated, Return
<1>12. ASSUME NEW p \in Project, ComposeDownFails(p)
       PROVE  (AnswerInv /\ AnswerIsDesired)'
  BY <1>12 DEF ComposeDownFails, Undisturbed, Promises
<1>13. ASSUME NEW p \in Project, WriteFails(p)
       PROVE  (AnswerInv /\ AnswerIsDesired)'
  BY <1>13 DEF WriteFails, Undisturbed, Promises
<1>14. ASSUME NEW p \in Project, ContainerCommand(p)
       PROVE  (AnswerInv /\ AnswerIsDesired)'
  BY <1>14 DEF ContainerCommand, Undisturbed, Promises
<1>15. ASSUME NEW p \in Project, Recover(p)
       PROVE  (AnswerInv /\ AnswerIsDesired)'
  BY <1>15 DEF Recover
<1>16. CASE Die
  BY <1>16 DEF Die
<1>17. CASE Start
  BY <1>17 DEF Start
<1>18. CASE Serve
  BY <1>18 DEF Serve
<1>19. CASE UNCHANGED vars
  BY <1>19 DEF vars
<1> QED
  BY <1>1, <1>2, <1>3, <1>4, <1>5, <1>6, <1>7, <1>8, <1>9, <1>10, <1>11,
     <1>12, <1>13, <1>14, <1>15, <1>16, <1>17, <1>18, <1>19 DEF Next

(* Every step keeps the ranges of the tenants disjoint.                    *)
LEMMA DisjointStep ==
  ASSUME TypeOK, RangeInv, RangesDisjoint, [Next]_vars
  PROVE  RangesDisjoint'
<1> USE ContainersAssumption
    DEF TypeOK, RangeInv, RangesDisjoint, Apart, Above, IsStart
<1>1. ASSUME NEW h \in Handler, AddSubuids(h)
      PROVE  RangesDisjoint'
  BY <1>1 DEF AddSubuids
<1>2. ASSUME NEW h \in Handler, AddSubgids(h)
      PROVE  RangesDisjoint'
  BY <1>2 DEF AddSubgids
<1>3. CASE UNCHANGED <<subuid, subgid>>
  BY <1>3
<1> QED
  BY <1>1, <1>2, <1>3
     DEF Next, vars, hostVars, handlerVars, CreateUser, FindRange, UsermodFails, BeginDeploy,
         ComposeDown, ComposeUp, InsertRow, UpdateRow, StatementBroken,
         WriteFails, ComposeDownFails, ContainerCommand, Recover, Die, Start, Serve

(* All invariants of tenants and deployments together.                     *)
THEOREM ContainersInvariance ==
  ASSUME ~ Overlap
  PROVE  Spec => []ContainersInv
<1>1. Init => ContainersInv
  BY ContainersAssumption
     DEF Init, ContainersInv, TypeOK, ApartInv, Ensuring, OnProject, RangeInv,
         RangesDisjoint, Apart, CommandInv, AnswerInv, AnswerIsDesired
<1>2. ContainersInv /\ [Next]_vars => ContainersInv'
  BY TypeStep, ApartStep, RangeStep, DisjointStep, CommandStep, AnswerStep
     DEF ContainersInv, FoundInv, RangeInv
<1> QED
  BY <1>1, <1>2, PTL DEF Spec

(* Every reachable state has the declared types, also when commands on one *)
(* project or two tenant.ensure overlap.                                   *)
THEOREM ContainersTypes ==
  Spec => []TypeOK
<1>1. Init => TypeOK /\ FoundInv
  BY ContainersAssumption DEF Init, TypeOK, FoundInv
<1>2. TypeOK /\ FoundInv /\ [Next]_vars => (TypeOK /\ FoundInv)'
  BY TypeStep, FoundStep
<1> QED
  BY <1>1, <1>2, PTL DEF Spec

(* No two tenants share a subordinate id, whichever call of usermod fails. *)
THEOREM TenantsApart ==
  ASSUME ~ Overlap
  PROVE  Spec => []RangesDisjoint
<1>1. ContainersInv => RangesDisjoint
  BY DEF ContainersInv
<1> QED
  BY <1>1, ContainersInvariance, PTL

(* The table says what the last answered command on a project promised.    *)
THEOREM DesiredAsAnswered ==
  ASSUME ~ Overlap
  PROVE  Spec => []AnswerIsDesired
<1>1. ContainersInv => AnswerIsDesired
  BY DEF ContainersInv
<1> QED
  BY <1>1, ContainersInvariance, PTL

(* And so do the containers, through crashes and recoveries.               *)
THEOREM RunningAsAnswered ==
  ASSUME ~ Overlap
  PROVE  Spec => []AnswerIsActual
<1>1. ContainersInv => AnswerIsActual
  BY DEF ContainersInv, ApartInv, AnswerInv, AnswerIsActual
<1> QED
  BY <1>1, ContainersInvariance, PTL

=============================================================================
