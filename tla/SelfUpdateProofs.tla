-------------------------- MODULE SelfUpdateProofs --------------------------
(***************************************************************************)
(* Proofs about self-update, for any releases: one update at a time, with  *)
(* the health check in plain HTTP as the guard makes it and no release     *)
(* before the newest a bad one, leaves a whole binary and a way back from  *)
(* a release that does not answer and from one that does not even start.   *)
(* The types need none of the three.                                       *)
(***************************************************************************)
EXTENDS SelfUpdate, TLAPS

Idle == \A u \in Updater : pc[u] = "idle"

(* The updates under way: there is one at most, it owns .new and it has    *)
(* started from a healthy binary.                                          *)
UpdateInv ==
  \A u \in Updater : pc[u] # "idle" =>
    /\ \A w \in Updater : pc[w] # "idle" => w = u
    /\ guard # "off" /\ running \in Healthy
    /\ pc[u] # "exit" => target = running
    /\ pc[u] = "exit" => prev \in Healthy
    /\ pc[u] = "writing" => writes[u] = "new"
    /\ pc[u] \in {"copy", "copying", "rename"} => new = version[u]
    /\ pc[u] = "rename" => prev \in Healthy

(* The guard has judged the process by its health, and the binary in place *)
(* is the one that runs or, once restored, the one that ran before.        *)
GuardInv ==
  /\ ~ Up => guard = "off"
  /\ guard = "passed" => running \in Healthy
  /\ guard \in {"failed", "marking"} => running \notin Healthy
  /\ Up /\ Idle /\ guard # "marking" => target = running

(* A binary that does not come up is never in place without a way back.    *)
WayBack == target \notin Healthy => prev \in Healthy

UInv ==
  /\ TypeOK /\ TargetIsWhole /\ RollbackExists
  /\ UpdateInv /\ GuardInv /\ WayBack

(* Every step keeps the files, the updates and the guard consistent.       *)
LEMMA UStep ==
  ASSUME ~ Overlap, ~ Tls, OlderAreHealthy, UInv, [Next]_vars
  PROVE  UInv'
<1> USE UpdateAssumption DEF UInv, TypeOK, TargetIsWhole, RollbackExists,
        UpdateInv, GuardInv, WayBack, Up, Idle, files, tasks, Content
<1>1. CASE Start
  BY <1>1 DEF Start
<1>2. CASE Crash \/ StartFails
  BY <1>2 DEF Crash, StartFails, Die
<1>3. CASE Contact
  BY <1>3 DEF Contact
<1>4. CASE SixHoursPass
  BY <1>4 DEF SixHoursPass
<1>5. ASSUME NEW u \in Updater, NEW v \in Version, Begin(u, v),
             running \in Healthy
      PROVE  UInv'
  BY <1>5 DEF Begin
<1>6. CASE SpawnGuard
  BY <1>6 DEF SpawnGuard
<1>7. ASSUME NEW u \in Updater, FallbackUpdate(u)
       PROVE  UInv'
  <2>1. running \in Version /\ Latest > running
    BY <1>7 DEF FallbackUpdate
  <2>2. running \in Healthy
    BY <2>1 DEF OlderAreHealthy
  <2> QED
    BY <1>5, <1>7, <2>2 DEF FallbackUpdate
<1>8. ASSUME NEW u \in Updater, DashboardUpdate(u)
       PROVE  UInv'
  BY <1>5, <1>8 DEF DashboardUpdate
<1>9. ASSUME NEW u \in Updater, OpenNew(u)
      PROVE  UInv'
  BY <1>9 DEF OpenNew
<1>10. ASSUME NEW u \in Updater, CloseNew(u)
       PROVE  UInv'
  BY <1>10 DEF CloseNew, Written
<1>11. ASSUME NEW u \in Updater, OpenPrev(u)
       PROVE  UInv'
  BY <1>11 DEF OpenPrev
<1>12. ASSUME NEW u \in Updater, ClosePrev(u)
       PROVE  UInv'
  BY <1>12 DEF ClosePrev
<1>13. ASSUME NEW u \in Updater, Rename(u)
       PROVE  UInv'
  BY <1>13 DEF Rename
<1>14. ASSUME NEW u \in Updater, UpdateFails(u)
       PROVE  UInv'
  BY <1>14 DEF UpdateFails
<1>15. ASSUME NEW u \in Updater, Exit(u)
       PROVE  UInv'
  BY <1>15 DEF Exit, Die
<1>16. CASE GuardPasses
  BY <1>16 DEF GuardPasses, Answers
<1>17. CASE GuardTimesOut
  BY <1>17 DEF GuardTimesOut, Answers
<1>18. CASE RestorePrev
  BY <1>18 DEF RestorePrev
<1>19. CASE GuardExits
  BY <1>19 DEF GuardExits, Die
<1>20. CASE UNCHANGED vars
  BY <1>20 DEF vars
<1> QED
  BY <1>1, <1>2, <1>3, <1>4, <1>6, <1>7, <1>8, <1>9, <1>10, <1>11, <1>12,
     <1>13, <1>14, <1>15, <1>16, <1>17, <1>18, <1>19, <1>20
     DEF Next, Task

(* All invariants of the update together.                                  *)
THEOREM UpdateInvariance ==
  ASSUME ~ Overlap, ~ Tls, OlderAreHealthy
  PROVE  Spec => []UInv
<1>1. Init => UInv
  BY UpdateAssumption
     DEF Init, NoTasks, UInv, TypeOK, TargetIsWhole, RollbackExists, UpdateInv,
         GuardInv, WayBack, Up, Idle, Content
<1>2. UInv /\ [Next]_vars => UInv'
  BY UStep
<1> QED
  BY <1>1, <1>2, PTL DEF Spec

(* Every reachable state has the declared types, whatever overlaps and     *)
(* whether or not the agent serves TLS.                                    *)
THEOREM UpdateTypes == Spec => []TypeOK
<1> USE UpdateAssumption DEF TypeOK, Content, files, tasks
<1>1. Init => TypeOK
  BY DEF Init, NoTasks
<1>2. ASSUME TypeOK, [Next]_vars
      PROVE  TypeOK'
  <2>1. ASSUME \/ Start \/ SpawnGuard \/ StartFails \/ Crash
               \/ Contact \/ SixHoursPass
        PROVE  TypeOK'
    BY <1>2, <2>1
       DEF Start, SpawnGuard, StartFails, Crash, Die, Contact, SixHoursPass
  <2>2. ASSUME NEW u \in Updater, NEW v \in Version, Begin(u, v)
        PROVE  TypeOK'
    BY <1>2, <2>2 DEF Begin
  <2>3. ASSUME NEW u \in Updater,
               OpenNew(u) \/ CloseNew(u) \/ OpenPrev(u) \/ ClosePrev(u)
        PROVE  TypeOK'
    BY <1>2, <2>3 DEF OpenNew, CloseNew, Written, OpenPrev, ClosePrev
  <2>4. ASSUME NEW u \in Updater, Rename(u) \/ UpdateFails(u) \/ Exit(u)
        PROVE  TypeOK'
    BY <1>2, <2>4 DEF Rename, UpdateFails, Exit, Die
  <2>5. ASSUME GuardPasses \/ GuardTimesOut \/ RestorePrev \/ GuardExits
        PROVE  TypeOK'
    BY <1>2, <2>5 DEF GuardPasses, GuardTimesOut, RestorePrev, GuardExits, Die
  <2>6. CASE UNCHANGED vars
    BY <1>2, <2>6 DEF vars
  <2> QED
    BY <1>2, <2>1, <2>2, <2>3, <2>4, <2>5, <2>6
       DEF Next, Task, DashboardUpdate, FallbackUpdate
<1> QED
  BY <1>1, <1>2, PTL DEF Spec

(* Wherever an update or a rollback is cut short, the binary in place is   *)
(* one whole signed release.                                               *)
THEOREM BinaryIsWhole ==
  ASSUME ~ Overlap, ~ Tls, OlderAreHealthy
  PROVE  Spec => []TargetIsWhole
<1>1. UInv => TargetIsWhole
  BY DEF UInv
<1> QED
  BY <1>1, UpdateInvariance, PTL

(* A release that does not come up always has a healthy one in .prev.      *)
THEOREM CanRollBack ==
  ASSUME ~ Overlap, ~ Tls, OlderAreHealthy
  PROVE  Spec => []RollbackExists
<1>1. UInv => RollbackExists
  BY DEF UInv
<1> QED
  BY <1>1, UpdateInvariance, PTL

=============================================================================
