----------------------------- MODULE NginxProofs -----------------------------
(***************************************************************************)
(* Proofs about module Nginx, for any number of commands, images,          *)
(* configurations and rows, with every failure and every edit of the host. *)
(* Commands may overlap: only what one that ran alone answers is a promise *)
(* (see deployed and configured), and the others must not undo it.         *)
(***************************************************************************)
EXTENDS Nginx, TLAPS

Deploying(h) == pc[h] \in {"stop", "rm", "run"}
Storing(h) == pc[h] \in {"insert", "inserting", "delete", "write", "reload"}

(* What a command under way carries, and that one alone has no company.    *)
CommandInv ==
  \A h \in Handler :
    /\ pc[h] = "idle" => wants[h] = None /\ config[h] = None
    /\ Deploying(h) => wants[h] # None
    /\ Storing(h) => config[h] # None
    /\ pc[h] = "inserting" => stamp[h] # 0
    /\ alone[h] /\ pc[h] # "idle" => \A g \in Handler \ {h} : pc[g] = "idle"

Row(h) == [at |-> stamp[h], config |-> config[h]]

(* The row of a command alone is younger than all others.                  *)
StoredInv ==
  \A h \in Handler : alone[h] =>
    /\ pc[h] = "inserting" => \A r \in rows : r.at < stamp[h]
    /\ pc[h] \in {"delete", "write", "reload"} =>
         /\ Row(h) \in rows
         /\ \A r \in rows : r = Row(h) \/ r.at < stamp[h]

(* The container of a deployment alone stays while it stores its           *)
(* configuration: podman run --name refuses whatever else would take its   *)
(* place.                                                                  *)
RanInv ==
  \A h \in Handler :
    alone[h] /\ Storing(h) /\ wants[h] # None => image = wants[h]

(* Whoever might undo an answer began after it and has withdrawn it.       *)
AnswerInv ==
  \A h \in Handler :
    /\ configured # None => config[h] = None
    /\ deployed # None => ~ Deploying(h)

(* A table that has rows has one that no other is younger than.            *)
NewestInv == rows # {} => \E r \in rows : Newest(r)

NginxInv ==
  /\ TypeOK /\ CommandInv
  /\ StoredInv /\ ConfigIsStored
  /\ RanInv /\ ImageIsAnswered
  /\ AnswerInv /\ NewestInv

(* The steps of the invariant, conjunct by conjunct.                       *)
LEMMA TypeStep ==
  ASSUME TypeOK, CommandInv, [Next]_vars
  PROVE  TypeOK'
<1> USE NginxAssumption
    DEF TypeOK, CommandInv, Label, Deploying, Storing, Newest,
        hostVars, tableVars, handlerVars, watchVars, answers
<1>1. ASSUME NEW h \in Handler, NEW i \in Image, NEW c \in Config \cup {None},
             BeginDeploy(h, i, c)
      PROVE  TypeOK'
  BY <1>1 DEF BeginDeploy, Begin, Goto
<1>2. ASSUME NEW h \in Handler, NEW c \in Config, BeginUpdate(h, c)
      PROVE  TypeOK'
  BY <1>2 DEF BeginUpdate, Begin, Goto
<1>3. ASSUME NEW h \in Handler, StopOld(h)
      PROVE  TypeOK'
  BY <1>3 DEF StopOld, Goto
<1>4. ASSUME NEW h \in Handler, RemoveOld(h)
      PROVE  TypeOK'
  BY <1>4 DEF RemoveOld, Goto
<1>5. ASSUME NEW h \in Handler, RunNew(h)
      PROVE  TypeOK'
  BY <1>5 DEF RunNew, PodmanRuns, PodmanRunFails, Goto, ReturnOk,
                 ReturnError, Return
<1>6. ASSUME NEW h \in Handler, BeginInsert(h)
      PROVE  TypeOK'
  BY <1>6 DEF BeginInsert, Goto
<1>7. ASSUME NEW h \in Handler, CommitInsert(h)
      PROVE  TypeOK'
  BY <1>7 DEF CommitInsert, Goto
<1>8. ASSUME NEW h \in Handler, GiveUp(h)
      PROVE  TypeOK'
  BY <1>8 DEF GiveUp, ReturnError, Return, Goto
<1>9. ASSUME NEW h \in Handler, DeleteOld(h)
      PROVE  TypeOK'
  BY <1>9 DEF DeleteOld, Goto
<1>10. ASSUME NEW h \in Handler, WriteConfig(h)
       PROVE  TypeOK'
  BY <1>10 DEF WriteConfig, ReturnError, Return, Goto
<1>11. ASSUME NEW h \in Handler, Reload(h)
       PROVE  TypeOK'
  BY <1>11 DEF Reload, ReturnOk, ReturnError, Return, Goto
<1>12. CASE Watch
  BY <1>12 DEF Watch, WatchRunning, WatchEver, WatchFails, Redeploy, HealthOk,
                 HealthFails, SelectConfig, RestoreConfig, RestoreFails, WatchEnds,
                 PodmanRuns, PodmanRunFails, LastAttempt
<1>13. CASE Edited \/ Stopped \/ Removed
  BY <1>13 DEF Edited, Stopped, Removed
<1>14. CASE Restart
  BY <1>14 DEF Restart, WatchEnds
<1>15. CASE UNCHANGED vars
  BY <1>15 DEF vars
<1> QED
  BY <1>1, <1>2, <1>3, <1>4, <1>5, <1>6, <1>7, <1>8,
     <1>9, <1>10, <1>11, <1>12, <1>13, <1>14, <1>15 DEF Next, Continue

(* Every step keeps what is known of the commands under way.               *)
LEMMA CommandStep ==
  ASSUME TypeOK, CommandInv, [Next]_vars
  PROVE  CommandInv'
<1> USE NginxAssumption
    DEF TypeOK, CommandInv, Deploying, Storing, Label,
        hostVars, tableVars, handlerVars, watchVars, answers
<1>1. ASSUME NEW h \in Handler, NEW i \in Image, NEW c \in Config \cup {None},
             BeginDeploy(h, i, c)
      PROVE  CommandInv'
  BY <1>1 DEF BeginDeploy, Begin, Goto
<1>2. ASSUME NEW h \in Handler, NEW c \in Config, BeginUpdate(h, c)
      PROVE  CommandInv'
  BY <1>2 DEF BeginUpdate, Begin, Goto
<1>3. ASSUME NEW h \in Handler, StopOld(h)
      PROVE  CommandInv'
  BY <1>3 DEF StopOld, Goto
<1>4. ASSUME NEW h \in Handler, RemoveOld(h)
      PROVE  CommandInv'
  BY <1>4 DEF RemoveOld, Goto
<1>5. ASSUME NEW h \in Handler, RunNew(h)
      PROVE  CommandInv'
  BY <1>5 DEF RunNew, PodmanRuns, PodmanRunFails, Goto, ReturnOk,
                 ReturnError, Return
<1>6. ASSUME NEW h \in Handler, BeginInsert(h)
      PROVE  CommandInv'
  BY <1>6 DEF BeginInsert, Goto
<1>7. ASSUME NEW h \in Handler, CommitInsert(h)
      PROVE  CommandInv'
  BY <1>7 DEF CommitInsert, Goto
<1>8. ASSUME NEW h \in Handler, GiveUp(h)
      PROVE  CommandInv'
  BY <1>8 DEF GiveUp, ReturnError, Return, Goto
<1>9. ASSUME NEW h \in Handler, DeleteOld(h)
      PROVE  CommandInv'
  BY <1>9 DEF DeleteOld, Goto
<1>10. ASSUME NEW h \in Handler, WriteConfig(h)
       PROVE  CommandInv'
  BY <1>10 DEF WriteConfig, ReturnError, Return, Goto
<1>11. ASSUME NEW h \in Handler, Reload(h)
       PROVE  CommandInv'
  BY <1>11 DEF Reload, ReturnOk, ReturnError, Return, Goto
<1>12. CASE Watch
  BY <1>12 DEF Watch, WatchRunning, WatchEver, WatchFails, Redeploy, HealthOk,
                 HealthFails, SelectConfig, RestoreConfig, RestoreFails, WatchEnds,
                 PodmanRuns, PodmanRunFails, LastAttempt
<1>13. CASE Edited \/ Stopped \/ Removed
  BY <1>13 DEF Edited, Stopped, Removed
<1>14. CASE Restart
  BY <1>14 DEF Restart, WatchEnds
<1>15. CASE UNCHANGED vars
  BY <1>15 DEF vars
<1> QED
  BY <1>1, <1>2, <1>3, <1>4, <1>5, <1>6, <1>7, <1>8,
     <1>9, <1>10, <1>11, <1>12, <1>13, <1>14, <1>15 DEF Next, Continue

(* Every step keeps the row of a command that runs alone the youngest.     *)
LEMMA StoredStep ==
  ASSUME TypeOK, CommandInv, StoredInv, [Next]_vars
  PROVE  StoredInv'
<1> USE NginxAssumption
    DEF TypeOK, CommandInv, StoredInv, Row, Storing, Newest, Kept,
        hostVars, tableVars, handlerVars, watchVars, answers
<1>1. ASSUME NEW h \in Handler, NEW i \in Image, NEW c \in Config \cup {None},
             BeginDeploy(h, i, c)
      PROVE  StoredInv'
  BY <1>1 DEF BeginDeploy, Begin, Goto
<1>2. ASSUME NEW h \in Handler, NEW c \in Config, BeginUpdate(h, c)
      PROVE  StoredInv'
  BY <1>2 DEF BeginUpdate, Begin, Goto
<1>3. ASSUME NEW h \in Handler, StopOld(h)
      PROVE  StoredInv'
  BY <1>3 DEF StopOld, Goto
<1>4. ASSUME NEW h \in Handler, RemoveOld(h)
      PROVE  StoredInv'
  BY <1>4 DEF RemoveOld, Goto
<1>5. ASSUME NEW h \in Handler, RunNew(h)
      PROVE  StoredInv'
  BY <1>5 DEF RunNew, PodmanRuns, PodmanRunFails, Goto, ReturnOk,
                 ReturnError, Return
<1>6. ASSUME NEW h \in Handler, BeginInsert(h)
      PROVE  StoredInv'
  BY <1>6 DEF BeginInsert, Goto
<1>7. ASSUME NEW h \in Handler, CommitInsert(h)
      PROVE  StoredInv'
  BY <1>7 DEF CommitInsert, Goto
<1>8. ASSUME NEW h \in Handler, GiveUp(h)
      PROVE  StoredInv'
  BY <1>8 DEF GiveUp, ReturnError, Return, Goto
<1>9. ASSUME NEW h \in Handler, DeleteOld(h)
      PROVE  StoredInv'
  BY <1>9 DEF DeleteOld, Goto
<1>10. ASSUME NEW h \in Handler, WriteConfig(h)
       PROVE  StoredInv'
  BY <1>10 DEF WriteConfig, ReturnError, Return, Goto
<1>11. ASSUME NEW h \in Handler, Reload(h)
       PROVE  StoredInv'
  BY <1>11 DEF Reload, ReturnOk, ReturnError, Return, Goto
<1>12. CASE Watch
  BY <1>12 DEF Watch, WatchRunning, WatchEver, WatchFails, Redeploy, HealthOk,
                 HealthFails, SelectConfig, RestoreConfig, RestoreFails, WatchEnds,
                 PodmanRuns, PodmanRunFails, LastAttempt
<1>13. CASE Edited \/ Stopped \/ Removed
  BY <1>13 DEF Edited, Stopped, Removed
<1>14. CASE Restart
  BY <1>14 DEF Restart, WatchEnds
<1>15. CASE UNCHANGED vars
  BY <1>15 DEF vars
<1> QED
  BY <1>1, <1>2, <1>3, <1>4, <1>5, <1>6, <1>7, <1>8,
     <1>9, <1>10, <1>11, <1>12, <1>13, <1>14, <1>15 DEF Next, Continue

(* Every step keeps the container a command has made.                      *)
LEMMA RanStep ==
  ASSUME TypeOK, CommandInv, RanInv, [Next]_vars
  PROVE  RanInv'
<1> USE NginxAssumption
    DEF TypeOK, CommandInv, RanInv, Deploying, Storing,
        hostVars, tableVars, handlerVars, watchVars, answers
<1>1. ASSUME NEW h \in Handler, NEW i \in Image, NEW c \in Config \cup {None},
             BeginDeploy(h, i, c)
      PROVE  RanInv'
  BY <1>1 DEF BeginDeploy, Begin, Goto
<1>2. ASSUME NEW h \in Handler, NEW c \in Config, BeginUpdate(h, c)
      PROVE  RanInv'
  BY <1>2 DEF BeginUpdate, Begin, Goto
<1>3. ASSUME NEW h \in Handler, StopOld(h)
      PROVE  RanInv'
  BY <1>3 DEF StopOld, Goto
<1>4. ASSUME NEW h \in Handler, RemoveOld(h)
      PROVE  RanInv'
  BY <1>4 DEF RemoveOld, Goto
<1>5. ASSUME NEW h \in Handler, RunNew(h)
      PROVE  RanInv'
  BY <1>5 DEF RunNew, PodmanRuns, PodmanRunFails, Goto, ReturnOk,
                 ReturnError, Return
<1>6. ASSUME NEW h \in Handler, BeginInsert(h)
      PROVE  RanInv'
  BY <1>6 DEF BeginInsert, Goto
<1>7. ASSUME NEW h \in Handler, CommitInsert(h)
      PROVE  RanInv'
  BY <1>7 DEF CommitInsert, Goto
<1>8. ASSUME NEW h \in Handler, GiveUp(h)
      PROVE  RanInv'
  BY <1>8 DEF GiveUp, ReturnError, Return, Goto
<1>9. ASSUME NEW h \in Handler, DeleteOld(h)
      PROVE  RanInv'
  BY <1>9 DEF DeleteOld, Goto
<1>10. ASSUME NEW h \in Handler, WriteConfig(h)
       PROVE  RanInv'
  BY <1>10 DEF WriteConfig, ReturnError, Return, Goto
<1>11. ASSUME NEW h \in Handler, Reload(h)
       PROVE  RanInv'
  BY <1>11 DEF Reload, ReturnOk, ReturnError, Return, Goto
<1>12. CASE Watch
  BY <1>12 DEF Watch, WatchRunning, WatchEver, WatchFails, Redeploy, HealthOk,
                 HealthFails, SelectConfig, RestoreConfig, RestoreFails, WatchEnds,
                 PodmanRuns, PodmanRunFails, LastAttempt
<1>13. CASE Edited \/ Stopped \/ Removed
  BY <1>13 DEF Edited, Stopped, Removed
<1>14. CASE Restart
  BY <1>14 DEF Restart, WatchEnds
<1>15. CASE UNCHANGED vars
  BY <1>15 DEF vars
<1> QED
  BY <1>1, <1>2, <1>3, <1>4, <1>5, <1>6, <1>7, <1>8,
     <1>9, <1>10, <1>11, <1>12, <1>13, <1>14, <1>15 DEF Next, Continue

(* Every step withdraws the answers it could undo.                         *)
LEMMA AnswerStep ==
  ASSUME TypeOK, CommandInv, AnswerInv, [Next]_vars
  PROVE  AnswerInv'
<1> USE NginxAssumption
    DEF TypeOK, CommandInv, AnswerInv, Deploying, Storing,
        hostVars, tableVars, handlerVars, watchVars, answers
<1>1. ASSUME NEW h \in Handler, NEW i \in Image, NEW c \in Config \cup {None},
             BeginDeploy(h, i, c)
      PROVE  AnswerInv'
  BY <1>1 DEF BeginDeploy, Begin, Goto
<1>2. ASSUME NEW h \in Handler, NEW c \in Config, BeginUpdate(h, c)
      PROVE  AnswerInv'
  BY <1>2 DEF BeginUpdate, Begin, Goto
<1>3. ASSUME NEW h \in Handler, StopOld(h)
      PROVE  AnswerInv'
  BY <1>3 DEF StopOld, Goto
<1>4. ASSUME NEW h \in Handler, RemoveOld(h)
      PROVE  AnswerInv'
  BY <1>4 DEF RemoveOld, Goto
<1>5. ASSUME NEW h \in Handler, RunNew(h)
      PROVE  AnswerInv'
  BY <1>5 DEF RunNew, PodmanRuns, PodmanRunFails, Goto, ReturnOk,
                 ReturnError, Return
<1>6. ASSUME NEW h \in Handler, BeginInsert(h)
      PROVE  AnswerInv'
  BY <1>6 DEF BeginInsert, Goto
<1>7. ASSUME NEW h \in Handler, CommitInsert(h)
      PROVE  AnswerInv'
  BY <1>7 DEF CommitInsert, Goto
<1>8. ASSUME NEW h \in Handler, GiveUp(h)
      PROVE  AnswerInv'
  BY <1>8 DEF GiveUp, ReturnError, Return, Goto
<1>9. ASSUME NEW h \in Handler, DeleteOld(h)
      PROVE  AnswerInv'
  BY <1>9 DEF DeleteOld, Goto
<1>10. ASSUME NEW h \in Handler, WriteConfig(h)
       PROVE  AnswerInv'
  BY <1>10 DEF WriteConfig, ReturnError, Return, Goto
<1>11. ASSUME NEW h \in Handler, Reload(h)
       PROVE  AnswerInv'
  BY <1>11 DEF Reload, ReturnOk, ReturnError, Return, Goto
<1>12. CASE Watch
  BY <1>12 DEF Watch, WatchRunning, WatchEver, WatchFails, Redeploy, HealthOk,
                 HealthFails, SelectConfig, RestoreConfig, RestoreFails, WatchEnds,
                 PodmanRuns, PodmanRunFails, LastAttempt
<1>13. CASE Edited \/ Stopped \/ Removed
  BY <1>13 DEF Edited, Stopped, Removed
<1>14. CASE Restart
  BY <1>14 DEF Restart, WatchEnds
<1>15. CASE UNCHANGED vars
  BY <1>15 DEF vars
<1> QED
  BY <1>1, <1>2, <1>3, <1>4, <1>5, <1>6, <1>7, <1>8,
     <1>9, <1>10, <1>11, <1>12, <1>13, <1>14, <1>15 DEF Next, Continue

(* Every step keeps the image that was answered.                           *)
LEMMA ImageStep ==
  ASSUME TypeOK, CommandInv, RanInv, AnswerInv, ImageIsAnswered, [Next]_vars
  PROVE  ImageIsAnswered'
<1> USE NginxAssumption
    DEF TypeOK, CommandInv, RanInv, AnswerInv, ImageIsAnswered, Deploying, Storing,
        hostVars, tableVars, handlerVars, watchVars, answers
<1>1. ASSUME NEW h \in Handler, NEW i \in Image, NEW c \in Config \cup {None},
             BeginDeploy(h, i, c)
      PROVE  ImageIsAnswered'
  BY <1>1 DEF BeginDeploy, Begin, Goto
<1>2. ASSUME NEW h \in Handler, NEW c \in Config, BeginUpdate(h, c)
      PROVE  ImageIsAnswered'
  BY <1>2 DEF BeginUpdate, Begin, Goto
<1>3. ASSUME NEW h \in Handler, StopOld(h)
      PROVE  ImageIsAnswered'
  BY <1>3 DEF StopOld, Goto
<1>4. ASSUME NEW h \in Handler, RemoveOld(h)
      PROVE  ImageIsAnswered'
  BY <1>4 DEF RemoveOld, Goto
<1>5. ASSUME NEW h \in Handler, RunNew(h)
      PROVE  ImageIsAnswered'
  BY <1>5 DEF RunNew, PodmanRuns, PodmanRunFails, Goto, ReturnOk,
                 ReturnError, Return
<1>6. ASSUME NEW h \in Handler, BeginInsert(h)
      PROVE  ImageIsAnswered'
  BY <1>6 DEF BeginInsert, Goto
<1>7. ASSUME NEW h \in Handler, CommitInsert(h)
      PROVE  ImageIsAnswered'
  BY <1>7 DEF CommitInsert, Goto
<1>8. ASSUME NEW h \in Handler, GiveUp(h)
      PROVE  ImageIsAnswered'
  BY <1>8 DEF GiveUp, ReturnError, Return, Goto
<1>9. ASSUME NEW h \in Handler, DeleteOld(h)
      PROVE  ImageIsAnswered'
  BY <1>9 DEF DeleteOld, Goto
<1>10. ASSUME NEW h \in Handler, WriteConfig(h)
       PROVE  ImageIsAnswered'
  BY <1>10 DEF WriteConfig, ReturnError, Return, Goto
<1>11. ASSUME NEW h \in Handler, Reload(h)
       PROVE  ImageIsAnswered'
  BY <1>11 DEF Reload, ReturnOk, ReturnError, Return, Goto
<1>12. CASE Watch
  BY <1>12 DEF Watch, WatchRunning, WatchEver, WatchFails, Redeploy, HealthOk,
                 HealthFails, SelectConfig, RestoreConfig, RestoreFails, WatchEnds,
                 PodmanRuns, PodmanRunFails, LastAttempt
<1>13. CASE Edited \/ Stopped \/ Removed
  BY <1>13 DEF Edited, Stopped, Removed
<1>14. CASE Restart
  BY <1>14 DEF Restart, WatchEnds
<1>15. CASE UNCHANGED vars
  BY <1>15 DEF vars
<1> QED
  BY <1>1, <1>2, <1>3, <1>4, <1>5, <1>6, <1>7, <1>8,
     <1>9, <1>10, <1>11, <1>12, <1>13, <1>14, <1>15 DEF Next, Continue

(* Every step keeps the configuration that was answered.                   *)
LEMMA ConfigStep ==
  ASSUME TypeOK, CommandInv, StoredInv, AnswerInv, ConfigIsStored, [Next]_vars
  PROVE  ConfigIsStored'
<1> USE NginxAssumption
    DEF TypeOK, CommandInv, StoredInv, AnswerInv, ConfigIsStored, Row, Newest,
        Storing, hostVars, tableVars, handlerVars, watchVars, answers
<1>1. ASSUME NEW h \in Handler, NEW i \in Image, NEW c \in Config \cup {None},
             BeginDeploy(h, i, c)
      PROVE  ConfigIsStored'
  BY <1>1 DEF BeginDeploy, Begin, Goto
<1>2. ASSUME NEW h \in Handler, NEW c \in Config, BeginUpdate(h, c)
      PROVE  ConfigIsStored'
  BY <1>2 DEF BeginUpdate, Begin, Goto
<1>3. ASSUME NEW h \in Handler, StopOld(h)
      PROVE  ConfigIsStored'
  BY <1>3 DEF StopOld, Goto
<1>4. ASSUME NEW h \in Handler, RemoveOld(h)
      PROVE  ConfigIsStored'
  BY <1>4 DEF RemoveOld, Goto
<1>5. ASSUME NEW h \in Handler, RunNew(h)
      PROVE  ConfigIsStored'
  BY <1>5 DEF RunNew, PodmanRuns, PodmanRunFails, Goto, ReturnOk,
                 ReturnError, Return
<1>6. ASSUME NEW h \in Handler, BeginInsert(h)
      PROVE  ConfigIsStored'
  BY <1>6 DEF BeginInsert, Goto
<1>7. ASSUME NEW h \in Handler, CommitInsert(h)
      PROVE  ConfigIsStored'
  BY <1>7 DEF CommitInsert, Goto
<1>8. ASSUME NEW h \in Handler, GiveUp(h)
      PROVE  ConfigIsStored'
  BY <1>8 DEF GiveUp, ReturnError, Return, Goto
<1>9. ASSUME NEW h \in Handler, DeleteOld(h)
      PROVE  ConfigIsStored'
  BY <1>9 DEF DeleteOld, Goto
<1>10. ASSUME NEW h \in Handler, WriteConfig(h)
       PROVE  ConfigIsStored'
  BY <1>10 DEF WriteConfig, ReturnError, Return, Goto
<1>11. ASSUME NEW h \in Handler, Reload(h)
       PROVE  ConfigIsStored'
  <2>1. UNCHANGED rows /\ pc[h] = "reload"
    BY <1>11 DEF Reload, ReturnOk, ReturnError, Return
  <2>2. CASE configured' = configured
    BY <2>1, <2>2
  <2>3. CASE alone[h] /\ configured' = config[h]
    <3>1. Row(h) \in rows /\ \A r \in rows : r = Row(h) \/ r.at < stamp[h]
      BY <2>1, <2>3
    <3>2. ASSUME NEW r \in rows, Newest(r)
          PROVE  r = Row(h)
      <4>1. Row(h).at <= r.at /\ Row(h).at = stamp[h]
        BY <3>1, <3>2
      <4>2. stamp[h] \in Nat /\ r.at \in Nat
        OBVIOUS
      <4> QED
        BY <3>1, <4>1, <4>2
    <3> QED
      BY <2>1, <2>3, <3>1, <3>2
  <2> QED
    BY <1>11, <2>2, <2>3 DEF Reload, ReturnOk, ReturnError
<1>12. CASE Watch
  BY <1>12 DEF Watch, WatchRunning, WatchEver, WatchFails, Redeploy, HealthOk,
                 HealthFails, SelectConfig, RestoreConfig, RestoreFails, WatchEnds,
                 PodmanRuns, PodmanRunFails, LastAttempt
<1>13. CASE Edited \/ Stopped \/ Removed
  BY <1>13 DEF Edited, Stopped, Removed
<1>14. CASE Restart
  BY <1>14 DEF Restart, WatchEnds
<1>15. CASE UNCHANGED vars
  BY <1>15 DEF vars
<1> QED
  BY <1>1, <1>2, <1>3, <1>4, <1>5, <1>6, <1>7, <1>8,
     <1>9, <1>10, <1>11, <1>12, <1>13, <1>14, <1>15 DEF Next, Continue

(* Every step leaves a newest row in a table with rows.                    *)
LEMMA NewestStep ==
  ASSUME TypeOK, CommandInv, NewestInv, [Next]_vars
  PROVE  NewestInv'
<1> USE NginxAssumption
    DEF TypeOK, CommandInv, NewestInv, Newest, Kept, Storing,
        hostVars, tableVars, handlerVars, watchVars, answers
<1>1. ASSUME NEW h \in Handler, NEW i \in Image, NEW c \in Config \cup {None},
             BeginDeploy(h, i, c)
      PROVE  NewestInv'
  BY <1>1 DEF BeginDeploy, Begin, Goto
<1>2. ASSUME NEW h \in Handler, NEW c \in Config, BeginUpdate(h, c)
      PROVE  NewestInv'
  BY <1>2 DEF BeginUpdate, Begin, Goto
<1>3. ASSUME NEW h \in Handler, StopOld(h)
      PROVE  NewestInv'
  BY <1>3 DEF StopOld, Goto
<1>4. ASSUME NEW h \in Handler, RemoveOld(h)
      PROVE  NewestInv'
  BY <1>4 DEF RemoveOld, Goto
<1>5. ASSUME NEW h \in Handler, RunNew(h)
      PROVE  NewestInv'
  BY <1>5 DEF RunNew, PodmanRuns, PodmanRunFails, Goto, ReturnOk,
                 ReturnError, Return
<1>6. ASSUME NEW h \in Handler, BeginInsert(h)
      PROVE  NewestInv'
  BY <1>6 DEF BeginInsert, Goto
<1>7. ASSUME NEW h \in Handler, CommitInsert(h)
      PROVE  NewestInv'
  BY <1>7 DEF CommitInsert, Goto
<1>8. ASSUME NEW h \in Handler, GiveUp(h)
      PROVE  NewestInv'
  BY <1>8 DEF GiveUp, ReturnError, Return, Goto
<1>9. ASSUME NEW h \in Handler, DeleteOld(h)
      PROVE  NewestInv'
  BY <1>9 DEF DeleteOld, Goto
<1>10. ASSUME NEW h \in Handler, WriteConfig(h)
       PROVE  NewestInv'
  BY <1>10 DEF WriteConfig, ReturnError, Return, Goto
<1>11. ASSUME NEW h \in Handler, Reload(h)
       PROVE  NewestInv'
  BY <1>11 DEF Reload, ReturnOk, ReturnError, Return, Goto
<1>12. CASE Watch
  BY <1>12 DEF Watch, WatchRunning, WatchEver, WatchFails, Redeploy, HealthOk,
                 HealthFails, SelectConfig, RestoreConfig, RestoreFails, WatchEnds,
                 PodmanRuns, PodmanRunFails, LastAttempt
<1>13. CASE Edited \/ Stopped \/ Removed
  BY <1>13 DEF Edited, Stopped, Removed
<1>14. CASE Restart
  BY <1>14 DEF Restart, WatchEnds
<1>15. CASE UNCHANGED vars
  BY <1>15 DEF vars
<1> QED
  BY <1>1, <1>2, <1>3, <1>4, <1>5, <1>6, <1>7, <1>8,
     <1>9, <1>10, <1>11, <1>12, <1>13, <1>14, <1>15 DEF Next, Continue

(* The inductive invariant holds in every behaviour of the commands and    *)
(* the watchdog (handlers/nginx_cmd.rs, nginx.rs).                         *)
THEOREM NginxInvariance == Spec => []NginxInv
<1>1. Init => NginxInv
  BY NginxAssumption
  DEF Init, NginxInv, TypeOK, CommandInv, StoredInv, ConfigIsStored, RanInv,
      ImageIsAnswered, AnswerInv, NewestInv, Deploying, Storing, Label
<1>2. NginxInv /\ [Next]_vars => NginxInv'
  BY TypeStep, CommandStep, StoredStep, ConfigStep, RanStep, ImageStep,
     AnswerStep, NewestStep DEF NginxInv
<1> QED
  BY <1>1, <1>2, PTL DEF Spec

(* Type correctness; in particular a container exists exactly when it has  *)
(* an image, and the watchdog gives up after three attempts.               *)
THEOREM NginxTypes == Spec => []TypeOK
<1>1. NginxInv => TypeOK
  BY DEF NginxInv
<1> QED
  BY <1>1, NginxInvariance, PTL

(* The container is made from the image of the last deployment that was    *)
(* answered, whatever the watchdog redeploys.                              *)
THEOREM AnsweredImageRuns == Spec => []ImageIsAnswered
<1>1. NginxInv => ImageIsAnswered
  BY DEF NginxInv
<1> QED
  BY <1>1, NginxInvariance, PTL

(* The newest row of nginx_configs is the configuration answered last.     *)
THEOREM AnsweredConfigStored == Spec => []ConfigIsStored
<1>1. NginxInv => ConfigIsStored
  BY DEF NginxInv
<1> QED
  BY <1>1, NginxInvariance, PTL

(* No step empties the table: the DELETE of persist_config keeps a newest  *)
(* row.                                                                    *)
LEMMA RowsStay ==
  ASSUME NewestInv, [Next]_vars, rows # {}
  PROVE  rows' # {}
<1>1. ASSUME NEW h \in Handler, DeleteOld(h)
      PROVE  rows' # {}
  BY <1>1 DEF DeleteOld, Kept, NewestInv
<1>2. ASSUME NEW h \in Handler, CommitInsert(h)
      PROVE  rows' # {}
  BY <1>2 DEF CommitInsert
<1>3. ASSUME \A h \in Handler : ~ DeleteOld(h) /\ ~ CommitInsert(h)
      PROVE  UNCHANGED rows
  BY <1>3
  DEF Next, vars, hostVars, tableVars, handlerVars, watchVars, answers,
      Continue, BeginDeploy, BeginUpdate, StopOld, RemoveOld, RunNew,
      BeginInsert, GiveUp, WriteConfig, Reload, Watch, WatchRunning, WatchEver,
      WatchFails, Redeploy, HealthOk, HealthFails, SelectConfig, RestoreConfig,
      RestoreFails, Edited, Stopped, Removed, Restart
<1> QED
  BY <1>1, <1>2, <1>3

(* However many commands prune nginx_configs at once, a row stays.         *)
THEOREM ConfigNeverForgotten == Spec => NeverForgotten
<1>1. NginxInv /\ [Next]_vars => [rows # {} => rows' # {}]_vars
  BY RowsStay DEF NginxInv
<1> QED
  BY <1>1, NginxInvariance, PTL DEF Spec, NeverForgotten

=============================================================================
