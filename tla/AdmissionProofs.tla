--------------------------- MODULE AdmissionProofs ---------------------------
(***************************************************************************)
(* Proofs about the two conditions a command is admitted on: its           *)
(* verification, for every set of handlers and envelopes and all windows   *)
(* that satisfy WindowAssumption, and the lockdown flag with its reason,   *)
(* for any number of acknowledgements and any heartbeat timeout.  Each     *)
(* theorem is about one of the two specifications: Spec of CommandAuth,    *)
(* LockSpec of Lockdown.                                                   *)
(***************************************************************************)
EXTENDS CommandAuth, Lockdown, TLAPS

-----------------------------------------------------------------------------
(***************************************************************************)
(* Verification.                                                           *)
(***************************************************************************)

(* What a purge, by a handler or by the cleanup task, does to the table:   *)
(* rows only disappear, the survivors keep their date, and a row of an     *)
(* ordinary command disappears only after that command's window.           *)
LEMMA PurgeKeepsWindow ==
  ASSUME TypeOK, RowsInWindow, DeleteExpired
  PROVE  /\ seen' \subseteq seen
         /\ createdAt' \in [Envelope -> Nat]
         /\ \A e \in seen' : createdAt'[e] = createdAt[e]
         /\ \A e \in seen : e \notin seen' => createdAt[e] < now - Retention
         /\ \A e \in Command \cap seen :
              e \notin seen' => now > Stamp[e] + Skew + Stall
<1> USE EnvelopeAssumption, WindowAssumption DEF DeleteExpired, TypeOK, Expired
<1>1. /\ seen' \subseteq seen
      /\ createdAt' \in [Envelope -> Nat]
      /\ \A e \in seen' : createdAt'[e] = createdAt[e]
      /\ \A e \in seen : e \notin seen' => createdAt[e] < now - Retention
  OBVIOUS
<1>2. ASSUME NEW e \in Command \cap seen, e \notin seen'
      PROVE  now > Stamp[e] + Skew + Stall
  <2>1. Stamp[e] \in Int /\ createdAt[e] \in Nat
    BY DEF Command
  <2>2. createdAt[e] < now - Retention
    BY <1>2
  <2>3. Stamp[e] - Skew <= createdAt[e]
    BY DEF RowsInWindow
  <2> QED
    BY <2>1, <2>2, <2>3
<1> QED
  BY <1>1, <1>2

(* A handler that has returned still has an envelope, of no importance.    *)
LEMMA AnyIsEnvelope == AnyEnvelope \in Envelope
BY EnvelopeAssumption DEF AnyEnvelope

(* Types are preserved by every step.  A handler past the check holds a    *)
(* genuine envelope, so the rows it adds stay inside Genuine.              *)
LEMMA TypeStep ==
  ASSUME TypeOK, HandlersInWindow, [Next]_vars
  PROVE  TypeOK'
<1> USE EnvelopeAssumption, WindowAssumption DEF TypeOK
<1>1. ASSUME NEW h \in Handler, NEW e \in Envelope, CheckEnvelope(h, e)
      PROVE  TypeOK'
  BY <1>1 DEF CheckEnvelope
<1>2. ASSUME NEW h \in Handler, PurgeNonces(h)
      PROVE  TypeOK'
  BY <1>2 DEF PurgeNonces, DeleteExpired, Expired
<1>3. ASSUME NEW h \in Handler, InsertNonce(h)
      PROVE  TypeOK'
  BY <1>3 DEF InsertNonce, AddRow, HandlersInWindow, InFlight
<1>4. ASSUME NEW h \in Handler, NonceConflict(h)
      PROVE  TypeOK'
  BY <1>4, AnyIsEnvelope DEF NonceConflict, Return
<1>5. ASSUME NEW h \in Handler, Abort(h)
      PROVE  TypeOK'
  <2>1. CASE pc[h] \in {"purge", "insert"} /\ UNCHANGED <<seen, createdAt>>
    BY <1>5, <2>1, AnyIsEnvelope DEF Abort, Return
  <2>2. CASE pc[h] = "purge" /\ DeleteExpired
    BY <1>5, <2>2, AnyIsEnvelope DEF Abort, Return, DeleteExpired, Expired
  <2>3. CASE /\ pc[h] = "insert"
             /\ \E t \in checkedAt[h] .. now : AddRow(env[h], t)
    BY <1>5, <2>3, AnyIsEnvelope
       DEF Abort, Return, AddRow, HandlersInWindow, InFlight
  <2> QED
    BY <1>5, <2>1, <2>2, <2>3 DEF Abort
<1>6. ASSUME NEW h \in Handler, Dispatch(h)
      PROVE  TypeOK'
  BY <1>6, AnyIsEnvelope DEF Dispatch, Return, More
<1>7. CASE CleanupTask
  BY <1>7 DEF CleanupTask, DeleteExpired, Expired
<1>8. CASE Crash
  BY <1>8, AnyIsEnvelope DEF Crash, Die
<1>9. CASE Tick
  BY <1>9 DEF Tick
<1>10. CASE UNCHANGED vars
  BY <1>10 DEF vars
<1> QED
  BY <1>1, <1>2, <1>3, <1>4, <1>5, <1>6, <1>7, <1>8, <1>9, <1>10 DEF Next

(* In a step the handlers only leave their places or stay: none gets past  *)
(* its check, and none past its insert.                                    *)
OnlyLeave ==
  \A h \in Handler :
    /\ InFlight(h)' => /\ InFlight(h)
                       /\ env'[h] = env[h] /\ checkedAt'[h] = checkedAt[h]
    /\ pc'[h] = "accepted" => pc[h] = "accepted" /\ env'[h] = env[h]

(* A purge preserves every conjunct of the invariant that reads the table, *)
(* whoever runs it.                                                        *)
LEMMA PurgeStep ==
  ASSUME TypeOK, VerificationInv, DeleteExpired,
         UNCHANGED <<now, runs, acceptedAt>>, OnlyLeave
  PROVE  VerificationInv'
<1> USE DEF VerificationInv, OnlyLeave
<1>1. /\ seen' \subseteq seen
      /\ \A e \in seen' : createdAt'[e] = createdAt[e]
      /\ \A e \in seen : e \notin seen' => createdAt[e] < now - Retention
      /\ \A e \in Command \cap seen :
           e \notin seen' => now > Stamp[e] + Skew + Stall
  BY PurgeKeepsWindow
<1>2. HandlersInWindow'
  BY DEF HandlersInWindow
<1>3. RowsInWindow'
  BY <1>1 DEF RowsInWindow
<1>4. ConsumedIsGuarded'
  BY <1>1 DEF ConsumedIsGuarded, Consumed
<1>5. OneAcceptor' /\ CommandsRunOnce'
  BY DEF OneAcceptor, CommandsRunOnce
<1>6. AcceptancesInTime'
  BY <1>1, WindowAssumption DEF AcceptancesInTime, TypeOK
<1> QED
  BY <1>2, <1>3, <1>4, <1>5, <1>6

(* A step that touches neither the table nor the counters preserves the    *)
(* invariant.                                                              *)
LEMMA LeaveStep ==
  ASSUME TypeOK, VerificationInv,
         UNCHANGED <<now, seen, createdAt, runs, acceptedAt>>, OnlyLeave
  PROVE  VerificationInv'
BY DEF VerificationInv, HandlersInWindow, RowsInWindow, ConsumedIsGuarded,
       Consumed, OneAcceptor, CommandsRunOnce, AcceptancesInTime, OnlyLeave

(* Inserting the nonce of handler h's envelope, which had no row: no       *)
(* handler had accepted that envelope before, because its window is still  *)
(* open.                                                                   *)
LEMMA InsertStep ==
  ASSUME TypeOK, VerificationInv,
         NEW h \in Handler, pc[h] = "insert", env[h] \notin seen,
         NEW t \in checkedAt[h] .. now, AddRow(env[h], t),
         \/ Return(h) /\ UNCHANGED acceptedAt
         \/ /\ pc' = [pc EXCEPT ![h] = "accepted"]
            /\ acceptedAt' = [acceptedAt EXCEPT ![env[h]] = now]
            /\ UNCHANGED <<env, checkedAt>>,
         UNCHANGED <<now, runs>>
  PROVE  VerificationInv'
<1> USE EnvelopeAssumption, WindowAssumption
    DEF VerificationInv, TypeOK, Command, Return
<1>1. /\ t \in Int
      /\ seen' = seen \cup {env[h]}
      /\ createdAt' = [createdAt EXCEPT ![env[h]] = t]
      /\ env[h] \in Genuine
  BY DEF AddRow, HandlersInWindow, InFlight
<1>2. ASSUME env[h] \in Command
      PROVE  /\ Stamp[env[h]] - Skew <= t
             /\ ~ Consumed(env[h])
  <2>1. /\ checkedAt[h] <= now /\ now <= checkedAt[h] + Stall
        /\ checkedAt[h] - Stamp[env[h]] <= Skew
        /\ Stamp[env[h]] - checkedAt[h] <= Skew
    BY <1>2 DEF HandlersInWindow, InFlight
  <2>2. Stamp[env[h]] \in Int /\ checkedAt[h] \in Nat
    OBVIOUS
  <2>3. ~ (now > Stamp[env[h]] + Skew + Stall)
    BY <2>1, <2>2
  <2>4. ~ Consumed(env[h])
    BY <1>2, <2>3 DEF ConsumedIsGuarded
  <2> QED
    BY <2>1, <2>2, <2>4
<1>3. HandlersInWindow'
  BY DEF HandlersInWindow, InFlight
<1>4. RowsInWindow'
  BY <1>1, <1>2 DEF RowsInWindow
<1>5. ConsumedIsGuarded'
  BY <1>1 DEF ConsumedIsGuarded, Consumed
<1>6. OneAcceptor'
  BY <1>2 DEF OneAcceptor, Consumed
<1>7. CommandsRunOnce'
  BY DEF CommandsRunOnce
<1>8. AcceptancesInTime'
  <2>1. now - Stall <= t /\ t <= now
    BY DEF HandlersInWindow, InFlight
  <2> QED
    BY <1>1, <2>1 DEF AcceptancesInTime
<1> QED
  BY <1>3, <1>4, <1>5, <1>6, <1>7, <1>8

(* Every step preserves the invariant.                                     *)
LEMMA InvStep ==
  ASSUME TypeOK, VerificationInv, [Next]_vars
  PROVE  VerificationInv'
<1> USE EnvelopeAssumption, WindowAssumption
<1>1. ASSUME NEW h \in Handler, NEW e \in Envelope, CheckEnvelope(h, e)
      PROVE  VerificationInv'
  <2> USE <1>1 DEF CheckEnvelope, VerificationInv, TypeOK, Command
  <2>1. HandlersInWindow'
    BY DEF HandlersInWindow, InFlight, Fresh
  <2>2. RowsInWindow' /\ CommandsRunOnce'
    BY DEF RowsInWindow, CommandsRunOnce
  <2>5. AcceptancesInTime'
    BY DEF AcceptancesInTime
  <2>3. ConsumedIsGuarded'
    BY DEF ConsumedIsGuarded, Consumed
  <2>4. OneAcceptor'
    BY DEF OneAcceptor
  <2> QED
    BY <2>1, <2>2, <2>3, <2>4, <2>5
<1>2. ASSUME NEW h \in Handler, PurgeNonces(h)
      PROVE  VerificationInv'
  BY <1>2, PurgeStep DEF PurgeNonces, OnlyLeave, InFlight, TypeOK
<1>3. ASSUME NEW h \in Handler, InsertNonce(h)
      PROVE  VerificationInv'
  BY <1>3, InsertStep DEF InsertNonce
<1>4. ASSUME NEW h \in Handler, NonceConflict(h)
      PROVE  VerificationInv'
  BY <1>4, LeaveStep DEF NonceConflict, Return, OnlyLeave, InFlight, TypeOK
<1>5. ASSUME NEW h \in Handler, Abort(h)
      PROVE  VerificationInv'
  <2>1. CASE pc[h] \in {"purge", "insert"} /\ UNCHANGED <<seen, createdAt>>
    BY <1>5, <2>1, LeaveStep DEF Abort, Return, OnlyLeave, InFlight, TypeOK
  <2>2. CASE pc[h] = "purge" /\ DeleteExpired
    BY <1>5, <2>2, PurgeStep DEF Abort, Return, OnlyLeave, InFlight, TypeOK
  <2>3. CASE /\ pc[h] = "insert" /\ env[h] \notin seen
             /\ \E t \in checkedAt[h] .. now : AddRow(env[h], t)
    BY <1>5, <2>3, InsertStep DEF Abort
  <2> QED
    BY <1>5, <2>1, <2>2, <2>3 DEF Abort
<1>6. ASSUME NEW h \in Handler, Dispatch(h)
      PROVE  VerificationInv'
  <2> USE <1>6 DEF Dispatch, Return, VerificationInv, TypeOK
  <2>1. HandlersInWindow' /\ RowsInWindow'
    BY DEF HandlersInWindow, RowsInWindow, InFlight
  <2>2. env[h] \in Command => runs[env[h]] = 0
    BY DEF OneAcceptor
  <2>3. ConsumedIsGuarded'
    BY DEF ConsumedIsGuarded, Consumed, More
  <2>4. OneAcceptor'
    BY DEF OneAcceptor
  <2>5. CommandsRunOnce'
    BY <2>2 DEF CommandsRunOnce, More, Command
  <2>6. AcceptancesInTime'
    BY DEF AcceptancesInTime
  <2> QED
    BY <2>1, <2>3, <2>4, <2>5, <2>6
<1>7. CASE CleanupTask
  BY <1>7, PurgeStep DEF CleanupTask, OnlyLeave, InFlight, TypeOK
<1>8. CASE Crash
  BY <1>8, LeaveStep DEF Crash, Die, OnlyLeave, InFlight
<1>9. CASE Tick
  <2> USE <1>9 DEF Tick, VerificationInv, TypeOK
  <2>1. HandlersInWindow'
    BY DEF HandlersInWindow, InFlight
  <2>2. RowsInWindow' /\ CommandsRunOnce' /\ OneAcceptor'
    BY DEF RowsInWindow, CommandsRunOnce, OneAcceptor
  <2>3. ConsumedIsGuarded'
    BY DEF ConsumedIsGuarded, Consumed, Command
  <2>4. AcceptancesInTime'
    BY DEF AcceptancesInTime
  <2> QED
    BY <2>1, <2>2, <2>3, <2>4
<1>10. CASE UNCHANGED vars
  BY <1>10, LeaveStep DEF vars, OnlyLeave, InFlight
<1> QED
  BY <1>1, <1>2, <1>3, <1>4, <1>5, <1>6, <1>7, <1>8, <1>9, <1>10 DEF Next

(* The inductive invariant holds in every reachable state: the two windows *)
(* of verification fit together for all values of the constants.           *)
THEOREM Invariance == Spec => [](TypeOK /\ VerificationInv)
<1>1. Init => TypeOK /\ VerificationInv
  BY EnvelopeAssumption, WindowAssumption, AnyIsEnvelope
     DEF Init, TypeOK, VerificationInv, HandlersInWindow, RowsInWindow,
         ConsumedIsGuarded, Consumed, OneAcceptor, CommandsRunOnce, InFlight,
         Command, AcceptancesInTime, Never
<1>2. TypeOK /\ VerificationInv /\ [Next]_vars => TypeOK' /\ VerificationInv'
  BY TypeStep, InvStep DEF VerificationInv
<1> QED
  BY <1>1, <1>2, PTL DEF Spec

(* Every reachable state has the declared types (the nonce table holds     *)
(* genuine envelopes only).                                                *)
THEOREM TypeCorrect == Spec => []TypeOK
BY Invariance, PTL

(* An ordinary command is run at most once (verify_command with the purge  *)
(* of check_and_consume_nonce and of the cleanup task).                    *)
THEOREM RunOnce == Spec => []CommandsRunOnce
<1>1. VerificationInv => CommandsRunOnce
  BY DEF VerificationInv
<1> QED
  BY <1>1, Invariance, PTL

(* The nonce row of a command that has run outlives the command's window.  *)
THEOREM RowStays == Spec => []RowOutlivesWindow
<1>1. VerificationInv => RowOutlivesWindow
  BY DEF VerificationInv, ConsumedIsGuarded, Consumed, RowOutlivesWindow
<1> QED
  BY <1>1, Invariance, PTL

(* No envelope, acknowledgements included, is accepted twice within the    *)
(* retention less the stall: an insert that is accepted finds no row.      *)
THEOREM AcceptancesApart == Spec => AcceptancesAreSpaced
<1> DEFINE Spaced ==
      \A h \in Handler :
        pc[h] = "insert" /\ pc'[h] = "accepted"
          => now > acceptedAt[env[h]] + Retention - Stall
<1>1. TypeOK /\ VerificationInv /\ [Next]_vars => [Spaced]_vars
  <2> SUFFICES ASSUME TypeOK, VerificationInv, [Next]_vars,
                      NEW h \in Handler, pc[h] = "insert", pc'[h] = "accepted"
               PROVE  now > acceptedAt[env[h]] + Retention - Stall
    OBVIOUS
  <2>1. InsertNonce(h)
    BY DEF Next, CheckEnvelope, PurgeNonces, InsertNonce, NonceConflict, Abort,
       Dispatch, Return, CleanupTask, Crash, Die, Tick, vars, TypeOK
  <2> QED
    BY <2>1, WindowAssumption DEF InsertNonce, VerificationInv, AcceptancesInTime,
       TypeOK
<1> QED
  BY <1>1, Invariance, PTL DEF Spec, AcceptancesAreSpaced

-----------------------------------------------------------------------------
(***************************************************************************)
(* Lockdown.                                                               *)
(***************************************************************************)
(* A process that has just started satisfies both invariants.              *)
LEMMA ClearedState ==
  /\ FALSE \in BOOLEAN
  /\ 0 \in 0 .. Timeout + 1
  /\ [w \in Watcher |-> "idle"]
       \in [Watcher -> {"idle", "observed", "storing", "writing"}]
  /\ [a \in Acker |-> "idle"] \in [Acker -> {"idle", "verified", "clearing"}]
BY TimeoutAssumption

(* Both invariants are inductive together: the reason is only ever cleared *)
(* in the step that clears the flag.                                       *)
LEMMA LockStep ==
  ASSUME LockTypeOK, LockedHasReason, [LockNext]_lockVars
  PROVE  LockTypeOK' /\ LockedHasReason'
<1> USE TimeoutAssumption
    DEF LockTypeOK, LockedHasReason, Watcher, Reason, Sticky, None, Goto
<1>1. CASE HeartbeatRead
  BY <1>1 DEF HeartbeatRead
<1>2. CASE PgProbeFails
  BY <1>2 DEF PgProbeFails
<1>3. CASE RestoreFails
  BY <1>3 DEF RestoreFails
<1>4. CASE RemovalFails
  BY <1>4 DEF RemovalFails
<1>5. ASSUME NEW w \in Watcher, CheckFlag(w)
      PROVE  LockTypeOK' /\ LockedHasReason'
  BY <1>5 DEF CheckFlag
<1>6. ASSUME NEW w \in Watcher, StoreFlag(w)
      PROVE  LockTypeOK' /\ LockedHasReason'
  BY <1>6 DEF StoreFlag
<1>7. ASSUME NEW w \in Watcher, WriteReason(w)
      PROVE  LockTypeOK' /\ LockedHasReason'
  BY <1>7 DEF WriteReason, ReasonOf
<1>8. ASSUME NEW a \in Acker, AckVerifies(a)
      PROVE  LockTypeOK' /\ LockedHasReason'
  BY <1>8 DEF AckVerifies
<1>9. ASSUME NEW a \in Acker, AckReset(a)
       PROVE  LockTypeOK' /\ LockedHasReason'
  BY <1>9 DEF AckReset
<1>10. ASSUME NEW a \in Acker, AckClear(a)
      PROVE  LockTypeOK' /\ LockedHasReason'
  BY <1>10 DEF AckClear
<1>11. CASE Restart
  BY <1>11, ClearedState DEF Restart
<1>12. CASE TimePasses
  BY <1>12 DEF TimePasses
<1>13. CASE PgChanges
  BY <1>13 DEF PgChanges
<1>14. CASE UNCHANGED lockVars
  BY <1>14 DEF lockVars
<1> QED
  BY <1>1, <1>2, <1>3, <1>4, <1>5, <1>6, <1>7, <1>8, <1>9, <1>10, <1>11,
     <1>12, <1>13, <1>14 DEF LockNext, SetSteps

(* Types and reasons hold in every behaviour of the lockdown.              *)
THEOREM LockInvariance == LockSpec => [](LockTypeOK /\ LockedHasReason)
<1>1. LockInit => LockTypeOK /\ LockedHasReason
  BY ClearedState DEF LockInit, LockTypeOK, LockedHasReason, Reason, Sticky
<1>2. LockTypeOK /\ LockedHasReason /\ [LockNext]_lockVars
        => LockTypeOK' /\ LockedHasReason'
  BY LockStep
<1> QED
  BY <1>1, <1>2, PTL DEF LockSpec

(* Every reachable state has the declared types.                           *)
THEOREM LockTypes == LockSpec => []LockTypeOK
BY LockInvariance, PTL

(* No lockdown is left without a reason once set_lockdown has returned.    *)
THEOREM ReasonRecorded == LockSpec => []LockedHasReason
BY LockInvariance, PTL

(* A sticky lockdown that the heartbeat watchdog is not about to overwrite *)
(* is left by a restart only.                                              *)
THEOREM StickyStays == LockSpec => SettledStickyStays
<1>1. LockTypeOK /\ [LockNext]_lockVars
        => [Settled => Settled' \/ Restart]_lockVars
  <2> SUFFICES ASSUME LockTypeOK, [LockNext]_lockVars, Settled, ~ Restart
               PROVE  Settled'
    OBVIOUS
  <2> USE DEF LockTypeOK, Settled, Watcher, Sticky, None, Goto
  <2>1. CASE HeartbeatRead \/ PgProbeFails \/ RestoreFails \/ RemovalFails
    BY <2>1 DEF HeartbeatRead, PgProbeFails, RestoreFails, RemovalFails
  <2>2. ASSUME NEW w \in Watcher, CheckFlag(w)
        PROVE  Settled'
    BY <2>2 DEF CheckFlag
  <2>3. ASSUME NEW w \in Watcher, StoreFlag(w)
        PROVE  Settled'
    BY <2>3 DEF StoreFlag
  <2>4. ASSUME NEW w \in Watcher, WriteReason(w)
        PROVE  Settled'
    BY <2>4 DEF WriteReason, ReasonOf
  <2>5. ASSUME NEW a \in Acker, AckVerifies(a) \/ AckReset(a) \/ AckClear(a)
        PROVE  Settled'
    BY <2>5 DEF AckVerifies, AckReset, AckClear
  <2>6. CASE TimePasses \/ PgChanges \/ UNCHANGED lockVars
    BY <2>6 DEF TimePasses, PgChanges, lockVars
  <2> QED
    BY <2>1, <2>2, <2>3, <2>4, <2>5, <2>6 DEF LockNext, SetSteps
<1> QED
  BY <1>1, LockInvariance, PTL DEF LockSpec, SettledStickyStays

=============================================================================
