---------------------------- MODULE CommandAuth ----------------------------
(***************************************************************************)
(* Command verification (src/auth/mod.rs) and the nonce table it shares    *)
(* with the cleanup task of src/main.rs.                                   *)
(*                                                                         *)
(* Request handlers run in parallel on the tokio runtime and each database *)
(* statement is an await point, so a handler is modelled statement by      *)
(* statement.  An envelope stays deliverable for ever: the transport and   *)
(* the dashboard's retries may repeat, delay and reorder it.  A nonce is   *)
(* identified with the envelope that carries it, the dashboard drawing a   *)
(* fresh one for every envelope it signs.  The agent and its PostgreSQL    *)
(* run on one host and read one clock, "now".                              *)
(***************************************************************************)
EXTENDS Integers

CONSTANTS
  Handler,     \* concurrent executions of verify_command
  Envelope,    \* signed envelopes: every envelope that may reach the agent
  Genuine,     \* those that decode, verify and carry this agent's id
  Ack,         \* those whose command type is agent.heartbeat_ack
  Stamp,       \* Stamp[e] = the timestamp inside envelope e
  Skew,        \* MAX_TIMESTAMP_SKEW_SECS
  Retention,   \* age, in seconds, beyond which a nonce row is purged
  Stall,       \* bound on the time between timestamp check and insert
  MaxTime      \* bound on the clock

ASSUME EnvelopeAssumption ==
  /\ Genuine \subseteq Envelope
  /\ Ack \subseteq Envelope
  /\ Stamp \in [Envelope -> Int]
  /\ Envelope # {}

(* The code's values are 30 and 300 seconds, so a handler may stall for up *)
(* to 240 seconds on the connection pool and the two statements.           *)
ASSUME WindowAssumption ==
  /\ Skew \in Nat /\ Retention \in Nat /\ Stall \in Nat /\ MaxTime \in Nat
  /\ 2 * Skew + Stall <= Retention

VARIABLES
  now,         \* wall clock, in seconds
  seen,        \* nonces with a row in table used_nonces
  createdAt,   \* created_at of each row (0 where there is none)
  pc,          \* where each handler stands in verify_command
  env,         \* the envelope each handler is verifying
  checkedAt,   \* when each handler took its timestamp decision
  runs,        \* runs[e] = how often e passed verification and was dispatched
  acceptedAt   \* when e was last accepted: a record of it, read by no step

vars == <<now, seen, createdAt, pc, env, checkedAt, runs, acceptedAt>>

(* Ordinary commands: those the timestamp window applies to.               *)
Command == Genuine \ Ack

(* Counting runs up to two tells "once" from "more than once".             *)
More(n) == IF n = 0 THEN 1 ELSE 2

(* A date from which on every row would have been purged by now.           *)
Never == - Retention - 1

AnyEnvelope == CHOOSE e \in Envelope : TRUE

Init ==
  /\ now = 0
  /\ seen = {}
  /\ createdAt = [e \in Envelope |-> 0]
  /\ pc = [h \in Handler |-> "idle"]
  /\ env = [h \in Handler |-> AnyEnvelope]
  /\ checkedAt = [h \in Handler |-> 0]
  /\ runs = [e \in Envelope |-> 0]
  /\ acceptedAt = [e \in Envelope |-> Never]

-----------------------------------------------------------------------------
(* Defect: the skew is not taken as an absolute value.                     *)
FreshOneSided(e) == now - Stamp[e] <= Skew

(* |now - timestamp| <= MAX_TIMESTAMP_SKEW_SECS                            *)
Fresh(e) == now - Stamp[e] <= Skew /\ Stamp[e] - now <= Skew

(* The handler returns, and what it held is gone.                          *)
Return(h) ==
  /\ pc' = [pc EXCEPT ![h] = "idle"]
  /\ env' = [env EXCEPT ![h] = AnyEnvelope]
  /\ checkedAt' = [checkedAt EXCEPT ![h] = 0]

(* Steps 1 to 5 of verify_command: they touch no shared state, so a        *)
(* rejected envelope changes nothing and only the accepting path is a step.*)
CheckEnvelope(h, e) ==
  /\ pc[h] = "idle"
  /\ e \in Genuine
  /\ e \in Ack \/ Fresh(e)
  /\ pc' = [pc EXCEPT ![h] = "purge"]
  /\ env' = [env EXCEPT ![h] = e]
  /\ checkedAt' = [checkedAt EXCEPT ![h] = now]
  /\ UNCHANGED <<now, seen, createdAt, runs, acceptedAt>>

(* Defect: a row is purged one second early.                               *)
ExpiredEarly == {e \in seen : createdAt[e] <= now - Retention}

(* DELETE FROM used_nonces WHERE created_at < NOW() - INTERVAL '5 minutes' *)
Expired == {e \in seen : createdAt[e] < now - Retention}

DeleteExpired ==
  /\ seen' = seen \ Expired
  /\ createdAt' = [e \in Envelope |-> IF e \in Expired THEN 0 ELSE createdAt[e]]

PurgeNonces(h) ==
  /\ pc[h] = "purge"
  /\ DeleteExpired
  /\ pc' = [pc EXCEPT ![h] = "insert"]
  /\ UNCHANGED <<now, env, checkedAt, runs, acceptedAt>>

(* INSERT ... ON CONFLICT DO NOTHING.  created_at is NOW() at the start of *)
(* the statement, which may lie before the moment the row becomes visible. *)
AddRow(e, t) ==
  /\ seen' = seen \cup {e}
  /\ createdAt' = [createdAt EXCEPT ![e] = t]

InsertNonce(h) ==
  /\ pc[h] = "insert"
  /\ env[h] \notin seen
  /\ \E t \in checkedAt[h] .. now : AddRow(env[h], t)
  /\ pc' = [pc EXCEPT ![h] = "accepted"]
  /\ acceptedAt' = [acceptedAt EXCEPT ![env[h]] = now]
  /\ UNCHANGED <<now, env, checkedAt, runs>>

NonceConflict(h) ==
  /\ pc[h] = "insert"
  /\ env[h] \in seen
  /\ Return(h)
  /\ UNCHANGED <<now, seen, createdAt, runs, acceptedAt>>

(* A database error, or the client of the HTTP request going away while    *)
(* the handler awaits a statement.  The statement may have been carried    *)
(* out all the same.                                                       *)
Abort(h) ==
  /\ \/ /\ pc[h] \in {"purge", "insert"}
        /\ UNCHANGED <<seen, createdAt>>
     \/ pc[h] = "purge" /\ DeleteExpired
     \/ /\ pc[h] = "insert"
        /\ env[h] \notin seen
        /\ \E t \in checkedAt[h] .. now : AddRow(env[h], t)
  /\ Return(h)
  /\ UNCHANGED <<now, runs, acceptedAt>>

(* run_verified_command hands the verified command to command_dispatch:    *)
(* there is no await between the two.                                      *)
Dispatch(h) ==
  /\ pc[h] = "accepted"
  /\ runs' = [runs EXCEPT ![env[h]] = More(@)]
  /\ Return(h)
  /\ UNCHANGED <<now, seen, createdAt, acceptedAt>>

-----------------------------------------------------------------------------
(* The cleanup task: at startup and then every hour.                       *)
CleanupTask ==
  /\ Expired # {}
  /\ DeleteExpired
  /\ UNCHANGED <<now, pc, env, checkedAt, runs, acceptedAt>>

Die ==
  /\ \E h \in Handler : pc[h] # "idle"
  /\ pc' = [h \in Handler |-> "idle"]
  /\ env' = [h \in Handler |-> AnyEnvelope]
  /\ checkedAt' = [h \in Handler |-> 0]
  /\ UNCHANGED <<now, runs, acceptedAt>>

(* Defect: the nonces are kept in memory only.                             *)
CrashForgetsNonces ==
  /\ Die
  /\ seen' = {} /\ createdAt' = [e \in Envelope |-> 0]

(* The process dies and is restarted: the table survives.                  *)
Crash ==
  /\ Die
  /\ UNCHANGED <<seen, createdAt>>

(* Time passes, but a handler past its timestamp check stalls for at most  *)
(* Stall seconds before its insert is over.                                *)
Tick ==
  /\ now < MaxTime
  /\ \A h \in Handler :
        pc[h] \in {"purge", "insert"} => now < checkedAt[h] + Stall
  /\ now' = now + 1
  /\ UNCHANGED <<seen, createdAt, pc, env, checkedAt, runs, acceptedAt>>

Next ==
  \/ \E h \in Handler :
        \/ \E e \in Envelope : CheckEnvelope(h, e)
        \/ PurgeNonces(h)
        \/ InsertNonce(h)
        \/ NonceConflict(h)
        \/ Abort(h)
        \/ Dispatch(h)
  \/ CleanupTask
  \/ Crash
  \/ Tick

Spec == Init /\ [][Next]_vars

-----------------------------------------------------------------------------
TypeOK ==
  /\ now \in Nat
  /\ seen \subseteq Genuine
  /\ createdAt \in [Envelope -> Nat]
  /\ pc \in [Handler -> {"idle", "purge", "insert", "accepted"}]
  /\ env \in [Handler -> Envelope]
  /\ checkedAt \in [Handler -> Nat]
  /\ runs \in [Envelope -> 0 .. 2]
  /\ acceptedAt \in [Envelope -> Int]

(* No ordinary command is run twice, however often, late or out of order   *)
(* its envelope is delivered, whatever handlers race on it and whenever    *)
(* the purge, the cleanup task or a crash comes in between                 *)
(* (check_and_consume_nonce with the purge interval of its DELETE).        *)
CommandsRunOnce == \A e \in Command : runs[e] <= 1

(* The purge never comes too early: once a command has been accepted, its  *)
(* nonce row is still there for as long as any handler might still get the *)
(* same envelope past the timestamp check and up to the insert.            *)
RowOutlivesWindow ==
  \A e \in Command :
    runs[e] > 0 => e \in seen \/ now > Stamp[e] + Skew + Stall

(* What still holds of an acknowledgement, which no timestamp check keeps  *)
(* out: the same envelope is not accepted again for as long as its row is  *)
(* retained, less the stall of the statement that dated the row, whichever *)
(* handlers race, purge or crash.  (Ordinary commands included.)           *)
AcceptancesAreSpaced ==
  [][\A h \in Handler :
       pc[h] = "insert" /\ pc'[h] = "accepted"
         => now > acceptedAt[env[h]] + Retention - Stall]_vars

(* The strengthening that makes CommandsRunOnce and RowOutlivesWindow       *)
(* inductive.  It states why the two windows fit together: a row is not     *)
(* older than its command's window, a handler past its check is inside the  *)
(* window plus the stall, a command that has been accepted is protected by  *)
(* its row or by the clock, and only one handler can have accepted it.      *)
InFlight(h) == pc[h] \in {"purge", "insert"}

HandlersInWindow ==
  \A h \in Handler : InFlight(h) =>
    /\ checkedAt[h] <= now /\ now <= checkedAt[h] + Stall
    /\ env[h] \in Genuine
    /\ env[h] \in Command => /\ checkedAt[h] - Stamp[env[h]] <= Skew
                             /\ Stamp[env[h]] - checkedAt[h] <= Skew

RowsInWindow == \A e \in Command \cap seen : Stamp[e] - Skew <= createdAt[e]

Consumed(e) ==
  runs[e] > 0 \/ \E h \in Handler : pc[h] = "accepted" /\ env[h] = e

ConsumedIsGuarded ==
  \A e \in Command :
    Consumed(e) => e \in seen \/ now > Stamp[e] + Skew + Stall

OneAcceptor ==
  \A g, h \in Handler :
    pc[g] = "accepted" /\ env[g] \in Command =>
      /\ runs[env[g]] = 0
      /\ pc[h] = "accepted" /\ env[h] = env[g] => g = h

(* The row of the last acceptance is not older than it by more than the    *)
(* stall, and if it is gone, the time for which it is retained has passed. *)
AcceptancesInTime ==
  \A e \in Envelope :
    /\ acceptedAt[e] <= now
    /\ e \in seen => acceptedAt[e] - Stall <= createdAt[e]
    /\ e \notin seen => acceptedAt[e] + Retention - Stall < now

VerificationInv ==
  /\ HandlersInWindow
  /\ RowsInWindow
  /\ ConsumedIsGuarded
  /\ OneAcceptor
  /\ CommandsRunOnce
  /\ AcceptancesInTime

(* The comment at src/auth/mod.rs:87 says of heartbeat_ack: "Nonce dedup   *)
(* (step 6) still prevents replay even without the timestamp check."  So   *)
(* an acknowledgement envelope should not pass verification twice either.  *)
AcksRunOnce == \A e \in Ack : runs[e] <= 1

=============================================================================
