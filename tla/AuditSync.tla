----------------------------- MODULE AuditSync -----------------------------
(***************************************************************************)
(* The sync task (src/sync/mod.rs), which copies the audit log to the      *)
(* dashboard, composed with the appends of module AuditLog.                *)
(*                                                                         *)
(* sync_batch reads the cursor, selects the rows dated after it, posts     *)
(* them and moves the cursor, with appends, failures and restarts between  *)
(* any two of these steps.  The cursor is a date, not a row.  The          *)
(* dashboard is external: it keeps the rows it accepts, takes a row it     *)
(* already has, and answers 422 to a row whose predecessor it lacks.       *)
(***************************************************************************)
EXTENDS AuditLog

CONSTANTS
  BatchSize,    \* BATCH_SIZE
  MaxWipes      \* bound on the restores of the dashboard from a backup

ASSUME SyncAssumption == BatchSize \in Nat \ {0} /\ MaxWipes \in Nat

VARIABLES
  cursor,       \* sync_state.last_synced_at; 0 is the epoch
  dash,         \* rows the dashboard has
  wipes,        \* how often the dashboard lost rows
  syncPc,       \* where sync_batch stands
  from,         \* the cursor it has read
  batch,        \* the rows it has selected
  upTo          \* the date of the last of them

syncVars == <<cursor, dash, wipes, syncPc, from, batch, upTo>>
allVars == <<vars, syncVars>>

Epoch == 0

SyncInit ==
  /\ Init
  /\ cursor = Epoch
  /\ dash = {}
  /\ wipes = 0
  /\ syncPc = "idle" /\ from = Epoch /\ batch = {} /\ upTo = Epoch

-----------------------------------------------------------------------------
ReadCursor ==
  /\ syncPc = "idle"
  /\ from' = cursor
  /\ syncPc' = "select"
  /\ UNCHANGED <<vars, cursor, dash, wipes, batch, upTo>>

(* sync_batch returns; its local variables are gone.                       *)
EndRound ==
  /\ syncPc' = "idle"
  /\ from' = Epoch /\ batch' = {} /\ upTo' = Epoch

(* WHERE created_at > $1                                                   *)
Unsent == {e \in rows : at[e] > from}

(* ORDER BY created_at ASC LIMIT $2: the oldest rows, ties in any order.   *)
IsBatch(S) ==
  /\ Cardinality(S) <= BatchSize
  /\ S # Unsent => Cardinality(S) = BatchSize
  /\ \A e \in S, f \in Unsent \ S : at[e] <= at[f]

SelectBatch ==
  /\ syncPc = "select"
  /\ \E S \in SUBSET Unsent, last \in Unsent :
       /\ IsBatch(S)
       /\ last \in S
       /\ \A e \in S : at[e] <= at[last]
       /\ batch' = S
       /\ upTo' = at[last]
  /\ syncPc' = "post"
  /\ UNCHANGED <<vars, cursor, dash, wipes, from>>

NothingToSend ==
  /\ syncPc = "select"
  /\ Unsent = {}
  /\ EndRound
  /\ UNCHANGED <<vars, cursor, dash, wipes>>

(* The dashboard can append the batch to what it has.                      *)
Chained ==
  \A e \in batch :
    \/ prev[e] \in dash \cup {Genesis}
    \/ prev[e] \in batch /\ at[prev[e]] < at[e]

PostAccepted ==
  /\ syncPc = "post"
  /\ Chained
  /\ dash' = dash \cup batch
  /\ syncPc' = "advance"
  /\ UNCHANGED <<vars, cursor, wipes, from, batch, upTo>>

(* The answer to an accepted batch does not arrive in time.                *)
ReplyLost ==
  /\ syncPc = "post"
  /\ Chained
  /\ dash' = dash \cup batch
  /\ EndRound
  /\ UNCHANGED <<vars, cursor, wipes>>

PostMismatch ==
  /\ syncPc = "post"
  /\ ~ Chained
  /\ syncPc' = "reset"
  /\ UNCHANGED <<vars, cursor, dash, wipes, from, batch, upTo>>

(* Defect: the cursor moves to the time of the update.                     *)
AdvanceToNow ==
  /\ syncPc = "advance"
  /\ cursor' = clock
  /\ EndRound
  /\ UNCHANGED <<vars, dash, wipes>>

AdvanceCursor ==
  /\ syncPc = "advance"
  /\ cursor' = upTo
  /\ EndRound
  /\ UNCHANGED <<vars, dash, wipes>>

(* Defect: a 422 is an error like any other.                               *)
IgnoreMismatch ==
  /\ syncPc = "reset"
  /\ EndRound
  /\ UNCHANGED <<vars, cursor, dash, wipes>>

(* After a 422 the next round resends everything.                          *)
ResetCursor ==
  /\ syncPc = "reset"
  /\ cursor' = Epoch
  /\ EndRound
  /\ UNCHANGED <<vars, dash, wipes>>

(* A query fails, the dashboard cannot be reached or answers with another  *)
(* error, or the process dies: the next round starts over.                 *)
SyncFails ==
  /\ syncPc # "idle"
  /\ EndRound
  /\ UNCHANGED <<vars, cursor, dash, wipes>>

(* The dashboard is restored from a backup, or wiped.                      *)
DashboardRestored ==
  /\ wipes < MaxWipes
  /\ \E t \in {Epoch} \cup {at[e] : e \in dash} :
        dash' = {e \in dash : at[e] <= t}
  /\ wipes' = wipes + 1
  /\ UNCHANGED <<vars, cursor, syncPc, from, batch, upTo>>

SyncStep ==
  \/ ReadCursor
  \/ SelectBatch
  \/ NothingToSend
  \/ PostAccepted
  \/ ReplyLost
  \/ PostMismatch
  \/ AdvanceCursor
  \/ ResetCursor
  \/ SyncFails

(* Rows are not edited here (AuditLog has that).                           *)
AppendStep ==
  \E a \in Appender :
    \/ \E e \in Entry : ReadLast(a, e)
    \/ BeginInsert(a)
    \/ CommitInsert(a)
    \/ AbortAppend(a)

SyncNext ==
  \/ SyncStep
  \/ DashboardRestored
  \/ AppendStep /\ UNCHANGED syncVars

SyncSpec == SyncInit /\ [][SyncNext]_allVars

(* The task ticks for ever; a query, and a post, that is tried again and   *)
(* again succeeds again and again.                                         *)
FairSyncSpec ==
  /\ SyncSpec
  /\ WF_allVars(ReadCursor)
  /\ SF_allVars(SelectBatch)
  /\ SF_allVars(PostAccepted)
  /\ SF_allVars(PostMismatch)
  /\ SF_allVars(AdvanceCursor)
  /\ SF_allVars(ResetCursor)

-----------------------------------------------------------------------------
SyncTypeOK ==
  /\ TypeOK
  /\ cursor \in Nat
  /\ dash \subseteq rows
  /\ wipes \in 0 .. MaxWipes
  /\ syncPc \in {"idle", "select", "post", "advance", "reset"}
  /\ from \in Nat
  /\ batch \subseteq rows
  /\ upTo \in Nat

(* migrations/002_sync_cursor.sql:1: the cursor "Tracks which audit_log    *)
(* entries have been synced to the dashboard."  So, until the dashboard    *)
(* loses rows, it has every row up to the cursor: a row dated up to the    *)
(* cursor is never selected again.                                         *)
SyncedUpToCursor ==
  wipes = 0 => \A e \in rows : at[e] <= cursor => e \in dash

(* Lost replies, failed updates of the cursor, restarts and restores of    *)
(* the dashboard are made good: once a new row is waiting, the dashboard   *)
(* will have that row and every row before it.  (A row the dashboard loses *)
(* right after accepting it waits for the next new row.)                   *)
Waiting(e) ==
  e \in rows /\ at[e] > cursor /\ ~ (syncPc = "advance" /\ e \in batch)

NewRowBringsAll ==
  \A e \in Entry :
    Waiting(e) ~> (\A f \in rows : at[f] <= at[e] => f \in dash)

(* What is true of a round under way, for SyncedUpToCursor to be inductive *)
(* when appends do not overlap.                                            *)
RoundInv ==
  /\ clock > Epoch
  /\ \A a \in Appender : pc[a] = "inserting" => stamp[a] > Epoch
  /\ \A e \in rows : at[e] > Epoch
  /\ cursor # Epoch => \E e \in rows : at[e] = cursor
  /\ syncPc = "select" => from = cursor
  /\ syncPc \in {"post", "advance"} =>
       /\ \E e \in rows : at[e] = upTo
       /\ \A e \in rows : at[e] <= upTo => at[e] <= cursor \/ e \in batch
  /\ syncPc = "advance" /\ wipes = 0 => batch \subseteq dash

=============================================================================
