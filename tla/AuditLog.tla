------------------------------ MODULE AuditLog ------------------------------
(***************************************************************************)
(* The audit log: audit::append (src/audit/mod.rs) on table audit_log.     *)
(*                                                                         *)
(* append is two statements on two pooled connections, with no transaction *)
(* and no lock around them: read the last row, then insert.  It is called  *)
(* by every command handler, and handlers of POST /cmd run in parallel.    *)
(*                                                                         *)
(* A row is identified by its id (a fresh UUID per call).  Its entry_hash  *)
(* covers the id and the previous hash, so equal hashes mean equal rows    *)
(* and previous_hash is modelled as the id of the previous row.            *)
(***************************************************************************)
EXTENDS Integers, FiniteSets

CONSTANTS
  Appender,     \* calls of append that may run at the same time
  Entry,        \* entry ids; each is used by at most one call
  Genesis,      \* the "genesis" sentinel
  ResultOf,     \* ResultOf[e] = AuditResult::as_str of the entry
  MaxClock      \* bound on the clock

ASSUME AuditAssumption ==
  /\ Genesis \notin Entry
  /\ Entry # {}
  /\ MaxClock \in Nat
  /\ ResultOf \in [Entry ->
       {"success", "rejected", "rejected_rate_limit", "failed"}]

VARIABLES
  rows,         \* ids of the committed rows
  prev,         \* previous_hash of each row
  at,           \* created_at of each row
  tampered,     \* rows changed behind the agent's back
  clock,        \* the latest NOW() an insert has read; 0 is the epoch
  pc,           \* "idle", "read" (last row fetched), "inserting"
  mine,         \* the entry each appender is writing
  saw,          \* the previous_hash it computed
  stamp,        \* the created_at its INSERT statement was given
  finished      \* entries whose append returned without a database outage

logVars == <<rows, prev, at, tampered>>
vars == <<rows, prev, at, tampered, clock, pc, mine, saw, stamp, finished>>

AnyEntry == CHOOSE e \in Entry : TRUE

Init ==
  /\ rows = {}
  /\ prev = [e \in Entry |-> Genesis]
  /\ at = [e \in Entry |-> 0]
  /\ tampered = {}
  /\ clock = 1
  /\ pc = [a \in Appender |-> "idle"]
  /\ mine = [a \in Appender |-> AnyEntry]
  /\ saw = [a \in Appender |-> Genesis]
  /\ stamp = [a \in Appender |-> 0]
  /\ finished = {}

Active(a) == pc[a] # "idle"

InUse == {mine[a] : a \in {b \in Appender : Active(b)}}
Unused == Entry \ (rows \cup finished \cup InUse)

(* Defects: ORDER BY created_at ASC, and no ORDER BY at all.               *)
FirstRows == {e \in rows : \A f \in rows : at[e] <= at[f]}
AnyRows == rows

(* ORDER BY created_at DESC LIMIT 1: any of the rows with the latest date. *)
LastRows == {e \in rows : \A f \in rows : at[f] <= at[e]}

-----------------------------------------------------------------------------
(* Fetch the last row and check its own hash; a mismatch ends the call.    *)
ReadLast(a, e) ==
  /\ ~ Active(a)
  /\ e \in Unused
  /\ \/ rows = {} /\ saw' = [saw EXCEPT ![a] = Genesis]
     \/ \E last \in LastRows \ tampered : saw' = [saw EXCEPT ![a] = last]
  /\ mine' = [mine EXCEPT ![a] = e]
  /\ pc' = [pc EXCEPT ![a] = "read"]
  /\ UNCHANGED <<logVars, clock, stamp, finished>>

(* Defect: the date is not drawn by the INSERT but some time before.       *)
BeginInsertDatedEarlier(a) ==
  /\ pc[a] = "read"
  /\ \E t \in 0 .. clock : stamp' = [stamp EXCEPT ![a] = t]
  /\ pc' = [pc EXCEPT ![a] = "inserting"]
  /\ UNCHANGED <<logVars, clock, mine, saw, finished>>

(* The INSERT starts and NOW() is fixed.  Inserts that run at the same     *)
(* time may read the same clock, but one that starts after a commit reads  *)
(* a later one.                                                            *)
BeginInsert(a) ==
  /\ pc[a] = "read"
  /\ \E t \in {clock, clock + 1} :
       /\ t <= MaxClock
       /\ \A e \in rows : at[e] < t
       /\ stamp' = [stamp EXCEPT ![a] = t]
       /\ clock' = t
  /\ pc' = [pc EXCEPT ![a] = "inserting"]
  /\ UNCHANGED <<logVars, mine, saw, finished>>

(* CHECK (result IN ('success', 'rejected', 'failed')) of 001_init.sql.    *)
Storable(e) == ResultOf[e] \in {"success", "rejected", "failed"}

(* The call returns; its local variables are gone.                         *)
Return(a) ==
  /\ pc' = [pc EXCEPT ![a] = "idle"]
  /\ mine' = [mine EXCEPT ![a] = AnyEntry]
  /\ saw' = [saw EXCEPT ![a] = Genesis]
  /\ stamp' = [stamp EXCEPT ![a] = 0]

(* Defect: only the newest row is kept.                                    *)
ReplaceRow(a) ==
  /\ rows' = {mine[a]}
  /\ prev' = [prev EXCEPT ![mine[a]] = saw[a]]
  /\ at' = [at EXCEPT ![mine[a]] = stamp[a]]
  /\ UNCHANGED tampered

AddRow(a) ==
  /\ rows' = rows \cup {mine[a]}
  /\ prev' = [prev EXCEPT ![mine[a]] = saw[a]]
  /\ at' = [at EXCEPT ![mine[a]] = stamp[a]]
  /\ UNCHANGED tampered

(* The INSERT ends: with the row committed, or with the CHECK violated.    *)
CommitInsert(a) ==
  /\ pc[a] = "inserting"
  /\ IF Storable(mine[a]) THEN AddRow(a) ELSE UNCHANGED logVars
  /\ finished' = finished \cup {mine[a]}
  /\ Return(a)
  /\ UNCHANGED clock

(* A database error, a dropped request or the death of the process ends    *)
(* the call; an INSERT under way may be carried out all the same.          *)
AbortAppend(a) ==
  /\ Active(a)
  /\ \/ UNCHANGED logVars
     \/ pc[a] = "inserting" /\ Storable(mine[a]) /\ AddRow(a)
  /\ Return(a)
  /\ UNCHANGED <<clock, finished>>

(* Someone edits a row in the database.                                    *)
Tamper(e) ==
  /\ e \in rows \ tampered
  /\ tampered' = tampered \cup {e}
  /\ UNCHANGED <<rows, prev, at, clock, pc, mine, saw, stamp, finished>>

Next ==
  \/ \E a \in Appender :
        \/ \E e \in Entry : ReadLast(a, e)
        \/ BeginInsert(a)
        \/ CommitInsert(a)
        \/ AbortAppend(a)
  \/ \E e \in Entry : Tamper(e)

Spec == Init /\ [][Next]_vars

-----------------------------------------------------------------------------
TypeOK ==
  /\ rows \subseteq Entry
  /\ prev \in [Entry -> Entry \cup {Genesis}]
  /\ at \in [Entry -> Nat]
  /\ tampered \subseteq rows
  /\ clock \in Nat
  /\ pc \in [Appender -> {"idle", "read", "inserting"}]
  /\ mine \in [Appender -> Entry]
  /\ saw \in [Appender -> Entry \cup {Genesis}]
  /\ stamp \in [Appender -> Nat]
  /\ finished \subseteq Entry

(* Whatever appends overlap and abort: the predecessor named by a row is   *)
(* the genesis sentinel or a committed row that is strictly older, so      *)
(* following previous_hash from any row ends at genesis.                   *)
PrevIsOlder ==
  \A e \in rows :
    prev[e] # Genesis => prev[e] \in rows /\ at[prev[e]] < at[e]

(* One chain: no two rows follow the same predecessor.                     *)
Linear == \A e, f \in rows : prev[e] = prev[f] => e = f

(* What holds of the appends under way, for PrevIsOlder to be inductive:   *)
(* ids in use are not in the table and belong to one call each, and what a *)
(* call has seen is still there and older than the date it was given.      *)
AppendsInv ==
  /\ \A e \in rows : at[e] <= clock
  /\ \A a \in Appender : Active(a) =>
       /\ mine[a] \notin rows
       /\ \A b \in Appender : Active(b) /\ mine[b] = mine[a] => b = a
       /\ saw[a] # Genesis => saw[a] \in rows
  /\ \A a \in Appender : pc[a] = "inserting" =>
       /\ stamp[a] <= clock
       /\ saw[a] # Genesis => at[saw[a]] < stamp[a]

(* With a single call at a time, moreover, what it has seen is the one     *)
(* last row, dates are unique and the next date is later than all of them. *)
SerialInv ==
  /\ Linear
  /\ \A e, f \in rows : at[e] = at[f] => e = f
  /\ \A a \in Appender : Active(a) =>
       IF saw[a] = Genesis THEN rows = {} ELSE saw[a] \in LastRows
  /\ \A a \in Appender : pc[a] = "inserting" =>
       \A e \in rows : at[e] < stamp[a]

(* The rows with their predecessors, and the row with the latest date.     *)
Links == {[id |-> e, prev |-> prev[e]] : e \in rows}
Newest ==
  IF rows = {} THEN Genesis
               ELSE CHOOSE e \in rows : \A f \in rows : at[f] <= at[e]

(* Appends that never overlap implement the one-chain contract, through    *)
(* aborts, edits of rows and appends the CHECK constraint refuses.         *)
Chain == INSTANCE HashChain WITH links <- Links, last <- Newest
ImplementsHashChain == Chain!Spec

(* src/audit/mod.rs:65-67: "Before inserting, verifies that the last       *)
(* entry's stored `entry_hash` still matches a re-computation from its     *)
(* data -- detects any tampering of previous entries."  So no append gets  *)
(* past its check while any row is tampered with.                          *)
PassesCheck(a) == pc[a] = "idle" /\ pc'[a] = "read"
TamperStopsAppends ==
  [][\A a \in Appender : PassesCheck(a) => tampered = {}]_vars

(* src/handlers/system.rs:40: "Verify a signed command, execute it, and    *)
(* write the audit entry."  So an append that ends while the database is   *)
(* available has left its row, whatever the result it reports.             *)
FinishedIsLogged == finished \subseteq rows

=============================================================================
