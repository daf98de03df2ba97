---------------------------- MODULE AuditProofs -----------------------------
(***************************************************************************)
(* Proofs about the audit log and its sync to the dashboard, for any       *)
(* number of rows and any batch size.  For any number of concurrent        *)
(* appends the previous hashes never dangle or run in circles; for appends *)
(* that never overlap the log is one chain, and the cursor never passes a  *)
(* row the dashboard lacks.                                                *)
(***************************************************************************)
EXTENDS AuditSync, TLAPS

(* The placeholder of an idle call is an entry.                            *)
LEMMA AnyEntryType == AnyEntry \in Entry
BY AuditAssumption DEF AnyEntry

(* A call that ends without adding a row.                                  *)
LEMMA ReturnStep ==
  ASSUME TypeOK, AppendsInv, PrevIsOlder,
         NEW a \in Appender, Return(a), UNCHANGED <<logVars, clock>>,
         finished' \subseteq Entry
  PROVE  TypeOK' /\ AppendsInv' /\ PrevIsOlder'
BY AuditAssumption, AnyEntryType
   DEF TypeOK, AppendsInv, PrevIsOlder, Return, logVars, Active

(* A call that ends by adding its row.                                     *)
LEMMA AddStep ==
  ASSUME TypeOK, AppendsInv, PrevIsOlder,
         NEW a \in Appender, pc[a] = "inserting", Return(a), AddRow(a),
         UNCHANGED clock, finished' \subseteq Entry
  PROVE  TypeOK' /\ AppendsInv' /\ PrevIsOlder'
<1> USE AuditAssumption, AnyEntryType DEF TypeOK, Return, AddRow, Active
<1>1. /\ mine[a] \in Entry \ rows
      /\ stamp[a] \in Nat /\ stamp[a] <= clock
      /\ saw[a] # Genesis => saw[a] \in rows /\ at[saw[a]] < stamp[a]
  BY DEF AppendsInv
<1>2. TypeOK'
  OBVIOUS
<1>3. \A e \in rows : at'[e] = at[e] /\ prev'[e] = prev[e]
  BY <1>1
<1>4. at'[mine[a]] = stamp[a] /\ prev'[mine[a]] = saw[a]
  BY <1>1
<1>5. AppendsInv'
  BY <1>1, <1>3, <1>4 DEF AppendsInv
<1>6. PrevIsOlder'
  BY <1>1, <1>3, <1>4 DEF PrevIsOlder
<1> QED
  BY <1>2, <1>5, <1>6

(* Every step keeps the invariants of concurrent appends.                  *)
LEMMA Step ==
  ASSUME TypeOK, AppendsInv, PrevIsOlder, [Next]_vars
  PROVE  TypeOK' /\ AppendsInv' /\ PrevIsOlder'
<1> USE AuditAssumption, AnyEntryType DEF TypeOK, logVars
<1>1. ASSUME NEW a \in Appender, NEW e \in Entry, ReadLast(a, e)
      PROVE  TypeOK' /\ AppendsInv' /\ PrevIsOlder'
  <2>1. /\ e \notin rows
        /\ \A b \in Appender : Active(b) => mine[b] # e
    BY <1>1 DEF ReadLast, Unused, InUse
  <2>2. saw' \in [Appender -> Entry \cup {Genesis}]
        /\ (saw'[a] # Genesis => saw'[a] \in rows)
        /\ \A b \in Appender \ {a} : saw'[b] = saw[b]
    BY <1>1 DEF ReadLast, LastRows
  <2>3. TypeOK' /\ PrevIsOlder'
    BY <1>1, <2>2 DEF ReadLast, PrevIsOlder
  <2>4. AppendsInv'
    BY <1>1, <2>1, <2>2 DEF ReadLast, AppendsInv, Active
  <2> QED
    BY <2>3, <2>4
<1>2. ASSUME NEW a \in Appender, BeginInsert(a)
      PROVE  TypeOK' /\ AppendsInv' /\ PrevIsOlder'
  <2>1. PICK t \in {clock, clock + 1} :
               /\ \A e \in rows : at[e] < t
               /\ stamp' = [stamp EXCEPT ![a] = t]
               /\ clock' = t
    BY <1>2 DEF BeginInsert
  <2>2. TypeOK' /\ PrevIsOlder'
    BY <1>2, <2>1 DEF BeginInsert, PrevIsOlder
  <2>3. AppendsInv'
    BY <1>2, <2>1 DEF BeginInsert, AppendsInv, Active
  <2> QED
    BY <2>2, <2>3
<1>3. ASSUME NEW a \in Appender, CommitInsert(a)
      PROVE  TypeOK' /\ AppendsInv' /\ PrevIsOlder'
  <2>1. finished' \subseteq Entry /\ Return(a) /\ UNCHANGED clock
    BY <1>3 DEF CommitInsert
  <2>2. CASE Storable(mine[a])
    BY <1>3, <2>1, <2>2, AddStep DEF CommitInsert
  <2>3. CASE ~ Storable(mine[a])
    BY <1>3, <2>1, <2>3, ReturnStep DEF CommitInsert
  <2> QED
    BY <2>2, <2>3
<1>4. ASSUME NEW a \in Appender, AbortAppend(a)
      PROVE  TypeOK' /\ AppendsInv' /\ PrevIsOlder'
  <2>1. finished' \subseteq Entry /\ Return(a) /\ UNCHANGED clock
    BY <1>4 DEF AbortAppend
  <2>2. CASE UNCHANGED logVars
    BY <2>1, <2>2, ReturnStep
  <2>3. CASE pc[a] = "inserting" /\ AddRow(a)
    BY <2>1, <2>3, AddStep
  <2> QED
    BY <1>4, <2>2, <2>3 DEF AbortAppend
<1>5. ASSUME NEW e \in Entry, Tamper(e)
      PROVE  TypeOK' /\ AppendsInv' /\ PrevIsOlder'
  BY <1>5 DEF Tamper, AppendsInv, PrevIsOlder, Active
<1>6. CASE UNCHANGED vars
  BY <1>6 DEF vars, AppendsInv, PrevIsOlder, Active
<1> QED
  BY <1>1, <1>2, <1>3, <1>4, <1>5, <1>6 DEF Next

(* Types, the appends under way and the order of the predecessors.         *)
THEOREM Invariance == Spec => [](TypeOK /\ AppendsInv /\ PrevIsOlder)
<1>1. Init => TypeOK /\ AppendsInv /\ PrevIsOlder
  BY AuditAssumption, AnyEntryType
     DEF Init, TypeOK, AppendsInv, PrevIsOlder, Active
<1>2. TypeOK /\ AppendsInv /\ PrevIsOlder /\ [Next]_vars
      => TypeOK' /\ AppendsInv' /\ PrevIsOlder'
  BY Step
<1> QED
  BY <1>1, <1>2, PTL DEF Spec

(* Every reachable state has the declared types.                           *)
THEOREM TypeCorrect == Spec => []TypeOK
BY Invariance, PTL

(* Previous hashes never dangle and never run in circles, whatever appends *)
(* overlap.                                                                *)
THEOREM ChainIsRooted == Spec => []PrevIsOlder
BY Invariance, PTL

-----------------------------------------------------------------------------
(* Appends that never overlap: at most one call of append at a time.       *)
Serial == \A a, b \in Appender : a = b

(* A row added by the only call there is follows the last row.             *)
LEMMA SerialAdd ==
  ASSUME Serial, TypeOK, AppendsInv, PrevIsOlder, SerialInv,
         NEW a \in Appender, pc[a] = "inserting", Return(a), AddRow(a)
  PROVE  SerialInv'
<1> USE DEF TypeOK, AddRow, Return, Active
<1>1. /\ mine[a] \in Entry \ rows
      /\ saw[a] # Genesis => saw[a] \in rows
  BY DEF AppendsInv
<1>2. /\ \A e \in rows : at'[e] = at[e] /\ prev'[e] = prev[e]
      /\ at'[mine[a]] = stamp[a]
      /\ prev'[mine[a]] = saw[a]
  BY <1>1
<1>3. \A e \in rows : at[e] < stamp[a]
  BY DEF SerialInv
<1>4. \A e \in rows : prev[e] # saw[a]
  (* Nothing follows the row just seen: a follower would be younger.       *)
  <2> SUFFICES ASSUME NEW e \in rows, prev[e] = saw[a] PROVE FALSE
    OBVIOUS
  <2>1. saw[a] \in LastRows
    BY DEF SerialInv
  <2>2. saw[a] # Genesis
    BY DEF SerialInv
  <2>3. at[saw[a]] < at[e]
    BY <2>2 DEF PrevIsOlder
  <2>4. at[e] <= at[saw[a]]
    BY <2>1 DEF LastRows
  <2> QED
    BY <1>1, <2>2, <2>3, <2>4
<1>5. Linear'
  BY <1>1, <1>2, <1>4 DEF Linear, SerialInv
<1>6. (\A e, f \in rows : at[e] = at[f] => e = f)'
  BY <1>1, <1>2, <1>3 DEF SerialInv
<1>7. \A b \in Appender : ~ Active(b)'
  BY DEF Serial
<1> QED
  BY <1>5, <1>6, <1>7 DEF SerialInv

(* Every step keeps the chain linear when appends do not overlap.          *)
LEMMA SerialStep ==
  ASSUME Serial, TypeOK, AppendsInv, PrevIsOlder, SerialInv, [Next]_vars
  PROVE  SerialInv'
<1> USE DEF TypeOK, logVars, Active
<1>1. ASSUME NEW a \in Appender, NEW e \in Entry, ReadLast(a, e)
      PROVE  SerialInv'
  BY <1>1, AuditAssumption DEF ReadLast, SerialInv, Serial, Linear, LastRows
<1>2. ASSUME NEW a \in Appender, BeginInsert(a)
      PROVE  SerialInv'
  BY <1>2 DEF BeginInsert, SerialInv, Serial, Linear, LastRows
<1>3. ASSUME NEW a \in Appender, UNCHANGED logVars, Return(a)
      PROVE  SerialInv'
  BY <1>3 DEF Return, SerialInv, Serial, Linear, LastRows
<1>4. ASSUME NEW a \in Appender, CommitInsert(a)
      PROVE  SerialInv'
  BY <1>3, <1>4, SerialAdd DEF CommitInsert
<1>5. ASSUME NEW a \in Appender, AbortAppend(a)
      PROVE  SerialInv'
  BY <1>3, <1>5, SerialAdd DEF AbortAppend
<1>6. ASSUME NEW e \in Entry, Tamper(e)
      PROVE  SerialInv'
  BY <1>6 DEF Tamper, SerialInv, Linear, LastRows
<1>7. CASE UNCHANGED vars
  BY <1>7 DEF vars, SerialInv, Linear, LastRows
<1> QED
  BY <1>1, <1>2, <1>4, <1>5, <1>6, <1>7 DEF Next

(* Appends that never overlap leave one chain, through aborted calls, edits*)
(* of rows and inserts the CHECK constraint refuses.                       *)
THEOREM SerialIsLinear ==
  ASSUME Serial
  PROVE  Spec => []Linear
<1>1. Init => SerialInv
  BY DEF Init, SerialInv, Linear, Active
<1>2. TypeOK /\ AppendsInv /\ PrevIsOlder /\ SerialInv /\ [Next]_vars
      => SerialInv'
  BY SerialStep
<1>3. SerialInv => Linear
  BY DEF SerialInv
<1> QED
  BY <1>1, <1>2, <1>3, Invariance, PTL DEF Spec

-----------------------------------------------------------------------------
(* The log and the sync rounds together.                                   *)
LogInv == TypeOK /\ AppendsInv /\ PrevIsOlder /\ SerialInv

(* The sync task does not touch the log.                                   *)
LEMMA StepsOfTheLog == [SyncNext]_allVars => [Next]_vars
<1>1. AppendStep => Next
  BY DEF AppendStep, Next
<1>2. SyncStep => UNCHANGED vars
  BY DEF SyncStep, ReadCursor, SelectBatch, NothingToSend, PostAccepted,
         ReplyLost, PostMismatch, AdvanceCursor, ResetCursor, SyncFails
<1>3. DashboardRestored => UNCHANGED vars
  BY DEF DashboardRestored
<1> QED
  BY <1>1, <1>2, <1>3 DEF SyncNext, allVars

(* Every step keeps all invariants of a serial log.                        *)
LEMMA LogStep ==
  ASSUME Serial, LogInv, [Next]_vars
  PROVE  LogInv'
BY Step, SerialStep DEF LogInv

(* The date that is later than all others is the latest.                   *)
LEMMA LatestIsOne ==
  ASSUME NEW S, NEW date, \A f \in S : date[f] \in Nat,
         NEW e \in S, \A f \in S \ {e} : date[f] < date[e]
  PROVE  e = CHOOSE g \in S : \A f \in S : date[f] <= date[g]
<1>1. \A f \in S : date[f] <= date[e]
  OBVIOUS
<1>2. ASSUME NEW g \in S, \A f \in S : date[f] <= date[g]
      PROVE  g = e
  BY <1>2
<1> QED
  BY <1>1, <1>2

(* A row that is added is a link to the row that was the newest.           *)
LEMMA AddExtends ==
  ASSUME Serial, LogInv, LogInv',
         NEW a \in Appender, pc[a] = "inserting", Return(a), AddRow(a)
  PROVE  Chain!Extend(mine[a])
<1> USE DEF LogInv, TypeOK
<1>1. mine[a] \in Entry \ rows
  BY DEF AppendsInv, Active
<1>2. /\ rows' = rows \cup {mine[a]}
      /\ \A e \in rows : at'[e] = at[e] /\ prev'[e] = prev[e]
      /\ at'[mine[a]] = stamp[a]
      /\ prev'[mine[a]] = saw[a]
  BY <1>1 DEF AddRow
<1>3. Newest = saw[a]
  <2>1. CASE saw[a] = Genesis
    BY <2>1 DEF SerialInv, Active, Newest
  <2>2. CASE saw[a] # Genesis
    <3>1. saw[a] \in LastRows
      BY <2>2 DEF SerialInv, Active
    <3>2. saw[a] \in rows /\ \A f \in rows \ {saw[a]} : at[f] < at[saw[a]]
      BY <3>1 DEF LastRows, SerialInv
    <3> QED
      BY <3>2, LatestIsOne DEF Newest
  <2> QED
    BY <2>1, <2>2
<1>4. Newest' = mine[a]
  <2>1. \A f \in rows : at[f] < stamp[a]
    BY DEF SerialInv
  <2>2. /\ mine[a] \in rows'
        /\ \A f \in rows' : at'[f] \in Nat
        /\ \A f \in rows' \ {mine[a]} : at'[f] < at'[mine[a]]
    BY <1>1, <1>2, <2>1
  <2> QED
    BY <2>2, LatestIsOne DEF Newest
<1>5. Links' = Links \cup {[id |-> mine[a], prev |-> saw[a]]}
  BY <1>1, <1>2 DEF Links
<1>6. \A link \in Links : link.id # mine[a]
  BY <1>1 DEF Links
<1> QED
  BY <1>3, <1>4, <1>5, <1>6 DEF Chain!Extend

(* Appends that never overlap implement the chain: each adds one link, or  *)
(* nothing.                                                                *)
THEOREM SerialIsChained ==
  ASSUME Serial
  PROVE  Spec => ImplementsHashChain
<1>1. Init => LogInv /\ Chain!Init
  BY AuditAssumption, AnyEntryType
     DEF Init, LogInv, TypeOK, AppendsInv, PrevIsOlder, SerialInv, Linear,
         Active, Chain!Init, Links, Newest
<1>2. LogInv /\ [Next]_vars => LogInv'
  BY LogStep
<1>3. LogInv /\ LogInv' /\ [Next]_vars => [Chain!Next]_<<Links, Newest>>
  <2> SUFFICES ASSUME LogInv, LogInv', [Next]_vars
               PROVE  [Chain!Next]_<<Links, Newest>>
    OBVIOUS
  <2>1. ASSUME UNCHANGED <<rows, prev, at>>
        PROVE  UNCHANGED <<Links, Newest>>
    BY <2>1 DEF Links, Newest
  <2>2. ASSUME NEW a \in Appender,
               pc[a] = "inserting", Return(a), AddRow(a)
        PROVE  Chain!Next
    <3>1. mine[a] \in Entry
      BY <2>2 DEF LogInv, TypeOK
    <3>2. Chain!Extend(mine[a])
      BY <2>2, AddExtends
    <3> QED
      BY <3>1, <3>2 DEF Chain!Next
  <2>3. ASSUME NEW a \in Appender, CommitInsert(a)
        PROVE  [Chain!Next]_<<Links, Newest>>
    BY <2>1, <2>2, <2>3 DEF CommitInsert, logVars
  <2>4. ASSUME NEW a \in Appender, AbortAppend(a)
        PROVE  [Chain!Next]_<<Links, Newest>>
    BY <2>1, <2>2, <2>4 DEF AbortAppend, logVars
  <2>5. ASSUME ~ \E a \in Appender : CommitInsert(a) \/ AbortAppend(a)
        PROVE  UNCHANGED <<rows, prev, at>>
    BY <2>5 DEF Next, ReadLast, BeginInsert, Tamper, vars, logVars
  <2> QED
    BY <2>1, <2>3, <2>4, <2>5
<1> QED
  BY <1>1, <1>2, <1>3, PTL DEF Spec, ImplementsHashChain, Chain!Spec

(* So do the appends next to the sync task.                                *)
THEOREM SyncedLogIsChained ==
  ASSUME Serial
  PROVE  SyncSpec => ImplementsHashChain
<1>1. SyncSpec => Spec
  BY StepsOfTheLog, PTL DEF SyncSpec, SyncInit, Spec
<1> QED
  BY <1>1, SerialIsChained

(* A row that is added is younger than all others.                         *)
LEMMA NewRowIsYoungest ==
  ASSUME LogInv, RoundInv, AppendStep
  PROVE  /\ clock' > Epoch
         /\ \A a \in Appender : pc'[a] = "inserting" => stamp'[a] > Epoch
         /\ rows \subseteq rows'
         /\ \A e \in rows : at'[e] = at[e]
         /\ \A e \in rows' \ rows :
              at'[e] > Epoch /\ \A f \in rows : at[f] < at'[e]
<1> USE DEF LogInv, TypeOK, RoundInv, Epoch, logVars, Active
<1>1. ASSUME NEW a \in Appender, NEW e \in Entry, ReadLast(a, e)
      PROVE  UNCHANGED <<rows, at, clock, stamp>> /\
             \A b \in Appender : pc'[b] = "inserting" => pc[b] = "inserting"
  BY <1>1 DEF ReadLast
<1>2. ASSUME NEW a \in Appender, BeginInsert(a)
      PROVE  /\ UNCHANGED <<rows, at>> /\ clock' > Epoch
             /\ \A b \in Appender :
                  pc'[b] = "inserting" => stamp'[b] > Epoch
  BY <1>2 DEF BeginInsert
<1>3. ASSUME NEW a \in Appender, Return(a)
      PROVE  \A b \in Appender :
               pc'[b] = "inserting" => pc[b] = "inserting" /\ stamp'[b] = stamp[b]
  BY <1>3 DEF Return
<1>4. ASSUME NEW a \in Appender, pc[a] = "inserting", AddRow(a)
      PROVE  /\ rows \subseteq rows'
             /\ \A e \in rows : at'[e] = at[e]
             /\ \A e \in rows' \ rows :
                  at'[e] > Epoch /\ \A f \in rows : at[f] < at'[e]
  BY <1>4 DEF AddRow, AppendsInv, SerialInv
<1>5. ASSUME NEW a \in Appender, CommitInsert(a) \/ AbortAppend(a)
      PROVE  /\ Return(a) /\ UNCHANGED clock
             /\ UNCHANGED logVars \/ (pc[a] = "inserting" /\ AddRow(a))
  BY <1>5 DEF CommitInsert, AbortAppend
<1>6. ASSUME NEW a \in Appender, CommitInsert(a) \/ AbortAppend(a)
      PROVE  /\ clock' > Epoch
             /\ \A b \in Appender :
                  pc'[b] = "inserting" => stamp'[b] > Epoch
             /\ rows \subseteq rows'
             /\ \A e \in rows : at'[e] = at[e]
             /\ \A e \in rows' \ rows :
                  at'[e] > Epoch /\ \A f \in rows : at[f] < at'[e]
  BY <1>3, <1>4, <1>5, <1>6
<1> QED
  BY <1>1, <1>2, <1>6 DEF AppendStep

(* Every step keeps the types, also when appends overlap.                  *)
LEMMA SyncTypeStep ==
  ASSUME AppendsInv, PrevIsOlder, SyncTypeOK, [SyncNext]_allVars
  PROVE  SyncTypeOK'
<1>1. TypeOK'
  BY StepsOfTheLog, Step DEF SyncTypeOK
<1>2. CASE AppendStep /\ UNCHANGED syncVars
  <2>1. rows \subseteq rows'
    BY <1>2 DEF AppendStep, ReadLast, BeginInsert, CommitInsert, AbortAppend,
                AddRow, logVars
  <2> QED
    BY <1>1, <1>2, <2>1 DEF SyncTypeOK, syncVars
<1>3. CASE SyncStep
  BY <1>1, <1>3, SyncAssumption
     DEF SyncTypeOK, TypeOK, Epoch, Unsent, EndRound, vars, SyncStep,
         ReadCursor, SelectBatch, NothingToSend, PostAccepted, ReplyLost,
         PostMismatch, AdvanceCursor, ResetCursor, SyncFails
<1>4. CASE DashboardRestored
  BY <1>1, <1>4, SyncAssumption DEF SyncTypeOK, DashboardRestored, vars
<1>5. CASE UNCHANGED allVars
  BY <1>1, <1>5 DEF SyncTypeOK, allVars, syncVars, vars
<1> QED
  BY <1>2, <1>3, <1>4, <1>5 DEF SyncNext

(* Every step keeps the sync rounds honest, over a serial log.             *)
LEMMA RoundStep ==
  ASSUME Serial, LogInv, SyncTypeOK, RoundInv, SyncedUpToCursor,
         [SyncNext]_allVars
  PROVE  RoundInv' /\ SyncedUpToCursor'
<1> USE DEF SyncTypeOK, TypeOK, Epoch
<1>1. CASE AppendStep /\ UNCHANGED syncVars
  <2>1. /\ clock' > Epoch
        /\ \A a \in Appender : pc'[a] = "inserting" => stamp'[a] > Epoch
        /\ rows \subseteq rows'
        /\ \A e \in rows : at'[e] = at[e]
        /\ \A e \in rows' \ rows :
             at'[e] > Epoch /\ \A f \in rows : at[f] < at'[e]
    BY <1>1, NewRowIsYoungest
  <2>2. rows' \subseteq Entry /\ at' \in [Entry -> Nat]
    BY SyncTypeStep DEF LogInv
  <2>3. \A e \in rows' \ rows : at'[e] > cursor
    BY <2>1, <2>2 DEF RoundInv
  <2>4. ASSUME syncPc \in {"post", "advance"}
        PROVE  \A e \in rows' \ rows : at'[e] > upTo
    BY <2>1, <2>2, <2>4 DEF RoundInv
  <2>5. SyncedUpToCursor'
    BY <1>1, <2>1, <2>2, <2>3 DEF SyncedUpToCursor, syncVars
  <2>6. RoundInv'
    BY <1>1, <2>1, <2>2, <2>4 DEF RoundInv, syncVars
  <2> QED
    BY <2>5, <2>6
<1>2. CASE ReadCursor
  BY <1>2 DEF ReadCursor, RoundInv, SyncedUpToCursor, vars
<1>3. CASE SelectBatch
  <2>1. PICK S \in SUBSET Unsent, last \in Unsent :
          /\ IsBatch(S) /\ last \in S
          /\ \A e \in S : at[e] <= at[last]
          /\ batch' = S /\ upTo' = at[last]
    BY <1>3 DEF SelectBatch
  <2>2. \A e \in rows : at[e] <= at[last] => at[e] <= cursor \/ e \in S
                                            \/ at[e] = at[last]
    BY <1>3, <2>1 DEF SelectBatch, Unsent, IsBatch, RoundInv
  <2>3. \A e \in rows : at[e] = at[last] => e \in S
    BY <2>1 DEF LogInv, SerialInv, Unsent
  <2> QED
    BY <1>3, <2>1, <2>2, <2>3
       DEF SelectBatch, RoundInv, SyncedUpToCursor, Unsent, vars
<1>4. CASE PostAccepted
  BY <1>4 DEF PostAccepted, RoundInv, SyncedUpToCursor, vars
<1>5. CASE PostMismatch
  BY <1>5 DEF PostMismatch, RoundInv, SyncedUpToCursor, vars
<1>6. CASE NothingToSend \/ ReplyLost \/ SyncFails
  BY <1>6 DEF NothingToSend, ReplyLost, SyncFails, EndRound, RoundInv,
              SyncedUpToCursor, vars
<1>7. CASE AdvanceCursor
  BY <1>7 DEF AdvanceCursor, EndRound, RoundInv, SyncedUpToCursor, vars
<1>8. CASE ResetCursor
  BY <1>8 DEF ResetCursor, EndRound, RoundInv, SyncedUpToCursor, vars
<1>9. CASE DashboardRestored
  BY <1>9 DEF DashboardRestored, RoundInv, SyncedUpToCursor, vars
<1>10. CASE UNCHANGED allVars
  BY <1>10 DEF allVars, syncVars, vars, RoundInv, SyncedUpToCursor
<1> QED
  BY <1>1, <1>2, <1>3, <1>4, <1>5, <1>6, <1>7, <1>8, <1>9, <1>10
     DEF SyncNext, SyncStep

(* All invariants of the log and its sync together.                        *)
THEOREM SyncInvariance ==
  ASSUME Serial
  PROVE  SyncSpec => [](LogInv /\ SyncTypeOK /\ RoundInv /\ SyncedUpToCursor)
<1>1. SyncInit => LogInv /\ SyncTypeOK /\ RoundInv /\ SyncedUpToCursor
  BY AuditAssumption, SyncAssumption, AnyEntryType
     DEF SyncInit, Init, LogInv, TypeOK, AppendsInv, PrevIsOlder, SerialInv,
         Linear, Active, SyncTypeOK, RoundInv, SyncedUpToCursor, Epoch
<1>2. /\ LogInv /\ SyncTypeOK /\ RoundInv /\ SyncedUpToCursor
      /\ [SyncNext]_allVars
      => LogInv' /\ SyncTypeOK' /\ RoundInv' /\ SyncedUpToCursor'
  BY StepsOfTheLog, LogStep, SyncTypeStep, RoundStep DEF LogInv
<1> QED
  BY <1>1, <1>2, PTL DEF SyncSpec

(* The composition keeps its types, also when appends overlap.             *)
THEOREM SyncTypeCorrect == SyncSpec => []SyncTypeOK
<1> DEFINE Inv == AppendsInv /\ PrevIsOlder /\ SyncTypeOK
<1>1. SyncInit => Inv
  BY AuditAssumption, SyncAssumption, AnyEntryType
     DEF SyncInit, Init, TypeOK, AppendsInv, PrevIsOlder, Active, SyncTypeOK,
         Epoch
<1>2. Inv /\ [SyncNext]_allVars => Inv'
  BY StepsOfTheLog, Step, SyncTypeStep DEF SyncTypeOK
<1>3. Inv => SyncTypeOK
  OBVIOUS
<1> QED
  BY <1>1, <1>2, <1>3, PTL DEF SyncSpec

(* While the dashboard loses no rows, it has every row dated up to the     *)
(* cursor, through lost replies, resends, failed queries and restarts.     *)
THEOREM CursorIsHonest ==
  ASSUME Serial
  PROVE  SyncSpec => []SyncedUpToCursor
BY SyncInvariance, PTL

=============================================================================
