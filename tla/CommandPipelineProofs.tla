------------------------ MODULE CommandPipelineProofs ------------------------
(***************************************************************************)
(* Proofs about the command pipeline, for any number of requests, any      *)
(* limit and any window: what a reply says is true, and no window of time  *)
(* admits more than twice the limit.                                       *)
(***************************************************************************)
EXTENDS CommandPipeline, TLAPS

(* What a slot may say of its command at each place: nothing is recorded   *)
(* before dispatch, and a result waiting for its audit entry agrees with   *)
(* the effect.  Without it a refusal after verification, or the reply      *)
(* after the audit entry, could not be known to be true.                   *)
Untouched(s) ==
  /\ ~ effect[s]
  /\ result[s] = None /\ logged[s] = None /\ reply[s] = None

Decided(s) ==
  /\ result[s] \in Result
  /\ result[s] = "success" => effect[s]
  /\ result[s] = "rejected" => ~ effect[s]
  /\ logged[s] = None /\ reply[s] = None

WorkInv ==
  \A s \in Slot :
    /\ pc[s] \in {"gate", "rate", "verify", "dispatch"} => Untouched(s)
    /\ pc[s] = "audit" => Decided(s)

PipelineInv == TypeOK /\ WorkInv /\ ReplyIsTrue

(* The steps of one slot, which leave the other slots alone.               *)
LEMMA SlotStep ==
  ASSUME PipelineInv, NEW s \in Slot,
         (\E k \in Kind : Deliver(s, k)) \/ Step(s) \/ ClientGone(s)
  PROVE  PipelineInv'
<1> USE DEF PipelineInv, TypeOK, WorkInv, ReplyIsTrue, Untouched, Decided,
        Result, Kind, None, work, budget
<1>1. ASSUME NEW k \in Kind, Deliver(s, k)
      PROVE  PipelineInv'
  BY <1>1 DEF Deliver, Goto
<1>2. CASE PassGate(s)
  BY <1>2 DEF PassGate, Goto
<1>3. CASE Refuse(s)
  BY <1>3 DEF Refuse, Return, Goto
<1>4. CASE PassRate(s)
  <2>1. /\ age' \in 0..Window /\ count' \in 0..Limit
        /\ recent' \in [Recent -> 0..Window]
    BY <1>4, BudgetAssumption DEF PassRate, Charge, InBudget, Recent
  <2> QED
    BY <1>4, <2>1 DEF PassRate, Goto
<1>5. CASE OverRate(s)
  BY <1>5 DEF OverRate, Return, Goto
<1>6. CASE PassVerify(s)
  BY <1>6 DEF PassVerify, Goto
<1>7. CASE FailVerify(s)
  BY <1>7 DEF FailVerify, Return, Goto
<1>8. CASE Execute(s)
  BY <1>8 DEF Execute, Goto
<1>9. CASE Acknowledge(s)
  BY <1>9 DEF Acknowledge, Goto
<1>10. CASE Audit(s)
  BY <1>10 DEF Audit, Return, Goto
<1>11. CASE AuditFails(s)
  BY <1>11 DEF AuditFails, Return, Goto
<1>12. CASE ClientGone(s)
  <2>1. /\ pc' = [pc EXCEPT ![s] = "idle"]
        /\ UNCHANGED <<kind, result, logged, reply, link, lock, budget>>
        /\ effect' = effect \/ effect' = [effect EXCEPT ![s] = TRUE]
    BY <1>12 DEF ClientGone, Goto
  <2>2. effect' \in [Slot -> BOOLEAN] /\ pc' \in [Slot ->
          {"idle", "gate", "rate", "verify", "dispatch", "audit"}]
    BY <2>1
  <2>3. reply[s] = None
    BY <1>12 DEF ClientGone
  <2>4. \A t \in Slot : t # s => pc'[t] = pc[t] /\ effect'[t] = effect[t]
    BY <2>1
  <2>5. pc'[s] = "idle"
    BY <2>1
  <2> QED
    BY <2>1, <2>2, <2>3, <2>4, <2>5
<1> QED
  BY <1>1, <1>2, <1>3, <1>4, <1>5, <1>6, <1>7, <1>8, <1>9, <1>10, <1>11,
     <1>12 DEF Step

(* The inductive invariant.  Watchdogs and heartbeats change the lock      *)
(* only, the connection only itself; a restart drops every execution and   *)
(* leaves what it has done.                                                *)
THEOREM PipelineInvariance == Spec => []PipelineInv
<1>1. Init => PipelineInv
  BY BudgetAssumption
     DEF Init, PipelineInv, TypeOK, WorkInv, ReplyIsTrue, Untouched, Decided,
         Result, Kind, None
<1>2. PipelineInv /\ [Next]_vars => PipelineInv'
  <2> SUFFICES ASSUME PipelineInv, [Next]_vars
               PROVE  PipelineInv'
    OBVIOUS
  <2>1. ASSUME NEW s \in Slot,
               (\E k \in Kind : Deliver(s, k)) \/ Step(s) \/ ClientGone(s)
        PROVE  PipelineInv'
    BY <2>1, SlotStep
  <2> USE DEF PipelineInv, TypeOK, WorkInv, ReplyIsTrue, Untouched, Decided,
          Result, Kind, None, work, budget
  <2>2. ASSUME NEW r \in {"heartbeat", "sticky"}, Locks(r)
        PROVE  PipelineInv'
    BY <2>2 DEF Locks
  <2>3. CASE HttpHeartbeat \/ Connect \/ LinkBreaks \/ SessionEnds
    BY <2>3 DEF HttpHeartbeat, Connect, LinkBreaks, SessionEnds
  <2>4. CASE Restart
    BY <2>4, BudgetAssumption DEF Restart
  <2>5. CASE Tick
    BY <2>5, BudgetAssumption DEF Tick, Older
  <2>6. CASE UNCHANGED vars
    BY <2>6 DEF vars
  <2> QED
    BY <2>1, <2>2, <2>3, <2>4, <2>5, <2>6 DEF Next
<1> QED
  BY <1>1, <1>2, PTL DEF Spec

(* Type correctness of the pipeline (src/handlers/system.rs).              *)
THEOREM PipelineTypes == Spec => []TypeOK
BY PipelineInvariance, PTL DEF PipelineInv

(* A command answered with success was carried out and is logged as one,   *)
(* a rejected or refused one had no effect, however requests, messages,    *)
(* lockdowns, dropped clients and restarts interleave.                     *)
THEOREM RepliesAreTrue == Spec => []ReplyIsTrue
BY PipelineInvariance, PTL DEF PipelineInv

(* The latest count admissions are those of the current window; whatever   *)
(* came before it is at least as old as the window is, and whatever came   *)
(* before the Limit ones of the window before is a whole window old.       *)
BudgetInv ==
  /\ \A i \in Recent : i > count => recent[i] >= age
  /\ \A i \in Recent : i > count + Limit => recent[i] = Window

(* Admitting a command keeps the budget: the first one of a window finds   *)
(* the window before at its full age.                                      *)
LEMMA ChargeStep ==
  ASSUME TypeOK, BudgetInv, Charge
  PROVE  BudgetInv'
<1> USE BudgetAssumption DEF TypeOK, BudgetInv, Charge, InBudget, Recent
<1>1. age' \in 0..Window /\ count' \in 0..Limit
  OBVIOUS
<1>2. \A i \in Recent : i # 1 => i - 1 \in Recent /\ recent'[i] = recent[i - 1]
  OBVIOUS
<1>3. ASSUME NEW i \in Recent, i > count'
      PROVE  recent'[i] >= age'
  BY <1>1, <1>2, <1>3
<1>4. ASSUME NEW i \in Recent, i > count' + Limit
      PROVE  recent'[i] = Window
  BY <1>1, <1>2, <1>4
<1> QED
  BY <1>3, <1>4

(* Admissions, seconds and restarts change the budget, and nothing else.   *)
THEOREM BudgetInvariance == Spec => []BudgetInv
<1>1. Init => BudgetInv
  BY BudgetAssumption DEF Init, BudgetInv, Recent
<1>2. TypeOK /\ BudgetInv /\ [Next]_vars => BudgetInv'
  <2> SUFFICES ASSUME TypeOK, BudgetInv, [Next]_vars
               PROVE  BudgetInv'
    OBVIOUS
  <2>1. CASE Charge
    BY <2>1, ChargeStep
  <2>2. CASE Tick
    BY <2>2, BudgetAssumption DEF TypeOK, BudgetInv, Tick, Older, Recent
  <2>3. CASE Restart
    BY <2>3, BudgetAssumption DEF BudgetInv, Restart, Recent
  <2>4. CASE UNCHANGED budget
    BY <2>4 DEF BudgetInv, Recent, budget
  <2>5. Charge \/ Tick \/ Restart \/ UNCHANGED budget
    BY DEF Next, Deliver, Step, PassGate, Refuse, PassRate, OverRate, PassVerify,
           FailVerify, Execute, Acknowledge, Audit, AuditFails, ClientGone,
           Locks, Connect, LinkBreaks, SessionEnds, HttpHeartbeat, vars
  <2> QED
    BY <2>1, <2>2, <2>3, <2>4, <2>5
<1> QED
  BY <1>1, <1>2, PipelineTypes, PTL DEF Spec

(* However bursts fall, no window of time admits more than twice the       *)
(* limit, for every limit and window (src/state.rs, check_cmd_rate).       *)
THEOREM BudgetIsBounded == Spec => []BudgetHolds
<1>1. TypeOK /\ BudgetInv => BudgetHolds
  BY BudgetAssumption DEF TypeOK, BudgetInv, BudgetHolds, Recent
<1> QED
  BY <1>1, PipelineTypes, BudgetInvariance, PTL

=============================================================================
