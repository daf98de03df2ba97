--------------------------- MODULE CommandPipeline ---------------------------
(***************************************************************************)
(* The life of a command (src/handlers/system.rs, src/ws_client.rs): the   *)
(* lockdown gate, the rate limit, verification, dispatch, the audit entry  *)
(* and the reply, with everything that can happen between two of them.     *)
(*                                                                         *)
(* POST /cmd runs one handler per request, and drops it when its client    *)
(* goes away.  The WebSocket session handles one message at a time, to the *)
(* end: a broken connection is noticed between two messages, and then the  *)
(* client connects again, after a delay that has a maximum.  What makes    *)
(* verification and appends succeed or fail is the subject of CommandAuth  *)
(* and AuditLog, and how the lock is set that of Lockdown.                 *)
(***************************************************************************)
EXTENDS Naturals

CONSTANTS
  Request,      \* requests of POST /cmd that may run at the same time
  Ws,           \* the WebSocket session
  Limit,        \* commands a window of the rate limiter admits: 100
  Window        \* seconds a window lasts: 60

ASSUME PipelineAssumption == Ws \notin Request
ASSUME BudgetAssumption == Limit \in Nat \ {0} /\ Window \in Nat \ {0}

Slot == Request \cup {Ws}
Recent == 1 .. 2 * Limit + 1      \* the admissions that are looked back at

None == "none"
Kind == {"command", "ack"}
Result == {"success", "rejected", "failed"}

VARIABLES
  link,         \* the WebSocket: "down", "up", or "broken" and not noticed yet
  lock,         \* None, "heartbeat" or "sticky"
  pc,           \* where the execution in each slot stands
  kind,         \* what it executes
  result,       \* what its handler returned
  effect,       \* whether it has had an effect
  logged,       \* the result in its audit entry
  reply,        \* the reply it has returned
  age,          \* seconds since the window began, Window standing for more
  count,        \* commands admitted since then
  recent        \* seconds since the last admissions, the latest one first

work == <<kind, result, effect, logged, reply>>
budget == <<age, count, recent>>
vars == <<link, lock, pc, work, budget>>

Init ==
  /\ link = "down"
  /\ lock = None
  /\ pc = [s \in Slot |-> "idle"]
  /\ kind = [s \in Slot |-> "command"]
  /\ result = [s \in Slot |-> None]
  /\ effect = [s \in Slot |-> FALSE]
  /\ logged = [s \in Slot |-> None]
  /\ reply = [s \in Slot |-> None]
  /\ age = Window
  /\ count = 0
  /\ recent = [i \in Recent |-> Window]

-----------------------------------------------------------------------------
Goto(s, label) == pc' = [pc EXCEPT ![s] = label]

Return(s, answer) ==
  /\ Goto(s, "idle")
  /\ reply' = [reply EXCEPT ![s] = answer]

(* A command arrives; the record of the last one in this slot is dropped.  *)
Deliver(s, k) ==
  /\ pc[s] = "idle"
  /\ s = Ws => link = "up"
  /\ Goto(s, "gate")
  /\ kind' = [kind EXCEPT ![s] = k]
  /\ result' = [result EXCEPT ![s] = None]
  /\ effect' = [effect EXCEPT ![s] = FALSE]
  /\ logged' = [logged EXCEPT ![s] = None]
  /\ reply' = [reply EXCEPT ![s] = None]
  /\ UNCHANGED <<link, lock, budget>>

(* Defect: the WebSocket has no exception for acknowledgements.            *)
GatedAlike(s) == lock # None

(* is_locked_down() in execute_command and handle_message.                 *)
Gated(s) == lock # None /\ ~ (s = Ws /\ kind[s] = "ack")

PassGate(s) ==
  /\ pc[s] = "gate"
  /\ ~ Gated(s)
  /\ Goto(s, "rate")
  /\ UNCHANGED <<link, lock, work, budget>>

(* The gate, or the bearer token of POST /cmd.                             *)
Refuse(s) ==
  /\ pc[s] = "gate"
  /\ Gated(s) \/ s \in Request
  /\ Return(s, "refused")
  /\ UNCHANGED <<link, lock, kind, result, effect, logged, budget>>

(* check_cmd_rate: the first command after a window is over begins the     *)
(* next one.                                                               *)
InBudget == age >= Window \/ count < Limit

(* Defect: one command too many.                                           *)
ChargeLate ==
  /\ age >= Window \/ count <= Limit
  /\ age' = IF age >= Window THEN 0 ELSE age
  /\ count' = IF age >= Window THEN 1 ELSE count + 1
  /\ recent' = [i \in Recent |-> IF i = 1 THEN 0 ELSE recent[i - 1]]

Charge ==
  /\ InBudget
  /\ age' = IF age >= Window THEN 0 ELSE age
  /\ count' = IF age >= Window THEN 1 ELSE count + 1
  /\ recent' = [i \in Recent |-> IF i = 1 THEN 0 ELSE recent[i - 1]]

PassRate(s) ==
  /\ pc[s] = "rate"
  /\ Charge
  /\ Goto(s, "verify")
  /\ UNCHANGED <<link, lock, work>>

(* Over the budget: the entry the agent tries to write is refused by the   *)
(* CHECK constraint.                                                       *)
OverRate(s) ==
  /\ pc[s] = "rate"
  /\ ~ InBudget
  /\ Return(s, "refused")
  /\ UNCHANGED <<link, lock, kind, result, effect, logged, budget>>

PassVerify(s) ==
  /\ pc[s] = "verify"
  /\ Goto(s, "dispatch")
  /\ UNCHANGED <<link, lock, work, budget>>

(* Verification fails: the entry is best effort.                           *)
FailVerify(s) ==
  /\ pc[s] = "verify"
  /\ logged' \in {logged, [logged EXCEPT ![s] = "rejected"]}
  /\ Return(s, "refused")
  /\ UNCHANGED <<link, lock, kind, result, effect, budget>>

(* The handler of the command runs.  One that rejects the command has done *)
(* nothing, one that fails may have done part of it.                       *)
Execute(s) ==
  /\ pc[s] = "dispatch"
  /\ kind[s] = "command"
  /\ \E r \in Result, done \in BOOLEAN :
       /\ r = "success" => done
       /\ r = "rejected" => ~ done
       /\ result' = [result EXCEPT ![s] = r]
       /\ effect' = [effect EXCEPT ![s] = done]
  /\ Goto(s, "audit")
  /\ UNCHANGED <<link, lock, kind, logged, reply, budget>>

Acknowledge(s) ==
  /\ pc[s] = "dispatch"
  /\ kind[s] = "ack"
  /\ lock' = IF lock = "heartbeat" THEN None ELSE lock
  /\ result' = [result EXCEPT ![s] = "success"]
  /\ effect' = [effect EXCEPT ![s] = TRUE]
  /\ Goto(s, "audit")
  /\ UNCHANGED <<link, kind, logged, reply, budget>>

(* Defect: the entry is best effort here, too.                             *)
AuditBestEffort(s) ==
  /\ pc[s] = "audit"
  /\ Return(s, result[s])
  /\ UNCHANGED <<link, lock, kind, result, effect, logged, budget>>

(* The entry is written and the result returned ...                        *)
Audit(s) ==
  /\ pc[s] = "audit"
  /\ logged' = [logged EXCEPT ![s] = result[s]]
  /\ Return(s, result[s])
  /\ UNCHANGED <<link, lock, kind, result, effect, budget>>

(* ... or append fails, and its error takes the place of the result.       *)
AuditFails(s) ==
  /\ pc[s] = "audit"
  /\ Return(s, "failed")
  /\ UNCHANGED <<link, lock, kind, result, effect, logged, budget>>

(* The client of POST /cmd goes away while the handler awaits something:   *)
(* the nonce, the command's own queries and calls, or the audit entry.     *)
ClientGone(s) ==
  /\ s \in Request
  /\ \/ pc[s] \in {"rate", "verify", "audit"} /\ UNCHANGED effect
     \/ pc[s] = "dispatch" /\ effect' \in {effect, [effect EXCEPT ![s] = TRUE]}
  /\ Goto(s, "idle")
  /\ UNCHANGED <<link, lock, kind, result, logged, reply, budget>>

-----------------------------------------------------------------------------
(* connect_async; it is tried for ever, at most BACKOFF_MAX apart.         *)
Connect ==
  /\ link = "down"
  /\ link' = "up"
  /\ UNCHANGED <<lock, pc, work, budget>>

LinkBreaks ==
  /\ link = "up"
  /\ link' = "broken"
  /\ UNCHANGED <<lock, pc, work, budget>>

(* run_session returns; it is not listening while it handles a message.    *)
SessionEnds ==
  /\ link = "broken"
  /\ pc[Ws] = "idle"
  /\ link' = "down"
  /\ UNCHANGED <<lock, pc, work, budget>>

(* A watchdog locks the agent.  That one which has looked at the flag      *)
(* before may put its reason in the place of a sticky one is in Lockdown;  *)
(* here a sticky reason stays.                                             *)
Locks(reason) ==
  /\ lock' = IF lock = "sticky" THEN lock ELSE reason
  /\ UNCHANGED <<link, pc, work, budget>>

(* A heartbeat over POST /heartbeat, past gate, rate limit and audit.      *)
HttpHeartbeat ==
  /\ lock' = IF lock = "heartbeat" THEN None ELSE lock
  /\ UNCHANGED <<link, pc, work, budget>>

Restart ==
  /\ lock' = None
  /\ pc' = [s \in Slot |-> "idle"]
  /\ age' = Window
  /\ count' = 0
  /\ recent' = [i \in Recent |-> Window]
  /\ link' = "down"
  /\ UNCHANGED work

Older(seconds) == IF seconds < Window THEN seconds + 1 ELSE seconds

(* A second goes by.                                                       *)
Tick ==
  /\ age' = Older(age)
  /\ recent' = [i \in Recent |-> Older(recent[i])]
  /\ UNCHANGED <<link, lock, pc, work, count>>

Step(s) ==
  \/ PassGate(s) \/ Refuse(s) \/ PassRate(s) \/ OverRate(s)
  \/ PassVerify(s) \/ FailVerify(s) \/ Execute(s) \/ Acknowledge(s)
  \/ Audit(s) \/ AuditFails(s)

Next ==
  \/ \E s \in Slot :
        (\E k \in Kind : Deliver(s, k)) \/ Step(s) \/ ClientGone(s)
  \/ \E r \in {"heartbeat", "sticky"} : Locks(r)
  \/ Connect \/ LinkBreaks \/ SessionEnds
  \/ HttpHeartbeat
  \/ Restart
  \/ Tick

Spec == Init /\ [][Next]_vars

(* Every execution goes on and time passes.  A session that has ended is   *)
(* noticed, and one attempt to connect succeeds.  The dashboard keeps      *)
(* sending acknowledgements over the WebSocket, and of those that are      *)
(* within the budget again and again one is verified.                      *)
FairSpec ==
  /\ Spec
  /\ WF_vars(Tick) /\ WF_vars(Connect) /\ WF_vars(SessionEnds)
  /\ \A s \in Slot : WF_vars(Step(s))
  /\ SF_vars(Deliver(Ws, "ack"))
  /\ SF_vars(kind[Ws] = "ack" /\ PassGate(Ws))
  /\ SF_vars(kind[Ws] = "ack" /\ PassVerify(Ws))
  /\ SF_vars(Acknowledge(Ws))

-----------------------------------------------------------------------------
TypeOK ==
  /\ link \in {"down", "up", "broken"}
  /\ lock \in {None, "heartbeat", "sticky"}
  /\ pc \in [Slot -> {"idle", "gate", "rate", "verify", "dispatch", "audit"}]
  /\ kind \in [Slot -> Kind]
  /\ result \in [Slot -> Result \cup {None}]
  /\ effect \in [Slot -> BOOLEAN]
  /\ logged \in [Slot -> Result \cup {None}]
  /\ reply \in [Slot -> Result \cup {None, "refused"}]
  /\ age \in 0..Window
  /\ count \in 0..Limit
  /\ recent \in [Recent -> 0..Window]

(* What the dashboard is told agrees with the log and with what happened:  *)
(* a success was carried out and is logged as one, a rejection by the      *)
(* handler is logged and had no effect, a refusal had no effect.           *)
ReplyIsTrue ==
  \A s \in Slot :
    /\ reply[s] = "success" => effect[s] /\ logged[s] = "success"
    /\ reply[s] = "rejected" => ~ effect[s] /\ logged[s] = "rejected"
    /\ reply[s] = "refused" => ~ effect[s]

(* src/ws_client.rs:189-190: "Heartbeat ACKs must bypass the lockdown gate *)
(* so the dashboard can rescue a locked-down agent via WS".  So an agent   *)
(* locked for a lost heartbeat does not stay so while acknowledgements     *)
(* arrive over the WebSocket, whatever else runs, breaks off or connects.  *)
AckRescues == lock = "heartbeat" ~> lock # "heartbeat"

(* A window begins with the first command after the last one, so two of    *)
(* them may meet in one minute, but never three: however bursts of POST    *)
(* /cmd and WebSocket messages fall, no Window seconds of a run of the     *)
(* agent admit more than twice the limit: the admission before the last    *)
(* 2 * Limit ones is at least a window old.                                *)
BudgetHolds == recent[2 * Limit + 1] = Window

(* src/state.rs:84: "Returns true if the command is within the 100/min     *)
(* limit", so no minute admits more.                                       *)
MinuteIsWithinLimit == recent[Limit + 1] = Window

(* src/handlers/system.rs:40: "Verify a signed command, execute it, and    *)
(* write the audit entry."  So a command that was carried out, and whose   *)
(* handler is gone without an error, has an audit entry.                   *)
EffectIsAudited ==
  \A s \in Slot :
    pc[s] = "idle" /\ effect[s] /\ reply[s] # "failed" => logged[s] # None

=============================================================================
