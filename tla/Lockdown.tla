------------------------------ MODULE Lockdown ------------------------------
(***************************************************************************)
(* Lockdown: the flag and the reason in AppState (src/state.rs), the four  *)
(* tasks that raise it and the heartbeat acknowledgements that clear it.   *)
(*                                                                         *)
(* The tasks and the request handlers run in parallel on the tokio         *)
(* runtime, so the actions are the accesses to shared state: the watchdogs *)
(* read, check the flag, and then set_lockdown stores the flag and, later, *)
(* writes the reason under its mutex.                                      *)
(***************************************************************************)
EXTENDS Naturals

CONSTANTS
  Acker,      \* concurrent executions of a heartbeat acknowledgement
  Timeout     \* HEARTBEAT_TIMEOUT_SECS, in clock ticks

ASSUME TimeoutAssumption == Timeout \in Nat

Watcher == {"heartbeat", "postgres", "divergence", "conflict"}

(* The watchdogs of main.rs look at the flag before they set it; the       *)
(* divergence and the conflict check set it whatever it is.                *)
Guarded == {"heartbeat", "postgres"}

None == "None"
Sticky == {"PgUnreachable", "NftablesFailure", "IncompatibleSoftware"}
Reason == Sticky \cup {"Heartbeat", None}

ReasonOf(w) ==
  CASE w = "heartbeat"  -> "Heartbeat"
    [] w = "postgres"   -> "PgUnreachable"
    [] w = "divergence" -> "NftablesFailure"
    [] w = "conflict"   -> "IncompatibleSoftware"

VARIABLES
  flag,       \* AppState.lockdown
  reason,     \* AppState.lockdown_reason
  silence,    \* ticks since last_heartbeat, counted up to Timeout + 1
  pgUp,       \* PostgreSQL answers
  at,         \* where each watcher stands
  ackPc,      \* where each acknowledgement stands
  entered     \* sticky reasons whose set_lockdown has returned since startup

lockVars == <<flag, reason, silence, pgUp, at, ackPc, entered>>

LockInit ==
  /\ flag = FALSE
  /\ reason = None
  /\ silence = 0
  /\ pgUp = TRUE
  /\ at = [w \in Watcher |-> "idle"]
  /\ ackPc = [a \in Acker |-> "idle"]
  /\ entered = {}

-----------------------------------------------------------------------------
Goto(w, label) == at' = [at EXCEPT ![w] = label]

(* Heartbeat watchdog: elapsed() is read before the flag is.               *)
HeartbeatRead ==
  /\ at["heartbeat"] = "idle"
  /\ silence > Timeout
  /\ Goto("heartbeat", "observed")
  /\ UNCHANGED <<flag, reason, silence, pgUp, ackPc, entered>>

(* PostgreSQL watchdog: SELECT 1 has failed.                               *)
PgProbeFails ==
  /\ at["postgres"] = "idle"
  /\ ~ pgUp
  /\ Goto("postgres", "observed")
  /\ UNCHANGED <<flag, reason, silence, pgUp, ackPc, entered>>

(* Defect: the watchdog task ends when it finds the agent locked.          *)
CheckFlagAndQuit(w) ==
  /\ at[w] = "observed"
  /\ Goto(w, IF flag THEN "ended" ELSE "storing")
  /\ UNCHANGED <<flag, reason, silence, pgUp, ackPc, entered>>

(* "... && !is_locked_down()"                                              *)
CheckFlag(w) ==
  /\ at[w] = "observed"
  /\ Goto(w, IF flag THEN "idle" ELSE "storing")
  /\ UNCHANGED <<flag, reason, silence, pgUp, ackPc, entered>>

(* The divergence check could not restore the ruleset.                     *)
RestoreFails ==
  /\ at["divergence"] = "idle"
  /\ Goto("divergence", "storing")
  /\ UNCHANGED <<flag, reason, silence, pgUp, ackPc, entered>>

(* The conflict check could not remove a package.                          *)
RemovalFails ==
  /\ at["conflict"] = "idle"
  /\ Goto("conflict", "storing")
  /\ UNCHANGED <<flag, reason, silence, pgUp, ackPc, entered>>

(* The two halves of set_lockdown.                                         *)
StoreFlag(w) ==
  /\ at[w] = "storing"
  /\ flag' = TRUE
  /\ Goto(w, "writing")
  /\ UNCHANGED <<reason, silence, pgUp, ackPc, entered>>

WriteReason(w) ==
  /\ at[w] = "writing"
  /\ reason' = ReasonOf(w)
  /\ entered' = entered \cup ({ReasonOf(w)} \cap Sticky)
  /\ Goto(w, "idle")
  /\ UNCHANGED <<flag, silence, pgUp, ackPc>>

-----------------------------------------------------------------------------
(* Defect: an acknowledgement counts although its nonce was not consumed.  *)
AckVerifiesUnstored(a) ==
  /\ ackPc[a] = "idle"
  /\ ackPc' = [ackPc EXCEPT ![a] = "verified"]
  /\ UNCHANGED <<flag, reason, silence, pgUp, at, entered>>

(* An acknowledgement passes verify_command, which stores its nonce, ...   *)
AckVerifies(a) ==
  /\ ackPc[a] = "idle"
  /\ pgUp
  /\ ackPc' = [ackPc EXCEPT ![a] = "verified"]
  /\ UNCHANGED <<flag, reason, silence, pgUp, at, entered>>

(* ... resets the timer ...                                                *)
AckReset(a) ==
  /\ ackPc[a] = "verified"
  /\ silence' = 0
  /\ ackPc' = [ackPc EXCEPT ![a] = "clearing"]
  /\ UNCHANGED <<flag, reason, pgUp, at, entered>>

(* Defects: the reason is cleared whatever it is; flag and reason are; a   *)
(* lockdown for a lost heartbeat is not lifted.                            *)
AckClearsReason(a) ==
  /\ ackPc[a] = "clearing"
  /\ flag' = (flag /\ reason \notin {None, "Heartbeat"})
  /\ reason' = None
  /\ ackPc' = [ackPc EXCEPT ![a] = "idle"]
  /\ UNCHANGED <<silence, pgUp, at, entered>>

AckClearsAll(a) ==
  /\ ackPc[a] = "clearing"
  /\ flag' = FALSE /\ reason' = None
  /\ ackPc' = [ackPc EXCEPT ![a] = "idle"]
  /\ UNCHANGED <<silence, pgUp, at, entered>>

AckClearsUnnamed(a) ==
  /\ ackPc[a] = "clearing"
  /\ flag' = (flag /\ reason # None)
  /\ ackPc' = [ackPc EXCEPT ![a] = "idle"]
  /\ UNCHANGED <<reason, silence, pgUp, at, entered>>

(* ... and then runs clear_lockdown_if_heartbeat under the reason's mutex. *)
AckClear(a) ==
  /\ ackPc[a] = "clearing"
  /\ IF reason \in {None, "Heartbeat"}
       THEN flag' = FALSE /\ reason' = None
       ELSE UNCHANGED <<flag, reason>>
  /\ ackPc' = [ackPc EXCEPT ![a] = "idle"]
  /\ UNCHANGED <<silence, pgUp, at, entered>>

(* A new process: it starts only when it can connect to PostgreSQL.        *)
Restart ==
  /\ pgUp
  /\ flag' = FALSE
  /\ reason' = None
  /\ silence' = 0
  /\ at' = [w \in Watcher |-> "idle"]
  /\ ackPc' = [a \in Acker |-> "idle"]
  /\ entered' = {}
  /\ UNCHANGED pgUp

TimePasses ==
  /\ silence <= Timeout
  /\ silence' = silence + 1
  /\ UNCHANGED <<flag, reason, pgUp, at, ackPc, entered>>

PgChanges ==
  /\ pgUp' = ~ pgUp
  /\ UNCHANGED <<flag, reason, silence, at, ackPc, entered>>

SetSteps(w) == CheckFlag(w) \/ StoreFlag(w) \/ WriteReason(w)

LockNext ==
  \/ HeartbeatRead
  \/ PgProbeFails
  \/ RestoreFails
  \/ RemovalFails
  \/ \E w \in Watcher : SetSteps(w)
  \/ \E a \in Acker : AckVerifies(a) \/ AckReset(a) \/ AckClear(a)
  \/ Restart
  \/ TimePasses
  \/ PgChanges

LockSpec == LockInit /\ [][LockNext]_lockVars

(* Each watchdog ticks for ever, and a task or handler that has started a  *)
(* call finishes it.  Nothing is assumed of the environment.               *)
LockFairSpec ==
  /\ LockSpec
  /\ WF_lockVars(HeartbeatRead)
  /\ WF_lockVars(PgProbeFails)
  /\ \A w \in Watcher : WF_lockVars(SetSteps(w))
  /\ \A a \in Acker : WF_lockVars(AckReset(a)) /\ WF_lockVars(AckClear(a))

(* The dashboard keeps acknowledging: an acknowledgement gets through      *)
(* again and again if the database is up again and again.                  *)
AcksKeepComing == \A a \in Acker : SF_lockVars(AckVerifies(a))

-----------------------------------------------------------------------------
LockTypeOK ==
  /\ flag \in BOOLEAN
  /\ reason \in Reason
  /\ silence \in 0 .. Timeout + 1
  /\ pgUp \in BOOLEAN
  /\ at \in [Watcher -> {"idle", "observed", "storing", "writing"}]
  /\ ackPc \in [Acker -> {"idle", "verified", "clearing"}]
  /\ entered \subseteq Sticky

(* A lockdown without a reason is one whose set_lockdown has not returned  *)
(* yet: clear_lockdown_if_heartbeat treats "no reason" as clearable, so    *)
(* nothing may leave the flag up with the reason missing for good.         *)
LockedHasReason ==
  flag /\ reason = None => \E w \in Watcher : at[w] = "writing"

(* Once a lockdown stands for a sticky reason and the heartbeat watchdog is*)
(* not past its own look at the flag, no interleaving of acknowledgements, *)
(* other watchers, silence and database outages lifts it or downgrades its *)
(* reason to Heartbeat: only a restart ends it (state.rs:9-11).            *)
Settled ==
  /\ flag
  /\ reason \in Sticky
  /\ at["heartbeat"] \notin {"storing", "writing"}

SettledStickyStays == [][Settled => Settled' \/ Restart]_lockVars

(* The dashboard stays silent for good: the agent ends up locked for good. *)
SilenceLocks == <>[](silence > Timeout) => <>[]flag

(* PostgreSQL stays away for good: the agent ends up locked for good, also *)
(* when acknowledgements were under way while the watchdog fired.          *)
OutageLocks == <>[](~ pgUp) => <>[]flag

(* A lockdown for a lost heartbeat ends if the dashboard keeps             *)
(* acknowledging and the database is up again and again, unless a sticky   *)
(* reason takes its place.                                                 *)
AckReleases ==
  AcksKeepComing /\ []<>pgUp =>
    ((flag /\ reason = "Heartbeat") ~> (~ flag \/ reason \in Sticky))

(* src/state.rs:10-11: "Only `Heartbeat` (and `None`) can be cleared by a  *)
(* `heartbeat_ack`.  All other reasons require a manual service restart to *)
(* clear."  So once set_lockdown has returned for a sticky reason, the     *)
(* agent is locked until it restarts.                                      *)
StickyNeedsRestart == entered # {} => flag

=============================================================================
