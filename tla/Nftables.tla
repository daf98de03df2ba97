------------------------------ MODULE Nftables ------------------------------
(***************************************************************************)
(* The firewall: the nftables commands of the dashboard                    *)
(* (src/handlers/nftables.rs, src/handlers/nginx_cmd.rs), the divergence   *)
(* check (src/nftables/divergence.rs), the reload at startup (src/main.rs) *)
(* and the state they share - the kernel's table, the file loaded at boot, *)
(* the copies in AppState and the rows of table nftables_state.            *)
(*                                                                         *)
(* A ruleset is rendered from the chain bodies and the WireGuard port; a   *)
(* checksum is modelled as the ruleset it is the checksum of.  Chain       *)
(* checksums only choose the wording of the divergence report and are left *)
(* out.  Command handlers and the divergence check run in parallel; every  *)
(* call of nft, every access to AppState and every query is a step.        *)
(***************************************************************************)
EXTENDS Integers

CONSTANTS
  Handler,      \* nftables commands that may run at the same time
  Chain,        \* chains with a body and a row in nftables_state
  LastChain,    \* the chain that comes last in ORDER BY chain
  Body,         \* chain bodies
  NoBody,       \* the empty body the rows are seeded with
  Port,         \* WireGuard ports
  DefaultPort,  \* 51820
  Faults,       \* what may go wrong: "nft", "list", "disk", "db", "delete"
  Overlap,      \* FALSE: a command or check starts when no other one runs
  MaxEdits      \* bound on the changes of the table behind the check's back

CONSTANTS       \* what the table, the file or a script is when not rendered
  Absent,       \* no table, no file
  Foreign,      \* a table someone else has changed
  Closed,       \* a table that nftables.close_setup_port has added a rule to
  Emergency,    \* EMERGENCY_RULESET
  Empty,        \* the empty script
  None          \* Option::None

Special == {Absent, Foreign, Closed, Emergency, Empty, None}
Changed == {Foreign, Closed}
Ruleset == [bodies : [Chain -> Body], port : Port]

ASSUME NftAssumption ==
  /\ LastChain \in Chain /\ NoBody \in Body /\ DefaultPort \in Port
  /\ Faults \subseteq {"nft", "list", "disk", "db", "delete"}
  /\ Overlap \in BOOLEAN /\ MaxEdits \in Nat
  /\ Special \cap Ruleset = {}
  /\ Absent \notin {Foreign, Closed, Emergency, Empty, None}
  /\ Foreign \notin {Closed, Emergency, Empty, None}
  /\ Closed \notin {Emergency, Empty, None}
  /\ Emergency \notin {Empty, None} /\ Empty # None
  /\ "checker" \notin Handler

Actor == Handler \cup {"checker"}

Command ==
  [kind : {"chain"}, chain : Chain, body : Body]
    \cup [kind : {"port"}, port : Port]
    \cup [kind : {"restore", "accept", "none"}]

NoCommand == [kind |-> "none"]

VARIABLES
  live, disk,               \* the kernel's table and the boot file
  dbBody, dbPort,           \* the rows of nftables_state
  up, locked,               \* the process runs; AppState.lockdown
  body, port,               \* AppState: chain bodies and WireGuard port
  expected, last,           \* AppState: nft_checksum and nft_last_ruleset
  pc, cmd, script, sum,     \* per actor: place, command, ruleset, checksum
  edits                     \* changes behind the check's back so far

dbVars == <<dbBody, dbPort>>
memVars == <<body, port, expected, last>>
actorVars == <<pc, cmd, script, sum>>
vars == <<live, disk, dbVars, up, locked, memVars, actorVars, edits>>

NoActors ==
  /\ pc = [a \in Actor |-> "idle"]
  /\ cmd = [a \in Actor |-> NoCommand]
  /\ script = [a \in Actor |-> Empty]
  /\ sum = [a \in Actor |-> None]

ForgetActors ==
  /\ pc' = [a \in Actor |-> "idle"]
  /\ cmd' = [a \in Actor |-> NoCommand]
  /\ script' = [a \in Actor |-> Empty]
  /\ sum' = [a \in Actor |-> None]

EmptyMemory ==
  /\ body' = [c \in Chain |-> NoBody]
  /\ port' = DefaultPort
  /\ expected' = None
  /\ last' = None

Init ==
  /\ live = Absent /\ disk = Absent
  /\ dbBody = [c \in Chain |-> NoBody]
  /\ dbPort = [c \in Chain |-> DefaultPort]
  /\ up = FALSE /\ locked = FALSE
  /\ body = [c \in Chain |-> NoBody] /\ port = DefaultPort
  /\ expected = None /\ last = None
  /\ NoActors
  /\ edits = 0

-----------------------------------------------------------------------------
Fails(what) == what \in Faults

(* Defect: the empty script wipes the table.                               *)
LoadedVerbatim(s) == s

(* nft -f -: the script replaces the table, the empty script does nothing. *)
Loaded(s) == IF s = Empty THEN live ELSE s

(* Defect: the ruleset is not written to the boot file.                    *)
PersistNothing(s) == UNCHANGED disk

(* persist_ruleset, which is best effort.                                  *)
PersistScript(s) == disk' \in {s} \cup (IF Fails("disk") THEN {disk} ELSE {})

Goto(a, label) == pc' = [pc EXCEPT ![a] = label]

Return(a) ==
  /\ pc' = [pc EXCEPT ![a] = "idle"]
  /\ cmd' = [cmd EXCEPT ![a] = NoCommand]
  /\ script' = [script EXCEPT ![a] = Empty]
  /\ sum' = [sum EXCEPT ![a] = None]

MayStart(a) ==
  /\ up
  /\ pc[a] = "idle"
  /\ Overlap \/ \A b \in Actor : pc[b] = "idle"

Rendered == [bodies |-> body, port |-> port]

-----------------------------------------------------------------------------
(* A command passes the lockdown gate and reaches its handler.             *)

(* nftables.apply for one chain: the body in memory changes first.         *)
BeginChain(h, c, b) ==
  /\ MayStart(h) /\ ~ locked
  /\ body' = [body EXCEPT ![c] = b]
  /\ cmd' = [cmd EXCEPT ![h] = [kind |-> "chain", chain |-> c, body |-> b]]
  /\ Goto(h, "render")
  /\ UNCHANGED <<live, disk, dbVars, up, locked, port, expected, last,
                 script, sum, edits>>

(* nftables.apply for the whole ruleset: the port in memory changes first. *)
BeginPort(h, p) ==
  /\ MayStart(h) /\ ~ locked
  /\ port' = p
  /\ cmd' = [cmd EXCEPT ![h] = [kind |-> "port", port |-> p]]
  /\ Goto(h, "render")
  /\ UNCHANGED <<live, disk, dbVars, up, locked, body, expected, last,
                 script, sum, edits>>

(* nftables.restore: re-apply the last ruleset, if there is one.           *)
BeginRestore(h) ==
  /\ MayStart(h) /\ ~ locked
  /\ last # None
  /\ cmd' = [cmd EXCEPT ![h] = [kind |-> "restore"]]
  /\ script' = [script EXCEPT ![h] = last]
  /\ Goto(h, "apply")
  /\ UNCHANGED <<live, disk, dbVars, up, locked, memVars, sum, edits>>

(* nftables.accept: make whatever is live the baseline, and forget the     *)
(* last ruleset by storing an empty one.                                   *)
BeginAccept(h) ==
  /\ MayStart(h) /\ ~ locked
  /\ cmd' = [cmd EXCEPT ![h] = [kind |-> "accept"]]
  /\ script' = [script EXCEPT ![h] = Empty]
  /\ Goto(h, "measure")
  /\ UNCHANGED <<live, disk, dbVars, up, locked, memVars, sum, edits>>

(* nftables.close_setup_port appends a rule to the table and tells no      *)
(* other copy of it; a failure of nft is only logged.                      *)
ClosePort(h) ==
  /\ MayStart(h) /\ ~ locked
  /\ edits < MaxEdits
  /\ live # Absent
  /\ live' \in {Closed} \cup (IF Fails("nft") THEN {live} ELSE {})
  /\ edits' = edits + 1
  /\ UNCHANGED <<disk, dbVars, up, locked, memVars, actorVars>>

(* apply_current_ruleset reads the bodies and the port and renders them.   *)
Render(h) ==
  /\ pc[h] = "render"
  /\ script' = [script EXCEPT ![h] = Rendered]
  /\ Goto(h, "apply")
  /\ UNCHANGED <<live, disk, dbVars, up, locked, memVars, cmd, sum, edits>>

(* nftables::apply and apply_raw: nft -f - ...                             *)
Apply(a) ==
  /\ pc[a] = "apply"
  /\ live' = Loaded(script[a])
  /\ Goto(a, "persist")
  /\ UNCHANGED <<disk, dbVars, up, locked, memVars, cmd, script, sum, edits>>

(* ... and then the boot file.                                             *)
Persist(a) ==
  /\ pc[a] = "persist"
  /\ PersistScript(script[a])
  /\ Goto(a, "measure")
  /\ UNCHANGED <<live, dbVars, up, locked, memVars, cmd, script, sum, edits>>

(* current_checksum, after an apply or to accept what is there.            *)
Measure(a) ==
  /\ pc[a] = "measure"
  /\ live # Absent
  /\ sum' = [sum EXCEPT ![a] = live]
  /\ Goto(a, "baseline")
  /\ UNCHANGED <<live, disk, dbVars, up, locked, memVars, cmd, script, edits>>

(* nft fails: a command returns an error and undoes nothing, the           *)
(* divergence check turns to the emergency ruleset.                        *)
NftFails(a) ==
  /\ \/ pc[a] = "apply" /\ Fails("nft")
     \/ pc[a] = "measure" /\ (Fails("list") \/ live = Absent)
  /\ IF a = "checker"
       THEN Goto(a, "emergency") /\ UNCHANGED <<cmd, script, sum>>
       ELSE Return(a)
  /\ UNCHANGED <<live, disk, dbVars, up, locked, memVars, edits>>

(* set_nft_checksum: the last step of a restore, by command or check.      *)
Baseline(a) ==
  /\ pc[a] = "baseline"
  /\ expected' = sum[a]
  /\ IF cmd[a].kind \in {"chain", "port", "accept"}
       THEN Goto(a, "remember") /\ UNCHANGED <<cmd, script, sum>>
       ELSE Return(a)
  /\ UNCHANGED <<live, disk, dbVars, up, locked, body, port, last, edits>>

(* set_nft_last_ruleset: the last step of accept.                          *)
Remember(h) ==
  /\ pc[h] = "remember"
  /\ last' = script[h]
  /\ IF cmd[h].kind \in {"chain", "port"}
       THEN Goto(h, "store") /\ UNCHANGED <<cmd, script, sum>>
       ELSE Return(h)
  /\ UNCHANGED <<live, disk, dbVars, up, locked, body, port, expected, edits>>

(* Defect: a full apply stores its port in one row only.                   *)
StoreOneRow(h) ==
  /\ pc[h] = "store"
  /\ \/ /\ cmd[h].kind = "chain"
        /\ dbBody' = [dbBody EXCEPT ![cmd[h].chain] = cmd[h].body]
        /\ dbPort' = [dbPort EXCEPT ![cmd[h].chain] = port]
     \/ /\ cmd[h].kind = "port"
        /\ dbPort' = [dbPort EXCEPT ![LastChain] = cmd[h].port]
        /\ UNCHANGED dbBody
     \/ Fails("db") /\ UNCHANGED dbVars
  /\ Return(h)
  /\ UNCHANGED <<live, disk, up, locked, memVars, edits>>

(* The UPDATE of nftables_state; its result is ignored.                    *)
StoreRows(h) ==
  /\ pc[h] = "store"
  /\ \/ /\ cmd[h].kind = "chain"
        /\ dbBody' = [dbBody EXCEPT ![cmd[h].chain] = cmd[h].body]
        /\ dbPort' = [dbPort EXCEPT ![cmd[h].chain] = port]
     \/ /\ cmd[h].kind = "port"
        /\ dbPort' = [c \in Chain |-> cmd[h].port]
        /\ UNCHANGED dbBody
     \/ Fails("db") /\ UNCHANGED dbVars
  /\ Return(h)
  /\ UNCHANGED <<live, disk, up, locked, memVars, edits>>

-----------------------------------------------------------------------------
(* The divergence check reads the baseline; without one it returns.        *)
BeginCheck ==
  /\ MayStart("checker")
  /\ expected # None
  /\ sum' = [sum EXCEPT !["checker"] = expected]
  /\ Goto("checker", "compare")
  /\ UNCHANGED <<live, disk, dbVars, up, locked, memVars, cmd, script, edits>>

(* The table is as expected, or cannot be listed: nothing to do.           *)
CheckEnds ==
  /\ pc["checker"] = "compare"
  /\ live = sum["checker"] \/ live = Absent \/ Fails("list")
  /\ Return("checker")
  /\ UNCHANGED <<live, disk, dbVars, up, locked, memVars, edits>>

(* Defect: a divergence is reported but nothing is restored.               *)
CheckReports ==
  /\ pc["checker"] = "compare"
  /\ live \notin {sum["checker"], Absent}
  /\ Return("checker")
  /\ UNCHANGED <<live, disk, dbVars, up, locked, memVars, edits>>

CheckDiverges ==
  /\ pc["checker"] = "compare"
  /\ live \notin {sum["checker"], Absent}
  /\ Goto("checker", "diverged")
  /\ UNCHANGED <<live, disk, dbVars, up, locked, memVars, cmd, script, sum,
                 edits>>

(* restore() takes the last ruleset, or fails when there is none.          *)
CheckRestores ==
  /\ pc["checker"] = "diverged"
  /\ IF last = None
       THEN Goto("checker", "emergency") /\ UNCHANGED script
       ELSE /\ Goto("checker", "apply")
            /\ script' = [script EXCEPT !["checker"] = last]
  /\ UNCHANGED <<live, disk, dbVars, up, locked, memVars, cmd, sum, edits>>

(* apply_emergency, whose failure is only logged: nft -f - ...             *)
ApplyEmergency ==
  /\ pc["checker"] = "emergency"
  /\ \/ live' = Emergency /\ Goto("checker", "save")
     \/ Fails("nft") /\ UNCHANGED live /\ Goto("checker", "locking")
  /\ UNCHANGED <<disk, dbVars, up, locked, memVars, cmd, script, sum, edits>>

(* ... and the boot file.                                                  *)
PersistEmergency ==
  /\ pc["checker"] = "save"
  /\ PersistScript(Emergency)
  /\ Goto("checker", "locking")
  /\ UNCHANGED <<live, dbVars, up, locked, memVars, cmd, script, sum, edits>>

(* Defect: lockdown only if the emergency ruleset could not be applied.    *)
EnterLockdownOnDoubleFault ==
  /\ pc["checker"] = "locking"
  /\ locked' = (locked \/ live # Emergency)
  /\ Return("checker")
  /\ UNCHANGED <<live, disk, dbVars, up, memVars, edits>>

(* set_lockdown(NftablesFailure).  Its two stores, and what an             *)
(* acknowledgement or another watcher does between them, are in Lockdown;  *)
(* here the agent that locks itself stays locked.                          *)
EnterLockdown ==
  /\ pc["checker"] = "locking"
  /\ locked' = TRUE
  /\ Return("checker")
  /\ UNCHANGED <<live, disk, dbVars, up, memVars, edits>>

-----------------------------------------------------------------------------
(* Someone else changes the table or, "delete", removes it.                *)
ExternalEdit ==
  /\ edits < MaxEdits
  /\ live # Absent
  /\ live' \in {Foreign} \cup (IF Fails("delete") THEN {Absent} ELSE {})
  /\ edits' = edits + 1
  /\ UNCHANGED <<disk, dbVars, up, locked, memVars, actorVars>>

(* Memory is lost, and the machine may go down with the process: then the  *)
(* table is loaded from the boot file.  One whose writing was cut short is *)
(* an incomplete script, which nft refuses as a whole.                     *)
Writing == \E a \in Actor : pc[a] \in {"persist", "save"}

Crash ==
  /\ up
  /\ up' = FALSE /\ locked' = FALSE
  /\ EmptyMemory
  /\ ForgetActors
  /\ disk' \in {disk} \cup (IF Writing THEN {Empty} ELSE {})
  /\ live' \in {live, IF disk' = Empty THEN Absent ELSE disk'}
  /\ UNCHANGED <<dbVars, edits>>

(* What main() makes of the rows: the port of the last one wins.           *)
Stored == [bodies |-> dbBody, port |-> dbPort[LastChain]]

(* main() reads the rows into memory and applies them; a failure of nft is *)
(* only logged.                                                            *)
Startup ==
  /\ ~ up
  /\ up' = TRUE
  /\ body' = dbBody
  /\ port' = dbPort[LastChain]
  /\ \/ /\ live' = Stored /\ PersistScript(Stored)
        /\ last' = Stored
        /\ expected' \in {Stored} \cup (IF Fails("list") THEN {None} ELSE {})
     \/ /\ Fails("nft")
        /\ UNCHANGED <<live, disk>> /\ expected' = None /\ last' = None
  /\ UNCHANGED <<dbVars, locked, actorVars, edits>>

(* The process dies on the way, between the table and the boot file.       *)
StartupDies ==
  /\ ~ up
  /\ live' = Stored
  /\ disk' \in {disk, Empty}
  /\ UNCHANGED <<dbVars, up, locked, memVars, actorVars, edits>>

(* The query for the rows fails: the process runs on with empty bodies.    *)
StartupWithoutRows ==
  /\ ~ up /\ Fails("db")
  /\ up' = TRUE
  /\ EmptyMemory
  /\ UNCHANGED <<live, disk, dbVars, locked, actorVars, edits>>

CheckStep == BeginCheck \/ CheckEnds \/ CheckDiverges \/ CheckRestores
             \/ ApplyEmergency \/ PersistEmergency \/ EnterLockdown

Next ==
  \/ \E h \in Handler :
        \/ \E c \in Chain, b \in Body : BeginChain(h, c, b)
        \/ \E p \in Port : BeginPort(h, p)
        \/ BeginRestore(h)
        \/ BeginAccept(h)
        \/ ClosePort(h)
        \/ Render(h)
        \/ Remember(h)
        \/ StoreRows(h)
  \/ \E a \in Actor :
        Apply(a) \/ Persist(a) \/ Measure(a) \/ NftFails(a) \/ Baseline(a)
  \/ CheckStep
  \/ ExternalEdit
  \/ Crash
  \/ Startup
  \/ StartupDies
  \/ StartupWithoutRows

Spec == Init /\ [][Next]_vars

(* The divergence check ticks for ever and finishes what it starts, and so *)
(* does every command.  systemd restarts the process (Restart=always).     *)
Running(a) ==
  Apply(a) \/ Persist(a) \/ Measure(a) \/ NftFails(a) \/ Baseline(a)

FairSpec ==
  /\ Spec
  /\ SF_vars(BeginCheck)
  /\ WF_vars(CheckStep \/ Running("checker"))
  /\ \A h \in Handler :
        WF_vars(Render(h) \/ Running(h) \/ Remember(h) \/ StoreRows(h))
  /\ WF_vars(Startup \/ StartupWithoutRows)

-----------------------------------------------------------------------------
TypeOK ==
  /\ live \in Ruleset \cup Changed \cup {Absent, Emergency}
  /\ disk \in Ruleset \cup {Absent, Emergency, Empty}
  /\ dbBody \in [Chain -> Body] /\ dbPort \in [Chain -> Port]
  /\ up \in BOOLEAN /\ locked \in BOOLEAN
  /\ body \in [Chain -> Body] /\ port \in Port
  /\ expected \in Ruleset \cup Changed \cup {None, Emergency}
  /\ last \in Ruleset \cup {None, Empty}
  /\ pc \in [Actor -> {"idle", "render", "apply", "persist", "measure",
                       "baseline", "remember", "store", "compare", "diverged",
                       "emergency", "save", "locking"}]
  /\ cmd \in [Actor -> Command]
  /\ script \in [Actor -> Ruleset \cup {Empty}]
  /\ sum \in [Actor -> Ruleset \cup Changed \cup {None, Emergency}]
  /\ edits \in 0 .. MaxEdits

Quiet == up /\ \A a \in Actor : pc[a] = "idle"

(* migrations/004_nftables_state.sql:1-2: "Persists the last-applied       *)
(* nftables chain bodies so the agent can re-apply rules after reboot."    *)
(* Between commands the rows agree on the port and hold exactly what the   *)
(* agent last applied; while nobody else has changed the table, that is    *)
(* what the kernel filters with.  (After accept there is no last ruleset.) *)
StoredIsApplied ==
  Quiet =>
    /\ \A c, d \in Chain : dbPort[c] = dbPort[d]
    /\ last \in Ruleset => last = Stored
    /\ last \in Ruleset /\ live \notin Changed => live = Stored

(* The boot file never brings back a ruleset older than the rows: between  *)
(* commands it is the stored ruleset, or there is none to load.            *)
BootFileIsCurrent == Quiet => disk \in {Stored, Empty}

(* The emergency ruleset is in force only under lockdown: the agent is     *)
(* locked, is about to be, or has no policy to compare the table with (it  *)
(* could not apply its rows at startup, or was told to accept the table).  *)
EmergencyMeansLockdown ==
  up /\ live = Emergency =>
    \/ locked
    \/ pc["checker"] \in {"save", "locking"}
    \/ expected \in {None, Emergency}

(* A table changed by someone else, or by nftables.close_setup_port, while *)
(* the baseline is the agent's own ruleset, does not stay: the check puts  *)
(* the agent's ruleset back, or the change is accepted or becomes the      *)
(* baseline.  (What becomes of a table that is deleted: DeletionIsRepaired.) *)
DivergenceIsRepaired ==
  (up /\ live \in Changed /\ expected \in Ruleset)
    ~> (live \notin Changed \/ expected \in Changed)

(* src/nftables/divergence.rs:55: "Auto-restore in all cases -- PostgreSQL *)
(* is the source of truth, not the VPS."  So a check that has found the    *)
(* table changed and ends without an error leaves the stored ruleset.      *)
CheckRestored == pc["checker"] = "baseline" /\ pc'["checker"] = "idle" /\ up'
RestoreIsTruth == [][CheckRestored => live \notin Changed]_vars

(* The same line for a table someone has deleted: it comes back.           *)
DeletionIsRepaired ==
  (up /\ live = Absent /\ expected \in Ruleset) ~> live # Absent

(* src/handlers/nginx_cmd.rs:232: "Close port 19443 via nftables once a     *)
(* domain is confirmed active."  So only another command replaces the      *)
(* table in which the port was closed.                                     *)
ClosingLasts ==
  [][live = Closed /\ up /\ up' /\ live' # Closed
       => \E h \in Handler : pc[h] # "idle"]_vars

(* src/nftables/mod.rs:80-81: the emergency ruleset "Allows only WireGuard *)
(* inbound from the dashboard [...] VPS stays reachable only from          *)
(* dashboard."  So the port it opens, 51820, is the one WireGuard uses.    *)
EmergencyKeepsWireGuard == up /\ live = Emergency => port = DefaultPort

=============================================================================
