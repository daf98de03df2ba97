------------------------------ MODULE Rotation ------------------------------
(***************************************************************************)
(* Rotation of the two secrets the agent keeps in several places: the      *)
(* preshared key of its tunnel to the dashboard (wg.rotate_psk,            *)
(* src/handlers/wireguard.rs) and its database password                    *)
(* (db.rotate_password, src/handlers/system.rs), with what reads the       *)
(* copies: wg-quick at boot, the agent at its start (src/config.rs,        *)
(* src/main.rs), the connection pool and the PostgreSQL watchdog.          *)
(*                                                                         *)
(* Both handlers change the copy in force first and the files after it,    *)
(* and answer "ok" whether or not the files could be written.  The podman  *)
(* secret of the password is written and never read again: only the error  *)
(* its writing may end in is kept.                                         *)
(*                                                                         *)
(* The process may die, with or without the machine, at any step; a client *)
(* may go away during ALTER USER, and podman may be missing.  Faults       *)
(* besides: "keyfile", "urlfile" (a file cannot be read or written).       *)
(***************************************************************************)
EXTENDS Handlers

CONSTANTS
  Key,          \* preshared keys
  FirstKey,     \* the one setup-agent.sh has installed
  Password,     \* passwords the agent may generate
  FirstPassword

ASSUME RotationAssumption ==
  /\ FirstKey \in Key /\ FirstPassword \in Password
  /\ Torn \notin Key \cup Password /\ None \notin Key \cup Password

VARIABLES
  live,         \* the key of the interface wg-lynx-agent
  cred,         \* /etc/lynx/credentials/lynx-wg-psk
  conf,         \* PresharedKey in /etc/lynx/wireguard/lynx-wg.conf
  told,         \* the key last answered, until a rotation changes it again
  server,       \* the password PostgreSQL wants for lynx_agent_app
  url,          \* the one in /etc/lynx/credentials/database-url
  answered,     \* the one last answered, until another may have taken effect
  used,         \* passwords that have been generated
  up, locked,   \* the process runs; lockdown PgUnreachable
  pool, conn,   \* the password of the pool; whether a connection is open
  arg, saw      \* per handler: the new secret, the file it has read

keyVars == <<live, cred, conf, told>>
passVars == <<server, url, answered, used>>
agentVars == <<up, locked, pool, conn>>
vars == <<keyVars, passVars, agentVars, pc, arg, saw>>

Init ==
  /\ live = FirstKey /\ cred = FirstKey /\ conf = FirstKey /\ told = FirstKey
  /\ server = FirstPassword /\ url = FirstPassword
  /\ answered = FirstPassword /\ used = {FirstPassword}
  /\ up = TRUE /\ locked = FALSE /\ pool = FirstPassword /\ conn = TRUE
  /\ pc = AllIdle
  /\ arg = [h \in Handler |-> None]
  /\ saw = [h \in Handler |-> None]

-----------------------------------------------------------------------------
KeySteps == {"set", "cred", "read", "write", "reply"}
PassSteps == {"alter", "secret", "url"}

At(label) == {h \in Handler : pc[h] = label}

Return(h) ==
  /\ Goto(h, "idle")
  /\ arg' = [arg EXCEPT ![h] = None]
  /\ saw' = [saw EXCEPT ![h] = None]

(* A command passes the lockdown gate and reaches its handler.             *)
MayStart(h, steps) ==
  /\ up /\ ~ locked
  /\ pc[h] = "idle"
  /\ Overlap \/ \A g \in Handler : pc[g] \notin steps

-----------------------------------------------------------------------------
(* wg.rotate_psk; without an interface it is refused.                      *)
BeginKey(h, k) ==
  /\ MayStart(h, KeySteps)
  /\ live # None
  /\ arg' = [arg EXCEPT ![h] = k]
  /\ Goto(h, "set")
  /\ UNCHANGED <<keyVars, passVars, agentVars, saw>>

(* wg set ... preshared-key, which may fail and end the command.           *)
SetLive(h) ==
  /\ pc[h] = "set"
  /\ live' = arg[h]
  /\ told' = None
  /\ Goto(h, "cred")
  /\ UNCHANGED <<cred, conf, passVars, agentVars, arg, saw>>

SetFails(h) ==
  /\ pc[h] = "set"
  /\ Return(h)
  /\ UNCHANGED <<keyVars, passVars, agentVars>>

(* What fs::write(path, new) may leave: the file as it was, or emptied.    *)
Outcomes(old, new, fault) == {new} \cup (IF Fails(fault) THEN {old, Torn} ELSE {})

WriteCred(h) ==
  /\ pc[h] = "cred"
  /\ cred' \in Outcomes(cred, arg[h], "keyfile")
  /\ Goto(h, "read")
  /\ UNCHANGED <<live, conf, told, passVars, agentVars, arg, saw>>

(* read_to_string; a file another handler is writing may be read empty,    *)
(* and one that cannot be read is left alone.                              *)
ReadConf(h) ==
  /\ pc[h] = "read"
  /\ \E seen \in {conf} \cup
          (IF At("write") # {} THEN {Torn} ELSE {}) :
        saw' = [saw EXCEPT ![h] = seen]
  /\ \E next \in {"write"} \cup
          (IF Fails("keyfile") THEN {"reply"} ELSE {}) : Goto(h, next)
  /\ UNCHANGED <<keyVars, passVars, agentVars, arg>>

(* Defect: no line is recognised, and the file is written as it was read.  *)
Unedited(h) == saw[h]

(* Every line that starts with PresharedKey is replaced; a file without    *)
(* one stays without.                                                      *)
Edited(h) == IF saw[h] = Torn THEN Torn ELSE arg[h]

WriteConf(h) ==
  /\ pc[h] = "write"
  /\ conf' \in Outcomes(conf, Edited(h), "keyfile")
  /\ Goto(h, "reply")
  /\ UNCHANGED <<live, cred, told, passVars, agentVars, arg, saw>>

(* The answer is "ok", whatever became of the two files.                   *)
ReplyKey(h) ==
  /\ pc[h] = "reply"
  /\ told' = arg[h]
  /\ Return(h)
  /\ UNCHANGED <<live, cred, conf, passVars, agentVars>>

-----------------------------------------------------------------------------
(* A query finds an open connection, or the pool opens one.                *)
Reaches == conn \/ pool = server

(* db.rotate_password generates a password.                                *)
BeginPassword(h) ==
  /\ MayStart(h, PassSteps)
  /\ \E p \in Password \ used :
       /\ used' = used \cup {p}
       /\ arg' = [arg EXCEPT ![h] = p]
  /\ Goto(h, "alter")
  /\ UNCHANGED <<keyVars, server, url, answered, agentVars, saw>>

(* ALTER USER                                                              *)
Alter(h) ==
  /\ pc[h] = "alter"
  /\ Reaches
  /\ server' = arg[h] /\ answered' = None
  /\ conn' = TRUE
  /\ Goto(h, "secret")
  /\ UNCHANGED <<keyVars, url, used, up, locked, pool, arg, saw>>

AlterFails(h) ==
  /\ pc[h] = "alter"
  /\ Return(h)
  /\ UNCHANGED <<keyVars, passVars, agentVars>>

(* One of the pending statements of handlers is carried out, or none.      *)
CarriedOut(handlers) ==
  /\ server' \in {server} \cup
        (IF Reaches THEN {arg[h] : h \in handlers} ELSE {})
  /\ answered' = IF server' = server THEN answered ELSE None

(* The client of POST /cmd goes away during the statement, or the          *)
(* connection breaks: the statement may be carried out, but the new        *)
(* password was known to this handler only.                                *)
Cancel(h) ==
  /\ pc[h] = "alter"
  /\ CarriedOut({h})
  /\ Return(h)
  /\ UNCHANGED <<keyVars, url, used, agentVars>>

(* podman secret create; if podman cannot be run or read its input, the    *)
(* command ends here.                                                      *)
StoreSecret(h) ==
  /\ pc[h] = "secret"
  /\ \/ Goto(h, "url") /\ UNCHANGED <<arg, saw>>
     \/ Return(h)
  /\ UNCHANGED <<keyVars, passVars, agentVars>>

(* Defect: the URL is written after its password was wiped.                *)
StoreWipedUrl(h) ==
  /\ pc[h] = "url"
  /\ Return(h)
  /\ url' = arg'[h] /\ answered' = arg[h]
  /\ UNCHANGED <<keyVars, server, used, agentVars>>

(* Defect: the URL is written with the password the agent started with.    *)
StoreOldUrl(h) ==
  /\ pc[h] = "url"
  /\ url' = pool /\ answered' = arg[h]
  /\ Return(h)
  /\ UNCHANGED <<keyVars, server, used, agentVars>>

(* update_database_url_credential, and the answer.                         *)
StoreUrl(h) ==
  /\ pc[h] = "url"
  /\ url' \in Outcomes(url, arg[h], "urlfile")
  /\ answered' = arg[h]
  /\ Return(h)
  /\ UNCHANGED <<keyVars, server, used, agentVars>>

-----------------------------------------------------------------------------
(* The pool's connections end: max_lifetime, idle_timeout, a restart of    *)
(* the PostgreSQL container.                                               *)
ConnectionsEnd ==
  /\ up /\ conn
  /\ conn' = FALSE
  /\ UNCHANGED <<keyVars, passVars, up, locked, pool, pc, arg, saw>>

(* Defect: the watchdog only looks whether the pool was ever connected.    *)
PgCheckIdle ==
  /\ up
  /\ conn' = Reaches
  /\ UNCHANGED <<keyVars, passVars, up, locked, pool, pc, arg, saw>>

(* The watchdog's SELECT 1.                                                *)
PgCheck ==
  /\ up
  /\ conn' = Reaches
  /\ locked' = (locked \/ ~ Reaches)
  /\ UNCHANGED <<keyVars, passVars, up, pool, pc, arg, saw>>

(* The process dies, alone or with the machine: then wg-quick brings the   *)
(* tunnel up from the configuration file, if it can be read.  What was     *)
(* being written is cut off.                                               *)
Stop ==
  /\ up
  /\ up' = FALSE /\ locked' = FALSE /\ pool' = None /\ conn' = FALSE
  /\ pc' = AllIdle
  /\ arg' = [h \in Handler |-> None]
  /\ saw' = [h \in Handler |-> None]
  /\ cred' \in {cred} \cup (IF At("cred") # {} THEN {Torn} ELSE {})
  /\ conf' \in {conf} \cup (IF At("write") # {} THEN {Torn} ELSE {})
  /\ live' \in {live, IF conf' = Torn THEN None ELSE conf'}
  /\ url' \in {url} \cup (IF At("url") # {} THEN {Torn} ELSE {})
  /\ CarriedOut(At("alter"))
  /\ UNCHANGED <<told, used>>

(* systemd starts the agent, again and again; it runs if the password it   *)
(* is given connects.                                                      *)
Start ==
  /\ ~ up
  /\ url = server
  /\ up' = TRUE /\ pool' = url /\ conn' = TRUE
  /\ UNCHANGED <<keyVars, passVars, locked, pc, arg, saw>>

Step(h) ==
  \/ SetLive(h) \/ SetFails(h) \/ WriteCred(h) \/ ReadConf(h)
  \/ WriteConf(h) \/ ReplyKey(h)
  \/ Alter(h) \/ AlterFails(h) \/ Cancel(h) \/ StoreSecret(h) \/ StoreUrl(h)

Next ==
  \/ \E h \in Handler :
        \/ \E k \in Key : BeginKey(h, k)
        \/ BeginPassword(h)
        \/ Step(h)
  \/ ConnectionsEnd
  \/ PgCheck
  \/ Stop
  \/ Start

Spec == Init /\ [][Next]_vars

(* A connection has a maximal lifetime, and the watchdog ticks for ever.   *)
FairSpec == Spec /\ SF_vars(ConnectionsEnd) /\ WF_vars(PgCheck)

-----------------------------------------------------------------------------
TypeOK ==
  /\ live \in Key \cup {None} /\ told \in Key \cup {None}
  /\ cred \in Key \cup {Torn} /\ conf \in Key \cup {Torn}
  /\ server \in Password /\ url \in Password \cup {Torn}
  /\ answered \in Password \cup {None}
  /\ used \subseteq Password
  /\ up \in BOOLEAN /\ locked \in BOOLEAN /\ conn \in BOOLEAN
  /\ pool \in Password \cup {None}
  /\ pc \in [Handler -> {"idle"} \cup KeySteps \cup PassSteps]
  /\ arg \in [Handler -> Key \cup Password \cup {None}]
  /\ saw \in [Handler -> Key \cup {Torn, None}]

(* src/handlers/wireguard.rs:79-81: "Also update the wg-quick conf so the  *)
(* PSK survives a full reboot. [...] if it diverges from the credential    *)
(* file the tunnel breaks after the next reboot."  So a key that has been  *)
(* answered, and not rotated since, is in the credential file and, unless  *)
(* a kill has cut the wg-quick file off (no rotation restores it), in that *)
(* file and in force: through restarts and reboots at any step, also of    *)
(* rotations that were cut short before it.                                *)
PskIsAnswered ==
  told # None =>
    /\ cred = told
    /\ conf = Torn \/ (conf = told /\ live = told)

(* src/handlers/system.rs:365-366: "so systemd LoadCredential serves the   *)
(* new password on next agent restart."  So a password that has been       *)
(* answered is the server's and the one the agent will be started with,    *)
(* until another ALTER USER takes effect: through kills at any step,       *)
(* clients that go away and rotations that podman ended.                   *)
PasswordIsAnswered ==
  answered # None => server = answered /\ url = answered

(* The same for every restart, also of an agent that was killed, or ended  *)
(* a rotation, after ALTER USER and before the file: not so.               *)
RestartConnects == ~ up => url = server

(* A process that runs with an obsolete password does not run on half      *)
(* alive: when its connections end, the watchdog locks it.  (Every         *)
(* rotation leads there, as the pool keeps the password it was made with.) *)
StalePoolIsNoticed == (up /\ pool # server) ~> (locked \/ ~ up)

(* src/main.rs:333: "PostgreSQL health watchdog -- lockdown if DB          *)
(* unreachable".  PostgreSQL is always there in this module, so the        *)
(* watchdog should have no reason to lock the agent.                       *)
NeverLocksItself == ~ locked

=============================================================================
