-------------------------------- MODULE Nginx --------------------------------
(***************************************************************************)
(* The nginx container: nginx.deploy and nginx.update_config               *)
(* (src/handlers/nginx_cmd.rs) next to the watchdog (src/nginx.rs), on the *)
(* container, the configuration file and table nginx_configs.              *)
(*                                                                         *)
(* Commands run in parallel with one another and with the watchdog, each   *)
(* call of podman, each query and each write being a step.  A statement    *)
(* that is abandoned takes effect before that or never.  The rows of the   *)
(* table have distinct dates.  What nginx makes of its configuration is    *)
(* outside: a health check succeeds or fails.  Certificates are left out.  *)
(***************************************************************************)
EXTENDS Naturals

CONSTANTS
  Handler,       \* nginx commands that may run at the same time
  Image,         \* images a deployment may ask for
  DefaultImage,  \* the image the watchdog deploys
  Config,        \* configurations
  Foreign,       \* a configuration file someone else has edited
  Faults,        \* what may go wrong: "podman", "db", "disk", "crash"
  MaxClock,      \* bound on the number of configurations persisted
  None           \* Option::None; no file

ASSUME NginxAssumption ==
  /\ Faults \subseteq {"podman", "db", "disk", "crash"}
  /\ MaxClock \in Nat
  /\ Foreign \notin Config /\ None \notin Config /\ Foreign # None
  /\ None \notin Image \cup {DefaultImage}

VARIABLES
  container, image,  \* "absent", "stopped" or "running", and made from what
  file,              \* /etc/nginx/conf.d/lynx.conf
  rows, clock,       \* nginx_configs; the date of its latest INSERT
  pc, wants, config, \* per handler: place, image and configuration asked for
  stamp,             \* updated_at of the row it inserts
  alone,             \* whether it has run without any other command so far
  watch, attempt,    \* the watchdog: place, failed attempts to redeploy
  read,              \* the configuration it has read
  deployed,          \* the image of the last command, if it was a deployment
                     \* that ran alone and was answered with ok
  configured         \* likewise for the configuration

hostVars == <<container, image, file>>
tableVars == <<rows, clock>>
handlerVars == <<pc, wants, config, stamp, alone>>
watchVars == <<watch, attempt, read>>
answers == <<deployed, configured>>
vars == <<hostVars, tableVars, handlerVars, watchVars, answers>>

Init ==
  /\ container = "absent" /\ image = None /\ file = None
  /\ rows = {} /\ clock = 0
  /\ pc = [h \in Handler |-> "idle"]
  /\ wants = [h \in Handler |-> None] /\ config = [h \in Handler |-> None]
  /\ stamp = [h \in Handler |-> 0] /\ alone = [h \in Handler |-> FALSE]
  /\ watch = "idle" /\ attempt = 0 /\ read = None
  /\ deployed = None /\ configured = None

Fails(what) == what \in Faults
Goto(h, label) == pc' = [pc EXCEPT ![h] = label]

-----------------------------------------------------------------------------
(* A command starts: from now on it and those under way overlap.           *)
Begin(h, label) ==
  /\ pc[h] = "idle"
  /\ Goto(h, label)
  /\ alone' = [g \in Handler |-> \A k \in Handler \ {h} : pc[k] = "idle"]

BeginDeploy(h, i, c) ==
  /\ Begin(h, "stop")
  /\ wants' = [wants EXCEPT ![h] = i]
  /\ config' = [config EXCEPT ![h] = c]
  /\ deployed' = None
  /\ configured' = IF c = None THEN configured ELSE None
  /\ UNCHANGED <<hostVars, tableVars, stamp, watchVars>>

BeginUpdate(h, c) ==
  /\ Begin(h, "insert")
  /\ config' = [config EXCEPT ![h] = c]
  /\ configured' = None
  /\ UNCHANGED <<hostVars, tableVars, wants, stamp, watchVars, deployed>>

Return(h) ==
  /\ Goto(h, "idle")
  /\ wants' = [wants EXCEPT ![h] = None]
  /\ config' = [config EXCEPT ![h] = None]
  /\ stamp' = [stamp EXCEPT ![h] = 0]
  /\ UNCHANGED alone

ReturnError(h) == Return(h) /\ UNCHANGED answers

ReturnOk(h) ==
  /\ Return(h)
  /\ deployed' = IF alone[h] /\ wants[h] # None THEN wants[h] ELSE deployed
  /\ configured' = IF alone[h] /\ config[h] # None THEN config[h]
                                                   ELSE configured

-----------------------------------------------------------------------------
(* podman stop and podman rm, whose errors are ignored.                    *)
StopOld(h) ==
  /\ pc[h] = "stop"
  /\ \/ container' = IF container = "running" THEN "stopped" ELSE container
     \/ Fails("podman") /\ UNCHANGED container
  /\ Goto(h, "rm")
  /\ UNCHANGED <<image, file, tableVars, wants, config, stamp, alone,
                 watchVars, answers>>

RemoveOld(h) ==
  /\ pc[h] = "rm"
  /\ \/ /\ container = "stopped"
        /\ container' = "absent" /\ image' = None
     \/ /\ container # "stopped" \/ Fails("podman")
        /\ UNCHANGED <<container, image>>
  /\ Goto(h, "run")
  /\ UNCHANGED <<file, tableVars, wants, config, stamp, alone, watchVars,
                 answers>>

(* Defect: podman run --replace.                                           *)
PodmanReplaces(i, status) ==
  /\ container' = status
  /\ image' = i

(* podman run --name: the name must be free.  A container that was made    *)
(* but could not be started stays.                                         *)
PodmanRuns(i, status) ==
  /\ container = "absent"
  /\ container' = status
  /\ image' = i

PodmanRunFails(i) ==
  \/ /\ container # "absent" \/ Fails("podman")
     /\ UNCHANGED <<container, image>>
  \/ Fails("podman") /\ PodmanRuns(i, "stopped")

RunNew(h) ==
  /\ pc[h] = "run"
  /\ \/ /\ PodmanRuns(wants[h], "running")
        /\ IF config[h] = None THEN ReturnOk(h)
           ELSE /\ Goto(h, "insert")
                /\ UNCHANGED <<wants, config, stamp, alone, answers>>
     \/ /\ PodmanRunFails(wants[h])
        /\ ReturnError(h)
  /\ UNCHANGED <<file, tableVars, watchVars>>

-----------------------------------------------------------------------------
(* persist_config: the row's date is taken when the INSERT starts, and the *)
(* row is seen when it ends.                                               *)
BeginInsert(h) ==
  /\ pc[h] = "insert"
  /\ clock < MaxClock
  /\ clock' = clock + 1
  /\ stamp' = [stamp EXCEPT ![h] = clock + 1]
  /\ Goto(h, "inserting")
  /\ UNCHANGED <<hostVars, rows, wants, config, alone, watchVars, answers>>

CommitInsert(h) ==
  /\ pc[h] = "inserting"
  /\ rows' = rows \cup {[at |-> stamp[h], config |-> config[h]]}
  /\ Goto(h, "delete")
  /\ UNCHANGED <<hostVars, clock, wants, config, stamp, alone, watchVars,
                 answers>>

(* The INSERT fails, or the client goes away during either statement.      *)
GiveUp(h) ==
  /\ pc[h] \in {"insert", "inserting", "delete"}
  /\ ReturnError(h)
  /\ UNCHANGED <<hostVars, tableVars, watchVars>>

(* Defects: the oldest row is kept; each command keeps its own row.        *)
OldestKept(h, r) == r \in rows /\ \A s \in rows : r.at <= s.at
OwnKept(h, r) == r.at = stamp[h]

Newest(r) == r \in rows /\ \A s \in rows : s.at <= r.at

(* id != (SELECT id ... ORDER BY updated_at DESC LIMIT 1)                  *)
Kept(h, r) == Newest(r)

(* The other rows are deleted, unless the statement fails.                 *)
DeleteOld(h) ==
  /\ pc[h] = "delete"
  /\ \/ rows' = {r \in rows : Kept(h, r)}
     \/ Fails("db") /\ UNCHANGED rows
  /\ Goto(h, "write")
  /\ UNCHANGED <<hostVars, clock, wants, config, stamp, alone, watchVars,
                 answers>>

(* A deployment goes on when the file cannot be written.                   *)
WriteConfig(h) ==
  /\ pc[h] = "write"
  /\ \/ /\ file' = config[h]
        /\ Goto(h, "reload")
        /\ UNCHANGED <<wants, config, stamp, alone, answers>>
     \/ /\ Fails("disk") /\ wants[h] # None
        /\ Goto(h, "reload")
        /\ UNCHANGED <<file, wants, config, stamp, alone, answers>>
     \/ /\ Fails("disk") /\ wants[h] = None
        /\ ReturnError(h) /\ UNCHANGED file
  /\ UNCHANGED <<container, image, tableVars, watchVars>>

Reload(h) ==
  /\ pc[h] = "reload"
  /\ \/ container = "running" /\ ReturnOk(h)
     \/ (container # "running" \/ Fails("podman")) /\ ReturnError(h)
  /\ UNCHANGED <<hostVars, tableVars, watchVars>>

-----------------------------------------------------------------------------
WatchEnds == watch' = "idle" /\ attempt' = 0 /\ read' = None

(* Defect: only a missing container is looked for.                         *)
WatchMissing ==
  /\ watch = "idle"
  /\ container # "running"
  /\ watch' = "ever"
  /\ UNCHANGED <<hostVars, tableVars, handlerVars, attempt, read, answers>>

(* is_container_running                                                    *)
WatchRunning ==
  /\ watch = "idle"
  /\ watch' = IF container = "running" THEN "health" ELSE "ever"
  /\ UNCHANGED <<hostVars, tableVars, handlerVars, attempt, read, answers>>

(* container_ever_existed                                                  *)
WatchEver ==
  /\ watch = "ever"
  /\ \/ container # "absent" /\ watch' = "redeploy" /\ UNCHANGED <<attempt, read>>
     \/ container = "absent" /\ WatchEnds
  /\ UNCHANGED <<hostVars, tableVars, handlerVars, answers>>

(* podman ps fails: nothing is listed.                                     *)
WatchFails ==
  /\ Fails("podman")
  /\ \/ watch = "idle" /\ watch' = "ever" /\ UNCHANGED <<attempt, read>>
     \/ watch = "ever" /\ WatchEnds
  /\ UNCHANGED <<hostVars, tableVars, handlerVars, answers>>

(* MAX_REDEPLOY_ATTEMPTS                                                   *)
LastAttempt == attempt = 2

Redeploy ==
  /\ watch = "redeploy"
  /\ \/ /\ PodmanRuns(DefaultImage, "running")
        /\ WatchEnds
     \/ /\ PodmanRunFails(DefaultImage)
        /\ IF LastAttempt THEN WatchEnds
           ELSE attempt' = attempt + 1 /\ UNCHANGED <<watch, read>>
  /\ UNCHANGED <<file, tableVars, handlerVars, answers>>

HealthOk ==
  /\ watch = "health"
  /\ WatchEnds
  /\ UNCHANGED <<hostVars, tableVars, handlerVars, answers>>

HealthFails ==
  /\ watch = "health"
  /\ watch' = "select"
  /\ UNCHANGED <<hostVars, tableVars, handlerVars, attempt, read, answers>>

(* restore_nginx_config: read the newest row, write it, reload.            *)
SelectConfig ==
  /\ watch = "select"
  /\ \E r \in rows : Newest(r) /\ read' = r.config
  /\ watch' = "restore"
  /\ UNCHANGED <<hostVars, tableVars, handlerVars, attempt, answers>>

RestoreConfig ==
  /\ watch = "restore"
  /\ file' = read
  /\ WatchEnds
  /\ UNCHANGED <<container, image, tableVars, handlerVars, answers>>

RestoreFails ==
  /\ \/ watch = "select" /\ (rows = {} \/ Fails("db"))
     \/ watch = "restore" /\ Fails("disk")
  /\ WatchEnds
  /\ UNCHANGED <<hostVars, tableVars, handlerVars, answers>>

-----------------------------------------------------------------------------
(* Someone edits the file, stops the container or removes it.              *)
Edited ==
  /\ file' = Foreign
  /\ UNCHANGED <<container, image, tableVars, handlerVars, watchVars, answers>>

Stopped ==
  /\ container = "running"
  /\ container' = "stopped"
  /\ UNCHANGED <<image, file, tableVars, handlerVars, watchVars, answers>>

Removed ==
  /\ container # "absent"
  /\ container' = "absent" /\ image' = None
  /\ alone' = [h \in Handler |-> FALSE] /\ deployed' = None
  /\ UNCHANGED <<file, tableVars, pc, wants, config, stamp, watchVars,
                 configured>>

(* The agent dies and is started again.                                    *)
Restart ==
  /\ Fails("crash")
  /\ pc' = [h \in Handler |-> "idle"]
  /\ wants' = [h \in Handler |-> None] /\ config' = [h \in Handler |-> None]
  /\ stamp' = [h \in Handler |-> 0] /\ alone' = [h \in Handler |-> FALSE]
  /\ WatchEnds
  /\ UNCHANGED <<hostVars, tableVars, answers>>

Continue(h) ==
  \/ StopOld(h) \/ RemoveOld(h) \/ RunNew(h)
  \/ BeginInsert(h) \/ CommitInsert(h) \/ GiveUp(h)
  \/ DeleteOld(h) \/ WriteConfig(h) \/ Reload(h)

Watch ==
  \/ WatchRunning \/ WatchEver \/ WatchFails \/ Redeploy
  \/ HealthOk \/ HealthFails
  \/ SelectConfig \/ RestoreConfig \/ RestoreFails

Next ==
  \/ \E h \in Handler :
        \/ \E i \in Image, c \in Config \cup {None} : BeginDeploy(h, i, c)
        \/ \E c \in Config : BeginUpdate(h, c)
        \/ Continue(h)
  \/ Watch
  \/ Edited \/ Stopped \/ Removed \/ Restart

Spec == Init /\ [][Next]_vars

(* What is under way goes on, and the watchdog ticks for ever; calls,      *)
(* queries and writes that are tried again and again succeed.              *)
FairSpec ==
  /\ Spec
  /\ \A h \in Handler : WF_vars(Continue(h))
  /\ WF_vars(Watch)
  /\ SF_vars(WatchRunning) /\ SF_vars(WatchEver) /\ SF_vars(Redeploy)
  /\ SF_vars(SelectConfig) /\ SF_vars(RestoreConfig)

(* Health checks fail again and again.                                     *)
ChecksKeepFailing == SF_vars(HealthFails)

-----------------------------------------------------------------------------
Label == {"idle", "stop", "rm", "run", "insert", "inserting", "delete",
          "write", "reload"}

TypeOK ==
  /\ container \in {"absent", "stopped", "running"}
  /\ image \in Image \cup {DefaultImage, None}
  /\ container = "absent" <=> image = None
  /\ file \in Config \cup {Foreign, None}
  /\ clock \in Nat
  /\ rows \subseteq [at : 1 .. clock, config : Config]
  /\ pc \in [Handler -> Label]
  /\ wants \in [Handler -> Image \cup {None}]
  /\ config \in [Handler -> Config \cup {None}]
  /\ stamp \in [Handler -> 0 .. clock]
  /\ alone \in [Handler -> BOOLEAN]
  /\ watch \in {"idle", "ever", "redeploy", "health", "select", "restore"}
  /\ attempt \in 0 .. 2
  /\ read \in Config \cup {None}
  /\ deployed \in Image \cup {None} /\ configured \in Config \cup {None}

(* The watchdog's redeployment, which may come between podman rm and       *)
(* podman run of a deployment, never takes the place of one that was       *)
(* answered: until the next deployment, or until someone removes it, the   *)
(* container is made from the image the dashboard asked for.               *)
ImageIsAnswered == deployed # None => image = deployed

(* The configuration that was answered last is the one the watchdog would  *)
(* restore, though rows are pruned by commands that overlapped before it,  *)
(* fail half way, or do not prune at all (persist_config).                 *)
ConfigIsStored ==
  configured # None =>
    /\ rows # {}
    /\ \A r \in rows : Newest(r) => r.config = configured

(* src/handlers/nginx_cmd.rs:107: "Keep only the latest row".  However     *)
(* many commands prune at once, they leave a row: there is always a        *)
(* configuration to restore once one has been stored.                      *)
NeverForgotten == [][rows # {} => rows' # {}]_vars

(* A configuration file edited by hand is restored from the database, if   *)
(* the container runs and its health checks keep failing.                  *)
EditIsRestored ==
  ChecksKeepFailing /\ <>[](container = "running" /\ rows # {}) =>
    (file = Foreign ~> file # Foreign)

(* src/handlers/nginx_cmd.rs:71: "Update nginx config: write to disk,      *)
(* reload nginx, persist to agent DB."  So, until someone edits it, the    *)
(* file holds the configuration that was answered last.                    *)
ConfigIsWritten == configured # None => file \in {configured, Foreign}

(* src/nginx.rs:27-31: when the container is not running, but was,         *)
(* "nginx container missing -- re-deploying".  So none stays stopped.      *)
StoppedIsRedeployed == []<>(container # "stopped")

=============================================================================
