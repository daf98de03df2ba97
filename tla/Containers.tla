------------------------------ MODULE Containers ------------------------------
(***************************************************************************)
(* Tenants and their containers: tenant.ensure and the container commands  *)
(* (src/handlers/containers.rs, src/podman/mod.rs), the desired state in   *)
(* table container_deployments, and the recovery of deployments when the   *)
(* agent starts (src/main.rs).                                             *)
(*                                                                         *)
(* A project is one compose file and the containers made from it, which    *)
(* are treated as one.  Resource limits (container.update), listings and   *)
(* the checks of names and permissions change nothing here and are left    *)
(* out.  A command runs in the steps between which it waits or can fail:   *)
(* each call of useradd, usermod and podman, each query.                   *)
(***************************************************************************)
EXTENDS Integers

CONSTANTS
  Handler,   \* commands that may run at the same time
  Tenant,    \* organizations
  Project,   \* compose projects
  OwnerOf,   \* the tenant of a project
  Compose,   \* contents of a compose file
  MinStart,  \* 100000: where subordinate ids start
  Taken,     \* end of the ranges in /etc/subuid and /etc/subgid at setup
  Count,     \* 65536: ids per tenant
  Faults,    \* what may go wrong: "usermod", "podman", "db"
  Overlap,   \* FALSE: two commands on one project, or two tenant.ensure,
             \* do not run at the same time
  Torn,      \* a compose file cut off while it was written
  None       \* Option::None, a missing file, a missing row

ASSUME ContainersAssumption ==
  /\ OwnerOf \in [Project -> Tenant]
  /\ MinStart \in Nat \ {0} /\ Taken \in Nat /\ Count \in Nat \ {0}
  /\ Faults \subseteq {"usermod", "podman", "db"} /\ Overlap \in BOOLEAN
  /\ None \notin Compose \cup Tenant \cup Project
  /\ Torn \notin Compose \cup {None}
  /\ None \notin {"down", "running", "stopped"} /\ "down" \notin Compose

VARIABLES
  agent,                \* "down", "recovering" or "up"
  users,                \* tenants with a system user
  subuid, subgid,       \* start of a tenant's range in the two files, or 0
  file,                 \* compose.yml of each project
  actual, made,         \* its containers, and the file they were made from
  desired,              \* its row of container_deployments
  pc, on, want, start,  \* per handler: place, tenant or project, compose
                        \* file, start of the range
  todo,                 \* deployments the recovery has still to start
  unrecovered,          \* deployments the last recovery failed to start
  answer                \* what the last command on a project, if it was
                        \* answered without an error, promised

hostVars == <<users, subuid, subgid>>
projectVars == <<file, actual, made, desired>>
handlerVars == <<pc, on, want, start>>
vars == <<agent, hostVars, projectVars, handlerVars, todo, unrecovered, answer>>

Init ==
  /\ agent = "down"
  /\ users = {}
  /\ subuid = [t \in Tenant |-> 0] /\ subgid = [t \in Tenant |-> 0]
  /\ file = [p \in Project |-> None]
  /\ actual = [p \in Project |-> "absent"] /\ made = [p \in Project |-> None]
  /\ desired = [p \in Project |-> None]
  /\ pc = [h \in Handler |-> "idle"] /\ on = [h \in Handler |-> None]
  /\ want = [h \in Handler |-> None] /\ start = [h \in Handler |-> 0]
  /\ todo = {} /\ unrecovered = {}
  /\ answer = [p \in Project |-> None]

Fails(what) == what \in Faults

-----------------------------------------------------------------------------
(* Nothing in the agent keeps two commands on x and y from overlapping:    *)
(* this is what a dashboard that waits for its answers does.               *)
Conflicts(x, y) == x = y \/ (x \in Tenant /\ y \in Tenant)

(* A handler takes a command on x, a tenant or a project.                  *)
Take(h, x, label) ==
  /\ agent = "up"
  /\ pc[h] = "idle"
  /\ Overlap \/ \A g \in Handler : pc[g] # "idle" => ~ Conflicts(x, on[g])
  /\ pc' = [pc EXCEPT ![h] = label]
  /\ on' = [on EXCEPT ![h] = x]

Goto(h, label) == pc' = [pc EXCEPT ![h] = label]

Return(h) ==
  /\ pc' = [pc EXCEPT ![h] = "idle"]
  /\ on' = [on EXCEPT ![h] = None]
  /\ want' = [want EXCEPT ![h] = None]
  /\ start' = [start EXCEPT ![h] = 0]

-----------------------------------------------------------------------------
(* tenant.ensure for a tenant without a user: useradd.  (For a tenant with *)
(* a user there is nothing to do, whatever is missing.)                    *)
CreateUser(h, t) ==
  /\ t \notin users
  /\ Take(h, t, "range")
  /\ users' = users \cup {t}
  /\ UNCHANGED <<agent, subuid, subgid, projectVars, want, start, todo,
                 unrecovered, answer>>

Ends(ids) == {ids[t] + Count : t \in {u \in Tenant : ids[u] # 0}}

(* Defect: only /etc/subgid is read.                                       *)
IsNextStartOfGids(n) ==
  LET ends == {MinStart, Taken} \cup Ends(subgid)
  IN  n \in ends /\ \A m \in ends : m <= n

(* next_subid_start: the end of the last range in either file.             *)
IsNextStart(n) ==
  LET ends == {MinStart, Taken} \cup Ends(subuid) \cup Ends(subgid)
  IN  n \in ends /\ \A m \in ends : m <= n

FindRange(h) ==
  /\ pc[h] = "range"
  /\ \E n \in {MinStart, Taken} \cup Ends(subuid) \cup Ends(subgid) :
        IsNextStart(n) /\ start' = [start EXCEPT ![h] = n]
  /\ Goto(h, "subuids")
  /\ UNCHANGED <<agent, hostVars, projectVars, on, want, todo, unrecovered,
                 answer>>

AddSubuids(h) ==
  /\ pc[h] = "subuids"
  /\ subuid' = [subuid EXCEPT ![on[h]] = start[h]]
  /\ Goto(h, "subgids")
  /\ UNCHANGED <<agent, users, subgid, projectVars, on, want, start, todo,
                 unrecovered, answer>>

(* Lingering and the user session, best effort, change nothing here.       *)
AddSubgids(h) ==
  /\ pc[h] = "subgids"
  /\ subgid' = [subgid EXCEPT ![on[h]] = start[h]]
  /\ Return(h)
  /\ UNCHANGED <<agent, users, subuid, projectVars, todo, unrecovered, answer>>

UsermodFails(h) ==
  /\ Fails("usermod")
  /\ pc[h] \in {"subuids", "subgids"}
  /\ Return(h)
  /\ UNCHANGED <<agent, hostVars, projectVars, todo, unrecovered, answer>>

-----------------------------------------------------------------------------
Promises(p, what) == answer' = [answer EXCEPT ![p] = what]

(* A command on p of a single step, which overlaps with no other.          *)
Undisturbed(p) == agent = "up" /\ (Overlap \/ \A h \in Handler : on[h] # p)

(* container.deploy writes the compose file, for whatever tenant.          *)
BeginDeploy(h, p, c) ==
  /\ Take(h, p, "up")
  /\ file' = [file EXCEPT ![p] = c]
  /\ want' = [want EXCEPT ![h] = c]
  /\ Promises(p, None)
  /\ unrecovered' = unrecovered \ {p}
  /\ UNCHANGED <<agent, hostVars, actual, made, desired, start, todo>>

(* container.deploy whose compose file is not written, or only in part: an *)
(* error, or a crash that comes right after.                               *)
WriteFails(p) ==
  /\ Undisturbed(p)
  /\ \E f \in {file[p], Torn} : file' = [file EXCEPT ![p] = f]
  /\ Promises(p, None)
  /\ unrecovered' = unrecovered \ {p}
  /\ UNCHANGED <<agent, hostVars, actual, made, desired, handlerVars, todo>>

(* podman compose up -d, which may fail half way.                          *)
ComposeUp(h) ==
  /\ pc[h] = "up"
  /\ \/ /\ OwnerOf[on[h]] \in users
        /\ actual' = [actual EXCEPT ![on[h]] = "up"]
        /\ made' = [made EXCEPT ![on[h]] = file[on[h]]]
        /\ Goto(h, "insert") /\ UNCHANGED <<on, want, start>>
     \/ /\ OwnerOf[on[h]] \in users /\ Fails("podman")
        /\ actual' = [actual EXCEPT ![on[h]] = "absent"]
        /\ made' = [made EXCEPT ![on[h]] = None]
        /\ Return(h)
     \/ /\ OwnerOf[on[h]] \notin users \/ Fails("podman")
        /\ UNCHANGED <<actual, made>>
        /\ Return(h)
  /\ UNCHANGED <<agent, hostVars, file, desired, todo, unrecovered, answer>>

(* Defect: INSERT ... ON CONFLICT DO NOTHING.                              *)
InsertedOnce(p) ==
  [desired EXCEPT ![p] = IF @ = None THEN "running" ELSE @]

(* INSERT ... ON CONFLICT DO UPDATE SET desired = 'running'                *)
Inserted(p) == [desired EXCEPT ![p] = "running"]

(* UPDATE container_deployments SET desired = 'stopped' WHERE ...          *)
Updated(p) == [desired EXCEPT ![p] = IF @ = None THEN None ELSE "stopped"]

InsertRow(h) ==
  /\ pc[h] = "insert"
  /\ desired' = Inserted(on[h])
  /\ Promises(on[h], want[h])
  /\ Return(h)
  /\ UNCHANGED <<agent, hostVars, file, actual, made, todo, unrecovered>>

UpdateRow(h) ==
  /\ pc[h] = "update"
  /\ desired' = Updated(on[h])
  /\ Promises(on[h], "down")
  /\ Return(h)
  /\ UNCHANGED <<agent, hostVars, file, actual, made, todo, unrecovered>>

(* The statement fails, or the client of an HTTP request goes away and     *)
(* axum drops the handler: the statement may have taken effect or not, and *)
(* nothing is answered.                                                    *)
StatementBroken(h) ==
  /\ pc[h] \in {"insert", "update"}
  /\ desired' \in {desired, IF pc[h] = "insert" THEN Inserted(on[h])
                                               ELSE Updated(on[h])}
  /\ Return(h)
  /\ UNCHANGED <<agent, hostVars, file, actual, made, todo, unrecovered,
                 answer>>

(* container.down: podman compose down, if there is a compose file.        *)
ComposeDown(h, p) ==
  /\ Take(h, p, "update")
  /\ \/ file[p] = None /\ UNCHANGED <<actual, made>>
     \/ /\ file[p] # None /\ OwnerOf[p] \in users
        /\ actual' = [actual EXCEPT ![p] = "absent"]
        /\ made' = [made EXCEPT ![p] = None]
  /\ Promises(p, None)
  /\ UNCHANGED <<agent, hostVars, file, desired, want, start, todo,
                 unrecovered>>

(* compose down fails, perhaps half way: an error is returned, and the row *)
(* stays.                                                                  *)
ComposeDownFails(p) ==
  /\ Undisturbed(p)
  /\ file[p] # None
  /\ \/ /\ Fails("podman") \/ OwnerOf[p] \notin users \/ file[p] = Torn
        /\ UNCHANGED <<actual, made>>
     \/ /\ Fails("podman") /\ OwnerOf[p] \in users
        /\ actual' = [actual EXCEPT ![p] = "absent"]
        /\ made' = [made EXCEPT ![p] = None]
  /\ Promises(p, None)
  /\ UNCHANGED <<agent, hostVars, file, desired, handlerVars, todo,
                 unrecovered>>

(* container.start, restart, stop and remove: one call of podman, and the  *)
(* row is left alone.                                                      *)
ContainerCommand(p) ==
  /\ Undisturbed(p)
  /\ \/ /\ actual[p] # "absent"
        /\ \E s \in {"up", "stopped"} : actual' = [actual EXCEPT ![p] = s]
        /\ UNCHANGED made
     \/ /\ actual[p] # "absent"
        /\ actual' = [actual EXCEPT ![p] = "absent"]
        /\ made' = [made EXCEPT ![p] = None]
  /\ Promises(p, None)
  /\ UNCHANGED <<agent, hostVars, file, desired, handlerVars, todo,
                 unrecovered>>

-----------------------------------------------------------------------------
(* The agent dies, alone or with the machine; any of the containers stop.  *)
(* One that exits by itself while the agent serves is no step here: podman *)
(* and the compose file's own restart policy are between the two.          *)
Die ==
  /\ agent # "down"
  /\ agent' = "down"
  /\ pc' = [h \in Handler |-> "idle"] /\ on' = [h \in Handler |-> None]
  /\ want' = [h \in Handler |-> None] /\ start' = [h \in Handler |-> 0]
  /\ todo' = {}
  /\ \E S \in SUBSET {p \in Project : actual[p] = "up"} :
        actual' = [p \in Project |-> IF p \in S THEN "stopped" ELSE actual[p]]
  /\ UNCHANGED <<hostVars, file, made, desired, unrecovered, answer>>

(* Defect: every deployment is recovered, whatever its desired state.      *)
StartAll ==
  /\ agent = "down"
  /\ agent' = "recovering"
  /\ todo' = {p \in Project : desired[p] # None}
  /\ unrecovered' = {}
  /\ UNCHANGED <<hostVars, projectVars, handlerVars, answer>>

(* main() reads the deployments to recover; a failing query yields none.   *)
Start ==
  /\ agent = "down"
  /\ agent' = "recovering"
  /\ LET running == {p \in Project : desired[p] = "running"} IN
       \/ todo' = running /\ unrecovered' = {}
       \/ Fails("db") /\ todo' = {} /\ unrecovered' = running
  /\ UNCHANGED <<hostVars, projectVars, handlerVars, answer>>

(* podman compose up -d --no-recreate; an error is only logged.  What is   *)
(* left of a torn file may still be one podman reads.                      *)
Recover(p) ==
  /\ p \in todo
  /\ todo' = todo \ {p}
  /\ \/ /\ OwnerOf[p] \in users /\ file[p] # None
        /\ actual' = [actual EXCEPT ![p] = "up"]
        /\ made' = [made EXCEPT ![p] =
                      IF actual[p] = "absent" THEN file[p] ELSE @]
        /\ UNCHANGED unrecovered
     \/ /\ Fails("podman") \/ OwnerOf[p] \notin users \/ file[p] \in {None, Torn}
        /\ unrecovered' = unrecovered \cup {p}
        /\ UNCHANGED <<actual, made>>
  /\ UNCHANGED <<agent, hostVars, file, desired, handlerVars, answer>>

(* Only then does main() go on and serve commands.                         *)
Serve ==
  /\ agent = "recovering" /\ todo = {}
  /\ agent' = "up"
  /\ UNCHANGED <<hostVars, projectVars, handlerVars, todo, unrecovered, answer>>

Next ==
  \/ \E h \in Handler :
        \/ \E t \in Tenant : CreateUser(h, t)
        \/ FindRange(h) \/ AddSubuids(h) \/ AddSubgids(h) \/ UsermodFails(h)
        \/ \E p \in Project, c \in Compose : BeginDeploy(h, p, c)
        \/ \E p \in Project : ComposeDown(h, p)
        \/ ComposeUp(h) \/ InsertRow(h) \/ UpdateRow(h)
        \/ StatementBroken(h)
  \/ \E p \in Project : WriteFails(p) \/ ComposeDownFails(p)
                          \/ ContainerCommand(p) \/ Recover(p)
  \/ Die \/ Start \/ Serve

Spec == Init /\ [][Next]_vars

-----------------------------------------------------------------------------
(* Where a range of the agent's may start.                                 *)
IsStart(n) == n \in Nat /\ n >= MinStart /\ n >= Taken

TypeOK ==
  /\ agent \in {"down", "recovering", "up"}
  /\ users \subseteq Tenant
  /\ subuid \in [Tenant -> Nat] /\ subgid \in [Tenant -> Nat]
  /\ \A t \in Tenant : subuid[t] = 0 \/ IsStart(subuid[t])
  /\ \A t \in Tenant : subgid[t] = 0 \/ IsStart(subgid[t])
  /\ file \in [Project -> Compose \cup {None, Torn}]
  /\ actual \in [Project -> {"absent", "stopped", "up"}]
  /\ made \in [Project -> Compose \cup {None, Torn}]
  /\ desired \in [Project -> {None, "running", "stopped"}]
  /\ pc \in [Handler -> {"idle", "range", "subuids", "subgids", "up", "insert",
                         "update"}]
  /\ on \in [Handler -> Tenant \cup Project \cup {None}]
  /\ \A h \in Handler :
        /\ pc[h] \in {"range", "subuids", "subgids"} => on[h] \in Tenant
        /\ pc[h] \in {"up", "insert", "update"} => on[h] \in Project
        /\ pc[h] = "idle" => on[h] = None
  /\ want \in [Handler -> Compose \cup {None}]
  /\ start \in [Handler -> Nat]
  /\ todo \subseteq Project /\ unrecovered \subseteq Project
  /\ answer \in [Project -> Compose \cup {"down", None}]

Apart(ids) ==
  \A t, u \in Tenant : t # u /\ ids[t] # 0 /\ ids[u] # 0 =>
    ids[t] + Count <= ids[u] \/ ids[u] + Count <= ids[t]

(* src/podman/mod.rs:4-5: each organization has a "dedicated subuid/subgid *)
(* range".  No two tenants share a subordinate id, although a range is     *)
(* found by reading two files and assigned by two calls of usermod, of     *)
(* which either may fail or be cut off, for good, by a crash.              *)
RangesDisjoint == Apart(subuid) /\ Apart(subgid)

(* What a command promised is what the table says: a deployment that was   *)
(* answered will be recovered, from the file it brought, and one that was  *)
(* taken down will not, across any failures, dropped requests and crashes  *)
(* of this and other commands.                                             *)
AnswerIsDesired ==
  \A p \in Project :
    /\ answer[p] \in Compose => desired[p] = "running" /\ file[p] = answer[p]
    /\ answer[p] = "down" => desired[p] # "running"

(* And it is what runs: while the agent serves commands a deployment that  *)
(* was answered is up and made from its file, unless the recovery failed   *)
(* to start it; one that was taken down is never brought back.             *)
AnswerIsActual ==
  \A p \in Project :
    /\ answer[p] \in Compose /\ agent = "up" =>
         p \in unrecovered \/ (actual[p] = "up" /\ made[p] = answer[p])
    /\ answer[p] = "down" => actual[p] = "absent"

(* src/podman/mod.rs:4-5: "each org gets a `lynx-tenant-{id}` system user  *)
(* with dedicated subuid/subgid range for rootless Podman."  So a tenant   *)
(* with a user that no command is working on has both ranges, and a        *)
(* tenant.ensure that finds the user may answer that all is well.          *)
UsersHaveRanges ==
  \A t \in users :
    \/ \E h \in Handler : on[h] = t
    \/ subuid[t] # 0 /\ subgid[t] # 0

=============================================================================
