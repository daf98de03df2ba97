----------------------------- MODULE SelfUpdate -----------------------------
(***************************************************************************)
(* Self-update (src/update/mod.rs), the fallback updater                   *)
(* (src/update/fallback.rs) and the startup health guard, on the files     *)
(* they share: the binary, its .prev copy, the .new download and the       *)
(* CRITICAL marker.                                                        *)
(*                                                                         *)
(* Every call of perform_update is a task of its own and nothing keeps two *)
(* of them apart.  Writing or copying a file is two steps, between which   *)
(* the file is Torn; rename is one.  Download and signature check touch no *)
(* shared state: an update starts when they have succeeded, so with a      *)
(* version that is signed.                                                 *)
(***************************************************************************)
EXTENDS Naturals

CONSTANTS
  Updater,      \* calls of perform_update that may run at the same time
  Version,      \* signed releases, ordered
  First,        \* the release that was installed by hand
  Stays,        \* the releases that stay up: they connect, migrate and bind
  Healthy,      \* those of them that answer GET /health
  Latest,       \* the newest release on GitHub
  Tls,          \* the TLS certificates are configured
  Overlap,      \* FALSE: one update at a time, and the dashboard asks for
                \* one only when the health guard has passed
  Torn, Nothing \* a file cut short; no file, no process

ASSUME UpdateAssumption ==
  /\ Version \subseteq Nat
  /\ First \in Version \cap Healthy /\ Latest \in Version
  /\ Healthy \subseteq Stays /\ Stays \subseteq Version
  /\ Tls \in BOOLEAN /\ Overlap \in BOOLEAN
  /\ Torn \notin Version /\ Nothing \notin Version /\ Torn # Nothing

VARIABLES
  target, prev, new,  \* contents of lynx-agent, lynx-agent.prev and .new
  critical,           \* /etc/lynx/CRITICAL exists
  running,            \* the release the process runs
  guard,              \* the health guard: "polling", "passed", "failed", ...
  contact,            \* last_dashboard_contact: "never", "recent", "old"
  seen,               \* the dashboard was in contact in the last six hours
  pc, version,        \* per update: place and the release it installs
  writes              \* per update: the name its open file has by now

files == <<target, prev, new>>
tasks == <<pc, version, writes>>
vars == <<files, critical, running, guard, contact, seen, tasks>>

NoTasks ==
  /\ pc = [u \in Updater |-> "idle"]
  /\ version = [u \in Updater |-> First]
  /\ writes = [u \in Updater |-> Nothing]

Init ==
  /\ target = First /\ prev = Nothing /\ new = Nothing
  /\ critical = FALSE
  /\ running = Nothing /\ guard = "off"
  /\ contact = "never" /\ seen = FALSE
  /\ NoTasks

Up == running # Nothing

-----------------------------------------------------------------------------
(* systemd starts the binary, if it is one (Restart=always).               *)
Start ==
  /\ ~ Up
  /\ target \in Version
  /\ running' = target
  /\ contact' = "never"
  /\ UNCHANGED <<files, critical, guard, seen, tasks>>

(* The configuration is read, PostgreSQL connected and migrated: only then *)
(* the guard is spawned, and after it the tasks.                           *)
SpawnGuard ==
  /\ Up /\ guard = "off"
  /\ guard' = "polling"
  /\ UNCHANGED <<files, critical, running, contact, seen, tasks>>

(* The process ends and takes its tasks with it.                           *)
Die ==
  /\ running' = Nothing
  /\ guard' = "off"
  /\ contact' = "never"
  /\ pc' = [u \in Updater |-> "idle"]
  /\ version' = [u \in Updater |-> First]
  /\ writes' = [u \in Updater |-> Nothing]

Crash ==
  /\ Up
  /\ Die
  /\ UNCHANGED <<files, critical, seen>>

(* main returns an error, before the guard is spawned or, when the address *)
(* cannot be bound, after it; the guard ends with the process.             *)
StartFails ==
  /\ Up /\ running \notin Stays
  /\ Die
  /\ UNCHANGED <<files, critical, seen>>

(* The dashboard reaches the agent over the WebSocket.                     *)
Contact ==
  /\ guard # "off"
  /\ contact' = "recent" /\ seen' = TRUE
  /\ UNCHANGED <<files, critical, running, guard, tasks>>

(* ABSENT_THRESHOLD_SECS go by without the dashboard.                      *)
SixHoursPass ==
  /\ contact' = IF contact = "recent" THEN "old" ELSE contact
  /\ seen' = FALSE
  /\ UNCHANGED <<files, critical, running, guard, tasks>>

-----------------------------------------------------------------------------
(* Downloaded and verified: the update turns to the files.                 *)
Begin(u, v) ==
  /\ guard # "off"
  /\ pc[u] = "idle"
  /\ Overlap \/ \A w \in Updater : pc[w] = "idle"
  /\ version' = [version EXCEPT ![u] = v]
  /\ pc' = [pc EXCEPT ![u] = "write"]
  /\ UNCHANGED <<files, critical, running, guard, contact, seen, writes>>

(* update.self                                                             *)
DashboardUpdate(u) ==
  /\ Overlap \/ guard = "passed"
  /\ \E v \in Version : Begin(u, v)

(* The fallback updater ticks at once after a start, so also in the first  *)
(* minute, in which the guard polls, and then every hour.                  *)
FallbackUpdate(u) ==
  /\ guard # "off"
  /\ contact # "recent"
  /\ Latest > running
  /\ Begin(u, Latest)

(* Defect: the download is written over the binary.                        *)
OpenInPlace(u) ==
  /\ pc[u] = "write"
  /\ target' = Torn
  /\ writes' = [writes EXCEPT ![u] = "target"]
  /\ pc' = [pc EXCEPT ![u] = "writing"]
  /\ UNCHANGED <<prev, new, critical, running, guard, contact, seen,
                 version>>

(* fs::write truncates .new ...                                            *)
OpenNew(u) ==
  /\ pc[u] = "write"
  /\ new' = Torn
  /\ writes' = [writes EXCEPT ![u] = "new"]
  /\ pc' = [pc EXCEPT ![u] = "writing"]
  /\ UNCHANGED <<target, prev, critical, running, guard, contact, seen,
                 version>>

(* ... and completes the file it has opened, whatever its name is by now,  *)
(* and makes it executable.  Two writers at once may leave a mixture.      *)
Written(u) ==
  {version[u]} \cup
    (IF \E w \in Updater \ {u} : pc[w] = "writing" /\ writes[w] = writes[u]
       THEN {Torn} ELSE {})

CloseNew(u) ==
  /\ pc[u] = "writing"
  /\ \E c \in Written(u) :
       /\ new' = IF writes[u] = "new" THEN c ELSE new
       /\ target' = IF writes[u] = "target" THEN c ELSE target
  /\ writes' = [writes EXCEPT ![u] = Nothing]
  /\ pc' = [pc EXCEPT ![u] = "copy"]
  /\ UNCHANGED <<prev, critical, running, guard, contact, seen, version>>

(* fs::copy of the binary to .prev.                                        *)
OpenPrev(u) ==
  /\ pc[u] = "copy"
  /\ prev' = Torn
  /\ pc' = [pc EXCEPT ![u] = "copying"]
  /\ UNCHANGED <<target, new, critical, running, guard, contact, seen,
                 version, writes>>

(* Defect: the download is what is kept as .prev.                          *)
KeepNew(u) ==
  /\ pc[u] = "copying"
  /\ prev' = new
  /\ pc' = [pc EXCEPT ![u] = "rename"]
  /\ UNCHANGED <<target, new, critical, running, guard, contact, seen,
                 version, writes>>

ClosePrev(u) ==
  /\ pc[u] = "copying"
  /\ prev' = target
  /\ pc' = [pc EXCEPT ![u] = "rename"]
  /\ UNCHANGED <<target, new, critical, running, guard, contact, seen,
                 version, writes>>

(* rename(.new, binary): whoever is writing to .new now writes the binary. *)
Rename(u) ==
  /\ pc[u] = "rename"
  /\ new # Nothing
  /\ target' = new /\ new' = Nothing
  /\ writes' = [w \in Updater |->
                  IF writes[w] = "new" THEN "target" ELSE Nothing]
  /\ pc' = [pc EXCEPT ![u] = "exit"]
  /\ UNCHANGED <<prev, critical, running, guard, contact, seen, version>>

(* Any of these calls fails: the files stay as they are.                   *)
UpdateFails(u) ==
  /\ pc[u] \notin {"idle", "exit"}
  /\ pc' = [pc EXCEPT ![u] = "idle"]
  /\ version' = [version EXCEPT ![u] = First]
  /\ writes' = [writes EXCEPT ![u] = Nothing]
  /\ UNCHANGED <<files, critical, running, guard, contact, seen>>

(* process::exit(0)                                                        *)
Exit(u) ==
  /\ pc[u] = "exit"
  /\ Die
  /\ UNCHANGED <<files, critical, seen>>

-----------------------------------------------------------------------------
(* Defect: the guard polls a port nobody listens on.                       *)
NobodyAnswers == FALSE

(* The guard asks http://127.0.0.1:9090/health, in plain HTTP.             *)
Answers == running \in Healthy /\ ~ Tls

GuardPasses ==
  /\ guard = "polling"
  /\ Answers
  /\ guard' = "passed" /\ critical' = FALSE
  /\ UNCHANGED <<files, running, contact, seen, tasks>>

GuardTimesOut ==
  /\ guard = "polling"
  /\ running \in Stays
  /\ ~ Answers
  /\ guard' = "failed"
  /\ UNCHANGED <<files, critical, running, contact, seen, tasks>>

(* Defect: .prev is not restored.                                          *)
RestoreNothing ==
  /\ guard = "failed"
  /\ guard' = "marking"
  /\ UNCHANGED <<files, critical, running, contact, seen, tasks>>

(* Copy .prev aside and rename it over the binary, or fail to.             *)
RestorePrev ==
  /\ guard = "failed"
  /\ \/ prev # Nothing /\ target' = prev
     \/ UNCHANGED target
  /\ guard' = "marking"
  /\ UNCHANGED <<prev, new, critical, running, contact, seen, tasks>>

(* Write CRITICAL, best effort, and process::exit(1).                      *)
GuardExits ==
  /\ guard = "marking"
  /\ critical' \in {critical, TRUE}
  /\ Die
  /\ UNCHANGED <<files, seen>>

Task(u) ==
  \/ OpenNew(u) \/ CloseNew(u) \/ OpenPrev(u) \/ ClosePrev(u)
  \/ Rename(u) \/ UpdateFails(u) \/ Exit(u)

Next ==
  \/ Start \/ SpawnGuard \/ StartFails \/ Crash \/ Contact \/ SixHoursPass
  \/ \E u \in Updater : DashboardUpdate(u) \/ FallbackUpdate(u) \/ Task(u)
  \/ GuardPasses \/ GuardTimesOut \/ RestorePrev \/ GuardExits

Spec == Init /\ [][Next]_vars

(* systemd restarts, a start goes on, the guard polls; a restore that is   *)
(* tried again and again succeeds, and a process that stays up by itself   *)
(* is not killed for ever at one place.                                    *)
FairSpec ==
  /\ Spec
  /\ WF_vars(Start)
  /\ SF_vars(SpawnGuard)
  /\ SF_vars(StartFails)
  /\ SF_vars(GuardPasses)
  /\ SF_vars(GuardTimesOut)
  /\ SF_vars(RestorePrev)
  /\ SF_vars(RestorePrev /\ target' = prev)
  /\ SF_vars(GuardExits)

-----------------------------------------------------------------------------
Content == Version \cup {Torn, Nothing}

TypeOK ==
  /\ target \in Content /\ prev \in Content /\ new \in Content
  /\ critical \in BOOLEAN
  /\ running \in Version \cup {Nothing}
  /\ guard \in {"off", "polling", "passed", "failed", "marking"}
  /\ contact \in {"never", "recent", "old"} /\ seen \in BOOLEAN
  /\ pc \in [Updater -> {"idle", "write", "writing", "copy", "copying",
                         "rename", "exit"}]
  /\ version \in [Updater -> Version]
  /\ writes \in [Updater -> {Nothing, "new", "target"}]

(* README.md:17: "binaries are Ed25519-signature-verified before any       *)
(* swap."  So, at any moment and wherever the process dies, the file       *)
(* systemd would start is one whole signed release.                        *)
TargetIsWhole == target \in Version

(* No release older than the newest is one that does not come up: the      *)
(* fallback updater, which does not wait for the guard, then only runs on  *)
(* a healthy one.                                                          *)
OlderAreHealthy == \A v \in Version \ Healthy : v >= Latest

(* A release that does not come up can be undone: until the guard is done  *)
(* with it, .prev is a whole release that has come up before.              *)
RollbackExists == Up /\ running \notin Healthy => prev \in Healthy

(* src/update/mod.rs:80: "If still unhealthy -> attempt `.prev` restore    *)
(* and exit 1 (systemd restarts with old binary)."  That is so for a       *)
(* release that stays up without answering, ...                            *)
RolledBack ==
  (running \in Stays \ Healthy) ~> (running \in Healthy)

(* ... but not for one that ends before the guard has polled for 30        *)
(* seconds, although src/main.rs:354 says of the guard: "restore .prev and *)
(* write CRITICAL if unhealthy."                                           *)
FailedStartIsUndone ==
  (running \in Version \ Healthy) ~> (running \in Healthy)

(* src/update/fallback.rs:6: ABSENT_THRESHOLD_SECS is "How long the        *)
(* dashboard must be unreachable before the agent polls GitHub directly."  *)
FallbackOnlyWhenAbsent ==
  [][\A u \in Updater : FallbackUpdate(u) => ~ seen]_vars

(* src/update/mod.rs:82: "On healthy startup -> delete                    *)
(* `/etc/lynx/CRITICAL` if present".  So the guard passes a release that   *)
(* is healthy, sooner or later, and does not restart it for ever.          *)
StartupCompletes == (running \in Healthy) ~> (guard = "passed")

=============================================================================
