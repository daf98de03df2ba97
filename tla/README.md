# lynx-agent: a verification development

The repository is an agent, in Rust, that runs on a VPS and executes signed
commands of a dashboard: firewall rules, containers, WireGuard keys, its own
updates. This directory holds TLA+ models of its concurrent and fault-prone
parts, the TLC configurations that check them on small instances, and TLAPS
proofs for every value of the constants. Paths below are relative to the
repository (`src/…` is the crate, `migrations/…` the database schema).

## 1. Inventory

The agent is one process: a tokio runtime with an axum server, a WebSocket
client, eight background tasks, a PostgreSQL database on the same host, and
the host itself (nftables, podman, systemd), reached through commands.

| Component | State it keeps | Operations | What makes it correct |
|---|---|---|---|
| Command verification (`auth/mod.rs`, cleanup task of `main.rs`) | table `used_nonces` | verify: signature, agent id, timestamp, purge, insert; hourly purge | no signed command is dispatched twice, whatever is repeated, delayed, raced or cut off by a crash |
| Lockdown (`state.rs`, watchdogs of `main.rs`, `nftables/divergence.rs`, `conflict.rs`) | flag, reason, last heartbeat (memory) | four tasks set it, acknowledgements clear it | a lockdown always has its reason; sticky ones stay; silence and outages lock; acknowledgements release |
| Audit log (`audit/mod.rs`) | table `audit_log` | append: read the last row, insert its successor | one hash chain, nothing lost, tampering noticed |
| Audit sync (`sync/mod.rs`) | table `sync_state`; the dashboard's copy | batch after the cursor, POST, advance, reset at 422 | every row reaches the dashboard; nothing below the cursor is missing |
| Firewall (`nftables/*`, `handlers/nftables.rs`, startup of `main.rs`) | kernel table, boot file, `nftables_state`, four copies in memory | apply, restore, accept; close the setup port; divergence check every minute; emergency ruleset; reload at start | kernel, boot file, database and memory agree; edits are undone; emergency rules mean lockdown |
| Self-update (`update/mod.rs`, `update/fallback.rs`) | the binary, `.new`, `.prev`, `CRITICAL` | dashboard update, GitHub fallback, health guard and rollback | the binary is whole and signed after any crash; one that hangs is rolled back |
| Command pipeline (`handlers/system.rs`, `ws_client.rs`) | per command: where it is | gate, rate limit, verify, dispatch, audit, reply; over HTTP and WebSocket | replies are true; acknowledgements get through a lockdown |
| Containers and tenants (`handlers/containers.rs`, `podman/mod.rs`, startup) | users, `/etc/subuid`, `/etc/subgid`, compose files, podman, `container_deployments` | tenant.ensure, deploy, down, start/stop/restart/remove; recovery at start | tenants share no ids; what was answered is stored, runs, and survives reboots |
| nginx (`nginx.rs`, `handlers/nginx_cmd.rs`) | container, configuration file, table `nginx_configs` | deploy, config update, watchdog | the watchdog never takes the place of what was answered, and has the last configuration to restore |
| WireGuard keys and tunnels (`handlers/wireguard.rs`) | the agent's interface, its key file and wg-quick file; data-plane interfaces and files; peers of the management interface | rotate the preshared key; set up, tear down a tunnel; add, remove a peer | an answered key is in force and in both files; an answered tunnel is up, a removed one down, none loses the file its teardown needs |
| Database password (`handlers/system.rs`, `config.rs`, the PostgreSQL watchdog) | PostgreSQL's password, the credential file, the pool | rotate; start | a password that was answered is the one the next start connects with; a process with an obsolete password is locked, not half alive |
| Rate limiter (`state.rs`) | counter and window | check | at most 2 x limit in any window's length |
| Conflict check, metrics, configuration, certificates, CLI, scripts | – | host I/O and formatting | – |

Interactions. Every command passes the pipeline, which calls verification
(database), the handler (host and database) and the audit log (database); the
sync task reads what the audit log writes. The divergence check and the four
watchdogs share `AppState` with the handlers, through atomics and mutexes that
are taken for one access at a time. The startup code of `main.rs` rebuilds the
firewall and the containers from the database before anything is served.

Where it is hard. HTTP handlers run in parallel with one another, with the
WebSocket session and with the tasks; every query is an await, at which an
HTTP handler may be dropped with its client; the process may die anywhere and
systemd restarts it; PostgreSQL may be away; the dashboard repeats, delays and
loses messages; `nft`, `podman` and `usermod` may fail half way. PROJECT.json
lists the hazards one by one, at their lines, with the property that covers
each or the reason why none does.

## 2. The modules and the code

An action is the code between two points where something else may happen: an
await, a call that may fail, an access to shared state. Definitions whose
comment starts with "Defect:" are plausible bugs, used by no specification;
each is put in place of the definition after it to see that a property notices.

* **CommandAuth** (`MCCommandAuth`): `verify_command` statement by statement.
  `CheckEnvelope` is steps 1 to 5, `PurgeNonces` the DELETE, `InsertNonce` and
  `NonceConflict` the INSERT ... ON CONFLICT, `Abort` an error or a dropped
  request, `Dispatch` what `run_verified_command` does next, `CleanupTask` the
  hourly purge. Envelopes stay deliverable for ever. `acceptedAt` records when
  an envelope was last accepted, for `AcceptancesAreSpaced`; no step reads it.
* **Lockdown**: `set_lockdown` is `StoreFlag`, then `WriteReason`; an
  acknowledgement is `AckVerifies`, `AckReset`, `AckClear`. The PostgreSQL and
  the heartbeat watchdog look at the flag first (`CheckFlag`), the divergence
  and the conflict check do not.
* **AuditLog** (`MCAuditLog`): `append` is `ReadLast`, `BeginInsert` (the date
  is taken), `CommitInsert`; `AbortAppend` ends it anywhere. `Storable` is the
  CHECK of `migrations/001_init.sql:9`. **HashChain** is the contract: a
  set of links that only grows, each new one naming the one added last. The
  refinement maps it to the rows with their predecessors (`Links`) and to the
  row with the latest date (`Newest`).
* **AuditSync** (`MCAuditSync`) extends AuditLog with `sync_batch`: the two
  components share the table, and every step of one may come between two steps
  of the other. The dashboard is external.
* **Nftables** (`MCNftables`): each of `nft -f` (`Apply`, `ApplyEmergency`), the
  boot file (`Persist`, `PersistEmergency`), `nft list`, the accessors of
  `AppState` and the UPDATE is a step of a handler or of `"checker"`, the
  divergence check, with crashes in between. `Startup` is the reload of `main.rs`,
  `StartupDies` one that ends between the table and the boot file, `ClosePort` the rule that nftables.close_setup_port adds to the kernel table
  alone, which is why the check sees it like someone's edit (`Changed`).
* **SelfUpdate** (`MCSelfUpdate`): one action per system call of
  `perform_update`, writing and copying in two (`OpenNew`/`CloseNew`), and the
  startup guard's four outcomes. A start has two phases: `Start` runs the binary,
  `SpawnGuard` comes after everything at `main.rs:181-191` that may fail.
  `StartFails` ends a release that is not one of `Stays`. `DashboardUpdate` waits
  for the guard, as a dashboard does that waits to see the agent up; the fallback
  updater ticks at once after a start, so `FallbackUpdate` also runs in the
  guard's minute.
* **CommandPipeline** (`MCCommandPipeline`): the life of a command in a slot,
  one slot per concurrent HTTP request and one for the WebSocket. It composes
  what CommandAuth, AuditLog and Lockdown say in detail, each reduced to its
  outcomes. The rate limiter is here in full: `age` and `count` are the window's
  age and the counter of `check_cmd_rate` (`InBudget`, `Charge`), `recent` the
  ages of the last commands that were let through, the youngest first, and `Tick`
  the clock. So is the connection: `Connect` is an attempt of `run_ws_client` that
  succeeds, `LinkBreaks` is noticed by `SessionEnds` between two messages only.
* **Containers** (`MCContainers`): tenant.ensure as `CreateUser`, `FindRange`,
  `AddSubuids`, `AddSubgids`; deploy as `BeginDeploy` (or `WriteFails`),
  `ComposeUp`, `InsertRow`; down as `ComposeDown`, `UpdateRow`; `Die`, `Start`, `Recover`,
  `Serve` for restarts. `answer` records what the dashboard was last told.
* **Nginx** (`MCNginx`): a deployment is `StopOld`, `RemoveOld`, `RunNew`, then,
  like a configuration update, `BeginInsert`, `CommitInsert`, `DeleteOld`,
  `WriteConfig`, `Reload`; the watchdog is `WatchRunning` and what follows it.
  Commands overlap freely; `alone` says which answers are promises.
* **Handlers** holds what the next two share: the place `pc` of each handler,
  the faults, `Overlap` and `Torn`. Both extend it, so that one module of proofs
  can extend both.
* **Rotation**: wg.rotate_psk as `BeginKey`, `SetLive`,
  `WriteCred`, `ReadConf`, `WriteConf`, `ReplyKey`; db.rotate_password as
  `BeginPassword`, `Alter`, `StoreSecret`, `StoreUrl`; and what reads the copies
  they leave: `Stop` (the process dies at any step, cutting off what is being
  written, or the machine reboots and wg-quick reads its file), `Start`
  (`Config::load`, `PgPool::connect`), `ConnectionsEnd` and `PgCheck`. `told` is
  the key answered last, with no rotation since, `answered` the password answered
  last, with no ALTER USER carried out since. `Cancel`, a podman that cannot be
  run and a statement left pending by a kill (`CarriedOut`) happen in every run.
* **Tunnels** (`MCTunnels`): a setup is `BeginSetup`, `OpenFile`, `WriteFile`,
  `BringUp` or `UpFails`, then `Sync` or `SyncFails`; a teardown
  `BeginTeardown`, `BringDown`, `RemoveFile`. `IfaceOf` is the name made of the
  id's first eight characters, `answer` what was last answered for a tunnel. The
  management peers are there for completeness: they meet no other state, and only
  the type invariant speaks of them. Its definitions that Rotation has too are called `TunnelInit`, `TunnelNext`, …

The proofs are in `AdmissionProofs` (CommandAuth and Lockdown, which calls its
specification `LockSpec`), `AuditProofs` (AuditLog and AuditSync),
`NftablesProofs`, `SelfUpdateProofs`, `CommandPipelineProofs`,
`ContainersProofs`, `NginxProofs` and `HandlersProofs` (Rotation and Tunnels).

### Abstractions

* One wall clock that never steps back; PostgreSQL and the agent share it.
* A signature is membership in `Genuine`; a checksum is the ruleset it is the
  checksum of; an entry's hash is its identity. Per-chain checksums, which only
  word the divergence report, are left out.
* A statement whose caller has gone takes effect at that moment or never.
* A file being written or copied is `Torn` until it is closed, a rename is
  atomic, and a completed write survives a power loss. A boot file of nftables
  that was cut off is `Empty`: nft refuses an incomplete script as a whole.
* In Nftables the lockdown gate is passed together with the handler's first
  step, and "db" also stands for a request dropped before its UPDATE.
  `EnterLockdown` is one step and nothing lifts it, and in CommandPipeline a
  sticky reason is not overwritten; the two stores of `set_lockdown` and their
  races are in Lockdown, which the other modules do not repeat.
* A project's containers are one; limits on their resources are left out. They
  stop when the agent dies or a command stops them; one that exits by itself
  while the agent serves is not modelled, so `AnswerIsActual` says nothing of it.
  Recovery ends before the agent serves (`main.rs:278-309` comes before the
  listener).
* In Nginx, what nginx makes of its file is outside (`podman run` mounts no
  volume): a health check succeeds or fails at will. Rows have distinct dates.
* Counting runs stops at 2, which tells once from more than once.
* A file that is written with `fs::write` or opened with truncate may be read, or
  found after a crash, as `Torn`: the binary's copies, the compose file, the
  secrets and their configuration files, the tunnels' files. The nginx file is the
  exception: nothing but the next write depends on what is in it. In Rotation the passing
  run has everything but files that cannot be read or written while the process
  lives on; `Faults` adds them (section 5).
* The podman secret of the database password is written by the rotation and read
  by nothing in the repository after the setup; only the error is kept.
* `wg syncconf` is given the file that `wg-quick` reads. The real tool refuses
  `Address` lines, so it may always fail; in Tunnels it may fail at will
  ("sync"), and a setup that is answered has come through one of the two. The same holds for
  `wg-quick up`, which refuses interface names of more than 15 characters
  (section 5): Tunnels allows more than the host does. `wg-quick down` needs a
  file, whatever is in it.
* `Overlap = FALSE` in Nftables, SelfUpdate, Containers, Rotation and Tunnels: two
  commands on the same thing (the firewall, the binary, a project, the subid
  files, a secret, a tunnel) do not run at the same time. Nothing in the agent
  enforces this; it is what a dashboard that waits for its answers does. What
  happens otherwise is section 5. In SelfUpdate the fallback updater may start in
  the guard's minute all the same, an update of the dashboard may not.

## 3. The runs

| Run | Question | Instance and bounds | Size |
|---|---|---|---|
| CommandAuth | can a command run twice, is a row purged too early, how far apart is a repeated acknowledgement | two handlers, an envelope dated now, one in the future, an acknowledgement, a forgery; Skew 1, Stall 1, Retention 3 (tight: 2·Skew+Stall), clock to 7 | 2.05 M states, up to symmetry |
| Lockdown | reasons, stickiness, silence, outages, release | four watchers, two acknowledgements, timeout of one tick | 346 k |
| AuditSync | is nothing skipped or lost, is the log one chain | one append at a time, three entries, batches of two, one wipe of the dashboard | 57 k |
| Nftables | do kernel, file, database and memory agree, are edits undone | two chains, two bodies, two ports, two edits, the setup port; crashes and reboots at every step, no failing call | 11.6 k |
| NftFaults | is the emergency ruleset in force only under lockdown | every failure, a deletion, an edit, the setup port, crashes | 528 k |
| SelfUpdate | is the binary whole, does a hanging one go away | four releases: two that come up, the newest on GitHub hangs, a later one ends in its start; crashes at every step | 2 k |
| Pipeline | are replies true, is the rate bounded, do acknowledgements get through | one request and the WebSocket; two commands in two seconds | 102 k |
| Containers | are ids disjoint, does what was answered last | two tenants, two projects, two compose files, two handlers; every failure; symmetry | 237 k |
| Nginx | does the watchdog respect what was answered, do commands that prune at once forget | two commands and the watchdog, one image besides the watchdog's, two configurations, two rows; every failure and edit | 1.04 M |
| Rotation | is what was answered in force and what the next start reads | two commands, three keys, three passwords, kills and reboots at every step, clients that go away, podman failing; files that cannot be read or written excluded | 77 k |
| Tunnels | is what was answered in force, does a removed tunnel stay down | two commands on two tunnels with two sets of parameters, failures of the file, of up, of syncconf and of the removal, deaths and reboots | 18 k |
| SyncSkips | violation: a row is skipped for ever | two appenders | – |

Why the bounds are enough. The hazards involve two actors and one thing they
share: two handlers on one envelope, two appends on one last row, a command and
a check on one ruleset. Two of each, with one more value than a slot can hold
(a second body, a third release, a third row for a batch of two), make every
such meeting happen; the time constants keep the code's inequality tight, so
that a value smaller by one breaks the property. The proofs then remove the
bounds where they exist. Bounds on counters are named: `MaxTime`, `Stall`,
`MaxClock`, `MaxWipes`, `MaxEdits`, `Window` (the age of the rate window stops
there), and `silence`, which stops at `Timeout + 1`. A third key or password is
one that follows a rotation that was cut short. The pipeline's two commands in
two seconds are the 100 in 60 of `state.rs:92-95`: two is the first limit at
which a window that began late meets the next one.

Type invariants are proved for every module. NftFaults, Rotation, Tunnels and
AuditSync check theirs as well; the other runs do not repeat them.

Symmetry is used only where the properties are safety properties (Containers,
CommandAuth). Deadlock is not checked in the configurations of AuditLog and
AuditSync, which end when all entries are used up, nor in those of Rotation, where
an agent whose password is refused is restarted for ever and does nothing.

### Fairness

* Lockdown: each watchdog ticks for ever (`loop` with an interval in
  `main.rs`), and a started `set_lockdown` or acknowledgement finishes. Nothing
  is assumed of PostgreSQL or the dashboard, except inside `AckReleases`, whose
  premise is that acknowledgements keep getting through.
* AuditSync: the task loops for ever; strong fairness on its steps says that
  errors and crashes do not hit the same step for ever.
* Nftables: the check ticks for ever (strong, since with `Overlap = FALSE` a
  command may run at each tick), started work finishes, systemd restarts.
* SelfUpdate: systemd restarts (`Restart=always`), a start goes on to its guard
  or to its end and the guard to its own (strong: crashes do not hit the same
  place for ever), and a restore tried again and again succeeds.
* Nginx (`NginxStopped.cfg` only): the watchdog ticks, a started command goes on,
  a call or query tried again and again succeeds.
* CommandPipeline: time passes and an execution goes on; a broken session is
  noticed, the client connects again (`loop` in `run_ws_client`, with a delay of
  five minutes at most); while connected the dashboard keeps sending
  acknowledgements, and one tried again and again passes the gate, is verified
  and carried out. Nothing is assumed of the rate limiter: that an
  acknowledgement finds room in it, whatever the commands use up, is part of what
  `AckRescues` shows.
* Rotation: connections have a maximal lifetime, so an open one ends again and
  again (strong, since a query may open a new one), and the watchdog ticks.

## 4. What is proved

Every theorem holds for all values of the constants that satisfy the named
assumptions of its module; those are as weak as the code allows.

* **AdmissionProofs**, CommandAuth: `TypeCorrect`, `RunOnce`
  (`CommandsRunOnce`), `RowStays` (`RowOutlivesWindow`), and the action property
  `AcceptancesApart` (`AcceptancesAreSpaced`): no envelope, acknowledgements
  included, is accepted twice within the retention less the stall. `CommandsRunOnce` is not inductive: a
  handler in flight could insert a nonce whose row was purged. `VerificationInv`
  adds why it cannot: a handler past its check is inside the window plus the
  stall, a row is never older than its command's window, an accepted command is
  guarded by its row or by the clock, one handler at most has accepted it, and an
  envelope without a row was last accepted long ago (`AcceptancesInTime`).
  The assumption `2·Skew + Stall <= Retention` (30, 240 and 300 seconds in the
  code) is where the two constants of `auth/mod.rs` meet.
* **AdmissionProofs**, Lockdown: `LockTypes`, `ReasonRecorded`
  (`LockedHasReason`) and the action property `StickyStays`
  (`SettledStickyStays`): a settled sticky lockdown ends with a restart and with
  nothing else.
* **AuditProofs**: `ChainIsRooted` (`PrevIsOlder`) for any number of concurrent
  appends, through `AppendsInv`. For one append at a time (`Serial`):
  `SerialIsLinear` (`Linear`), through `SerialInv`; `SerialIsChained` and
  `SyncedLogIsChained`, the refinement of HashChain without and with the sync
  task, where `AddExtends` is the step that matters (what an append has read is
  still the newest row when its own is added); and `CursorIsHonest`
  (`SyncedUpToCursor`), through `RoundInv` and the invariant of the log, whose
  steps the sync's steps are (`StepsOfTheLog`).
* **NftablesProofs**: with every failure and any overlap, `FirewallTypes` and
  `EmergencyLocks` (`EmergencyMeansLockdown`). The latter needs `EmergencyInv`:
  an unlocked agent that finds the emergency ruleset at its start has nothing
  else to compare it with. For one command or check at a time, `RowsAreApplied`
  (`StoredIsApplied`), also when the boot file cannot be written, and
  `BootFileIsStored` (`BootFileIsCurrent`), when nothing fails; both with
  crashes, reboots and edits. `FirewallInv` says who runs what (`TurnInv`), that
  neither the emergency ruleset nor an empty table is reached (`PolicyInv`), that
  memory is ahead of the rows by the change under way and then table, boot file
  and last ruleset follow (`EditInv`), that without a change under way they agree
  (`RestInv`), and what a restore or an accept puts in force (`RestoreInv`).
* **SelfUpdateProofs**: `BinaryIsWhole` (`TargetIsWhole`) and `CanRollBack`
  (`RollbackExists`), with `~Overlap`, `~Tls` and `OlderAreHealthy`, through an
  invariant that says what each file holds at each step of an update, and that
  one is only under way on a healthy release. The fallback updater does not wait
  for the guard: `OlderAreHealthy` says that it has no newer release to offer to
  one that does not come up.
* **CommandPipelineProofs**: `RepliesAreTrue` (`ReplyIsTrue`), for any number of
  requests. The invariant adds that nothing is recorded before dispatch and that
  a result waiting for its audit entry agrees with the effect.
  `BudgetIsBounded` (`BudgetHolds`), for any limit and window: at most
  `2·Limit` commands in any minute. `BudgetInv` counts in ages: of the
  last commands let through, those beyond the `count` youngest came before the
  open window began, and those beyond `count + Limit` are a minute old or more.
* **ContainersProofs**: `TenantsApart` (`RangesDisjoint`), `DesiredAsAnswered`
  and `RunningAsAnswered`, with `~Overlap`. Three invariants, each resting on
  the one before: commands under way are apart (`ApartInv`), a range found is
  above every range in both files, also when only one of the two calls of
  usermod was made (`RangeInv`), and what a command in its middle has already
  changed (`CommandInv`, `AnswerInv`).
* **NginxProofs**: `AnsweredImageRuns` (`ImageIsAnswered`),
  `AnsweredConfigStored` (`ConfigIsStored`), `ConfigNeverForgotten`
  (`NeverForgotten`), for any number of overlapping commands. The row of a
  command that ran alone is younger than all others (`StoredInv`), its container
  stays because `podman run --name` refuses a second one (`RanInv`), and whoever
  could undo an answer has withdrawn it (`AnswerInv`). That a table with rows has
  a newest one is itself an invariant (`NewestInv`).
* **HandlersProofs**, Rotation: `AnsweredKeyIsEverywhere` (`PskIsAnswered`),
  with `~Overlap` and files that can be read and written (`~Fails("keyfile")`);
  `KeyInv` says which copies already hold the new key at each step, while the old
  answer is withdrawn from the first on. `AnsweredPasswordConnects`
  (`PasswordIsAnswered`), with `~Overlap` and `~Fails("urlfile")`: an answer
  stands until another ALTER USER is carried out, and a handler about to write the
  file has the server's password (`PassInv`). Kills at any step, clients that go
  away and a failing podman are in both.
* **HandlersProofs**, Tunnels: `AnsweredTunnelIsUp` (`TunnelIsAnswered`) with
  every failure, for commands that do not overlap on one tunnel and names that
  differ (`NamesDiffer`); `GoneTunnelIsDown` (`GoneIsDown`) and
  `InterfaceHasFile` (`UpHasFile`) for a wg-quick that takes down what it finds.
  `TunnelInv` keeps what a setup has written until it brings the interface up,
  `DownInv` keeps an interface down until its file is removed.

Type correctness of every module is a theorem too, and needs none of these
hypotheses: it holds with every fault, with TLS, and whatever overlaps.

The hypotheses (`~Overlap`, `Serial`, faults that do not occur, `NamesDiffer`,
`~Tls`, `OlderAreHealthy`) are not guaranteed by the agent. Each is there because
the property fails without it: TLC violates every property above when any one of
its hypotheses is dropped, in the configurations of section 5.

Only model-checked: all liveness properties (`SilenceLocks`, `OutageLocks`,
`AckReleases`, `NewRowBringsAll`, `DivergenceIsRepaired`, `RolledBack`,
`StartupCompletes`, `AckRescues`, `StalePoolIsNoticed`), since the prover does no
fairness. Every invariant, action property and refinement that a passing run
checks is proved.

## 5. Where the code and its words differ

The run SyncSkips of PROJECT.json is a counterexample, described under
"findings". The following configurations are kept beside it; TLC violates the
one property each names. They state what a comment or document says, or drop an
assumption of section 2.

| Configuration (module) | Property | Counterexample |
|---|---|---|
| AckRedelivery (MCCommandAuth) | AcksRunOnce | acknowledgements skip the timestamp check and their nonce is deleted after five minutes, so a late copy is accepted (`auth/mod.rs:87` says it is not) |
| AuditTamper (MCAuditLog) | TamperStopsAppends | only the last row is re-computed; appends go on over an older tampered one (`audit/mod.rs:65-67`) |
| AuditRateLimit (MCAuditLog) | FinishedIsLogged | "rejected_rate_limit" is not a value of the CHECK at `migrations/001_init.sql:9`, so such an entry is never stored |
| NftOverlap (MCNftables) | StoredIsApplied | overlapping applies, or an apply and a check, leave other rules than PostgreSQL stores |
| NftAccept (MCNftables) | RestoreIsTruth | after nftables.accept the last ruleset is empty; the next check "restores" nothing and accepts what it finds |
| NftClose (MCNftables) | ClosingLasts | the drop rule for the setup port is in the kernel table only, and the next check removes it. Until then it stands after the `accept` for the same port and the final `drop` of lynx-base, so no packet reaches it, although `nginx_cmd.rs:243-245` says "the end result is the same" |
| UpdateDies (MCSelfUpdate) | FailedStartIsUndone | the guard is spawned after the configuration, the connection and the migrations (`main.rs:181-191`, `355`) and dies with the process when the address cannot be bound (`404`): a release that ends there is restarted for ever, its .prev never restored, although `main.rs:354` says "restore .prev and write CRITICAL if unhealthy" |
| UpdateEager (MCSelfUpdate) | FallbackOnlyWhenAbsent | a last contact of 0 counts as absent, so a restarted agent asks GitHub at once |
| PipelineAudit (MCCommandPipeline) | EffectIsAudited | a request dropped, or a crash, between effect and append leaves no entry |
| TenantOverlap (MCContainers) | RangesDisjoint | two tenant.ensure read the same next start |
| NginxStopped (MCNginx) | StoppedIsRedeployed | the watchdog redeploys only if a container of that name exists, with `podman run --name`, which then fails; one that was removed is not redeployed at all (`nginx.rs:27-31`) |
| NginxStale (MCNginx) | ConfigIsWritten | the watchdog reads the old configuration, a command stores and writes a new one, the watchdog writes the old one |
| RotationRestart (Rotation) | RestartConnects | a kill, a client that goes away or a podman that cannot be run between ALTER USER and the file: PostgreSQL has a password that no file has, although `system.rs:365-366` says that the next restart gets the new one. It was known to that call only |
| RotationLocks (Rotation) | NeverLocksItself | the pool keeps the password it was made with, so after a rotation the first reconnection fails and the agent locks itself, with PostgreSQL there all the time (`main.rs:333`); only a restart helps |
| TunnelClash (MCTunnels) | TunnelIsAnswered | two tunnels whose ids start alike share one interface name (`wireguard.rs:117`), and the second setup replaces the first; ids made within about a minute of each other do, being UUIDv7 |
| TunnelRace (MCTunnels) | GoneIsDown | a setup and a teardown of one tunnel at the same time, and the interface of a tunnel answered as removed is up |

More follow from a configuration of a passing run with one line changed, or its
list of properties:

| Configuration | Change | Property | Counterexample |
|---|---|---|---|
| Lockdown | – | INVARIANT StickyNeedsRestart | `set_lockdown` stores the flag, then the reason; an acknowledgement between the two reads the old reason and clears a sticky lockdown (`state.rs:10-11`, `66`) |
| AuditSync | `Appender = {a1, a2}` | Linear, ImplementsHashChain | two appends read the same last row and fork the chain |
| NftFaults | – | INVARIANT StoredIsApplied | a refused script leaves its body in memory, and the next apply puts it in force unstored |
| NftFaults | `Port <- MCPort` | INVARIANT EmergencyKeepsWireGuard | the emergency ruleset opens 51820 whatever the WireGuard port is |
| Nftables | `Faults = {"delete"}` | PROPERTY DeletionIsRepaired | a deleted table makes the listing fail, and the check returns |
| SelfUpdate | `Overlap = TRUE` (with one or two updaters) | TargetIsWhole, RollbackExists | two updates write one `.new`, and a rename installs it half written; an update in the guard's minute copies a release that hangs over `.prev`, and the guard may restore a `.prev` half copied |
| SelfUpdate | `Latest = 4` (an unhealthy release has a successor) | TargetIsWhole, RollbackExists, RolledBack | the same, by the fallback updater, which ticks in the guard's minute (`fallback.rs:15-19`) |
| SelfUpdate | `MCHealthy == {1}` | RollbackExists, RolledBack | the same: two bad releases in a row leave no way back |
| SelfUpdate | `Tls = TRUE` | StartupCompletes, RolledBack, RollbackExists, TargetIsWhole | the guard asks `http://127.0.0.1:9090/health` (`update/mod.rs:96`); an agent that serves TLS never answers, and every start ends in a restore of `.prev` and exit(1), also a healthy one (`update/mod.rs:82`) |
| Pipeline | – | INVARIANT MinuteIsWithinLimit | the window starts with the first command after the last one, so the end of one and the start of the next let twice the limit through in one minute (`state.rs:84`) |
| Containers | – | INVARIANT UsersHaveRanges | a tenant.ensure that failed after useradd is answered "ok" when sent again, and has no ranges |
| Rotation | `Faults = {"urlfile"}`; Spec | PasswordIsAnswered | the credential file is not written, which is a warning; the answer is "ok" |
| Rotation | `Faults = {"keyfile"}`; Spec | PskIsAnswered | a key file cannot be read or written, which is a warning; the answer is "ok" |
| Rotation | `Overlap = TRUE`; Spec | PskIsAnswered, PasswordIsAnswered | two rotations end with one secret in force and the other in a file |
| Rotation | Spec, `PskIsAnswered` without `conf = Torn` | PskIsAnswered | a kill cuts the wg-quick file off; a later rotation looks for its PresharedKey line, finds none, writes the file as it is and answers "ok" |
| Containers | `Overlap = TRUE` | AnswerIsDesired | two deployments of one project write its compose file one after the other, and the first to be answered has the file of the second |
| Containers | `Overlap = TRUE` | AnswerIsActual | a teardown of the project between a deployment's `up` and its row: the row is stored and answered, and nothing runs |
| Tunnels | `Overlap = TRUE` | TunnelIsAnswered | a second setup truncates the file that the first one has been answered for |
| Tunnels | `Overlap = TRUE` | UpHasFile | a setup brings the interface up between the wg-quick down and the remove_file of a teardown |
| TunnelClash | – | GoneIsDown, UpHasFile | the teardown of one tunnel removes the file, and a setup of the other brings its interface up |
| Nftables | `Overlap = TRUE`, or any one fault | BootFileIsCurrent | as for StoredIsApplied; a boot file that cannot be written ("disk") leaves StoredIsApplied alone |
| Tunnels | `Faults` with "down" | GoneIsDown, UpHasFile | wg-quick down fails, its result is ignored, the file is removed and the answer is "ok": the interface stays and no teardown can find it again |

One more needs no model: the name of a data-plane interface is `wg-lynx-dp-` and
eight characters of the tunnel's id (`wireguard.rs:117-123`), so 19 for a UUID,
and the kernel and `wg-quick` take 15. A setup with such an id fails on a real
host, at `wg-quick up` and at `wg syncconf`, and its teardown is answered "ok".

## 6. Not modelled

* Panics on a slice of a string: a peer's key shorter than 16 bytes
  (`wireguard.rs:274`, `299`), and a reply of the dashboard cut in the middle of a
  character (`sync/mod.rs:102`, `121`), which would end the sync task until a restart.
  `NewRowBringsAll` assumes replies that are cut at a character.

* container.update (limits of resources, passed on to podman).
* nginx certificates, and the renewed agent certificate of cert.update: files
  written by a command and read by nothing here. dashboard.migrate sends one
  message and keeps nothing.
* The frames the WebSocket client only sends (heartbeat, metrics, pong), and the
  length of its delays.
* The conflict check's detection and removal of packages (its effect on the
  lockdown is in Lockdown): calls of `which`, `apt-get` and `dnf`.
* The counter of rate-limited commands (`state.rs:103-117`), which only words a
  log line and an alert.
* Configuration, metrics, errors, the command line: parsing, key generation and
  formatting without later transitions.
* `setup-agent.sh` and `update-agent.sh`, run by an operator; what they leave
  (the systemd unit, the agent's subid range, the first key and password) is used.

## 7. Plan

Written, in this order: CommandAuth, Lockdown, AuditLog, AuditSync, Nftables,
SelfUpdate, CommandPipeline, Containers, Nginx, the rate limiter in the pipeline,
close_setup_port in Nftables, Rotation, Tunnels; each with its runs and proofs.

Next:

1. Theorems about what is left when a hypothesis goes: `RangesDisjoint` for
   tenant.ensure alone not overlapping, the part of `StoredIsApplied` that
   survives a failing query.
2. What concurrent appends still guarantee of the sync: which rows a cursor that
   is a date may skip.
3. A stricter dashboard that refuses a tampered row for ever.
