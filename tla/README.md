# The MikroTik network controller in TLA+

This directory models the server side of the MikroTik network controller (`src/src/lib/server` and
the form actions under `src/src/routes`): a SvelteKit process that keeps an inventory of routers in
PostgreSQL, polls them over REST, changes them over SSH by jobs of several steps, and tells browsers
and a log about it. The modules are translated from the code; TLC checks them on small instances, and
TLAPS proves nearly every safety property of them for every value of the constants.

Contents: [the system](#1-the-system), [the modules](#2-the-modules), [the runs](#3-the-runs),
[fairness](#4-fairness), [the proofs](#5-the-proofs), [where code and documents
disagree](#6-where-code-and-documents-disagree), [limits of the code the model
shows](#7-limits-of-the-code-that-the-models-show), [not modelled](#8-not-modelled),
[plan](#9-plan).

## 1. The system

Everything runs in one Node process on one event loop. There are no threads; what interleaves are
chains of `await`s: form actions and API handlers, jobs, polls started by `setInterval`, listeners of
an event emitter, WebSocket handlers. Nothing holds a lock, and the repositories use transactions
hardly anywhere, so another chain may run between any two statements. What a crash loses is the memory
of the process: the chains themselves and a few maps. What it keeps is the database and the routers.

| Component | State it keeps | Operations | Talks to |
|---|---|---|---|
| Job scheduler (`services/scheduler.service`) | tables `jobs`, `job_steps`; in memory the position of each running job, `completedSteps`, `rollbackFailed` | `schedule`, `runTask`, `rollbackCompletedSteps` | tasks (calls `execute`/`revert`), emits `job:*` events |
| REST secret rotation (`devices.service/tasks`) | the closure's `previousSecret`, the active credential, the router's password | the task of three steps, `replaceCredential` | scheduler, router by SSH |
| Adoption and removal (three tasks, `modules/adoption/helpers.ts`, `modules/adoption/index.ts`) | `adoption_attempts`, the device's row, its credentials, users and keys on the router | the tasks `devices.adopt.managed_credentials`, `devices.adopt.credentials`, `devices.remove` | scheduler, routers |
| Backups, firmware, deployments (four tasks) | `backups` and files under `.data`, `firmware_versions`, `config_deployments`, the router's version | the tasks `devices.backup`, `devices.firmware.check`, `devices.firmware.upgrade`, `config.deploy` | scheduler, routers, file system |
| WireGuard tunnels (`routes/manage/[site_id]/network`) | `vpn_tunnels`, items on two routers | form actions `createTunnel`, `deleteTunnel` and their tasks | scheduler, routers |
| Monitoring (`services/monitoring.service`) | timers; `devices.connectionStatus`, metrics, clients, mirrored router tables, topology | `startMonitoring`, `stopMonitoring`, `pollAll`, `collectDevice`, pruning, daily backup and firmware check | routers, alerts (call without waiting), `emitDeviceUpdated` |
| Mirrored tables (`repositories/firewall`, `vlan`, `vpn`, `device`) | rows of one device's rules, VLANs, WireGuard interfaces and peers, interfaces | upserts, `deleteByDeviceExcluding`, `replaceInterfaces` | started by a collection, awaited by nobody |
| Alerts and notifications (`services/alerts.service`, `alerts` routes) | `alert_rules`, `alert_events` (open while `resolvedAt` is null), channels and their links to rules | evaluation, the forms of rules and channels, acknowledging, the notifier | monitoring; emits `alert:fired`, `alert:resolved`; channels |
| Syslog (`services/syslog.service`) | `syslog` rows; the map `lastStatus` in memory | listeners of `device.updated`, adoption, removal, `job:*` | the emitters |
| Actionbus, browser job list (`actionbus.service`, `client/stores/jobs.ts`) | the browser's list | `publishSchedulerEvent`, broadcast, merge, the load function of a page | scheduler events, WebSocket |
| Terminal sessions (`modules/terminal.module.ts`, the pane) | sessions in memory, audit rows | connect, open, input, close, idle timer | WebSocket, an ssh process |
| Enrolment and agent (`modules/adoption/index.ts`, `agent.service`) | install tokens, device rows, agent tokens | `enroll`, `ack`, `adopt`, `bootstrap`, check-in, and the scripts on the router | routers |
| Provisioning and renaming (two tasks, the device page) | `devices.name`, the router's identity, the secret a job has logged in with | the tasks `devices.provision`, `devices.rename-identity`, the form `rename` | scheduler, router by REST |
| Authentication and roles (`auth.service`, `hooks.server.ts`, `setup` and `admin` routes) | `users`, `roles`, `user_roles`, `user_sessions`, `api_keys`, the first site | `createFirstAdmin`, `loginUser`, `createLoginSession`, `logout`, `resolveUserFromCookies`, the forms of users, roles and keys | every request |
| Discovery, other device tasks, UI | rows only | not modelled ([section 8](#8-not-modelled)) | |

What makes each of them correct, and what is hard about it:

* **Scheduler.** The rows must tell what happened on the router, whichever statement throws and whenever
  the process dies; rollback must go backwards and stop at a required revert that fails; the terminal
  status must follow from the task's policy; a finished job must stay finished; listeners must hear of
  the end; and a job that starts must end. Hard: three nested handlers (the `try` around a step, the one
  around a revert, the `.catch` of `schedule`) and about a dozen statements that may throw into each.
* **REST secret rotation.** Router and store must agree after a success and be repaired by the next one;
  a rollback must restore what it found; the store must not hold two secrets. Hard: router and store
  cannot be changed together, `replaceCredential` is two statements, `previousSecret` goes stale, and
  nothing keeps two rotations of a device apart.
* **Alerts.** One open event per rule and subject, a cooldown between two, every open event resolved in
  the end, an event open while the condition lasts, and every channel told. Hard: check-then-insert over
  three awaits, started by polls that do not wait; rules, devices and channels that go meanwhile.
* **Monitoring and syslog.** The stored status and clients must come to agree with the router, and the log
  with the status. Hard: polls overlap, `emitDeviceUpdated` reads and emits in two moments, clients
  are deactivated and reactivated in two statements, a failure anywhere turns a reachable device offline.
* **Mirrored tables.** A table must settle on the router's list, and an entry that is never missing must
  never disappear. Hard: upserts and deletes run concurrently with each other and with those of the next
  collection.
* **Tunnels.** What stands on two routers must fit what the row says. Hard: nine steps, reverts that
  swallow errors, a removal that may overtake the creation, keys copied into the payload, commands that may hit another tunnel's items.
* **Adoption and removal.** A device may say `fully_managed` only if the controller can log in to it, and
  the list of attempts must agree with the list of jobs. Hard: the secrets are changed on the router in one
  step and stored in the next, in five statements; a device may be adopted again; the attempt is closed as
  succeeded before the last two calls of the last step, which may throw; the removal resets the router
  two steps before it deletes the row.
* **Backups, firmware, deployments.** The newest backups must be on disk, the stored version must be one the
  router has, and a deployment's row must tell what was done. Hard: write, list and prune overlap; a router
  that is asked before it begins to reboot answers with its old version; the SSH session of a deployment is
  wrapped in an empty catch.
* **Job list.** What a page shows must be something the job once was, hang together although it was read in two
  statements, and be up to date in the end. Hard: snapshots overtake each other, sockets are lost, the last update of a
  success is never sent.
* **Terminal.** No shell may be left to itself, a session must end when the browser is gone, and the pane must
  learn of it. Hard: listeners are attached after an await; four parties may close; the idle timer.
* **Enrolment and agent.** The devices made with an install token must be those of the routers it was used for; a script stops only when the router is managed; nobody
  loses an approval. Hard: handlers of four or eight statements that a script repeats every few seconds
  and may have given up on; a token that one handler claims and the other only looks at.
* **Provisioning and renaming.** A job that has set the identity must have left the one it was asked for, or what it found. Hard:
  the secret it logs in with is changed under it by a rotation; the name is stored before the job exists.
* **Authentication.** Somebody must always be able to log in, a controller that is set up must have an administrator,
  and a user must have the roles given last. Hard: the setup is seven statements that anyone may start; two administrators may strike each other; roles
  are replaced in two statements.

`PROJECT.json` lists these hazards one by one at the line where they bite.

## 2. The modules

| Module | What it is |
|---|---|
| `Scheduler` | the scheduler: any number of jobs, any task shape |
| `Saga` | what the scheduler promises of a job, in ten lines of actions |
| `SchedulerProofs` | theorems about `Scheduler`; that it implements `Saga` |
| `RotateSecret` | EXTENDS `Scheduler`: the rotation task of three steps, on one device |
| `Adoption` | EXTENDS `Scheduler`: the two adoption tasks and the removal, on one host |
| `Identity` | EXTENDS `RotateSecret`: provisioning and renaming beside rotations |
| `Maintenance` | EXTENDS `Scheduler`: backup, firmware check and upgrade, deployment |
| `DeviceJobs`, `DeviceJobsProofs` | EXTENDS `Maintenance` and `Identity`: the jobs of one device, composed; theorems about all of them |
| `Tunnel`, `TunnelProofs` | EXTENDS `Scheduler`: the two tunnel tasks of nine steps and their form actions; theorems about them |
| `JobFeed` | EXTENDS `Scheduler`: from its events to the list of jobs in a browser |
| `View` | what such a list promises, in three actions |
| `OutcomeProofs` | theorems about `Adoption` and `JobFeed`, what a job leaves and what is shown of it |
| `Alerts`, `AlertsProofs` | the evaluator for one rule and subject, the forms and the notifier; theorems about it |
| `Monitoring` | the polls of one device, its status and clients, and the syslog listener |
| `Mirror`, `MirrorProofs` | the tables that mirror a router; theorems about them |
| `Terminal` | the pane, its sockets and sessions |
| `Agent` | install tokens, bootstrap, check-in, enrolment and acknowledgement |
| `ConnectionProofs` | theorems about `Monitoring`, `Terminal` and `Agent`, which share no variable |
| `Access`, `AccessProofs` | setup, sign-in and the administration of users, roles and keys; theorems about them |
| `MC…` | the instances of the runs: sets of tasks, a bound on histories |

Conventions. An action is one awaited call with the synchronous code that follows it up to the next
`await`: that is what runs without interruption. `pc` names the place where a chain is suspended. An
action whose name ends in `Fails` is a call that rejects. Variables marked *history* are read by properties only. A definition
whose name begins with `Bug` is a variant of the definition that follows it with a plausible mistake;
no specification uses it, and each property is shown to fail under one of them.

### Scheduler

State: `status`, `progress` (the `jobs` row), `rows` (`job_steps.status`), all of which survive a crash;
`pc`, `cur`, `completed` and `rollbackFailed`, which do not; `applied`, the steps whose effect stands on
the router (what the rows are about, though no code can see it); `announced`, the events emitted.
`Schedule`/`PersistSteps` are the two statements of `schedule`; `StartJob` … `FinishSucceeded` walk
through `runTask`; `BeginRollback` … `FinishRollback` through `rollbackCompletedSteps`. A step or a revert
that throws may have had its effect (`ExecuteFails`, `RevertFails`). `StatementFails` sends control where
the code's handlers send it (`UncaughtPoints`, `StepTryPoints`, `RevertTryPoints`); `CatchFails` is the
handler of `schedule` failing in turn; `Crash` stops everything at once, and nothing resumes a job
afterwards, because no code does. A task is a policy, a number of steps and a revert policy per step; a
step without a revert function and one with `revertPolicy: 'none'` are one case to the code.

`Saga` has no rows, control points or failing statements: effects come while a job runs, go while it
rolls back, success is whole unless the policy is `continue`, and `reverted` leaves at most the effect of
the failing step besides irreversible ones. `IsSaga` says that the scheduler implements it under the
identity mapping of `task`, `status` and `applied`.

### RotateSecret

A rotation is a job of `Scheduler` whose three steps are: read the active read_only credential, change the
router's password, `replaceCredential`. The device-level state is `router` (the password in force),
`active` (the secrets with an active row), `previous` (the closure's `previousSecret`) and `stage` (how far
`replaceCredential` has come: deactivated, inserted). Each device step is conjoined with
the scheduler action it happens in, so everything the scheduler can do to a job can happen to a rotation. What
holds however rotations overlap is `GapIsTold`, the second half of `OneSecretAtATime`: a store left without an active secret has a row of a job that says so.

### Identity and DeviceJobs

A provisioning reads the secret once (`ReadForProvision`), sets the identity in its second step and verifies it in its third; a
renaming reads the secret and sets the identity in one step. `login` is the secret a job has read: a call that logs in with
one that a rotation has replaced is refused (`SetIdentityFails`, `GiveBackFails`). `UpdateName` is the form, which stores the name and then hands over the job.
`GiveBack` is the revert of a provisioning, which sets `devices.identity`; that of a renaming finds no previous identity in its payload (`NothingToGiveBack`).
`DeviceJobs` composes these with the jobs of `Maintenance`: tasks that share no state meet in the scheduler only, so that the
jobs of one behaviour are about one matter, and those about one matter interleave.

### Tunnel

`CountTunnels` and `AskCreate` are the statements of one form action, `FindTunnel` and `AskRemove` of the other, `HandOver` the call of the
scheduler in both. `config` holds the eight items (interface, peer, address and route on two routers); the ninth
step works on the row. `Cleaned` records that a peer is found by a public key, so a removal whose payload
has no keys finds none and succeeds. Reverts swallow their errors (`RemoveItemFails` is a `RevertOk`).

`CountTunnels` is the form up to `countAll`, which gives the tunnel its /30 (`index`). `other` is a tunnel of the same local router to a third one;
`clash` says what the two have in common there: nothing, the remote range and so the destination of the route, or the name of the interface, which is cut from the
name of the other side. `OtherComes` and `OtherGoes` are the same form and tasks for it, each in one step, of which only the row and the shared item are kept.

### Adoption

`CallsOf` lists what each step of a task awaits; `at` is the call a job waits for, and
`Due` the guard of every action: the answer of the last call of a step is the scheduler's `ExecuteOk`. A call
that throws (`CallFails`) leads to `StepThrows`, which closes the attempt as failed, or fails to, and is the
scheduler's `ExecuteFails`. A call of the router may have been carried out when its answer is lost
(`AnswerLost`). `device` stands for `adoptionState` and `adoptionMode`, which the two statements that write them
here write together. `refers` says which jobs hold the id of the row there is: when a removal has deleted it, another job's
updates do nothing and its inserts are refused by their foreign key (`Relate`). A removal resets the router
only if it finds the device managed and an SSH key to do it with (`FindDevice`, `FindTrust`), and forgives a
connection that the reset has cut. The operator's login is taken to be valid as long as the controller holds it.

### Maintenance

`CallsOf`, `at` and `Due` as in `Adoption`. Tasks that share no state meet in the scheduler only, so the jobs of a
behaviour are about one matter (`Matters`): backups of a device, checks and upgrades of its firmware, or
deployments. A backup names its file by the clock, writes it, adds the row, reads the list of rows once and deletes the excess one by
one, file before row. `LogIn` is the loop that waits for the router: it may succeed before `RouterReboots`. `SshFails` is the empty
`catch` around the SSH session, after which the deployment records a success.

### JobFeed

Every emitted event starts a *reader*, which reads its job, then the steps of it, and publishes. A page that opens starts a reader for each job there is,
and when all have read, `Mount` replaces the list by what they have. Nothing orders readers: a reader that has read the job holds the set
`before` of those at work that had read it earlier, and is `overtaken` when one publishes that stands behind it (`Leave`). The steps of the scheduler that emit (`Emits`) and those
that do not (`IsQuiet`) partition its actions. `View` is the abstract specification: a list is never ahead of a job, and goes back only when disturbed; `IsView`
states the refinement under `seen <- StageOf(shown.status)`. `disturbed` is set when something is lost, or told after something newer. A page
that read a job before an update was shown of it is overtaken like any reader. A reader's statement that throws (`ReadFails`) uses up one of
the faults of the scheduler, so that it is no step of `Scheduler`; the theorems do not need it to be.

### Terminal

One `sock`, `stage` and `shell` for each time the pane connects. `Opened` attaches the listeners: what the shell or the
socket has reported before is lost (`ShellReported`, `ServerHearsClose` with `stage # "live"`). `CloseSession` is the function of that name, with the messages sent before
it. `Die` is what an unhandled rejection or an `error` event without listener does to the Node process.

### Agent

A call that the server handles sits in a slot (`calls`), with the statement it is at; an action is one statement of a
handler. `GiveUp` moves the call of a script that stops waiting to the slot `late`, where the server goes on with it
while the script calls again. Rows are in the order of their ids, hosts are unique (`Taken`), and a
device is known by its placeholder, its serial number or its address.

### Alerts

One rule and one subject, since every statement filters on both. An evaluation goes from `Sample` to
`CheckOpen`, `CheckCooldown`, `Fire`, or to `FindOpen`, `Resolve`. `breach` is the condition at the moment
of the sample; `Flip` changes it at any time; `Tick` ages the latest event up to the cooldown. `CreateRule` inserts
the rule and `LinkChannels` its channels, in a second statement; `ToggleRule`, `DeleteRule`, `RemoveDevice`, `DeleteChannel`
and `Acknowledge` are the forms. The notifier of an event reads the links (`ReadLinks`), then all their channels at once
(`ReadChannels`), and sends one message each.

### Monitoring

`Polls` and `Others` are chains that may be under way at the same time. A poll goes request → metric →
status → read → emit → ports → inactive → upsert; a caller of `emitDeviceUpdated` elsewhere does
read → emit. `Emit` runs the listener of the syslog service synchronously up to its first await (`Notice`)
and leaves the row to be written by `WriteEntry`. `ChainFails` is the `catch` of `collectDevice`, which
writes the device off as offline, `Restart` the loss of `lastStatus` and of every chain.

### Mirror

`style` says which of the three ways the code has to bring a table up to date. A collection reads the
list once (`Collect`, with `Read`) and starts its statements, which run in any order and beside those of the next.

### Access

A request is a chain of statements, and rows are named by the request that inserted them; `Init` takes a new controller or one with users.
`OpenSetup` … `createLoginSession` is the setup, whose page asks nobody who they are; `loginUser` the login. Any other request is signed in by a session or a key
(`FindSession`, `FindUser`) before its form is handled: `actor` is `locals.user`, read some statements before it is compared. A unique index or a foreign key
refuses a statement (`Refused`); any statement may throw, which also stands for the death of the process, as every chain then ends where it is. Passwords are not distinguished, so that
`resetPassword` changes nothing.

## 3. The runs

| Run | Instance | What it shows |
|---|---|---|
| `Scheduler_one` | one job, every task of 0–3 steps with every policy and mix of revert policies, two failing statements, one crash | rows and status tell what happened, rollback goes backwards, the outcome follows from the policy; the scheduler implements `Saga`; a started job ends |
| `Adoption_pair` | two jobs, each a managed or read-only adoption or a removal, a failing statement, a crash; any call may fail | `fully_managed` means reachable, a success leaves what it promises, the attempt tells the outcome of the job, whoever removes the device meanwhile |
| `DeviceJobs_pair` | two jobs about one matter (backups; firmware; deployments; rotation, provisioning and renaming), two failing statements, a crash; any call may fail | the newest backups have their file and the excess goes; the stored version is never ahead; a deployment's row is true; success heals, a clean rollback restores, one secret at a time, as long as rotations do not overlap; a store without a secret is told of; the identity is the one the job says, whatever a rotation does beside it |
| `Tunnel_pair` | creation and removal of a tunnel, beside another one of the same router | what `active`, `reverted` and a deleted row say of the two routers, when addresses are its own, and what two tunnels take from each other |
| `JobFeed_list` | one job of two steps that is rolled back or of one step under each policy, two readers, one page, one lost socket, a failing statement, a crash | what is shown hangs together; the list is a `View`; a bad end is shown in the end |
| `Alerts_pair` | two evaluations, two events, one channel, a failure | one open event, and overlapping evaluations open no more than one each; cooldown; events follow the condition; channels are told |
| `Monitoring_polls` | two chains, both may be polls and one another caller, one client, one trouble | status, clients and log settle |
| `Mirror_pair` | two collections, two entries with two contents, all three styles, a failing statement | rows go only when missing, and settle |
| `Terminal_pane` | a pane that connects twice, one failure | no shell is left to itself; sessions end and are audited; the pane learns of it |
| `Agent_pair` | two routers behind one address, one of them with a script, two tokens, two joins, one failure | a token accounts for its devices; a script that is done is whole and ends; nothing takes back an approval |
| `Access_pair` | four requests, of which up to two have made the users there are; two emails, a failing statement | somebody can log in; a completed setup leaves an administrator, alone just one; roles are those given last |
| `Scheduler_announce` | one job, nothing fails | the disagreement of section 6 |

Why these bounds are enough to be of interest:

* One job suffices in `Scheduler_one`: jobs share no variable but the bounds (the proof uses just that, lemma
  by lemma). Three steps give a rollback of two completed steps, the second of which can be a barrier to the
  first, after a third that failed. Two failing statements let the handler of a failure fail.
* Two jobs, evaluations, polls, readers or collections are the least that overlap; every hazard listed is about
  two. Two event identities let both evaluations fire; one channel is enough as each is told by a promise of its own.
* `JobFeed_list` has one job because a snapshot is about one, and two readers because overtaking takes two; the theorems are about any number of both.
  Rolling back a task of two steps, and skipping or trying the revert of one, are all that can become of a row.
* `Agent_pair` has both routers behind one address (`OneAddress`), which is where check-ins collide, and one of
  them running the script; two joins are two pastes, or a paste and a script.
* `Access_pair` starts new, so that two setups and two logins or forms fit, or in use, so that two forms of two users cross.
* `DeviceJobs_pair` keeps two backups and starts with as many, so that every backup has something to prune.
* `Tunnel_pair` allows two failing commands, one failing statement and one crash, but (`TwoTroubles` in
  `MCTunnel`) at most two of them in a behaviour, and none beside another tunnel. One other tunnel suffices: what the two
  may share is a number, a route or a name. An `index` beyond 16383, whose third octet would be 256, is out of its reach.
* `Monitoring_polls` allows one trouble (a failing statement, a lost request, a restart). Liveness with a
  failure says that what failed once is repaired by itself.
* Distinct states: `Scheduler_one` 65 thousand, `DeviceJobs_pair` 2.1 million, `Adoption_pair` 2.9 million,
  `Access_pair` 1.1 million, `Tunnel_pair` 3.2 million, `JobFeed_list` 1.7 million, `Alerts_pair` 0.5 million,
  `Monitoring_polls` 0.8 million, `Mirror_pair` 0.7 million, `Terminal_pane` 0.2 million, `Agent_pair` 0.5 million.
* Bounds are constants with names: `MaxSteps`, `MaxFaults`, `MaxCrashes`, `MaxFailures`, `MaxTroubles`,
  `MaxReaders`, `MaxPages`, `MaxCuts`, `MaxSessions`, `MaxTokens`, `MaxJoins`, `Cooldown`, `Keep`. No counter in the models is unbounded.

Deadlock is checked where the system goes on for ever (`Alerts`, `Monitoring`, `Mirror`). The others end when their
jobs, sessions or calls have ended, so their runs do not check it; `StartedJobsSettle`, `SessionsEnd`, `ScriptEnds` and
`ListSettles` say instead that nothing gets stuck on the way.

## 4. Fairness

* `Scheduler`: weak fairness of each job's own next action. Every await in `runTask` is a statement, a
  request or an SSH command that settles, so a job that may go on does. Failures and crashes are not fair:
  they may never happen.
* `Alerts`: `setInterval` samples for ever, each evaluation's and notifier's statements settle, and time goes on. The
  condition may flip at any moment and the forms may be used at any time; the liveness properties are conditional
  on the condition's coming to rest and the rule's staying enabled.
* `Monitoring`: some poll starts again and again (`pollAll` on its interval), each chain's awaits settle (the
  client's requests have a timeout), and a pending log row is written. Router, clients and credential
  change freely; the properties are conditional on their coming to rest.
* `Mirror`: the device is collected for ever and each collection's upserts and deletes are run, independently of
  each other, for they are independent promises.
* `JobFeed`: readers' statements are answered and messages arrive while the socket is open. Nothing makes the
  scheduler go on, the socket connect again or a page open.
* `Terminal`: statements are answered, events reported, messages delivered, due timers fire. The idle time passes for certain only
  when the socket is no longer open: while it is, a user may press keys for ever.
* `Agent`: the router's own scheduler runs its script again, and the server goes on with the call that the script
  waits for. Nobody need paste, adopt or check in.
* `Tunnel`, `Adoption`, `DeviceJobs`: safety only; that their jobs end is `StartedJobsSettle`. `Access`: safety only.

No strong fairness is assumed anywhere.

## 5. The proofs

Everything below is proved for arbitrary constants: any set of jobs and tasks, any bound on steps,
failing statements and crashes, any finite set of evaluations, any events, collections and entries, any number of routers, tokens and sessions.
The assumptions are the `ASSUME`s of the modules and nothing else.

**Scheduler** (`SchedulerProofs`). None of the invariants is inductive: what the rows and the status say of
the router depends on where the job is suspended. `JobInv(j)` says it for every control point of one job,
as named parts: `StatusFits` (the status in the table), `StepFits` (the step at work and its row),
`EffectsFit` (`completedSteps` against the router), `WholeSoFar` and `RowsSoFar` (what lies behind the loop),
`RollbackFits` (what the rollback has dealt with), and `RowsTell`, `NothingElse`, `Whole`, the goals for one
job. `IInv` is `TypeOK` and `JobInv` of every job. A step of one job leaves the others alone
(one lemma), so preservation is proved for the job that takes the step, action by action. Consequences:
`TypeCorrect`, `RowsAreTrue`, `RevertedIsHonest`, `SuccessIsTrue`, and from the same invariant the action property
`FinishedStays`.

The order of a rollback and the outcome of a job need a second invariant on top of `IInv`, `OInv` (`InOrder`): until a rollback
begins no row says that a step was taken back (`NothingTouched`); the only open row is that of the step at work (`OpenRows`); what
says succeeded is still in `completedSteps` (`SucceededRemain`), and what `completedSteps` holds lies below all that was dealt with, none of which
is a required revert that failed (`TurnsDown`); `rollbackFailed` is true exactly when a row says so, and a job comes to its `.catch` only by
a statement that threw (`FailureKnown`); a row says failed under way only if the task continues (`NoneFailed`), and at the end of a rollback a step
is left completed only below a required revert that failed (`RestDone`). `RollbackTurnsDown` and `PolicyDecides` follow.

**Refinement** (`SchedulerProofs`). `JobsAreSagas`: every step of the scheduler is a step of the saga or
leaves `task`, `status` and `applied` alone. The invariant is needed where the saga has a guard the code does
not test: that a success is whole and that a clean rollback leaves at most the failing step.

**Alerts** (`AlertsProofs`). `Alone` says what holds while evaluations have not overlapped: at most one is
under way, nobody opens an event after it found none, and a cooldown found over stays over. With it
`OneOpenAlert` is inductive, and `CooldownKept` follows from it at the one action that fires. For evaluations that do
overlap, an event that is open stands for an evaluation that found none: the sum of open events and
evaluations about to fire never exceeds the number of evaluations, by the cardinality lemmas of the library; that is the second half of the property
(`OpenBoundedByOverlap`), and it asks for no evaluation to be alone.

**Mirror** (`MirrorProofs`). `TypeOK` says of each collection that it upserts only what it has found and
selects for deletion only what it has not; `RowsGoOnlyWhenMissing` follows. `Approaches` says how far the rows have
come to be the list the collection has read; for collections that do not overlap it is inductive, and when the
last statement has run the table is that list (`SettledIsMirrored`).

**Maintenance** (`DeviceJobsProofs`). The module drives the scheduler's jobs and says for itself what their steps do, so that its
steps are steps of the scheduler is a theorem, `RunsOnScheduler`; all that is proved of `Scheduler` then holds here
(`MaintenanceRowsTell`). `FirmwareInv` adds to `IInv` where each job stands (`JobFits`): at the first call of a step
unless it executes one, at one of the step's calls if it does, and with a version of the router in hand when it is about to
store one. `IInv` is needed to know which step a job may be at. `FirmwareIsNotAhead` and, with `DeployFits` (a deployment that has noted
the import has imported; past its step there is a row), `DeploymentsAreTold` follow.

`BackupsAreKept` is about the numbers of rows that several jobs have read at different times. `BackupInv` avoids counting: a file that a job is about
to delete has at least `Keep` newer rows, and keeps them, because whoever deletes takes the rows beyond the newest `Keep` of his own list, so that a newest row among
those would have to have had `Keep` newer rows itself (`FirstOne`, the least element of a finite set, which the library's theorem about well-founded relations gives; the
induction theorems cannot be instantiated). And at any time nothing is beyond `Keep`, or a job that prunes has all of that in its list, or a job owes it: it has not read the list
yet, or it has failed, or the process died under it.

**Rotation, provisioning and renaming** (`DeviceJobsProofs`), of `IdentitySpec`: any number of these jobs on one device. `IdentityRunsOnScheduler`
carries over what is proved of `Scheduler` (`IdentityRowsTell`). What the rotations do to the router and the store is not inductive without what
the one at work has found: `SecretInv` says where `replaceCredential` may be under way (`StageFits`), that nothing is active between its two statements,
that nothing has changed before the first step has read the store and that what it read is what was there (`StoreFits`), and what the steps
behind the job have made and the absence of a step leaves (`MadeSoFar`). All but the first and the types hold while no two rotations have overlapped: then the
job that takes a step is the only one that can begin a rotation or go on with one (`AloneStep`). `IInv` is what tells that no later step
is tried without the first. The second half of `OneSecretAtATime` needs none of that: `GapInv` names the job that has left the gap (`LeftGap`), which is between the two statements of its third
step or has failed or died there, and nothing to come of it touches the row of that step but to say that it failed (`GapOwn`), because a step that never completed is not reverted (`CompletedBehind`).
It is kept by every step of every job, overlapping or not (`GapStep`). `SecretsStayOne`, `RotationHeals` and `RollbackRestores` follow; `IdentityIsKept` in the same way from `NamingInv`.

**The jobs of one device** (`DeviceJobsProofs`). `DeviceIsLookedAfter` carries all seven properties over to `DeviceJobsSpec`, which the run `DeviceJobs_pair` checks: it takes
the steps of `MaintenanceSpec` or of `IdentitySpec`, as its jobs are of the one kind or the other, and what the other module keeps of the device rests at its start (`DeviceInv`). Without
any job at all both are trivial, which the proof has to say.

**Adoption and removal** (`OutcomeProofs`). `AdoptionRunsOnScheduler` first. A job is followed call by call: `Past(j, i, n)` says that the n-th call of its i-th step is behind it.
`CallInv` (which call a step is at) and `AttemptInv` (what the row of the attempt says follows from the job's own calls) hold whatever overlaps; `AttemptTellsOutcome` follows from
the latter. `AloneInv` holds while no two jobs have overlapped: then what the job that started last has made so far (`MadeSoFar`) can have been taken away by nobody, and
`ManagedIsReachable` and `AdoptionTakesHold` follow, the first for the device and the second for a job that is over.

**The list of jobs** (`OutcomeProofs`). A snapshot is read in two statements, held for any time, and shown after others. `RowsInv` adds to the scheduler's `IInv` that steps the job
has not come to are still queued (`QueueFits`) and that a progress counts only steps that have been dealt with (`Counted`). No step of a job takes it back to an earlier stage, undoes a row that was
dealt with or touches a finished job (`Moves`); therefore what has been read stays true of the job, though no longer all that is true of it (`Behind`), and the rows, read later, agree with it for good
(`Coherent`): `ShownIsCoherent`. For the order, of two readers of one job one stands behind the other, and has found the job no further than the other one (`StandsBehind`); what a reader that was not overtaken
will tell is no older than what is shown (`InTime`). With these `FeedInv` is inductive, and `ListIsView` is the refinement of `View`: a step of the scheduler is its `Advance` or leaves the stages alone,
and publishing or mounting is its `Tell` or, when disturbed, `TellLate`. The progress is a rounded percentage: with more than a hundred steps those of neighbouring steps can be equal, so that
`ShownIsCoherent` speaks of steps whose predecessor's percentage is exceeded.

**Tunnels** (`TunnelProofs`). The router is followed by the effects of the two jobs: an item whose step is still ahead of the creation is not there, one whose step is behind it is (`Added`); an item
is there only if a step of the creation put it there and it was not reverted, or its revert was swallowed (`Effects`, which needs the scheduler's `IInv` to know what the rows say). `ActiveIsWhole`
follows from `Added` and `Active` (who has written the status). As long as the two jobs have not met, the creation is over when the removal is asked for (`Apart`), so that what the removal has
behind it stays removed (`Removed`), and nobody puts back what the other tunnel has lost (`Lost`). `Numbers` says how often a /30 can have been counted twice.
`RestIsAccountedFor` follows from these. That the form actions hand over jobs, and that bounds on failing forms are used up, are no steps of the scheduler and keep its invariant.

**Terminal** (`ConnectionProofs`). `SessionFits` says what may have happened to a session at each stage: nothing has
closed it before its listeners are attached, and whoever closed it stopped its shell. With it `ShellsAreWatched` is inductive.

**Monitoring** (`ConnectionProofs`). `LogFollowsStatus` is about moments at which nothing is under way. `TellsStatus` says what holds meanwhile, while no two chains have been under way
together and nothing has failed: one chain at most is under way, what it has read when it is about to emit is still stored, and what the syslog service knows is what is stored unless
a chain is about to tell it. `LogFits` says what the log will say once the row that a listener has begun to write is there (`LogWillSay`); a restart loses `lastStatus` and the row, which is
why it asks for none where the log is to be behind. A step that neither tells nor writes keeps both (`QuietStep`); the listener and the row are the two that do not.

**Agent** (`ConnectionProofs`). The handlers are of four to ten statements, and what a call may rely on at one of them is what it, or the same call the time before, has stored at those before. `AgentInv` has
three parts. `TokenInv` is about tokens and rows: no two rows have one host, and a row is the placeholder of a token or the device of a router that enrolled (`RowsFit`); a bootstrap call
past its first statements has a row made with its token (`PasteFits`); the placeholders made with a token are one, unless two bootstrap calls used the token at once, and none is made once it is claimed and nobody uses it any more
(`TokenFits`, `Spent`); an agent that is installed, or is checking in, is known by a row that stays (`AgentFits`, `CheckinFits`). `ScriptInv` is about the routers that run the script: each call of theirs works
on their own row (`ScriptCallFits`), and as long as a router gave no call up, what its calls have acknowledged so far, however often they failed half-way, is in that row and is not taken away by the next one
(`ScriptFits`, `Acknowledged`, `Counts`). The third part is the types. That the calls of different routers leave each other's rows alone is proved once (`SameRow`, `RouterStays`, `OthersStay`), so that each action is
shown to keep the invariant for the call that takes it only. `DevicesPerToken` follows from both by counting (`TheDevicesOfAToken`): a row made with the token is the one that bootstrap calls left, which keeps its placeholder's or an address's host, or that of a router
that enrolled with it, and such a router has one row (`RowJoins`). `DoneIsWhole` follows from `ScriptInv`; `ManagedStays` is an action property that each action is shown to keep with the
invariant (`StaysManaged`). Assumed is that there are finitely many routers; any of them may be behind one address.

**Access** (`AccessProofs`). That somebody is enabled is not inductive: a request that has passed the sign-in strikes later. `Safe` adds that, while no two
users were about to strike at once, all the requests about to disable or remove somebody are of one user (`StrikersAreOne`), who is enabled
(`StrikersAreEnabled`); the form refuses to strike that user, who therefore remains. The property also covers a controller that is set up and whose last user
is gone, so that the invariant speaks of any controller that is `Populated`: it has a user or a site, or a setup has inserted its user and is on its way to the site. `SomeoneCanLogIn` follows. `RolesAsGiven` and `SetupLeavesAnAdmin` are about several
statements of one request. `RolesInv`: a row that is not there yet is referred to by nobody, and a user whose roles one request is replacing has none between the delete and
the insert; while no two requests replaced the roles of one user at once, the roles are those of the last one. `SetupInv`: as long as no two setups were at work together, the tables hold what
the setup at work has inserted and nothing else. `SetupsInv` is about any number of setups, failing ones among them: whatever a setup has come to
stays (`HasCome`), and while nothing has thrown one of them is on its way to the role and the site (`SomeoneBrings`). `SetupIsWhole` follows from both. Assumed is only that the absence of a role is not the name of one.

Only model-checked: the liveness properties (`StartedJobsSettle`, `SessionsEnd`, `EndIsShown`, `ScriptEnds`, `ListSettles` and those of `Alerts`, `Monitoring` and `Mirror`). Liveness under fairness is out of the prover's reach here and stays with TLC.

## 6. Where code and documents disagree

One run checks a statement of the documents and finds it violated. `Scheduler_announce`: a job with steps that succeeds
emits no `job:succeeded`; the syslog listener for it and the last `job.updated` never come (`README.md` lists jobs that
can be observed). A browser that follows the job may go on showing it as running at 100 percent until the page is loaded again.

Met while modelling, and part of the models without a run of their own; where a property says what remains true, it is named:

* The devices page offers "a one-time token to register a new device"; `enroll` checks a token and makes a device with it, but only
  `/agent/bootstrap` and the acknowledgement claim one, so that a token makes a device for every router that enrols with it. `DevicesPerToken` counts them all:
  one placeholder, unless two bootstrap calls used the token at once, and one device for each router whose script was given it.
* A comment of `acknowledgeBootstrap` says "Claim any pending install token for this device"; what it claims is the oldest unclaimed
  token of the site, whichever router it was made for.
* `SECURITY_MODEL.md` says of the SSH trust that it does not depend on the REST credentials and that the recovery path is always
  available; `replaceCredential` that stops between its two statements leaves no active credential, and every later
  rotation refuses to start without one, though it would change the password over SSH. What remains is that a job's row tells of it (`OneSecretAtATime`).
* An upgrade job is to install, wait for the reboot and verify (`PLAN.md`); its loop takes the first
  answer for that of the router that has come back, so that it may succeed with the old version. `FirmwareNeverAhead` is what remains.
* The row of a deployment says `success: true` when its commands have been sent over SSH; the catch around the session is empty, so that it says so whatever became
  of it. `DeploymentTold` promises the import only through the API.
* `PLAN.md` lists the enforcement of the cooldown as done; two evaluations that overlap fire twice
  at once. `CooldownKept` is about those that do not overlap; of any number of them `OneOpenAlert` says that each opens one event at most.
* The error of `createFirstAdmin` says that the initial setup "has already been completed"; the users are counted and the first one
  inserted in two statements, so that two setups may both complete. Each of them then is an administrator (`SetupLeavesAnAdmin`).
* A comment of `agent.service` says that a check-in whose version is known answers with a no-op; `updatedAt` is read before the row is
  touched, so that no check-in ever does. A comment of `routes.ts` says that a placeholder's host is replaced at enrolment; only a check-in does.
* `blockSetupIfComplete` is commented "Redirect away from setup if setup is already complete"; its condition is that of `requireSetupComplete`, so that it never
  does. The page stays, and `createFirstAdmin` refuses.
* Nothing mounts the components that open the action socket at this commit, and jobs without a site are not
  published: `JobFeed` is the path the components implement.

## 7. Limits of the code that the models show

The properties are stated with the conditions under which they hold; these conditions are findings too.

*Scheduler and rotation.*
* `Saga` lets the failing step be: `reverted` does not mean that the failing
  step's effect is gone.
* After a crash nothing resumes jobs: they stay `queued`, `running` or `rolling_back` for ever, and a tunnel
  whose removal is lost stays `removing`, which `deleteTunnel` refuses to remove again.
* `SuccessHeals`, `CleanRollbackRestores` and the first half of `OneSecretAtATime` need `~overlapped`: two overlapping rotations can
  both succeed and leave the store with the secret of one and the router with that of the other.

*Provisioning and renaming.*
* The revert of a renaming reads a previous identity from its payload, where nothing puts one; and the only step of a task is reverted only when the statement that
  records its progress fails, as the failing step itself never is. A renaming that says `reverted` may have left the new identity.
* `devices.identity` is written at adoption and enrolment only, so that a provisioning rolled back after a renaming gives back the identity of the adoption.
* When two rename forms interleave, the name in the table and the identity of the router may be those of different forms.

*Adoption and removal.*
* `ManagedIsReachable` and `AdoptionTakesHold` need `~overlapped`: the read-only adoption deactivates the
  credentials of every purpose, and may do so after a managed one has stored its own and before it marks
  the device. Adopting a managed device again makes it `inventoried` until the new secrets are stored; if
  that fails it stays so, while the store may hold an old REST password and the router the new one.
* A removal that has reset the router and fails before it deletes the row leaves a `fully_managed` device whose
  router is blank (the second disjunct of `ManagedIsReachable`). Its audit says that the device was reset and removed
  even when it found nothing to reset it with.
* An attempt whose job is lost in a crash, or ended by a statement of the scheduler, stays open
  (`AttemptTellsOutcome` names the conditions).

*Maintenance.*
* Two backups in the same millisecond would share a file name (the model's clock is strict); a row that cannot be inserted leaves a file
  that nothing lists.
* A check prefers `devices.routerOsVersion`, which no upgrade writes, so that the row may stay behind for ever.

*Access.*
* Two administrators who disable or remove each other at the same time both succeed (`SomeoneIsLeft` names it, and promises that nothing else leads to a controller without a user); with all users removed the setup is open again.
* A setup that stops after the user's row leaves a controller that counts as set up and has no administrator. Of two at once one may fail at the role that the other has inserted, and leave a
  user without one (`SetupLeavesAnAdmin` promises an administrator as long as nothing has thrown or a setup has completed, and that every user is one only without two at once).
* An administrator may give up the last `admin` role, or delete or rename it: only users, not administrators, are promised to remain.
* Two `setRoles` of one user at once may add up; one that stops half-way leaves no roles (`RolesAsGiven` names both).

*Tunnels.*
* A creation that fails before its last step has stored no keys; removing that tunnel finds no peers and
  succeeds (`RestIsAccountedFor` names the exception). A tunnel removed while it is created may stay on both routers though no command failed.
* The /30 is the number of rows: after a removal, or when two forms count at once, two tunnels have the same addresses (`recounted`).
* Removing a tunnel takes the route of another one to the same range, or the interface of another one whose remote name begins with the same eleven
  characters; it does so even when the first tunnel's creation had been refused because of that interface (`taken`, `otherLost`).

*Alerts.*
* `CooldownKept` and the first half of `OneOpenAlert` need `~raced`.
* An alert that fires between the two statements of `createRule` notifies nobody; the notifier reads all channels in one `Promise.all`,
  so one that cannot be read drops the message for all; a channel made later is never linked to a rule.
* The open event of a removed device is never resolved, and a disabled rule leaves its events open until it is enabled again (`EventsFollowCondition` names both).

*Monitoring.*
* After a restart the syslog service does not log that a device it had logged as offline is online
  (`LogFollowsStatus` names the restart).

*Terminal.*
* A shell or socket that closes during the await before the listeners is only ended by the idle timer, which is why
  `SessionsEnd` needs it. An error of `spawn` before the listener, an audit that cannot be written, or a key sent to a pipe
  that has just closed ends the Node process.
* The late close of an older socket sets the pane to `closed` under a newer session.

*Agent.*
* `bootstrap/ack` claims the oldest unclaimed token of the site: the router it was made for is then refused, as is one whose own answer was lost (`ScriptEnds` names both).
* The answer with the agent's script may be lost after the token is claimed: a placeholder remains, and no agent.
* `enroll` writes back the state it has read a statement before (`ManagedStays` excludes the calls a router has given up, and an approval inside an enroll).
* `ack` for a device without a site throws at the same statement each time. Two routers behind one address collide at the unique host: the second's check-ins are refused.
* No user interface calls `adopt(serial)`, without which `enroll` never answers `approved`.

## 8. Not modelled

* *Discovery and the device feed.* Neighbours heard by MNDP, kept in memory by one listener, and the events the devices page is sent. Met while
  reading: a page whose store is empty falls back to what it has loaded, so that an adopted router may appear again
  until the page is loaded anew.
* *Passwords, and what a role may see* (`Access` has sign-in and administration; which page asks for which role is a check per request without state).
* *Other device tasks* (configure a port, VLAN, firewall rules): one or two commands each, on the scheduler that is modelled, and nothing in the database. Met while
  reading: the task of a port has one step of two commands, so that it ends as `reverted` with the first of them carried out.
* *Two tunnels between the same two routers*, and what else of another tunnel than the item it shares.
* *UI markup.* Of the 32 thousand lines that count as implementation about two thirds are Svelte pages, an example and component libraries without
  state of their own; the server side, where the behaviour is, has about ten thousand. The modules cover most of the parts of it that keep state;
  formatting, validation, queries for display, encryption and parsers of RouterOS answers make up the rest.
* Routers beyond what the modelled tasks change; SSH and REST are calls that succeed, fail, or fail after taking effect.
* The database beyond single statements: a statement is atomic and either commits or throws.
  A statement that commits and whose answer is lost is not distinguished from one that throws before
  committing.

## 9. Plan

What stands: (1) `Scheduler` with `Saga` and its proofs; (2) the tasks on top of it, `RotateSecret`, `Identity`, `Tunnel`, `Adoption` with the removal, `Maintenance`, and
`DeviceJobs` that composes those of one device;
(3) what runs beside the jobs, `Alerts` with rules and notifier, `Monitoring`, `Mirror`; (4) what faces the outside, `JobFeed` with `View`, `Terminal`, `Agent`, `Access`. What is left:

* Monitoring timers: start and stop, pruning, the daily tasks, topology links.
