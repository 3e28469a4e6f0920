# Conduit in TLA+

Conduit is a small CRM: one Node process (Fastify) in front of one PostgreSQL database,
with a loop per mailbox that talks IMAP, files on disk, and a browser client. It runs on
a YunoHost server, behind SSOwat, for one organisation. Most of it is single-row reads
and writes that PostgreSQL keeps apart. What PostgreSQL does not keep apart is what this
project is about:

* a **restore** replaces the whole database, the mail key and the stored files while the
  process goes on running: requests, mail loops, caches and timers all hold state of the
  install that is being replaced;
* the **mail sync** starts, stops and replaces long-running loops from several
  asynchronous callers, with timeouts;
* **uploads** that wait for a decision hold a decrypted backup on disk, with a timer that
  deletes them and handlers that use them;
* the **mirror** of a mailbox is written by the loop's passes, by users who move and mark
  messages before the server has agreed, and by the server and other mail clients;
* **documents, files and backups** meet in one directory and one connection pool, and a
  backup looks at both at three different times;
* a **cascade over the Gantt** reads in one statement what others change before the next.

Paths below are relative to `src/packages/api/src/` unless they begin with `src/`.

## Inventory

| Part | State it keeps | Operations | What is hard | What makes it correct |
|---|---|---|---|---|
| Write gate (`services/write-gate.ts`) | shut or not, `except`, `#inFlight`, waiters | admit, finish, refuseNewWrites, resume | drain against timeout, abort, two closers | one owner; nothing writes past a drain; it reopens |
| HTTP hooks (`app.ts`, `users.ts`) | identity cache | two onRequest hooks, onResponse, onRequestAbort | GETs that write; a hung-up client | only counted requests write |
| Restore routes (`routes/restore.ts`) | — | inspect, apply, discard | order of gate, sync, plan, answer | exactly what was shut is opened again |
| Restore (`services/restore.ts`) | database, `mail.key`, `files/`, safety backups | eight effects in order | psql's commit, crashes, partial failure | a way back exists; the answer is so |
| Intake plans (`services/intake-plan.ts`) | `#sessions`, `#inFlight`, expiry | hold, get, use, discard, sweep | lookup-then-use, capacity, timers | a plan is applied once, by its owner, with its staging |
| Intake staging (`services/intake.ts`) | work directories | receive, dispose, sweep at boot | crashes | no decrypted archive is left |
| Import (`routes/import.ts`, `services/import-*.ts`) | one transaction | inspect, map, apply | as intake | all rows or none |
| Sync manager (`services/mail-sync.ts`) | `syncs`, `chain`, `abandoned`, `started` | start, stop, accountChanged, syncNow | every await; a stop that times out | one loop per mailbox; every live account has one |
| Account sync (`services/mail-sync.ts`) | queue, cursors, backoff | pass, flags, moves, append | UIDVALIDITY, poison, stop and crash in any step, moves behind its back | no message passed over; after a quiet pass the rows are the server's; whoever waits hears |
| Mail move (`services/mail-move.ts`) | optimistic rows | collect, move, queue, revert | concurrent moves, a pass in between | what is accepted was asked for |
| Mail ingest, threads, folders | messages, threads | ingest, adopt, thread | sightings of one message | one row per message and account |
| Mail send (`services/mail-send.ts`) | — | send, append, record | death between SMTP and the record; a late APPEND | the answer is so |
| Accounts, key, OAuth (`services/mail-accounts.ts`, `mail-crypto.ts`, `mail-oauth*.ts`) | credentials, key cache, sign-ins | change, load and forget key, sign in, renew | stale key; renewals against sign-ins; a late verdict on the old grant | newest sign-in stays; a healed account becomes active; key is the disk's |
| Re-authentication (`services/reauth.ts`) | tickets, attempts | issue, redeem, reserve, release | full maps, expiry | a ticket is used once; the throttle counts |
| Backup (`services/backup.ts`, `routes/backup.ts`) | work directory, one counter | build, stream, sweep | walk, snapshot and 7z at three times; two uncoordinated builders | every row's file is in it; every listed member is in it |
| Tasks and scheduling (`services/tasks.ts`, `scheduling.ts`) | dates, dependencies, an advisory lock per project | drag, compact, add and remove a dependency | statements that each see newer rows; edits that take no lock | the least schedule; after a compaction no overlap and no task later than it need be; no cycle |
| Documents and files (`services/documents*.ts`, `files.ts`, `blobs.ts`) | number sequences, render slots, connections, `files/` | issue, re-draft, upload | waits inside a transaction; rollback and crash | gapless numbers; slots accounted; rows have bytes; everybody is answered |
| Timers, pipelines, SSE, export, CRM records | rows | CRUD with a transaction each | unique indexes, locks, order keys | per table |
| Boot and shutdown (`server.ts`) | — | migrate, listen, start sync | a boot after any crash | nothing listens on an unmigrated database |
| Web client, packaging | — | — | — | not modelled |

`PROJECT.json` lists every part with its status, and every hazard at its line with the
properties that would catch it, or why none does yet.

## The modules

### WriteGate and RestoreGate: who can write while a restore runs

`WriteGate` is the class, one operator per method, on `refusing`, `except`, `inFlight` and
one `drain` answer per caller. `RestoreGate` composes it with what goes through it: the
hooks of `app.ts` in their order (`Arrive`, `Identify`, `Resolve`, `Respond`, `HangUp`),
handlers that read or write, and `POST /api/restore/apply` step by step between its awaits
(`LookUpPlan`, `Close`, `Drained`, `SyncStopped`, `LoadBegins`, `LoadCommits` and
their refusals). The `finally` of an apply opens the gate and then awaits start(). What one
that failed answers was sent before (`ReleaseFailed`: its start() ends behind the answer,
`SyncRestartedBehind`); what a successful one returns goes out after it (`ReleaseRestored`,
`SyncRestarted`). PostgreSQL's lock queue is a guard: while the load holds its locks no
statement reaches a table; one that was issued before the commit and runs after it is an
*intruder*. The mail sync is reduced to the answer `stop()` gives, the start()s that are pending
(`starting`), and three kinds of loops: those stop() knows of, the orphans that `SyncManager`
shows to exist, and the *late* ones, which a start() has made after a later stop() had answered
(`overtaken`).

Runs: `restore_gate` (two applies, a write whose client may hang up, the OAuth callback, one
user whose cache entry expires) checks that the gate has one owner, that only three named
kinds of request overlap an apply or cross the commit, that no mail loop runs during it that
`stop()` knew of, and none begins during it but by a start() of another apply, which failed,
has been answered and was overtaken by the stop(); and that gate and sync always come back.
Two applies and one of each kind of writer are enough: the properties relate two requests, and
the proofs cover any number. The properties name the holes, and each is a disagreement with a
comment of the code: see "Where the code and its comments part".

Fairness: only the apply handler's own steps. Its awaits are a scrypt, two timers, psql and
a SELECT; other handlers and clients may stop anywhere. That psql ends is an assumption:
the code sets it no limit (a hazard without a property).

### SyncManager: one loop per mailbox

One action is one turn of the event loop. `ChangeAccount`, `SyncNow`, `BeginChange`,
`ReconcileAccount` and `ReconcileFails` are accountChanged's chain and its SELECT; `EndLoop`
resolves a loop's promise and everything that awaited it; `BeginStart`/`Start`/`StartFails`
are start() around its SELECT; `CallStop`, `TellLoops`, `AnswerStopped` and `TimeOut` are
stop() around its awaits, including its continuation after it has answered. Microtasks go
before turns. Three history variables let the properties except what the code does wrong and nothing else: `overtaken` is the loops that a
start() made although a later stop() had begun, `cleared` the accounts whose running loop the
continuation of a timed-out stop() took out of the map, and `failed` says that a SELECT failed.

Runs: `sync_manager` (one account, three loop objects, two concurrent changes and stops, three
changes, two restores: enough for a stop to time out, be overtaken by a start and be followed
by another) checks that the map is exact, that of two loops on a mailbox one is always a named
orphan or an overtaken one, that after a stop() that answers "stopped" nothing else is left,
that a live account has a loop or is about to get one unless it is one of the `cleared`, and
that an abandoned account gets its loop back. Accounts do not interact but through start() and
stop(), so one is enough for these. Fairness: every await ends; the IMAP client has a socket
timeout, the SELECTs a server. CHECK_DEADLOCK is off because the counters end. The
safety properties of loops are not switched off by what happened before: they except single
loops, and `LiveAccountHasLoop` single accounts, each a row of the table below. A SELECT of the
manager that failed does excuse a missing loop (`failed`): the code promises nothing then.

### IntakeSessions: uploads waiting for a decision

The store of `intake-plan.ts` and the directories of `intake.ts` under concurrent requests
of two kinds (restore, import), with expiry, the sweep timer, hang-ups, and deaths of the
process. A plan, its upload and its directory are one element of `Plan`. Sweeps are in the
operations that make them (`SweepStore`). Of the gate it uses only what `RestoreGate`
establishes, hang-ups included. Every removal may fail, which the code passes over: the directory
is then `stuck` until the next boot. The sweep of the boot is awaited by nobody, so that it may
list (`ListLeftovers`) after the first uploads have come, and what it finds of the running process
is `caught`.

Runs: `intake` (three requests, two users, two plans, one crash, one failed removal:
`MaxStuck`) checks that every directory is somebody's to remove, or waits for the next boot
after a failed removal; that nothing removes the directory of a plan that is held or applied,
but for a sweep of the boot that caught it; that a plan is applied once and by its owner; that
while a restore is applied no other plan is; and that no staging stays for ever but a stuck
one. Three requests are an apply, a racing one and an upload. Fairness: handlers end, time
passes, the timer fires; nothing obliges a user to decide. Two imports can be applied at once,
which `RestoreIsAlone` does not exclude: it speaks of restores.

### RestorePromise and RestoreApply: what a restore promises and does

`RestorePromise` is four variables: what the database holds, what it held before, what safety
backups have been proved to hold, what the operator was told. Its steps: keep; replace, only
what was kept and only before an answer; answer, only what is so.

`RestoreApply` is `applyRestore` in the order its plan gives: safety backup, prove it opens,
stored files, preflight, psql's transaction, comparison with the promise, mail key, forgetting
the cached key, migrating forward; each with its failures and the answer `restoreFailure`
makes of them; with psql as a process of its own, the key cache, and a death of the process at
any step followed by a boot. A database, key or file set is known by the archive it came from:
`db.of`, `key`, `blobs`. The refinement reads `Held(db)`, what the database is and whether all
of it is there, as the promise's content.

Runs: `restore_apply` (two restores, two deaths; the second restore finds whatever the first
left, which is all a third could) checks the refinement and six invariants: the undo is
there, the key is never ahead of the database, files precede rows, no stale key, the answer is
so, the printed commands go back (but for `unexpected_migrations`, see below).
CHECK_DEADLOCK is off because the restores are bounded.

Assumptions: the keys of two archives differ (the worst case); nothing else writes (the other
modules say when that is so); psql's exit is the end of its transaction, so a connection lost
at the COMMIT is not covered; a boot waits for the locks of a load that has not ended. A
process that dies during the load ends psql's input, and `--single-transaction` commits what
it has: the model contains the half-loaded database with nobody told, and what is claimed of
it is that the safety backup exists. `restore_failed` says which state the install is in by
the effect it names (`stoppedAt`), and together with load_failed and half_applied it carries
the list of what was dispatched and not realised (`Unrealised`), which the code calls the
answer to whether the destruction happened. `AnswerIsTrue` holds the answer to both. The list
is wrong in two cases, its named exceptions: measuring a committed load has failed
(`stoppedAt = "check"`), and a half_applied, which says itself that the state is unknown. For the promise
these two are `"unknown"`.

### MailMirror: the rows of one mailbox

One AccountSync (`mail-sync.ts`) against an IMAP server that keeps folders, UIDs, flags and
UIDVALIDITY. The pass is cut at its awaits: `BeginPass`, `OpenFolder` (with the UIDVALIDITY
reset), `FetchNewer`, `Ingest` (with `MessageVanished` and `SkipPoison`), `SaveCursor`,
`FetchFlags`, `ReconcileFlags`, `EndPass`. Between passes it drains its queue (`RunTask`,
`TaskRefused`, `TaskAnswerLost`) and waits (`Wake`); it can fail, be stopped, torn down
and made again. Users move (`Collect`, `ApplyOptimisticMove`, `QueueMove`, the answer,
`RevertMove` or `RevertFails`) and mark as read. Arrivals, other clients, renumbering and
crashes happen anywhere.

`mail_mirror` has two messages in three folders, two requests that may overlap, and one piece
of trouble of any kind beside reverts that fail: two messages are a move of a group and a
message that takes an old UID; three folders are a move of two groups; a second piece of
trouble mostly repeats the first and costs an order of magnitude. `mail_mirror_live` has one
folder fewer and batches of two, and asks that waits end and that the mirror settles.
`MirrorsTheServer` excludes the messages the model records in `adrift`, where it happens to
them. `mail-move.ts` lists one such case under RESIDUAL STATES: a crash or failed revert after
the optimistic move. The others it does not list: a lost answer of a move into a folder nobody
walks, a row that changed between the collect and the optimistic move or was sighted during
it, a mailbox renumbered meanwhile, or before it in a folder nobody walks, another client's
move to where nothing looks. Fairness: the loop's steps and each request's. Every IMAP call
has a socket timeout, every wait a timer, and the database answers. New trouble is bounded, so
"quiet for long enough" is reached. All messages are inside the backfill and flag windows; a
message is in one folder at a time; a move is one chunk per folder.

### MailAccess: the sign-in and what uses it

Sends, the loop and sign-ins share one grant. An actor reads the row (`Load`), renews the
access token (`Renew`), stores the result by compare-and-set (`Persist`), and works. A sign-in
runs from its state to `Store`, which tells the loop to stop. The loop writes its verdict in a
later step (`WriteState`) than the failure that gave it. A send goes through SMTP, the queue of
the loop, a timeout and the record. Three kinds of provider are considered: renewals that
return no refresh token, that return one beside the old, and that retire the older one.

`mail_access` (one send, one new sign-in, two expiries, two faults, four tokens) has every
overlap of a renewal by the send, a renewal by the loop and a sign-in. `LapseHeals` assumes
WF of the loop alone: its waits are timers. Archiving an account is a refusal at each of the
checks; rows that do not decrypt are left out. At the bound of tokens no more are issued.

### DocumentIssue and BackupSnapshot: numbers, slots, files and the backup

`DocumentIssue` is a request that issues a document in one transaction on one connection:
number row (`AllocateNumber`, `LockTimeout`), merge, render slot (`SlotTimeout`, `Rendered`,
`RenderFails`), the blob (`OpenTmp`, `SettleTmp`, `SaveFails`), the row of the file in a
savepoint, for a re-drafted letter the row of its document, `Commit` or rollback; and uploads,
which take a connection only at the end. PostgreSQL is row locks to the end of the transaction
and rollback without a trace. `document_issue` has two quotes in one or two years and two
re-drafts over two connections (10 in the code) and one slot (2), with a crash: as many
requests as exhaust each resource while another holds the other. Fairness: each request's own
steps, for each waits for a timer or for somebody whose holding is bounded; that is what
`IssueEnds` checks, since the wait for a connection has no timeout of its own. Whether a
record is archived or a letter frozen, and whether its template has gone, is a choice. stat
and rename are one step, which the content addressing makes harmless. fsync and power loss,
drafts, publishing and voiding are left out.

`BackupSnapshot` adds `buildBackup` at its awaits: the walk and the stats, the sweep's listing
(`ListWork`), its removals and the work directory (`MakeWork`), the exported snapshot,
pg_dump, 7z's listing and its reading, the stream; the counter of the route, which a restore's
safety backup does not share; the boot sweep nobody awaits, which may list late (`BootList`,
`BootSweep`); and the closed gate. Any removal of a sweep may fail; a build's own disposal is
taken to succeed. `sweptBy` notes which sweeps have taken the directory of a running build:
the boot's may, and that of a restore's build may take the route's and the reverse, but no
build is swept by one of its own kind. `backup_snapshot` has two builds of the route and one
of a restore, with one crash, beside one request (`MaxRequests`), a letter or an upload, of a
store that may hold a file already; `backup_refused` has two requests. Two requests beside
builds are left to the proofs. A backup contains everything its rows refer to unless the store
was empty at the walk (`blobs.length > 0`, line 1040): then a first file that is stored before
the snapshot is a row without bytes in that archive. No fairness: only safety is asked.

### TaskSchedule: the Gantt

`shiftTask`, `compactSchedule` and `addDependency` statement by statement under READ COMMITTED
and the advisory lock of their group, with everything that takes no lock (dates, status,
project, archiving, removal of a dependency) in between, and a death of a call. The UPDATEs
and the COMMIT are one step: no UPDATE reads what another may have written since.
`task_schedule` starts from every acyclic graph on four tasks (up to names) and two sets of
dates, and makes two calls or edits. The walk of addDependency reads one level at a time, so
that what is removed between two levels is seen or not (`MaxVisited` is 3 for the code's
10,000 and never bites: a fourth task would be the predecessor). Its reference definitions are
independent of the code's loops: `Least` is a longest path, and tightness is stated of the
resulting schedule: each movable task, whether the compaction moved it or not, starts no later
than its predecessors, today and the floor oblige it to, and one with predecessors starts
exactly then (`NoSlack`). Both are asked of a call whose reads nobody wrote under; of one that
was written under, the code promises nothing but to end. Sub-tasks, order keys and createTask
are left out; `MaxPasses` is 5 for the code's 500, and `ShiftIsLeast` says that the guard is
never reached on so many tasks.

## What is proved

TLAPS checks, for all values of the constants:

* `RestoreGateProofs` — type correctness, `GateHasOneOwner`,
  `OnlyTheHolesOverlap`, `IntrudersAreTheHoles`, `SyncIsSilent`, for any sets of requests and
  users. None is inductive. `Inv` adds that `inFlight` is exactly the admitted writes whose
  client waits, that a drain is answered "drained" only when nothing but its caller is in
  flight (and nothing is admitted after), that the holder is the one with a drain outstanding,
  that a pending start() is of an apply that has let go (`StartersAnswered`), and that from
  stop() to the release the manager is stopped and every pending or late start() is one the
  stop() overtook (`SyncStaysStopped`). From `KindsAssumption` (the kinds of request
  are disjoint) and `NoRequestAssumption`.
* `RestoreApplyProofs` — type correctness, `UndoIsThere`, `KeyNeverAhead`, `BlobsPrecedeRows`,
  `AnswerIsTrue`, `KeyIsNotStale`, `CommandsGoBack` and `PromiseKept`, for any number of
  restores and deaths. `IInv` adds what each step finds: archives are loaded in the order of
  the restores (`Order`: a database is never newer than the last restore, a key never newer
  than its database); before the load nothing has changed and psql's target is what the safety
  backup holds (`Untouched`, `Prepared`); after it the database is the backup's (`Loaded`).
  Without `Order`, "replaced" could hold of a restore that loaded what was there; without
  `Untouched`, an open psql of a dead process could commit over a database nobody kept. The
  refinement maps Begin, the proof of the safety backup, psql's commit and each answer to the
  promise's four steps and everything else to a stutter. From `RestoreApplyAssumption` (the
  two bounds are naturals).
* `RestoreApplyProofs` also proves `CommandsGoBack`, by an invariant of its own: under each
  answer whose commands it covers (all but `unexpected_migrations`) the mail key on disk is the
  one from before the restore, so that the database of the safety backup is all there is to put
  back.
* `IntakeSessionsProofs` — type correctness, `StagingIsOwned`, `StagingStays`,
  `PlanIsAppliedOnce`, `RestoreIsAlone`, for any numbers of requests, users, plans and deaths.
  `IInv` says that a directory has at most one keeper in the process at every step, the
  request that uploads, applies or disposes of it, the store or its sweep (`Kept`,
  `OneKeeper`); that one without a keeper is the boot sweep's to list or to remove, or stuck
  (`AllKept`), and that what this sweep has of a keeper's it found by listing late (`Boot`);
  that `#inFlight` is the applies (`Uses`); and that a restore past its drain has the gate and
  only requests without a client beside it (`Gate`).
* `SyncManagerProofs` — type correctness, `MapIsTheLoops`, `SecondLoopIsOrphan`,
  `StoppedButForOrphans`, `LiveAccountHasLoop`, for any accounts and calls. That every loop which has not ended is
  in the map, abandoned, awaited by a change or told by a stop (`Known`) is inductive. The
  *books* of a restore, that the loops it waits for are one to an account and have no
  successor in the map, hold of every loop but those of a start() that the stop() overtook,
  each of which is the map's entry of its account; so the two properties hold after an
  overtaken start() as well. For `LiveAccountHasLoop` a second invariant follows what a stopped
  manager has in its map, the loops that stop() will tell and running ones of an overtaken
  start() (`Paused`); and a loop that stopped itself, of an account that is live again, which is
  about to be replaced or is abandoned (`Winding`).
* `MailMirrorProofs` — type correctness, `NoMessageIsMissed`, `MirrorsTheServer` and the
  action property `AcceptedMoveIsAsAsked`, for any messages, folders, requests and troubles.
  The first needs what a pass knows between its awaits (`Cursors`, `Walk`): of a folder that
  has not been renumbered since it was opened, everything behind the walk is recorded, and
  what is before it is on the list or arrived later. The second needs that a UID noted in a
  row or a request means one message until its folder is renumbered (`Same`), and that a
  queued task is the one its caller waits for (`Queued`). `MirrorsTheServer` is stated of a
  state in which many steps lie behind, and takes two invariants. The first holds at all
  times: a message behind a cursor or the walk is where its row says, or in a move that will
  put it there, or residual (`Sure`); one in a folder nobody walks has a row that says so
  (`Rows`); and a row that a request has moved is where that request alone put it (`Holding`,
  `Moves`). The second says how much of the pass is done (`Stages`, `Quiet`): since the last
  thing that happened, the folders the pass has left are clean, everything of the folder it is
  in is behind the walk or on its list, and the flags it has fetched are the server's.
* `MailAccessProofs` — type correctness, `NewestSignInStays`, `SendIsTruthful`, for any
  providers, sends and sign-ins. `Grants` says that the two tokens a renewal carries across
  an await are of one sign-in, so that a compare-and-set that succeeds does not change whose
  grant the row has; `Sends` says which sends SMTP has accepted at each of their steps.
* `BackupSnapshotProofs`, of `DocumentIssue` — type correctness, `NumbersAreGapless`,
  `SlotsAreAccounted`, `RowsHaveBlobs`, for any requests, years, pool and slots. `Numbers`: a
  quote between its number and its end holds the row lock of its year, and its number is the
  row's plus one; `Slots`: the count is the renders under way, and nobody queues beside a free
  slot; `Blobs`: bytes are there from the rename on.
* `BackupSnapshotProofs`, of `BackupSnapshot` — type correctness, `BackupIsWhole`,
  `WorkDirsFollowBuilds`, and `RowsHaveBlobs` again beside builds, which take connections from
  the same pool. `Dumped` carries the argument for the archive: what a snapshot refers to was
  stored before it and is never taken away, so 7z lists it. For the directories it is that one
  build of the route is counted (`Counted`), one restore builds (`OneRestore`, which is the
  gate's doing), and that the boot's sweep lists once and then removes (`BootSweeps`).
* `TaskScheduleProofs` — type correctness, `CyclesNeedAMove`, `CompactIsTight`, `ShiftIsLeast`,
  and that the advisory lock excludes (`LockExcludes`), for any tasks, dates, graphs, projects
  and calls. `Walked`: an edge out of what a walk has visited leads back into it or starts at the
  level it has not read yet, which removals keep and, while the calls agree on one lock, nobody
  else adds to; so what a finished walk has visited is closed, and an edge into a closed set from
  outside it closes no loop (`ClosesNoLoop`). `Reads`: what a compaction has read under its lock
  is still so, since the other writers wait for the lock, write to other groups (`Within`) or are
  noted by it; the sweep is a recursive function over the graph, which exists because there is no
  way round (`Recursion`: take a largest set of tasks on which it does). `Cascade` is what a drag
  keeps from pass to pass: a moved task is later than it was, at its length, and no later than
  some moved predecessor makes it; every edge out of what moved before this pass's frontier is
  satisfied; and the frontier lies in a set that nothing leads out of and that shrinks with each
  pass (`Narrower`), which bounds the passes. When the frontier is empty this is the equation of
  the longest paths, and a graph without cycles has one solution of it (`LeastIs`). The order of
  the edges within a pass is any order (`FoldKeeps`, `PushKeeps`). From `GraphsAssumption` (the
  graphs to start with have no cycles), `ScheduleAssumption` (the tasks are finitely many) and,
  for `ShiftIsLeast` alone, `Cardinality(Task) <= MaxPasses`: a chain of more than 500 tasks that
  are all pushed does fail, as the code says it will.

The assumptions on constants are that sets meant to be apart are (`KindsAssumption`,
`IntakeAssumption`, ...), that bounds are naturals, that there are a message and a slot for
a loop, and that None is not a value. In `MailMirror` UIDs are all the naturals.

Only model-checked: the liveness properties (`GateReopens`, `SyncComesBack`,
`AbandonedComesBack`, `StagingIsRemoved`, `MoveIsAnswered`, `Settles`, `IssueEnds`, `LapseHeals`).
Liveness under fairness is beyond the provers.

Every safety property of the passing runs is a theorem. The type invariants are theorems
(`Types`) and no property of a run.

## Findings

Each is a run in which TLC refutes a sentence of the code.

| Run | Sentence | What happens |
|---|---|---|
| `task_moved_away` | `services/scheduling.ts:484`: the successor of a project's task is always in the project | updateTask moves a task and leaves its edges; the compaction reaches a successor it has no row for and throws |
| `backup_refused` | `services/backup.ts:1019`: what goes away between the walk and 7z fails the build | the temporary file of an upload is listed by the walk and renamed before 7z lists the directory; 7z exits 0 and a restore refuses the archive as incomplete |

### Where the code and its comments part

These have no run of their own: a property that holds names each as its exception, so that
whoever repairs the code can strike the exception out.

| Sentence | What happens | Named in |
|---|---|---|
| `services/write-gate.ts:29`: exactly one GET writes | the OAuth callback is a second one, and its row can land in the restored data | `IntrudersAreTheHoles` |
| `services/write-gate.ts:130`: drained means nobody else is writing | a client that hangs up takes its running handler off the count | `OnlyTheHolesOverlap` |
| `services/mail-sync.ts:1724`: two loops on one mailbox are ruled out | a loop that an account change awaits is in neither map when stop() times out; the continuation of a timed-out stop() tells the loops of the later start() to stop after it has answered; a start() whose SELECT answers after a later stop() has begun does not see what that stop() is waiting for | `SecondLoopIsOrphan` (`Awaited`, `ToldTooLate`, `overtaken`) |
| `services/mail-sync.ts:1796`: a missing loop is the worse of the two, and ruled out | the same continuation clears the map of the loops of the later start(), and nothing makes them again | `LiveAccountHasLoop` (`cleared`) |
| `routes/restore.ts:716`: the sync is already stopped by here | a failed apply answers before its start() is done; the next drains, stops a manager whose SELECT is pending, and the loops begin while its backup is being applied | `SyncIsSilent`, `StoppedButForOrphans` (`overtaken`) |
| `routes/import.ts:437`: two applies cannot overlap | use() takes the plan out of the map whose size is the capacity | `RestoreIsAlone` (of restores only) |
| `services/restore.ts:2556`: without the drops the command does not work | RestoreUnexpectedMigrationsError prints the commands without drops, and never restores the key | `CommandsGoBack` |
| `routes/restore.ts:904`: `unrealised` is the only honest answer to whether the destruction happened (so too `services/restore.ts:137` and `services/intake-plan.ts:257`) | the load has committed and measuring it throws: restore_failed lists destroy-schema as unrealised. half_applied may list it of a load that committed | `AnswerIsTrue` (`stoppedAt = "check"`, half_applied) |
| `services/backup.ts:783`: the sweep is safe because the route allows exactly one build | a restore builds its safety backup beside it, and each sweeps the directory of the other | `WorkDirsFollowBuilds` (`sweptBy`) |
| `routes/backup.ts:106`, `routes/restore.ts:290`: a work directory at the boot's sweep can only be a dead process's | nobody awaits the sweep, and its listing may come after the first build or upload | `WorkDirsFollowBuilds` (`"boot"`), `StagingStays` (`caught`) |
| `services/mail-move.ts:151`: the states a move can leave behind | the list leaves out a row that changed between the collect and the optimistic move, and the other cases of `adrift`; and a UID of a folder nobody walks, noted before the folder was renumbered: the MOVE finds nothing and is answered OK, the row says the target, and no pass looks | `MirrorsTheServer` (`adrift`, `NotFound`) |
| `services/mail-sync.ts:1095`: no stale UID is matchable after a reset | a revert puts back a UID it read before the folder was renumbered | `AcceptedMoveIsAsAsked` (renumbered folders) |

### Steps taken together

Where the code awaits and the model does not cut, because nothing the properties see can come
between, or because what can is there already as another action:

* `TaskSchedule.Pass`: the edges and then the rows of their successors (`scheduling.ts:217`,
  224). Of a drag under which a row was written nothing is said.
* `TaskSchedule.BeginAdd`: the rows of the two tasks (`tasks.ts:612`). Only a task that
  changes its project tells them apart.
* `TaskSchedule`: the UPDATEs of a call and its COMMIT, none of which reads anything.
* `MailMirror.ApplyOptimisticMove`: `enableTargetSync` and the rows (`mail-move.ts:862`,
  1068). Enabled a moment before is what `SetFolderSyncEnabled` followed by a move that files
  nothing does.
* `MailMirror.MarkRead`: the UPDATE and the write-back queued a moment later
  (`mail-threads.ts:1102`). A pass overwrites the row in between as it does while the
  write-back is queued, and a crash in between loses it as it loses the queue.

## Not modelled, and why

Parsing (MIME, CSV, ZIP, 7z headers), threading heuristics, HTML, money and calendar arithmetic
are functions of text with table tests of their own; exports and search only read; CRM records
and timers are one transaction per row, decided by one UPDATE or an index inside PostgreSQL; the
web client (half of the source) renders and keeps no shared state of its own, and neither does
the packaging. The order of a shutdown and PostgreSQL beyond its locks and snapshots are left out.
Of a provider that retires a refresh token when it renews it again the code promises nothing: the
compare-and-set keeps the token stored first, which may be the retired one, and the user is asked
to sign in again.

## Plan

The order is that of what would hurt most. Done: `WriteGate`, `RestoreGate` and proofs;
`SyncManager`; `IntakeSessions`; `RestorePromise`, `RestoreApply`, proofs with the refinement;
`MailMirror`; `MailAccess`; `TaskSchedule`; `DocumentIssue`; `BackupSnapshot`; and their
safety properties proved.

Left, each for a run it would take from what is settled:

1. The order keys (`fractional.ts`) against a reference order on a small alphabet.
2. `Reauth`: tickets and throttle with expiry at the boundary and full maps.
3. `inspectRestore`'s rules: what a manifest must say to be planned.
