# PgForge in TLA+

PgForge is a self-hosted workbench for PostgreSQL: a Node server (`src/server`,
Fastify and SQLite) that connects to the servers its users manage, and a React
application (`src/web`). This directory holds TLA+ models of its parts, the TLC
configurations that check them, and proofs for TLAPS.

    tlasany M.tla                          parse a module
    tlc -workers 2 -config X.cfg M         run a configuration
    tlapm M_proofs.tla                     check the proofs

`PROJECT.json` is the index: components, runs, hazards with their source lines,
theorems, the source lines each definition stands for, and for every checked
property one or more *mutants*, plausible bugs of the code (the operators marked
`Fault:` in the modules) under which TLC finds the property violated.

## 1. The system

The server is one Node process. It runs one callback at a time, so code between
two `await`s is atomic; between two `await`s come other requests, timers, exits of
child processes and answers of databases. What makes it hard is there: a function
that was interrupted goes on with what it read before. The browser has the same
shape: React state, a query cache and requests whose answers come when the user has
gone elsewhere.

| component | state | operations | correct when | module |
|---|---|---|---|---|
| metadata replication (`infra/metadata-sync.ts`, `metadata-pg.ts`) | SQLite file, a row in PostgreSQL, `dirty`, timer, uploads in flight, microtasks | `flush`, `markDirty`, heartbeat, `stop`, sync now, boot restore | uploads do not overlap, the row moves forward, no write is forgotten | `MetadataSync`, `DurableCopy` |
| boot of the metadata and change of its home (`index.ts`, `metadata.service.ts`, `env-file.ts`) | main file, write-ahead log, `.bak` copies, rows of targets, `.env` files | restore, open, save a target, remove it, crash | no committed write is in no copy; the setting saved last is the one that starts | `MetadataHome` |
| job registry (`infra/jobs.ts`) | `live` map, `jobs` table | create, finish, cancel, cancelAll, release, constructor | the first end of a job is its last, in memory and table | `JobManager` |
| backups and restores of a database (`backup.service.ts`) | `backups` table, files, child process and kill timer per job | create, restore, delete, cancel | no partial file survives, a success has its file, nothing hangs for ever | `BackupService` |
| whole-server backups (`cluster.service.ts`) | `cluster_backups`, work directory, bundle, a pipeline of tools | create, restore, delete, cancel | the same across a sequence of tools | `ClusterBackup` |
| schedules, retention, auto-delivery (`scheduler.ts`, `pruneSchedule`, `autoSend`) | `schedules`, lists read by prunes | trigger, edit, prune, hook | retention keeps the newest and gets down to its number | `Retention` |
| inspection databases (`startInspection`, `closeInspection`) | one scratch database and row per backup | start, close, delete, restore job | ready means whole; no database without a row | `Inspections` |
| migration server to server (`migrate`) | two tools and a pipe under one job | migrate, cancel, timeout | a success is whole, tools end | `Migration` |
| delivery channels (`delivery.service.ts`) | settings with secrets, a job per delivery | save, send, auto-send, cancel | the report is true, no secret is lost | `Delivery` |
| accounts, sessions, invitations, factory reset (`modules/auth`, `system.routes.ts`) | users, refresh tokens, invitations, token generation | login, rotation, users, invite, accept, reset | an administrator remains, tokens end with what they rest on | `Accounts` |
| roles, read-only connections, audit (`plugins/auth.ts`, every `*.routes.ts`) | claims of tokens, marks, the log | every route | what happens was allowed and is logged | `Access` |
| pools (`infra/pg.ts`, `connections.service.ts`) | a pool per connection and database | get, invalidate, evict, close | no pool of old settings survives | `PgPools` |
| SQL execution (`sql.service.ts`, `data.service.ts`, `inspector.service.ts`) | transaction and timeout of each client, running backends | execute, script, explain, cancel, edits | clients go back clean, failures write nothing | `SqlService` |
| browser session (`web/src/lib/api.ts`) | cookie, one refresh under way per page | call, refresh, logout | the session is kept, pages settle | `Browser` |
| query cache and pages (`App.tsx`, `features/*`) | cached answers, invalidation marks | open a page, change, answer | no page goes on showing what a change replaced | `Screens` |
| data grid (`DataGrid.tsx`, `data.service.ts`) | page, ticks, edited cell, cache | tick, edit, delete, insert, refresh | requests name the rows that were chosen | `DataGrid` |
| dialogs of the explorer | one slot, shared boxes, requests | open, tick, confirm, late answers | what is dropped is what was shown | `Dialogs` |
| forms of the application | page's copy, draft, request | edit, save, retry | what was typed is stored, the rest is left alone | `Forms` |
| SQL page (`SqlPage.tsx`, `InlineSqlPane.tsx`) | tabs, drafts, statement under way | type, run, cancel, analyze, hand off | text kept, the answer belongs to the text | `SqlPage` |
| codecs (SQL lexer, CSV, tar, DSN, `.env`, filters, cron) | none | functions | what is written is read back | `SqlSplit`, `TableText`, `Tar`, `Settings` |
| rendering, localization, plan tree, search over several databases, series of the monitor | none another component reads | | | not modelled |

## 2. The modules

    DurableCopy <--implements-- MetadataSync   MCMetadataSync, MetadataSync_proofs
    JobManager  <--implements-- BackupService  \ MCBackupService, BackupService_proofs
                                Access         /
                <--implements-- ClusterBackup  \ MCClusterBackup, ClusterBackup_proofs
      SqlSplit, TableText, Tar, Settings: Codecs /
                <--implements-- Inspections    \ MCTransfers, Transfers_proofs
                <--implements-- Migration      / (MCMigration: the finding)
                <--implements-- Delivery       \ MCMetadataHome, MetadataHome_proofs
                                MetadataHome   /
    Retention                                    MCRetention, Transfers_proofs
    Accounts                                     MCAccounts, Accounts_proofs
    PgPools <--extends-- SqlService              MCSqlService, SqlService_proofs
    Browser, Screens, Forms, Dialogs, SqlPage    MCWeb, Web_proofs
    DataGrid                                     MCDataGrid, Web_proofs

A module is one component. Where an MC module holds several that share no state, its
variable `about` (`topic` in `MCWeb`), chosen in the initial state, says which of them
a behaviour is about; the others stay as they are. `MCRetention` takes its component
through an instance too, so that its theorems can stand beside those of the
transfers. `JobManager` is extended by the services that have jobs, so that their
own actions contain its operators.

Modules that are proved about use what the provers can see through: a set of
statements instead of a sequence that is filtered, a function from rows to places
instead of a sorted sequence, a function with a condition instead of `@@`. The states
TLC counts are the same.

In every module of the server an action is the code between two `await`s, or one
event of a child process, a timer or the network; a program counter named for the
`await` (`stage`, `handler`, `step`, `call`) says where each call is.

### MetadataSync and DurableCopy

State: the contents of the local store and of the row, each as the set of writes it
holds; the fields of the class; the uploads in flight, with the image each carries
and the `flush()` calls that wait for it; the microtask queue `ready`. The order of
continuations is the heart of this code and is modelled exactly: when an upload
settles, the calls that waited with `await this.flushing` go on one after another
before any timer or request, so every macrotask is guarded by `ready = <<>>`.

| action | code |
|---|---|
| `Write` | a statement of the store and `markDirty()` by `onChange` |
| `Debounce`, `Heartbeat`, `SyncNow`, `Stop`, `BootFlush` | the callers of `flush()` |
| `Flush` (`Send`, `SnapshotThrows`) | `flush()` up to its first `await` that waits |
| `ResumeIdle`, `ResumeUpload` | a `flush()` that had waited goes on |
| `Land`, `SaveOk`, `SaveFails` | the upsert commits; the promise settles either way |
| `StopReturn`, `BootReturn` | what `stop()` and `main()` do after their `flush()` |
| `Boot`, `Exit`, `Crash`, `VolumeLost` | the process and its disk |

A failed upload may have landed. `DurableCopy` knows nothing of timers and promises:
the copy holds only what the store has held, moves forward, and survives a restart.
Its promise is suspended until the next start once a "sync now" has overlapped
another upload (`stacked`): `flush()` looks at `this.flushing` once
(`metadata-sync.ts:71`), so a forced call that waited behind a tick uploads beside
it, and the older image can land last. For the same reason `stop()` may return
before its upload (`:108`) when another call was already waiting for the upload that
`stop()` has to wait for; `FinalFlush` excepts that case by `calm`.

### MetadataHome

The main file, its write-ahead log, the `.bak` copies and the rows of the targets,
each as the set of writes it holds; the two `.env` files; one call of `save()`.
Replication is one step here.

| action | code |
|---|---|
| `Boot`, `Load` | `loadEnvFile()` (the first file that exists), `init()` and `load()` |
| `Copy`, `Clear`, `WriteImage`, `Open` | `copyFileSync`, `rmSync` of the log, `writeFileSync`, the open; a crash between any two, or in the middle of the write |
| `Write`, `Upload`, `Stop` | the running server; a checkpoint may fold the log at any write |
| `Save`, `Tested`, `Snapshot`, `Land`, `Saved`, `SaveFails`, `Disable` | `save()` at its awaits, `writeAll()` of the `.env` files |
| `VolumeLost`, `RemoveFile`, `Edit` | the operator and the platform |

The copy is of the main file alone and the log beside it is deleted
(`index.ts:63`), so what only the log held is lost, where `index.ts:60` says "Never
silently discard a local database": `dropped` is what `NothingDiscarded` has to
except. Two more things a reader should know: a target that was used before keeps
its old row and brings the old content back (`metadata.service.ts:123`), and two
saves of one target can land out of order. When the near `.env` file cannot be
written and the far one can, the page reports success and the next boot ignores
it; the process environment, which takes precedence over both, is left out.

### JobManager

`live` is the map in memory, `row` the table. `FinishJob` is `finish()`, whose first
call decides; `CancelRunning` is `cancelAll()`; `FailInterrupted` the constructor.
`RestartJobs` is a stop and the next start at once, for services all of whose calls
end with the process. `JobSpec` is the life of a job whoever drives it. The constructor fails the rows of
`jobs`, not those of `backups` and `cluster_backups` (`jobs.ts:42`), which stay
"running", where the repository's README (line 51) says that jobs orphaned by a
restart are marked failed. `cancelAll()` runs before the requests in flight have
ended, so one that waits for `mkdir` spawns its dump afterwards (`jobs.ts:168`).

### BackupService

| action | code |
|---|---|
| `RequestBackup`, `StartBackup` | `createBackup()` before and after `await mkdir` |
| `OpenFile`, `Exit` | the tool itself |
| `SpawnError`, `Timeout` | the `error` event; `armTimeout()`: SIGKILL and `finish(failed)` |
| `DumpSucceeded`, `RecordSuccess` | `close` with code 0: before and after `await stat` |
| `DumpFailed`, `RemovePartial` | `close` with any other code: end first, `unlink` after |
| `RequestRestore`, `SourceFound`, `RejectRestore`, `StartRestore`, `RestoreClosed` | `restoreBackup()` at its awaits, and the end of the tool |
| `RequestDelete`, `DeleteFile`, `DeleteRecord` | `deleteBackup()`, which asks for no status |
| `Cancel`, `Release` | the registry |
| `Shutdown`, `Stop`, `Boot` | `shutdown()` up to `await app.close()`; the end of the process, or a crash; the next start |

Exit codes are 0, other, and `null` (a signal, whoever sent it). A tool exits with
any code at any time, ignores SIGTERM if it likes, and is orphaned, still writing,
when the server dies. A file unlinked while the tool has it open is gone although
the tool succeeds.

### ClusterBackup

`stage` is the `await` at which the one async function of a backup or restore is;
`tool` numbers its tools, 0 for the globals. `Run` spawns and attaches the next tool
whatever the job's status is. `Timeout` kills and writes nothing down, as the code
does; `Fail` is the catch block, `Sweep` the finally block. `FilesFail` is every
other rejection in the pipeline. A write error that `packTar()` does not catch ends
the process, which `Stop` does at every stage. Killed `pg_dumpall` gives code
`null`, which is only compared with 0 (`cluster.service.ts:194`): a canceled backup
goes on through every database as one without globals, where lines 450 and 467 say
that cancelling reaches the pipeline; its job is canceled and its row a success.

### Retention

One schedule and its backups, numbered in the order of `created_at`. A dump is one
step, since `BackupService` has the detail; what follows a success is the subject.
`pruneSchedule()` reads its list once (`todo`) and then waits twice for every backup
it deletes, while other prunes, operators and editors go on.

| action | code |
|---|---|
| `Trigger`, `StartBackup` | `trigger()` and `createBackup()` before and after `await mkdir` |
| `UpdateSchedule`, `DeleteSchedule` | the routes |
| `RecordSuccess`, `RecordFailure` | the end of a backup; a success reads the prune's list |
| `PruneFile`, `PruneRecord` | `deleteBackup()` by the prune: unlink, row, `byId()` of the next |
| `PruneThrows` | that `byId()` finds nothing: nothing catches it, so Node ends the process |
| `Hook`, `Deliver` | `autoSend()` and `sendBackup()` before and after `await stat` |
| `RequestDelete`, `DeleteFile`, `DeleteRecord` | `deleteBackup()` by an operator |

`Trigger` reads the row again and starts nothing for a schedule that is disabled or
gone, so the armed crons need no variable. Only a success prunes, rows of failures
too (`backup.service.ts:121`): a schedule that always fails keeps every row.

### Inspections, Migration

`Inspections` follows the calls of `startInspection()`, `closeInspection()` and
`deleteBackup()` for one backup through their awaits (`call`, `closes`), with the
tools of earlier attempts still at work in a database of the same name. The
invariants speak of starts no other overlapped (`alone`) and except the failures
nobody retries (`excused`): a `DROP` that fails is swallowed and leaves the database
without a row, a file that is missing after the `CREATE` leaves an empty one, and a
process that ends between the `DROP` and the deletion of the row leaves a row that
says "ready". Overlapping starts may leave the row naming a job whose database has
been dropped (`backup.service.ts:272`); a close may delete the row of a later start,
and it does not cancel the restore that is running. The `error` event of a tool that
is not there is folded into `EndEarly`.

`Migration` has both tools, the pipe between them (`written`, `got`), the timer and
the job to which only `pg_restore` is attached. EPIPE on `restore.stdin` has no
listener and may end the process, one of the ways `Restart` happens.

### Delivery

One async function per delivery that takes its channels in turn (`at`, `step`,
`left`); settings are read when a channel's turn comes. A secret is the number of
the save it was typed in. A canceled delivery goes on and may arrive; a channel
disabled after the start is still sent to; one confirmed chat makes a broadcast a
success; a failed upload may have arrived. A mail password is dropped when its host
is cleared, and the environment's password then goes with whatever host is saved
next with an empty field.

### Accounts

All of it is synchronous but for two places: a request is authenticated when its
headers arrive and handled when its body has, with the claims of its token
(`requests`), and a reset waits before it wipes the store (`resetting`).

| action | code |
|---|---|
| `Setup`, `Login`, `Refresh`, `Logout`, `Accept` | `auth.routes.ts`, `auth.service.ts`, `invitations.service.ts` |
| `Authenticate`, `Administrate` | the hook of `plugins/auth.ts`, and the handler later: users, roles, passwords, invitations, `StartReset` |
| `FinishReset` | the wipe, and the new token generation |
| `ExpireToken`, `ExpireInvite`, `Restart` | time and the process |

What a test would hardly meet: an invitation is used up by an account whose address
is taken (`invitations.service.ts:136`, `:159`); a request authenticated before a
reset and handled after it acts on the new store (`overtaken`); a restart forgets
the generation, so tokens of before a reset are good again until they expire.

### Access

Every route is a record of what its file says of it: the role it needs, the gate in
its handler, what it does and where, its awaits and what it logs (`RoleRoutes`,
`ClusterRoutes`, ...). `Authenticate`, `Handle`, `Work`, `Miss`, `Fail`, `Log` are the
way of a request, with roles, tokens and the read-only mark changing between any two.
Three routes change the managed server and ask nothing (`Unasked`): the restore of a
whole server, and the two that drop the scratch database of an inspection, closing it
and deleting its backup (`Dropping`; finding 2). Retention and the factory reset drop
such databases the same way, but not as a request to the connection. A cancel of a job
is logged when there was a job to cancel (`Miss`), a signal to another session always.
A role that was taken away is good for one token's life (15 minutes); a mark set after
the handler's check does not stop the statement. Not in the log: clearing the
history, flushing and testing the metadata, `EXPLAIN ANALYZE`, effects whose request
then fails (a role update of several statements), or whose server dies; a scheduled
run is logged without an actor. The repository's README (line 23) says "every
state-changing action recorded".

### PgPools and SqlService

`PgPools` has the map, the pools ever made with the settings they were made from,
who waits for a client or holds one, and the updates and deletion of the record,
which walk the map and wait for `pool.end()`. `SqlService` extends it with the
transaction and timeout of each client (`tx`, `limit`) and the statement each
request is at (`pc`): `execute()` in its three forms (read-only, script, plain),
`explain()`, `cancel()`, and the transactions of the grid and the inspector.
`committed` has the requests that wrote something which is in the database, whoever
committed it; a script of kind `end` ends its transaction by itself, well, by
rolling back, or halfway, failing after it (`QueryFailsHalfway`). Only `execute()` and
`explain()` set a `statement_timeout`: an edit that waits for a lock is kept by the
server (`Unlimited`).

Known limits of the code that the properties except or leave out: a cancel may hit
another execution's statement on the same backend (`sql.service.ts:230`; `spoiled`);
a script that leaves a transaction open hands it to the next user of the client, and
requests that follow an aborted one fail until it is rolled back; `closeAll()` drops
pools made meanwhile (`pg.ts:135`); `update()` waits for running statements; a
read-only `SELECT` cut at the cap has its `COMMIT` queued behind an open cursor
(`:132`, `pc = "stuck"`). Left out: single statements of the grid and the inspector
outside a transaction, which have no timeout either and may wait for a lock as an edit
does; a script that sets its own timeout; a connection that is lost during a `COMMIT`,
after which nobody knows whether it took effect.

### Browser

Tabs that share one refresh cookie; requests and replies under way, served and
delivered in any order, and lost. `SignIn`, `Logout`, `Reload`, `Call`, `Answer`,
`Unauthorized` are the page; `Serve`, `Deliver`, `Lose`, `Revoke` the rest. A logout
racing a refresh leaves a live session (`raced`); a lost answer of a refresh, or a
reload over it, ends the session, since the token is spent; a logout that fails on
the network leaves the cookie; the query cache survives a logout. An answer to a page
that has been reloaded comes to nobody, and `SessionKept` is not about it: a second
reload may leave a refusal under way to a page that is no more.

### Screens

Which page mounts which queries, and which change invalidates which, are tables, one
per file of `web/src/features`; a behaviour follows one query and one change through
the cache of react-query. `KnownGaps` lists the answers a change makes old and does
not invalidate: the count of tables of a schema after a create or drop, the
autocompletion after drops, structure, rows, grants and sequences of what was
dropped, sequences after a truncate, the overview's count after its own create or
drop of a database, the databases offered for whole-server backups, the history
after a statement of the inline pane, the last run of a schedule after "run now",
the pages of a deleted backup, and ERD, search and other tables' structure after any
DDL. Fetches under way without data, or unmounted, clear the invalidation mark.

### DataGrid

Rows are ticked and edited by position and named by key when the request is sent. A
view of the table is a function from its rows to their places (`Layouts`).
`Serve`, `Arrive`, `FetchFails`, `Show` are the query cache, `Tick`, `Edit`,
`Confirm`, `CommitEdit`, `Insert`, `DeleteOne` the user, `EndDelete`, `DoInsert`,
`DoUpdate` the transactions, `Succeed`, `Fail`, `LoseReply` the answers.

`HitsWhatWasPicked` holds for a `Careful` user only, and each condition is needed
(without it TLC finds rows deleted that were never ticked): no tick and no edit
while rows load, no edit while a request is pending, no page turned and no refresh
with rows ticked. Ticks survive paging, sorting, filtering and refetching, so the
dialog ("Delete {{count}} selected row(s)", `en.ts:167`) can delete other rows than
those it counted, and an edit committed after a refetch can change another row;
`src/README.md:11` calls the grid "primary-key safe". A success of a delete closes
no edit, a success of an update closes any; confirming a tick beyond the last row
throws silently; a grid is not keyed by its connection.

### Dialogs

One slot and shared CASCADE, FORCE and RESTART boxes of several dialogs, requests
that go on when their dialog is closed, and answers that close whatever is open
then. The late answer of a form (`StructureView.tsx:542-604`) shuts a drop dialog
opened after it and leaves CASCADE ticked (`slipped`); the list of routines is not
keyed, so after Back it drops in the schema of the address; the form of a foreign
key sends the old table's columns until the new table has been read (`seen`).

### Forms

One form and two attributes of its object: column, role, connection, schedule, user,
saved query. What the form sends (`sends`), shows, seals and how it is applied (one
row, one transaction, several statements) is a record per form; the statements still
to be made are a set (`todo`), taken in the order of `ActionOrder`. Forms that send
everything put back what others changed since they were opened; a role and its
memberships are separate statements, so a request may do half, and a retry of a
creation or a rename that happened is refused; a changed case of an e-mail address
is not stored (`auth.service.ts:130`). A request lost in the middle of its work
while it is retried is left out.

### SqlPage

Tabs kept per connection in `localStorage`, drafts per table, one statement under
way, the question before `EXPLAIN ANALYZE`, a text handed from page to page, another
window. The page is not keyed by its connection: a jump in the history writes one
connection's tabs over another's list, and the inline pane keeps the answer of the
other; two windows overwrite each other (`foreign`). An answer that comes late, or
whose tab was closed, stands above another text (`strayed`); a switch of the
database keeps the answer; leaving the page forgets the execution, so it can no
longer be canceled and a second may run; a confirmed question runs in the database
of that moment (`moved`); a text whose hand-over is diverted opens later in whatever
connection's page comes first.

### Codecs

`SqlSplit` is the splitter against the lexer of PostgreSQL, `TableText` the CSV of
the export and the search patterns, `Tar` the bundle with scaled-down header,
`Settings` the `.env` files, connection strings, filters of links and the cron
builder. `Codecs` grows a text symbol by symbol, so that every state is an input;
these modules use `RECURSIVE` operators and are checked by TLC alone.

Where the code differs from what it is compared with, the properties name it: `$`
inside a word, a string after a word ending in `E`, non-ASCII dollar tags and a
comment ended by a lone CR (`odd` in `SqlSplit`); a first word hidden by nested
comments or `/*/` (the server still enforces `BEGIN READ ONLY`); an export of one
column loses rows that are empty, and empty text becomes NULL; a bundle with a file
of `8^12` bytes or more hides what follows; a value of `.env` with quotes or
backslashes is not unescaped by Node's loader, and of duplicate keys the writer
replaces the first while the boot takes the last; the host of a DSN is not encoded;
weekday 7 becomes 0. Continued strings and `BEGIN ATOMIC` bodies are left out.

## 3. Runs

| run | module | properties | distinct states |
|---|---|---|---|
| `sync` | `MCMetadataSync` | `UploadsKeepUp`, `FinalFlush`; `ImplementsDurableCopy`, `EventuallyDurable` | 140,000 |
| `home` | `MCMetadataHome` | `StoreSurvives`, `DeliveriesAreSound`; `SettingTakesEffect` | 976,000 |
| `backup` | `MCBackupService` | `FilesFollowRows`, `JobsFollowTools`, `RequestsAreSound`; `ImplementsJobManager`, `HungToolsEnd` | 370,000 |
| `cluster` | `MCClusterBackup` | `BundlesFollowRows`, `RecordAgreesWithJob`, `SplitsLikePostgres`, `FormatsComeBack`; `ImplementsJobManager`, `PipelinesEnd` | 624,000 |
| `retention` | `MCRetention` | `NewestKept`, `RetentionReached`; `OfferedForDelivery` | 544,000 |
| `transfers` | `MCTransfers` | `ReadyIsWhole`, `NothingLeftBehind`, `MigrationIsSound` | 4,400,000 |
| `accounts` | `MCAccounts` | `AdministratorRemains`, `InvitationsSound`, `SessionsFollowPasswords`, `ResetRevokes` | 1,440,000 |
| `web` | `MCWeb` | `SessionsAreSound`, `ShowsOwnChanges`, `FormsAreSound`, `DialogsAreSound`, `PagesAreSound`; `SessionsSettle` | 970,000 |
| `grid` | `MCDataGrid` | `DoesWhatWasPicked`, `ShowsTheTable` | 1,757,000 |
| `sql` | `MCSqlService` | `PoolsFollowSettings`, `PoolIsClean`, `FailuresWriteNothing`; `EverythingEnds` | 1,141,000 |
| `migration` | `MCMigration` | `HungToolsEnd` is violated | 700 |
| `readonly` | `MCAccess` | `ReadOnlyBlocksWrites` is violated | 5,800, to the counterexample |

What the passing runs show:

- **`sync`**. While no "sync now" overlaps an upload, timers, heartbeats, the boot
  and `stop()` never have two uploads in flight, a write is always dirty, on its way
  or in the row, and the protocol implements the durable copy through lost answers,
  a snapshot that throws, crashes and a lost volume. A change of a server that keeps
  running reaches the row in the end.
- **`home`**. Wherever a boot is interrupted, each write is in the file, in a copy
  or in a row, but for those only a removed log or a lost volume held; the store is
  never opened with the log of another image; a server that was moved starts with
  what it had, and with the setting saved last. A delivery says success only when
  the backup arrived by every channel, and a save never changes a secret nobody typed.
- **`backup`**. In every order of exit code, kill timer, cancel, delete, shutdown,
  crash and restart each job ends once; a failed backup leaves no file once its
  handler has run; a success has its whole file until somebody asks to delete it; a
  hung tool is killed. Job and row disagree in one way only: a cancel or timeout
  between the exit of a good dump and its `stat`. No route does what its caller was
  never allowed in the life of the token, none but the three that do not ask changes a
  server behind its mark, and the log is true.
- **`cluster`**. The same for a pipeline of tools, which always ends and clears its
  work directory. Scripts are split where PostgreSQL ends a statement, and every
  format is read back as it was written.
- **`retention`**. However prunes overlap, the newest backups keep row and file and
  are delivered, unless an operator deletes something; the prune that started last
  brings the schedule down to the retention it read; a success is offered for
  delivery if the server lives.
- **`transfers`**. What the page calls ready, and what a migration calls a success,
  is whole; a scratch database without a row is one of the failures named.
- **`accounts`**. The last administrator stays, whatever claims are in flight; an
  invitation makes one account; no session outlives its password, no token a reset.
- **`web`**. However tabs refresh at once the browser keeps its session and
  leaves none behind; pages settle; no page goes on showing what its user changed,
  but for the known gaps; forms store what was typed and leave the rest alone;
  dialogs drop what they showed; the SQL page keeps texts and answers together.
- **`grid`**. Requests name the rows a careful user chose and are carried out in
  whole or not at all; the screen gets back to what the table holds.
- **`sql`**. A client waits in its pool without transaction or timeout; a request
  answered with an error has nothing in the database, but for a script that ended its
  transaction by itself; no pool keeps old settings; and every request and update of
  the connection ends, unless an edit waits for a lock for ever or a cursor stays open.

### Findings

Each is a counterexample TLC finds in the model of the code as it is, against a
sentence of the repository.

1. **A hung `pg_dump` of a migration** (`backup.service.ts:388`, run `migration`).
   The kill timer is cleared by the close of `pg_restore`, and a cancel signals
   `pg_restore` alone. When that ends first nothing will ever end the `pg_dump`: "A
   hung dump/restore must never survive forever" (line 375), "so no orphan dumps
   keep running" (`jobs.ts:168`).
2. **Three routes write to a read-only connection** (run `readonly`). Restoring a
   whole server (`cluster.routes.ts:94-107`) and `restore()` (`cluster.service.ts:313`)
   do not call `assertWritable()`, as the restore of one database does
   (`backup.routes.ts:127`); nor do deleting a backup and closing an inspection
   (`:110`, `:163`), which run `DROP DATABASE ... WITH (FORCE)` through the connection
   (`backup.service.ts:242`, `310`), while starting one asks (`backup.routes.ts:150`): "Block all writes through PgForge on this
   connection" (`i18n/en.ts:100`), "per-connection read-only mode"
   (`src/README.md:9`).

### Bounds

| run | bounds | why they are enough |
|---|---|---|
| `sync` | 2 writes, 2 uploads, 2 callers, 1 sync now, 1 throw, 1 restart | one write in the upload and one that comes while it is in flight; the upload the handle holds and the one it has lost |
| `home` | 2 writes, 2 targets, 2 `.env` files, 3 boots, 2 saves, 1 edit; 1 delivery, 2 chats, lists of 2, 2 saves, 1 restart | a move there and back, with a crash between; a channel before and after a save |
| `backup` | 1 backup, 1 restore, 1 restart; 2 users, 2 requests, 1 change of a mark or role, 2 expiries or restarts | backups share only the registry; one request overtaken by another |
| `cluster` | 1 bundle, 1 restore, 2 databases, 1 restart; texts of 3 to 7 symbols | a first and a next tool; quotes nested in comments and dollar quotes |
| `retention` | 3 backups, retentions 1 and 2, 1 failure kept, 1 edit, 1 deletion, 1 restart | the third prune has two to delete while the second is deleting the first |
| `transfers` | 2 starts, 1 close, 1 delete, 1 restart; 1 migration | two starts and a close at every pair of awaits |
| `accounts` | 2 accounts, addresses, sessions, invitations; 1 password change, 1 reset, 1 restart | one administrator removed by another whose role is gone |
| `web` | 2 tabs, 1 user, 2 calls, 1 fault; 2 visits; 1 change by others, 2 saves; 2 schemas, 2 tables, 2 confirms, 1 move; 2 SQL tabs, 2 texts, 2 runs, 2 jumps | two refreshes of one cookie and one lost message; a retry; an answer after one more step of the user |
| `grid` | 2 rows, 2 arrangements, 2 calls, 1 other change | a position that is another row after a refetch |
| `sql` | 2 requests, 2 backends, 1 database, pools of 1, 2 pools, 1 administrator | one client that goes from a request to the next; a pool before and after the change |

Symmetry is declared in runs without liveness only. `CHECK_DEADLOCK FALSE` stands in
every configuration where the bounds or the operator bring the system to rest.

### Fairness

- Timers fire, microtasks run, events and answers are delivered: weak fairness on
  those actions, which is what Node's loop gives them.
- In `sync`, `SaveOk \/ SaveFails` is weakly fair since the driver has timeouts;
  `Land` is strongly fair: a backend the upload is sent to again and again takes it
  in the end.
- A tool that is sent SIGKILL exits; one that is left alone or sent SIGTERM may hang
  for ever. `HungToolsEnd` and `PipelinesEnd` hold because of the kill timers alone,
  and finding 1 is a behaviour under this fairness.
- In `sql` connections are made or refused and walks of the map go on. Statements that
  are weakly fair are those under a `statement_timeout` (`execute()` and `explain()`;
  the configured minimum is above 0), and `BEGIN`, `ROLLBACK` and `RESET`, which take
  no lock. Nothing is assumed of the statements and the `COMMIT` of an edit
  (`data.service.ts:169-190`, `inspector.service.ts:629-637`), which may wait for a lock
  for ever, nor of a `COMMIT` behind an open cursor (`Kept`): they may keep a request,
  and an update of the connection that waits for their client, and `EverythingEnds`
  says that nothing else does.
- In `web` the network serves and delivers, or reports a failure.
- Nothing is assumed of users, crashes, shutdowns and restarts.

## 4. Proofs

The eight `_proofs` modules prove every safety invariant and safety action property
of the passing runs but two (`SplitsLikePostgres`, `FormatsComeBack`), and the
refinements, for all values of the constants: any sets of writes, jobs, requests,
backends, users, tabs, schemas, rows, and any bounds. Each follows the same plan: an
inductive invariant, a lemma for each action (or each effect several actions share),
and `PTL` at the end. `TLC` has checked each invariant on the run before it was
proved.

Where an MC module composes components, its `_proofs` module proves about the
component through the instance the run uses (`A!Spec => []RequestsAreSound` in
`BackupService_proofs`): the run's steps are that component's steps or leave it
alone.

- **`MetadataSync_proofs`**: `TypeCorrect`, `Invariance`, `UploadsFollowWrites`
  (`UploadsKeepUp`), `SyncImplementsDurableCopy` (`ImplementsDurableCopy`),
  `TheFinalFlushHolds` (`FinalFlush`). `InOrder`: until a "sync now" breaks the order
  the upload in flight is the one `this.flushing` holds, a call that resumes while
  something is in flight finds `dirty` cleared, so that it uploads nothing, and the
  upload carries exactly what the row lacks. That second part is why the missing
  re-check in `flush()` does no harm without "sync now". The refinement adds
  `Backed`: what the row and the uploads carry has been in the store, and a snapshot
  holds no less than the row. The final flush adds `StopInv`, the stages at which
  the `flush()` of `stop()` may be: first in the line of an upload, about to go on
  with nothing in flight, waiting for its own upload, over. Assumption: no upload is
  named `"none"` or `"settled"`.
- **`MetadataHome_proofs`**, the home: `HomeInvariance`, `NoWriteIsLost`
  (`StoreSurvives`), `SavedSettingStarts` (`SettingTakesEffect`). `HomeInv` needs four
  parts: `RestoresInOrder` (while a restore is under way what it replaces has been
  copied, the log is gone before the image is written, and the store is open only
  over a whole file), `RowsFollowStore` (a target without a row holds nothing, the
  row of the active target holds nothing the open store lacks, and what was to be
  kept in a seeded row is in it), `SavesInOrder` (the image a save carries lies
  between what was asked to be kept and the store, and its target has no row but the
  one the replication writes) and `FilesAgree` (every `.env` file that is there says
  what was saved last). That a store is open only over a whole file came from a
  proof attempt: without it a checkpoint could put content under a torn file.
- **`MetadataHome_proofs`**, deliveries: `DeliveryInvariance`, `ReportsAndSecrets`
  (`DeliveriesAreSound`), `DeliveriesImplementJobManager`: a canceled
  delivery, which goes on and may arrive, has the one end. `JobsFollowSteps`: the job is
  open exactly while the function that will end it is under way. `TurnsAreTrue`: a
  channel that is over has failed or has been received.
- **`BackupService_proofs`**, the registry and the service: `MemoryAgreesWithTable`
  and `EndsAreFinal` of `JobSpec`, whoever drives it, which every module that
  implements `JobSpec` inherits; `ServiceImplementsJobManager`,
  from which `ServiceEndsAreFinal` and `ServiceMemoryAgrees` follow;
  `BackupInvariance`, `FilesFollow` (`FilesFollowRows`), `JobsFollow`
  (`JobsFollowTools`). `RowsFollowTools` says how far row, event and process of a job
  can be apart, `FilesFollowTools` who may have taken a file away. Assumption: the
  jobs are the backups and the restores, and no backup is a restore.
- **`BackupService_proofs`**, the routes: `AccessInvariance`, `RequestsAreKept`
  (`RequestsAreSound`). A lemma over all route tables (`RoutesAreSane`) says that what
  a route needs is at least what it does is promised to, that what writes to a server
  is behind a gate but for the three routes of `Unasked`, and what each kind logs.
  `AccessInv` adds that a good token carries a role its account has had since it was
  issued (`lately`), that a request beyond its checks has passed them (`Passed`), and
  how far it is (`Progress`).
- **`ClusterBackup_proofs`**: `ClusterImplementsJobManager`, `ClusterInvariance`,
  `BundlesFollow`, `RecordsAgree`. `StagesFollowJobs` and `StagesFollowRows`: the
  `await` a pipeline is at bounds what its job, row, bundle and work directory may
  be. Assumption as above, for bundles and restores.
- **`Transfers_proofs`**, inspections and migrations: `InspectionInvariance`,
  `ReadyInspectionsAreWhole` (`ReadyIsWhole`), `NoDatabaseLeftBehind`
  (`NothingLeftBehind`); `MigrationInvariance`, `MigrationsAreSound`
  (`MigrationIsSound`); `InspectionsImplementJobManager` and
  `MigrationsImplementJobManager`, their refinements of `JobSpec`. The scratch database of a start that had the backup for itself has one owner
  at a time: the start until its job begins (`FreshStarts`, `AloneStarts`), then the
  row (`ShownStarts`, `KeptDatabases`), then the call that is about to remove the row.
  `ExitsFollowPipe`: no `pg_restore` ends well on a part of the dump.
- **`Transfers_proofs`**, the retention: `RetentionInvariance`, `NewestBackupsKept`
  (`NewestKept`), `RetentionIsReached` (`RetentionReached`). The heart of the first is
  `PrunesSpareNewest`: a list that was read before an `await` stays safe because a
  backup that was old then has no fewer newer successes now, a fact about
  cardinalities (`NewerGrow`, `OldStayOld`). The heart of the second is
  `PruneSettles`: what the last prune to start does not mean to delete is never more
  than the retention it read, because of any set at most that many are not in excess
  (`KeptAreFew`) and successes only disappear between two prunes. Assumption: every
  retention is at least 1 (`ScheduleAssumption`).
- **`SqlService_proofs`**: `SqlInvariance`, `PoolsFollow` (`PoolsFollowSettings`),
  `ClientsWaitClean` (`PoolIsClean`), `FailedRequestsWriteNothing`
  (`FailuresWriteNothing`). `Owned`: a client is held by one request. `Paced` and
  `Swept`: the statement a request is at says what transaction and timeout its
  client has, and a client nobody holds has neither. `Written`: whose writes wait in
  a transaction, none of them of a failed request that is past its rollback, and whose
  are in the database. `Walked`: a walk of the map is still below every pool it has to
  come to, and a pool made during a walk is made from settings already saved.
- **`Accounts_proofs`**: `AccountsInvariance`, `AnAdministratorRemains`,
  `InvitationsAreSound`, `SessionsFollow`, `ResetsRevoke`. `EmptyIsNew`: nothing older
  than a store without users can act on it; `MadeOnAccept`, `FirstPasswords`,
  `GenerationsGrow`.
- **`Web_proofs`**, the session: `BrowserInvariance`, `BrowserKeepsItsSession`
  (`SessionsAreSound`). A browser never holds a spent token for good because of where
  the live one is: in the jar, or in an answer on its way to it (`Held`), which nobody
  has seen (`UnseenTokens`); a page has one refresh under way (`OneRefresh`) and does
  not send twice what it has exchanged (`SpentOnce`). Who signed in once has one
  session, that of the newest token (`OneSession`), and a logout that met no refresh
  is alone on the network (`Apart`). Assumption: a page is not mistaken for one that
  is gone, nor a user for nobody.
- **`Web_proofs`**, the cache: `ScreensInvariance`, `ChangesAreShown`
  (`ShowsOwnChanges`). The tables of all pages are gone through once: every change
  invalidates, or fills in, what it makes old, or the pair is one of `KnownGaps`
  (`Covered`, `GapsAreKnown`). From there the invariant is about one query: an
  answer of before the change is marked, or was cached while its fetch was overtaken by
  the invalidation, and a query that is marked and mounted is being fetched or has
  failed to be.
- **`Web_proofs`**, the forms: `FormInvariance`, `FormsAreKept` (`FormsAreSound`).
  `FieldsInv` and `RequestInv` say what is in the draft and the request, `ProgressInv`
  which statements have taken effect where the request is, `OthersInv` that the rest is
  what others left, `CausesInv` why an answer was an error, `RenamesInv` under which
  name a column is still found.
- **`Web_proofs`**, the dialogs: `DialogInvariance`, `DialogsAreKept`
  (`DialogsAreSound`). `Fits`: until a late answer slips, a dialog is on the page that
  keeps it, of the schema it shows, and no box is ticked but its own, by its user.
  `SeenIsOwn`: columns ticked by sight are of the table that is chosen.
- **`Web_proofs`**, the SQL page: `PageInvariance`, `PagesAreKept` (`PagesAreSound`).
  `ListsKept` (no tab is in a list twice, the active one is in it, and with one window
  and one connection the page shows the list that is stored, with all that was typed),
  `AnswersInv` (no statement of this mount is under way but the one it shows as
  running, and an answer that is shown belongs to the text above it, but for those that
  strayed), `QuestionInv` (an open question is about the address, unless that has
  changed under it).
- **`Web_proofs`**, the grid: `GridInvariance`, `PickedRowsAreMeant`
  (`DoesWhatWasPicked`), `TheTableIsShown` (`ShowsTheTable`). `TicksInv` and `EditInv`:
  what a careful user has ticked or edited is on the screen with the row he picked.
  `CallsInv`: a request names the rows that were meant, has touched none or all of them
  when it ends, and no two transactions hold the same row. `CacheInv`: what is shown
  comes from the cache, and until the first change what is valid or on its way is what
  the table holds. `PlacesAreThere` (no place is beyond the number of rows) comes from
  the facts about finite sets.
  Assumption: the rows are finitely many.

Only model-checked:

- liveness (`EventuallyDurable`, `HungToolsEnd`, `PipelinesEnd`, `OfferedForDelivery`,
  `EverythingEnds`, `SessionsSettle`), which together with `ENABLED` is beyond this
  prover;
- the codecs (`SplitsLikePostgres`, `FormatsComeBack`): their operators are
  recursive, and what they compute for every input needs induction over data.

## 5. What is left out, and the plan

Left out of the modelled parts: log lines, settings pages, lists and contents pages,
`test()` of a target or a channel, `restoreUpload`, which crons are armed, the
throttle of logins and password hashing, query history, the columns and values of
rows, the shape of request bodies. Of the factory reset the jobs and files it
removes are left out. `wipeAllFiles()` closes and deletes the way `Inspections` has
it. `autoSend()` may log an error for a delivery that has started, and nothing but
nodemailer's own timeouts ends an e-mail.

Not modelled: rendering and localization (`i18n/en.ts`, `ru.ts`, `uz.ts`), the plan
tree and the warnings of the SQL page, the search over several databases, the series
of the monitor and the advice, and what single queries return: arithmetic and text
over one answer, with no state another part reads.

Next: the jobs and files a factory reset removes, composed with `BackupService`; the
codecs with folds instead of recursive operators, so that lemmas about a single step
of a reader can be proved beside the runs.
