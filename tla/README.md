# BaluDesk: a TLA+ verification of the sync backend

This directory holds TLA+ modules for BaluDesk's C++ backend
(`backend/src`), TLC configurations that check them on small instances, and
TLAPS proofs of their main safety properties for every value of the constants.
All paths below are relative to the repository; line numbers are those of the
commit the models were written from. `PROJECT.json` maps each definition to
the lines it stands for.

To check a run: `tlc -workers 2 -config DeltaSync.cfg DeltaSync`. To check
the proofs of a module: `tlapm DeltaSyncProof.tla`.

## 1. The system

BaluDesk is a desktop client that keeps local folders in sync with a NAS
(BaluHost). An Electron application (`frontend/`) starts a C++ process
(`backend/`) and talks to it in JSON lines over stdin and stdout. The backend
scans folders, exchanges changes with the server over HTTP, and remembers what
it transferred in an SQLite database.

### Components

| Component | State it keeps | Operations | Talks to |
|---|---|---|---|
| Sync scheduling (`sync_engine.cpp` 80–160, 502–600, 1435–1482; `ipc_server_fixed.cpp` 898–937) | `running_`, `syncing_`, `syncPending_`, quota backoff, the threads | `start`, `stop`, `triggerSync`, `syncLoop`, add/remove/pause/resume folder, `trigger_sync` | every thread of the backend; the folder rows |
| Delta sync (`performDeltaSync`, 609–1413) | local variables of one run; writes files, rows, token, conflicts | one run of nine steps | change detector, HTTP client, database, the user's files |
| Upload pipeline (in `performDeltaSync`, 928–1157; `withTokenRefresh`) | batch index, results, refresh mutex and flag, quota flag | batch workers, processing of results, retry after refresh | HTTP client, database |
| CURL handle pool | free handles, number created, waiters | `acquire`, `release` | every HTTP request |
| Upload rate limiter | sliding window of slots, waiters | `acquire` | every upload |
| Change detection (`change_detector.cpp`) | none (reads files and rows) | local scan; remote diff and conflict test of the older sync | delta sync |
| HTTP client | access and refresh token, base URL | requests, refresh | the server |
| Database (`database.cpp`) | SQLite tables: folders, file metadata, conflicts, activity, profiles | row reads and writes, transactions on one shared connection | all of the above |
| Accounts (`ipc_server_fixed.cpp` 372–660, `sync_engine.cpp` 161–345, `credential_store.cpp`, `baluhost_client.cpp`) | `currentUsername_`, `baluhostClient_`, `authenticated_`, `httpClient_`, four keychain entries, registered device, owners of profiles | login, set tokens, check stored tokens, logout, register device, refresh | server, keychain, engine, profiles |
| Conflict resolution | pending conflicts | resolver strategies, IPC resolve | engine, database |
| File watcher, debounce, event queue (`file_watcher_v2.cpp`, `sync_engine.cpp` 1484–1560) | watched paths, debounce table, `eventQueue_`, three mutexes | watch, unwatch, event callback, `processFileEvent` | engine loop, folder commands |
| Older bidirectional sync | as the delta sync, with its own timestamps | `triggerBidirectionalSync` (no caller) | |
| IPC (Electron `main.ts`, `ipc_server_fixed.cpp`) | pending requests by id, child process, two pipes, `outputMutex_` | send, answer, timeout, 56 commands | renderer, engine, everything |
| Profiles, VPN, SSH; settings, system information, logging; renderer | rows and files | read and write | operating system |

How they meet: the **main thread** of the backend serves IPC commands one
after the other; **`syncThread_`** runs `syncLoop`; each `trigger_sync`
command starts **`asyncSyncThread_`**; adding or resuming a folder starts a
**future** (`launchManagedSync`); a run starts **workers**: up to three for
downloads (`sync_engine.cpp:702`), eight for batches and four for large files
(`:868`). They share the engine's atomics, the one SQLite connection, the one
HTTP client with its pool and limiter, and the user's files, which the user
edits at any time.

### What is hard, and what must hold

*Scheduling.* Runs exclude each other across three kinds of threads; a request
that meets a run under way is queued as one flag and must not be lost; pausing
races the run's own status writes; shutdown joins every thread before the
engine is destroyed.

*Delta sync.* The user and other devices write between any two steps; any
step may fail, stop or crash. The change token must not pass over another
device's change; the scan must see every edit; downloads and deletions must
not destroy work that was never sent; the direction of the folder must hold in
every step; folder and server must agree in the end.

*Upload pipeline.* 401, 429, 507 and failures meet several workers at once, and
files vanish while the results are handled. Confirmed batches must be recorded
and not be sent again, all batches must be accounted for, the token is
refreshed once, the user is not signed out without reason, and the pipeline
ends.

*Pool and limiter.* Condition variables and clocks: no handle lost or shared,
no wakeup lost, no window with too many uploads, every wait ends.

*Transactions.* Several threads begin, commit and roll back on one connection
and look at no result: a row that was reported as stored must be on disk in the
end, and no transaction may stay open.

*Accounts.* Who is signed in is kept in four places, written one after the
other, by the main thread and by runs that refresh their token meanwhile. Files
must not go to another user's server; a sign-out must stay one; the keychain
must never hold one user's token beside another's name.

*Bridge.* Answers are matched to promises by id; timers fire while answers are
on their way; commands that timed out take effect all the same. A promise must
get its own answer, and each must be settled.

*Watcher.* Three mutexes and two joins lie between a change on disk and its
upload; the debounce and the system's own queue drop events. Commands and the
shutdown must get past it, a folder that is no longer watched must be quiet.

The list of hazards in `PROJECT.json` names each at its line.

## 2. The modules

| Module | Models | Extends or instantiates |
|---|---|---|
| `SyncService` | abstract: what callers of `triggerSync` may rely on | |
| `SyncGate` | the threads that start runs, `triggerSync`, commands, shutdown | `INSTANCE SyncService` |
| `DeltaSync` | `performDeltaSync` on the files of one folder | |
| `UploadPipeline` | batch workers, results, `withTokenRefresh` | |
| `CurlHandlePool` | `CurlHandlePool::acquire`, `release` | |
| `RateLimiter` | `RateLimiter::acquire` and the uploads that call it | |
| `MetadataTx` | transactions on the one SQLite connection, and who opens and closes them | |
| `Account` | sign-in, tokens, keychain, the client of runs and that of file operations, owners of profiles | |
| `RequestService` | abstract: what the window may rely on when it sends commands | |
| `IpcCommands` | each command handler, by what it may do and what it answers | |
| `IpcBridge` | ids, promises, timers, pipes, the backend's main thread, events and log lines | `IpcCommands`, `INSTANCE RequestService` |
| `FileEvents` | watch threads, debounce, event queue, folder commands, shutdown | |
| `MCAccount`, `MCFileEvents` | instances for TLC: symmetry, paths of the files | the module they are named after |
| `SyncGateProof`, `DeltaSyncProof`, `UploadPipelineProof`, `RateLimiterProof`, `AccountProof`, `IpcBridgeProof`, `FileEventsProof` | theorems and proofs | the module they are named after |
| `SharedResourcesProof` | theorems and proofs about the handle pool and the transactions | `CurlHandlePool`, `MetadataTx` |

Definitions whose comment begins with "Mutant of" are not part of a model:
each is an altered form of one action or helper, kept beside the original, with
which a property must fail. They show that the property depends on the code.

### SyncGate and SyncService

A runner is any thread that calls `triggerSync`; `pc[t]` says where it is.
`triggerSync` is split where another thread can get in between: the exchange
on `syncing_` (`Enter`, `FindBusy`), the store to `syncPending_`
(`LeaveNote`), the authentication check, the snapshot of the folder rows, and
for each folder the three status writes of `performDeltaSync`. What a run does
to files is left to `DeltaSync`; here it ends well, fails, exhausts the quota,
or meets an expired token (`MeetExpiredToken`, `RefreshToken`, `FailRefresh`
are `withTokenRefresh`). The main thread's actions are the commands that
change something here, `StartAsync` (the join in `handleTriggerSync`), `Stop`
and the steps of the shutdown in the order of `main`, `stop`, `~IpcServer` and
`~SyncEngine`.

`syncing`, `syncPending`, `quota`, `rows` and `futures` are the members of the
same name and the `status` column. The history variables, read by no action,
follow the requests and the pauses. A request that finds a run under way makes
its folders `owed`; `skipped` are those of them a run passed
over for the quota. `owed` ends (`Settle`) where a run starts with the folder
(`StartFolder`), after the test of the quota; where a snapshot finds it paused
or removed; and where the loop finds nobody signed in and no note is left. A
folder that is passed over for the quota remains owed. `userPaused` and `midRun`
are the pauses, and those that a run had in its snapshot by then.

`SyncService` says the same from outside: a set of holders that is empty or a
singleton, and a set of folders that are owed a run, which only a run that
starts with the folder (`Serve`), its pause or removal (`PassOver`) or the
absence of a user (`Forget`) ends. `SyncGate` implements it with the refinement
mapping `holders <- {t : Holding(t)}`, `signedIn <- authenticated` and `live`
the folders neither paused nor removed.

### DeltaSync

Three places hold a file: `local` (the folder), `server`, and the row
(`known`, `hash`, `match`; `match` says that mtime and size of the row are
those of the file on disk, which is all that the scan looks at first).
`newSince` are the paths other devices changed since the token in the row;
`newAfter` those they changed since the answer the run works on. `pc` is the
step of `performDeltaSync`: scan, request, downloads, deletions, classification
of uploads, small and large uploads, conflicts, saving of the token. Each
transfer, and each write of rows, is an action; the user, the other devices,
`stop()`, failures and a crash may come in between any two.

`excluded` are the paths that the scan passes over; which they are is left open
at the start, like the direction: they lie below a directory of
`EXCLUDED_DIRS`, which the walk does not enter (`change_detector.cpp:109`), or
`shouldExcludePath` is true of them (`:132`). `Seen` is that test. It is
made by the scan alone: the client's list of rows, downloads, deletions and
conflicts treat these paths like any other, in the code and in the model.

The server is external. It is modelled from how the client uses its answers:
what other devices changed since the token is named as a conflict if the
client lists the file as changed too, and otherwise as a download or a
deletion; without a token everything that differs is named.

### UploadPipeline

The workers of step 6 for small files, with their shared index, result list,
quota flag, `tokenRefreshed` and its mutex. `ProcessResults` is the loop over
the results after the join, with the exception for an expired token behind it;
the database may refuse any of its writes, the `COMMIT` included, which nobody
looks at. `ResultsThrow` is the same loop where a file has vanished:
`sha256_file` or `file_size` throws at any result that asks for a file
(`AsksForFile`), and what comes after is not handled. `lost` is a history
variable with the batches this concerns: not got past, or refused. `RunAgain`
and `GiveUpSession` are `withTokenRefresh`; it lets the exception of the first
run's loop pass, and takes that of the second for a failed refresh. Access
tokens are numbered in order of issue; `sentWith` is the token a request
copied, which may be older than the client's by the time the answer is in.

### CurlHandlePool and RateLimiter

In the pool the mutex makes each stretch up to a wait an atomic step; waiters
are a set, `notify_one` picks one, and wakeups may be spurious. What is shown
is the contract of the class: the pool has sixteen handles, and no path of the
present code leads to more than about eleven requests at once (eight batch
workers and the few other threads that make requests), so nobody waits in it
yet. In the limiter the mutex is held over several readings of the clock, so
the stretch is split at the readings and `holder` says who is in it. `granted`
keeps all slots ever given; `timestamps_` is what follows the first `purged` of
them.

### MetadataTx

The connection is `inTx` (not in autocommit mode) and `unsaved`, the rows
written in the open transaction. The run of a folder goes through the loops of
`performDeltaSync` that record downloads and small uploads, each between a
`BEGIN` and a `COMMIT`; each large file has a worker with a transaction of its
own; IPC commands write at any time. SQLite is external: `BEGIN` inside a
transaction, and `COMMIT` or `ROLLBACK` outside of one, are errors without
effect; a `COMMIT` may be refused, and leaves the transaction open; closing the
connection rolls back. The history variables are `leaked` (who opened the
transaction was thrown out of its loop, or was refused the `COMMIT`) and
`lost` (rows rolled back though their writer took them for stored; `Settled`
says whose writer has gone on). Values of rows are left to `DeltaSync`.

### Account

`shown` is `currentUsername_`, `files` is `baluhostClient_`, `client` is
`SyncEngine::httpClient_`, `store` the keychain with its four entries. A token
stands for the account (user and server) it was issued for. Commands of the
main thread are split wherever a run can get in between or the process can end:
`Login` is followed by the sign-in of the client for files (`FilesLogin`), that
of the engine (`EngineLogin`), and the writes of the keychain, one entry at a
time (`SaveNext`); `Logout` deletes the entries one at a time (`WipeNext`).
`CheckStored` is the automatic sign-in at the start. Each call of the keychain
may be refused, and nobody looks. `run` is the one run of another thread
(`SyncGate` shows there is one), which refreshes the token it started with and
stores the result. `files` and the runs share the keychain: `BaluhostClient`
reads its token from there before each request, so `FileTokens` names both.

`mixups` is a history variable that names exactly what the code does that mixes
accounts; each property says which of these it excepts, and section 6 lists
them: `failed_login` (a sign-in that is refused has replaced name and client
already), `late_refresh` (a run stores its refreshed token after a sign-in or
sign-out), `torn` (the keychain refused an entry, or the process ended between
two), `undeleted` (the same at the sign-out), `other_pairing` (a sign-in by
password beside the stored tokens of another pairing), `switched` (another user
signed in).

### IpcBridge, IpcCommands and RequestService

`made`, `command`, `outcome` and `id` are the calls the window made of these
handlers of `main.ts`; `pending` is `pendingRequests`. A line of `stdout` has a
text and an end; `WriteAnswer`, `EndLine` and `LogLine` are the writers.
`handler` follows `processMessages`: it takes a line, does the work, writes the
answer, and for `trigger_sync` and `set_dev_mode` does what follows the answer.
For `trigger_sync` that is the creation of a thread (`StartSync`); the thread
itself gets to `triggerSync` at any time later (`SyncBegins`), whatever was
handled and answered meanwhile, and only that counts as the effect of the
command. Five handlers of `main.ts` send from the one counter (`Channel`); two
of them send without a backend as well, and `user:getInfo` (`user_info`) sends
`get_settings` and makes a user of the answer. `Replies(c)` chooses the handler
of `IpcCommands`: the set of pairs of what may have been done and what is
answered. What handlers store is the subject of the other modules; only the two
states that make other handlers answer differently are kept (`signedIn`,
`mock`).

Time is not modelled. A timer may fire whenever its promise waits, which covers
commands of any length, late answers, and a backend that hangs.
`RequestService` says the same from outside, with `claims` the calls of
commands whose success asserts that something was changed, and `deferred` those
of `trigger_sync`; `IpcBridge` implements it with `outcome` and `done` as they
are. The three commands that answer with success and do nothing, or not yet,
are not among `claims` (section 6).

### FileEvents

`kernel[t]` is the system's queue of a watch thread (inotify's, or the buffer
of `ReadDirectoryChangesW`), `thread[t]` and `hand[t]` where the thread is with
its event: it judges it under the mutex of `FileWatcher` (`Judge` is
`onFileEvent` with its debounce), calls the engine back, and the callback waits
for `queueMutex_` (`Push`). On Linux one thread serves all folders and holds
the mutex of its class while it does so (`implLock`); on Windows each folder
has its thread, and `StopWatchWindows` joins it while it holds that mutex.
`loop` is `syncLoop`, which holds `queueMutex_` from `Drain` to `Drained`, with
the uploads in between. The main thread's commands begin with the row and go
through `Watch`, `StopWatch…`, `Joined`, `DeleteRow`; `Stop` is the shutdown.
`Prefixes[f]` are the folders whose path is a prefix of the file's, which is
the test `processFileEvent` makes; `Home[f]` is the folder it lies in.

## 3. The runs

All bounds are constants of the modules, named in the `.cfg` files.

| Run | Module | Checks | Instance |
|---|---|---|---|
| `gate` | SyncGate | ExclusiveRun, NoUseAfterDestroy, PauseOutsideRunHolds, ImplementsService, QueuedRequestServed, StopCompletes, TriggerProceeds | 1 folder, the loop, one async thread, one future, 2 commands |
| `delta` | DeltaSync | TokenCovers, EditsVisible, UnsentSurvives, DirectionRespected, Converges | 1 path, excluded from the scan or not, 2 contents, all directions, 5 events |
| `pipeline` | UploadPipeline | ConfirmedIsRecorded, BatchesAccountedFor, OneRefreshPerRun, SignOutJustified, NeverSentAgain, PipelineEnds | 3 batches, 2 workers, 3 attempts, 4 events |
| `pool` | CurlHandlePool | HandlesConserved, AcquireReturns | 5 threads, 2 handles, 8 requests |
| `limiter` | RateLimiter | SlotsSpread, AcquireReturns | 2 threads, 2 slots in a window of 2, timeout 3, clock to 8 |
| `transactions` | MetadataTx | OpenOnlyWhileOwned, CloseLosesNothing, LeakHeals | 2 files in the loops, 3 large files, all directions, 3 events |
| `account` | MCAccount | SignedOutStaysOut, StoreHoldsOneAccount, SyncsAsShown, FilesAsPaired, ProfilesKept | 2 users (symmetric), 2 servers, 5 events |
| `bridge` | IpcBridge | OwnAnswer, AnswersArrive, SignedOutIsRefused, ImplementsRequests, EveryPromiseSettles | 2 calls out of 13 commands |
| `watch` | MCFileEvents | RemovalIsHeeded, NobodyBlocks, UnwatchedIsQuiet, MainReturns, StreamHeard | 2 folders, one path the prefix of the other, 1 file, both platforms, window 2, system queue 1, 2 events in flight, 1 folder command |

Type correctness is in no run: it is proved (`TypeCorrect` of each proof module,
`TxTypeCorrect` for `MetadataTx`).

Three more runs end in a violation (`delta_deletion`, `transactions_workers`,
`bridge_lines`); each shows where the code departs from what a comment of the
repository says (section 5).

**Why the bounds are enough.** Exclusion, queueing and pausing involve two
runners and a third to come in between; the three kinds of threads are there,
and two commands are enough to start one runner and let a pause, a sign-out or
a second trigger meet it. With one folder a run still takes its snapshot,
visits the folder later and writes its status, so a pause can meet it at each
point; the safety properties are proved for any set of folders (section 4). In
`DeltaSync` the interesting histories of one path are long: an edit during a
run, a crash before the row, an edit by another device, a failed download and a
last edit are five events. The files of a folder meet in the phases and in the
token, which is saved once for all of them; the theorems about the token, the
edits, the unsent work and the direction hold for any set of paths. An "event"
is a write by the user or another device, a failure, a stop or a crash; all
else is unbounded, so runs follow each other without end. In the pipeline three
batches on two workers show a refresh by one worker while the other's request
is under way, or waits at the mutex, with one batch left for the refreshed
token; four events are enough for both runs of `withTokenRefresh` to fail for
want of a new token, and for a file to vanish in the loop of the second. The
pool is contended with more threads than handles, and enough of them that a
wakeup, a newcomer and a sleeper compete for one handle; the limiter's window
is passed more than twice. In `MetadataTx` three workers are one to fail, one
to lose its row and one whose own transaction follows; three events leave a
transaction open, refuse the `COMMIT` that would have closed it, and end the
process. In `Account` two users and two servers are needed for one to be taken
for another; a sign-in, an expired token, a sign-out, a second sign-in and a
restart are five events. In `bridge` two calls are one that times out, or
hangs, and one that is made meanwhile; the thirteen commands have every kind of
reply of `IpcCommands` and every command with an effect on others, among them
the pairs that meet: sign-out and file operations, two settings commands on a
channel of their own. More calls queue behind each other in the pipe, which
holds them in order; the safety properties are proved for any number. In
`watch` one command starts from every set of folders, meets watch thread, queue
and loop at each of their steps, and a stop may follow; two events in flight
are one that holds the locks and one that is in the queue or waits, and a
system queue of one overflows. Its one file lies in the folder whose path has
the other's as a prefix; so on Windows the threads of two folders never contend
for the mutex of `FileWatcher`, a case that is left out. Safety results proved
in section 4 do not depend on any of these bounds.

**Fairness.** The scheduler of the operating system keeps running every thread
that is not blocked (`WF` on the steps of runners, workers, the loop, the main
thread's joins and the shutdown). Requests end: every CURL handle has a connect
timeout and a low-speed limit (`http_client.cpp`), so a transfer in flight
succeeds or fails. In `SyncGate` nothing is assumed of the loop's thirty
seconds: the timer may never fire, so that what a queued request is promised is
due to its note and not to the next run that would come anyway. The loop looks
at the note thirty times in every sleep, hence `SF` on `LoopWake`: it is not
passed over in sleep after sleep. In `DeltaSync` and `MetadataTx` the sleep
ends, so a run follows a run (`MetadataTx` assumes that the user stays signed
in and does not pause the folder for good). Nothing is assumed of the user,
other devices, the server's verdicts, the quota, a signal, a restart or
spurious wakeups, and none of the failure actions has a fairness of its own:
weak fairness of a disjunction such as `Engine` lets the failure be chosen each
time, as often as the bound on events allows. With the bound, `Converges`
reads: once the failures and the writes have ended, the folder and the server
agree for good. In `IpcBridge` only the timers of Electron are fair: a backend
that hangs or has ended is what `EveryPromiseSettles` is about. `Account` has
no liveness and no fairness. In `FileEvents` threads, loop and clock are weakly
fair; taking a mutex is strongly fair where the mutex is free again and again
but not for good (main, and the watch threads on Windows, against a loop that
drains and a thread that reports without end). The mutexes of the three systems
promise no order, but no thread is starved for ever in practice; without this
assumption no bound on a wait for a contended mutex holds for any program.

**Deadlock** is checked in `delta` and `transactions`, where the engine always
can go on. The other systems stop by design (the process ends, the pipeline is
over, the bounded requests and calls are made, the engine is stopped), and
their cfgs say so. Where a stop would be an error, a liveness property finds it
(`StopCompletes`, `PipelineEnds`, `AcquireReturns`, `MainReturns`,
`EveryPromiseSettles`), in `FileEvents` also the invariant `NobodyBlocks`.

### What the properties say

- `ExclusiveRun`: never two runs, and `syncing_` is true exactly during one.
- `ImplementsService`: never two runs; a refused caller's request remains until
  a run starts with the folder or finds it paused or removed, or until nobody is
  signed in. A run that skips the folder for the quota does not settle it.
- `QueuedRequestServed`: the note of a refused caller is enough to bring about a
  run that starts with the folder, or passes it over for the quota, without the
  loop's timer; unless the folder is paused or removed, the user signed out, or
  the engine stopped. A folder that is passed over remains owed. (Without the
  note it fails: the mutant `LeaveNoNote`. A request for one folder is passed
  over like any other, against a comment: section 6.)
- `NoUseAfterDestroy`, `StopCompletes`, `TriggerProceeds`: joins cover all
  threads, and end.
- `PauseOutsideRunHolds`: a pause that no run overlaps stays. (One that a run
  overlaps does not: section 6.)
- `TokenCovers`: what another device changed is still to be named by the
  server, or an earlier answer named it and the run saved its token without
  acting on it (`missed`: a failed download is passed over like this).
- `EditsVisible`: between runs the scan sees each local change outside
  `excluded`, unless the row was written for another moment than the transfer
  (`tainted`).
- `UnsentSurvives`: outside `excluded`, downloads and deletions destroy only
  work that was written after the scan, or that such a row hid. (Inside, nothing
  protects the user's work: section 6.)
- `DirectionRespected`: a PUSH folder never changes locally and a PULL folder
  never on the server, in no step of any run.
- `Converges`: folder and server agree in the end on every path outside
  `excluded`, but for local deletions and the exceptions it names.
- `ConfirmedIsRecorded`, `NeverSentAgain`: what the server confirmed has its
  row when the run returns or throws for an expired token, so the second run
  leaves it out. Only `lost` batches have none: those that the loop over the
  results had not got past when a file had vanished under it, and those whose
  row the database refused; the latter may be sent again.
- `BatchesAccountedFor`: every batch has a row or a log entry, or is `lost`, or
  the quota, a stop or a failed refresh explains it.
- `OneRefreshPerRun`, `SignOutJustified`: late 401 answers to old tokens cause
  neither a second refresh nor a sign-out.
- `HandlesConserved`, `AcquireReturns`; `SlotsSpread`, `AcquireReturns`: the
  pool and the limiter.
- `OpenOnlyWhileOwned`: whatever the order of `BEGIN`, `COMMIT` and `ROLLBACK`
  of the workers, a transaction is open only while one of them is inside its
  own, or after one was thrown out or refused.
- `CloseLosesNothing`: the orderly end takes back no row someone took for
  stored, unless such a transaction was left open; `LeakHeals`: one of the next
  runs closes it.
- `SignedOutStaysOut`: after a sign-out nothing but a sign-in brings the account
  back, not even the token that a run refreshed meanwhile and stores afterwards,
  since the server's name is gone from the keychain.
- `StoreHoldsOneAccount`: the four entries belong to one account.
- `SyncsAsShown`, `FilesAsPaired`: runs and file operations use the account of
  the user the window shows.
- `ProfilesKept`: profiles are lost only when another user signs in, or a
  sign-in fails.
- `OwnAnswer`, `AnswersArrive`: a promise is settled by the answer of its own
  command, and an answer that came out whole reaches it.
- `SignedOutIsRefused`: after a sign-out was answered no later command changes
  a file of the server.
- `ImplementsRequests`: success means done; answers are final; nothing that was
  sent before an answered command takes effect after it, except the run a
  `trigger_sync` asks for. That run may begin after a later `pause_sync`,
  `update_sync_folder` or `logout` was answered; what is left of the order is
  that these runs begin once for each command and in the order of the commands.
  So a retry after a timeout is safe to reason about for every other command,
  and who pauses or signs out right after `trigger_sync` cannot infer from the
  answer that no run will begin. `EveryPromiseSettles`: as said.
- `UnwatchedIsQuiet`, `RemovalIsHeeded`: events of a folder end with its watch,
  and queued ones are not uploaded to a folder that was removed, but for the one
  upload for which the rows had been read.
- `NobodyBlocks`, `MainReturns`: no circle among mutexes and joins; commands and
  `stop` get past them.
- `StreamHeard`: a file that is written all the time is passed on again and
  again: the debounce window is not extended by what it drops.

The exceptions in these properties (`missed`, `tainted`, `raced`, `lost`,
`skipped`, `mixups`) are history variables that name exactly when the code
gives up a guarantee; `excluded` names where it gives none. They are not
assumptions: the behaviours are in the model, and section 6 lists what they
mean for the user.

## 4. What is proved

The theorems hold for every value of the constants that satisfies the `ASSUME`
of the module (distinctness of model values, naturals where numbers are meant,
at least one worker), without the bounds of TLC: `MaxEvents`, `MaxCommands`,
`MaxCalls` and `MaxTime` are arbitrary, as are the sets of users, servers,
folders, files and commands.

| Module | Theorem | Argument |
|---|---|---|
| SyncGateProof | `TypeCorrect`, `RunsExclude` | `TypeOK /\ ExclusiveRun` is inductive; every step leaves the set of holders alone, adds one to an empty set, or removes one (`NextHolders`) |
| SyncGateProof | `GateImplementsService` | each step maps to a step of `SyncService` or a stutter (`StepRefines`), from `NextHolders` and `NextOwed`, which says which steps touch `owed` at all, and that no other step changes the holders together with the sign-in or the rows |
| SyncGateProof | `DestroyIsSafe` | `ShutdownInv`: which threads are out at which step of the shutdown; after `running_` is false no thread is started |
| SyncGateProof | `PauseOutsideRunIsKept` | `PauseInv`: a pause outside `midRun` is of a folder no runner holds or will visit |
| DeltaSyncProof | `TypeCorrect` | with `PhaseInv`: what the phases leave behind |
| DeltaSyncProof | `TokenNeverPasses` | `AnswerInv`: during a run, what the token to be saved passes over is in `undone`, `missed` or `newAfter`. `TokenCovers` alone is not inductive, since `Save` replaces `newSince` |
| DeltaSyncProof | `EditsAreVisible` | `EditInv`: rows outside `tainted` describe the last exchange, also of files exchanged and not recorded yet; for any `excluded`, whose paths the statement leaves out |
| DeltaSyncProof | `UnsentIsSafe` | `ScanInv`: until the deletions are over, unsent work the scan saw, which is that outside `excluded`, is among the uploads, and the answer's downloads and deletions name no upload |
| DeltaSyncProof | `DirectionIsRespected` | `DirectionInv`: PUSH never comes to downloads or deletions, PULL never to uploads; each step of step 7 tests the direction itself |
| UploadPipelineProof | `TypeCorrect`, `ConfirmedAreRecorded` | `ResultsInv`: the results marked uploaded are the batches acknowledged and neither recorded nor lost; a loop that throws puts all that it has not got past into `lost` |
| UploadPipelineProof | `ConfirmedNotSentAgain` | `SendInv`: batches under way differ, were taken, and are not acknowledged |
| UploadPipelineProof | `OneRefreshEach` | `RefreshInv`: the token's number is bounded by the run, and `tokenRefreshed` is set with it |
| UploadPipelineProof | `AllBatchesAccountedFor` | `AccountInv`: a batch the index has passed is with a worker or has a result; a worker ends early only for the quota or a stop |
| UploadPipelineProof | `SignOutIsJustified` | `SignOutInv`: a result with `tokenExpired` exists only after a failed refresh |
| UploadPipelineProof | `PipelineNeverStuck` | `MutexInv`: a worker that holds `tokenRefreshMutex` is in its refresh; so whoever waits for the mutex waits for a worker that goes on. The guards of `Work` are written out, since `ENABLED` is out of the prover's reach |
| SharedResourcesProof | `TypeCorrect`, `HandlesAreConserved` | of `CurlHandlePool`: `TypeOK /\ HandlesConserved` is inductive |
| SharedResourcesProof | `WakeupsAreKept` | counting: a release adds one free handle and wakes one sleeper; a taker in between removes a handle |
| SharedResourcesProof | `NotAllAsleep` | for `maxHandles_ # 0`: with `SleepInv` (threads sleep only once all handles exist) and `NoLostWakeup`, a sleeper with nobody woken means that every handle is in use, and `release` wakes |
| SharedResourcesProof | `TxTypeCorrect`, `OnlyOwnersKeepOpen` | of `MetadataTx`, with `WorkersInv`: workers are under way only in their phase; each call of `Database` either closes the transaction or is made by one who will |
| SharedResourcesProof | `CloseIsSafe` | of `MetadataTx`, from the same invariant: at the orderly end no loop or worker is under way |
| RateLimiterProof | `TypeCorrect`, `SlotsAreSpread` | `QueueInv` and `MutexInv`: the queue holds at most `maxRequests_` slots, fewer at the push, and all purged ones are older than a window |
| AccountProof | `TypeCorrect` | with `MainInv` and `RunInv`: which account a command or a run at each step carries |
| AccountProof | `SignOutIsFinal` | `OutInv`: once signed out, the server's address is gone from the keychain, and a late run writes the access token only. `SignedOutStaysOut` alone does not say which of the two entries an automatic sign-in needs is gone |
| AccountProof | `ProfilesAreKept` | `ProfilesInv`: without a failed sign-in the name shown is that of the session, except during a login, where the profiles may be gone to a switch that `FilesLogin` will note |
| AccountProof | `OneAccountStored` | `StoreInv`: the entries that are there belong to one account also while there is no access token; during `save` the entries written so far are the new account's; a run that was not overtaken holds the stored refresh token while the main thread is idle |
| AccountProof | `RunsSyncAsShown` | `SyncInv`: while the command under way may still end with the name that is shown (`Settled`), the client of the runs and the keychain have a token of that user; from the save on the client is that of the account that signs in. `CheckedInv`, from `StoreInv`: what an automatic sign-in has read from the keychain belongs together, and nobody has put other tokens there since |
| AccountProof | `FilesGoAsPaired` | `FilesInv`: the same of the client of file operations; `SignInInv`: during a sign-in the name shown and that client are those of the command, whatever a run does |
| IpcBridgeProof | `TypeCorrect`, `AnswersAreOwn`, `AnswersDoArrive` | `IInv`: ids that are waited for differ (`Numbered`); `pendingRequests` holds exactly the promises that wait (`Tracked`); what is in the pipes and in the handler carries the id its call was given (`Carried`); an answer that was written whole is on its way as long as its promise waits (`Arriving`) |
| IpcBridgeProof | `SignOutIsHeeded` | `HandledInv`: commands are handled in the order they were made, what has an effect or an answer is over, an answered claim was done; so an answered sign-out holds until a later sign-in is handled. `SignedOutIsRefused` alone says nothing of commands still in the pipe |
| IpcBridgeProof | `BridgeImplementsRequests` | each step maps to a step of `RequestService` or a stutter (`StepRefines`), from `IInv` and `HandledInv` |
| FileEventsProof | `TypeCorrect` | with `HandInv`: who is busy has an event of a file in hand; the facts on queues are lemmas (`SeqSteps`, `ForgetMarks`) |
| FileEventsProof | `LocksHaveHolders` | `LockOrder`, inductive with `ThreadInv`: on Linux no thread is joined for one folder, on Windows threads are those of watched folders |
| FileEventsProof | `NoDeadlock` | from `LockOrder` and `StopInv` (who is joined was told to end): whoever waits for the watcher's mutex or a join waits for a watch thread, that one for the thread in the callback, that one for `syncLoop`, which waits for nobody (`ChainsEnd`) |
| FileEventsProof | `UnwatchedStaysQuiet` | `WatchInv`: what a thread has in hand is of a watched folder, and what the system still reports of another is stale. A folder leaves `watches` on Linux under the mutex a busy thread would hold, on Windows after the join; `UnwatchedIsQuiet` alone says nothing of either |
| FileEventsProof | `RemovalHeeded` | `RemovalInv`: a folder with a row has seen no upload since its removal, and none is about to begin for one that has seen one |

`SharedResourcesProof` extends both modules it is about; the names that every
other module has too (`Init`, `Next`, `Spec`, `TypeOK`) begin with `Tx` in
`MetadataTx` for that. The two share no variable.

Only model-checked: the liveness properties (the prover does not handle
fairness; `NoDeadlock`, `PipelineNeverStuck` and `NotAllAsleep` are the safety
part of three of them), and the three departures of section 5, where a property
fails. Every safety property of the passing runs, invariant or action property,
is proved, and so are the two refinements.

## 5. Where the code departs from what is said of it

1. **Local deletions stay local** (`delta_deletion`). "File was deleted
   locally - tell server to delete" (`sync_engine.cpp:885`) is reached only for
   a file that vanished after the scan; deletions the scan reports are dropped
   at `:677`.
2. **A worker's row may be rolled back by another worker**
   (`transactions_workers`). "DB updates for large files (safe: each worker
   handles distinct files)" (`sync_engine.cpp:1243`), but they share one
   connection, and a lock is held for one call only. A second `BEGIN` fails
   unnoticed, so one transaction holds the rows of both, and the `ROLLBACK` of
   the one (`:1277`) undoes the row of the other, which is then reported as
   uploaded.
3. **A log line may split an answer** (`bridge_lines`). `outputMutex_`
   "Protects stdout writes from concurrent threads" (`ipc_server.h:119`), but
   the console sink of the logger writes to the same stdout
   (`utils/logger.cpp:14`) under a mutex of its own, and an answer's text and
   its end of line are two writes (`ipc_server_fixed.cpp:1057`, `:1072`). The
   joined line does not parse (`main.ts:162`), and the promise of a command that
   has taken effect ends as a timeout.

## 6. Observed while modelling, without a run

- While another thread's run is under way, the loop's own refused call sets
  `syncPending_`, which ends its sleep at once (`:1472`): it spins.
- "Manual sync (specific folder) resets quota backoff" (`sync_engine.cpp:555`),
  but a request that finds a run under way leaves only `syncPending_` (`:531`).
  The loop serves it with a request for all folders (`:1457`), which resets
  nothing: within ten minutes of a 507 the folder is skipped (`:565`), and the
  note is used up. `skipped` names such folders.
- "Directories and file patterns to exclude from sync"
  (`change_detector.cpp:18`) are tested by the scan only. What the server has
  at such a path replaces what the user has there (`sync_engine.cpp:739`), and
  a deletion deletes it (`:840`). As the scan never lists these files, their
  edits are not sent, no conflict is seen, and a row at such a path counts as a
  local deletion in every run.
- After a failed download the token is saved all the same (`:1378`), and the
  request of the next run relies on the token alone (`:642`): the file comes
  again only when it changes on the server. `missed` names these files.
- `RateLimiter::acquire` refuses when the oldest slot expires at this moment
  (`rate_limiter.cpp:26`), before its deadline; and its result is ignored
  (`http_client.cpp:258`, `:379`, `:514`).
- A refresh in the third attempt of a batch is not followed by another
  (`sync_engine.cpp:1013`); and a network error of a batch is not retried
  (`:999`), unlike single transfers.
- An expired token in a large-file worker, or a large file that vanished, ends
  the process: the exception leaves a plain `std::thread` (`:1180`, `:1224`).
- A file that vanishes while the results of the batches are handled
  (`sha256_file`, `:1102`; `file_size`, `:1104`, `:1131`) ends the loop: the
  batches behind it have neither row nor log entry though the server may have
  confirmed them, a quota they report is not noticed, and an expired token
  among them leads to no refresh. In the second run of `withTokenRefresh` the
  same exception is taken for a failed refresh, and the user is signed out
  (`sync_engine.h:222`).
- A queued file event uploads an excluded file all the same: `processFileEvent`
  has no such test (`sync_engine.cpp:1484`).
- An exception in the loop that records uploads (`:1104`) leaves its
  transaction open. What commands and runs write until the next run's `COMMIT`
  is lost if the process ends before; a PULL folder with nothing to download
  never commits.
- A pause during a run is undone: `performDeltaSync` writes "syncing"
  (`sync_engine.cpp:662`), "idle" (`:1385`) or "error" (`:1403`) whatever the
  row holds by then.
- The row of an upload takes the mtime of the file after the transfer and the
  hash of the scan. An edit in between is recorded as sent, and "mtime + size
  match" (`change_detector.cpp:160`) passes over it ever after. `tainted` names
  these files.
- `ARCHITECTURE.md:349` puts the resolution of conflicts before the changes are
  applied; the code uploads the local version of a file in conflict, then logs
  it, once more in each run that is told of it (`sync_engine.cpp:1353`).
- `authenticated_` is cleared (`:1151`) before the exception that makes
  `withTokenRefresh` (`sync_engine.h:203`) refresh and run again; nothing sets
  it again, so a successful retry leaves the user signed out.

*Accounts.*

- A login that is refused has already changed the name that is shown, replaced
  the client for file operations and, if the name differs, cleared all profiles.
- A login by password leaves the tokens of an earlier pairing in the keychain;
  file requests (`baluhost_client.cpp:301`) and the refresh of runs take theirs
  from there, so they go by the other account.
- A run that refreshes its token stores it after a sign-out or another sign-in
  all the same.
- The device is registered once, at the first server, and at no second one.
- `check_stored_tokens` answers "needs pairing" without clearing
  `authenticated_`; a refresh token that the keychain fails to read deletes all
  credentials.
- login and set_tokens replace `httpClient_` (`sync_engine.cpp:206`) while the
  request of a run may be using it.
- `current_user.txt` is written so that the user survives a restart
  (`ipc_server_fixed.cpp:411`), and read nowhere. Profiles are deleted and read
  by id, whoever owns them.
- The settings file is truncated before it is written
  (`settings_manager.cpp:118`): a crash in between loses the settings.

*Bridge.*

- "Non-blocking read" (`ipc_server_fixed.cpp:139`) blocks; at the end of stdin
  the loop spins, and an orphaned backend goes on synchronising.
- A command that timed out takes effect later; start_remote_server may take as
  long as Electron's 30 seconds. A settings command that finds no backend ends
  only with its 5 seconds.
- trigger_sync answers before it joins the thread of the one before it, and
  answers a second time if that fails; its run may begin after a pause or a
  sign-out that was made later has been answered; pause_sync and resume_sync do
  not look at the result.
- resolve_conflict and resolve_all_conflicts answer with success and do nothing,
  get_conflicts answers with examples; list_files, get_mountpoints and
  get_permissions answer a failed request with success and an empty list.
- An error whose text is not UTF-8 gets no answer.

*Watcher.*

- `processFileEvent` takes an event for a folder's when its path begins with
  the folder's (`sync_engine.cpp:1490`): with folders `/a/sync` and `/a/sync2`,
  files of the second are uploaded to the first. Queued events of a folder that
  was paused are uploaded still.
- The debounce drops the last write of a burst (`file_watcher_v2.cpp:147`); a
  run finds it within 30 seconds. A full queue of the system drops without a
  word.
- A file that vanishes between `exists` and `file_size`
  (`file_watcher_linux.cpp:187`, `file_watcher_windows.cpp:240`) ends the
  process: the exception leaves the watch thread.
- A pause waits for the uploads of all queued events, which may take longer than
  Electron waits.
- Nested folders are reported twice on Windows; Linux does not watch below the
  folder itself, and reports a file that was moved away as modified; on macOS
  the events go to a dispatch queue that nothing runs.

## 7. Not modelled, and why

- *The strategies of `ConflictResolver` and the older bidirectional sync*
  (`triggerBidirectionalSync`, `scanLocalChanges`, `fetchRemoteChanges`,
  `handleConflict`, and the change detector's remote side): no code that runs
  calls them. `RateLimiter::canAcquire` and `remaining` have no caller either.
- *The watcher of macOS*: see above; its callback never runs.
- *What ssh, wg-quick and the connection tests do; readings of system and RAID;
  formatting; the renderer*: calls to tools of the operating system and layout,
  with no behaviour over time that a state machine would add to. The commands
  themselves are in `IpcCommands`.
- *Migrations and recovery of the database*: run once, before any thread is
  started.
- *Resumed and chunked downloads, progress*: a transfer succeeds or fails.
- *Older sources in the tree* (`ipc_server.cpp`, `ipc_server_temp.cpp`,
  `file_watcher.cpp`, `raid_info_fixed.cpp`): not part of the build.
- *Which names the scan excludes*: the patterns are abstracted to the set
  `excluded`; the properties do not depend on them.
- *`sync_folders.enabled`*: the rows `triggerSync` reads are those with
  `enabled = 1` (`database.cpp:407`), and no code writes anything else there, so
  the test of `sync_engine.cpp:562` for it is always true.
- *In the modules here*: progress notifications, logging and the activity log
  except for failed batches and for log lines on stdout; directories; the number
  and total size of files in a batch; retries inside one transfer; timestamps
  except for their equality with the row; hash collisions.

## 8. Plan

1. `FileEvents` composed with `DeltaSync`: an upload that a queued event causes
   while a run is about to download, delete or report a conflict for the file.
2. One module that composes limiter and pool in the path of an upload.
3. `DeltaSync` against an abstract specification of a folder that converges.
