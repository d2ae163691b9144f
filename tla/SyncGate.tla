------------------------------ MODULE SyncGate ------------------------------
(***************************************************************************)
(* The threads that start synchronisations in the C++ backend, and what    *)
(* keeps them apart (backend/src/sync/sync_engine.cpp):                    *)
(*                                                                         *)
(*  - the engine's own thread, syncLoop, which calls triggerSync() every   *)
(*    30 seconds, or as soon as it sees syncPending_;                      *)
(*  - the IPC server's asyncSyncThread_, one per "trigger_sync" command,   *)
(*    which calls triggerSync(folder_id);                                  *)
(*  - the futures of launchManagedSync, one per added or resumed folder;   *)
(*  - the main thread, which serves the IPC commands one after the other   *)
(*    and, on SIGINT/SIGTERM, stops the engine and destroys it.            *)
(*                                                                         *)
(* triggerSync is split where another thread can get in between: the       *)
(* exchange on syncing_, the store to syncPending_, the authentication     *)
(* check, the snapshot of the folder rows, and the three status writes of  *)
(* performDeltaSync.  What performDeltaSync does to files is the subject   *)
(* of module DeltaSync; here it only succeeds, fails, exhausts the quota   *)
(* or meets an expired token.  Unwatching and watching the folder (pause,  *)
(* resume, add, remove) touches no state of this module.                   *)
(***************************************************************************)
EXTENDS Naturals, FiniteSets

CONSTANTS
    Folders,      \* the sync folders (ids of rows of sync_folders)
    Loop,         \* syncThread_
    Async,        \* IpcServer::asyncSyncThread_
    Slots,        \* bound: futures of launchManagedSync alive at once
    AllFolders,   \* the empty folderId: "sync every folder"
    NoFolder,     \* no folder is being synchronised
    MaxCommands   \* bound: IPC commands served in a behaviour

ASSUME ThreadsAssumption ==
    /\ Loop # Async
    /\ Loop \notin Slots /\ Async \notin Slots
    /\ AllFolders \notin Folders /\ NoFolder \notin Folders
    /\ MaxCommands \in Nat

Runners == {Loop, Async} \union Slots
Requests == Folders \union {AllFolders}

VARIABLES
    running,        \* running_
    alive,          \* the SyncEngine object has not been destroyed
    authenticated,  \* authenticated_
    syncing,        \* syncing_
    syncPending,    \* syncPending_
    quota,          \* quotaExceeded_ and its age: "none" | "active" | "elapsed"
    rows,           \* sync_folders.status, per folder
    futures,        \* pendingSyncs_
    mainPc,         \* where the main thread is
    mainReq,        \* the folder_id of the trigger_sync being served
    pc,             \* where each runner is
    req,            \* the folderId each runner passed to triggerSync
    todo,           \* the folders its snapshot holds and it has not visited
    cur,            \* the folder performDeltaSync works on
    again,          \* withTokenRefresh is in its second attempt
    commands,       \* IPC commands served so far (bound only)
    \* History variables, read by no action:
    owed,           \* folders with a queued request, until a run starts with them
    skipped,        \* of those, the ones a run has passed over for the quota
    userPaused,     \* folders whose pause was acknowledged and not undone
    midRun          \* of those, the ones a run had in its snapshot by then

engineVars == <<running, alive, authenticated, rows, futures, mainPc, mainReq, commands>>
gateVars == <<syncing, syncPending, quota>>
runnerVars == <<pc, req, todo, cur, again>>
pauseVars == <<userPaused, midRun>>
owedVars == <<owed, skipped>>
vars == <<engineVars, gateVars, runnerVars, pauseVars, owedVars>>

Live == {"idle", "syncing", "error"}      \* rows triggerSync does not skip
Present == Live \union {"paused"}

\* Runner locations between the successful exchange and the guard's destructor.
Inside == {"held", "authed", "each", "scan", "transfer", "refresh"}
Outside == {"out", "call", "refused", "top", "sleep", "exited"}
Holding(t) == pc[t] \in Inside

TypeOK ==
    /\ running \in BOOLEAN /\ alive \in BOOLEAN /\ authenticated \in BOOLEAN
    /\ syncing \in BOOLEAN /\ syncPending \in BOOLEAN
    /\ quota \in {"none", "active", "elapsed"}
    /\ rows \in [Folders -> Present \union {"absent", "removed"}]
    /\ futures \subseteq Slots
    /\ mainPc \in {"serve", "join", "stopLoop", "stopFutures", "destroyIpc",
                   "destroyEngine", "exit"}
    /\ mainReq \in Requests
    /\ pc \in [Runners -> Inside \union Outside]
    /\ req \in [Runners -> Requests]
    /\ todo \in [Runners -> SUBSET Folders]
    /\ cur \in [Runners -> Folders \union {NoFolder}]
    /\ again \in [Runners -> BOOLEAN]
    /\ commands \in Nat
    /\ owed \subseteq Folders /\ skipped \subseteq Folders
    /\ userPaused \subseteq Folders /\ midRun \subseteq Folders

\* main(): the IPC server and the engine have started; some folders are in the
\* database already, and checkStoredTokens may or may not have signed the user in.
Init ==
    /\ running = TRUE /\ alive = TRUE
    /\ authenticated \in BOOLEAN
    /\ syncing = FALSE /\ syncPending = FALSE /\ quota = "none"
    /\ rows \in [Folders -> {"idle", "absent"}]
    /\ futures = {}
    /\ mainPc = "serve" /\ mainReq = AllFolders
    /\ pc = [t \in Runners |-> IF t = Loop THEN "top" ELSE "out"]
    /\ req = [t \in Runners |-> AllFolders]
    /\ todo = [t \in Runners |-> {}]
    /\ cur = [t \in Runners |-> NoFolder]
    /\ again = [t \in Runners |-> FALSE]
    /\ commands = 0
    /\ owed = {} /\ skipped = {}
    /\ userPaused = {} /\ midRun = {}

-----------------------------------------------------------------------------
(* triggerSync, as any runner executes it.                                 *)

Goto(t, where) == pc' = [pc EXCEPT ![t] = where]

\* Mutant of AfterSync: a thread that is done calls triggerSync again.
AfterSyncAgain(t) == IF t = Loop THEN "sleep" ELSE "call"

\* Where a runner continues when triggerSync returns: syncLoop goes on to its
\* sleep, the other threads end.
AfterSync(t) == IF t = Loop THEN "sleep" ELSE "out"

Asked(r) == IF r = AllFolders THEN Folders ELSE {r}

\* The requests for folders S are settled or void.
Settle(S) == owed' = owed \ S /\ skipped' = skipped \ S

\* The loop finds nobody signed in: with no note left, or about to be left, it is
\* rid of every queued request.
LoopGivesUp ==
    Settle(IF syncPending \/ \E t \in Runners : pc[t] = "refused" THEN {} ELSE owed)

\* Mutant of Enter: the flag is set but its old value is not looked at.
EnterIgnoringFlag(t) ==
    /\ pc[t] = "call"
    /\ syncing' = TRUE
    /\ Goto(t, "held")
    /\ UNCHANGED <<engineVars, syncPending, quota, req, todo, cur, again, pauseVars, owedVars>>

\* if (syncing_.exchange(true)): the caller that reads false owns the run.
Enter(t) ==
    /\ pc[t] = "call"
    /\ ~syncing
    /\ syncing' = TRUE
    /\ Goto(t, "held")
    /\ UNCHANGED <<engineVars, syncPending, quota, req, todo, cur, again, pauseVars, owedVars>>

\* The caller that reads true will only leave a note for the loop.
FindBusy(t) ==
    /\ pc[t] = "call"
    /\ syncing
    /\ Goto(t, "refused")
    /\ owed' = owed \union Asked(req[t])
    /\ skipped' = skipped \ Asked(req[t])
    /\ UNCHANGED <<engineVars, gateVars, req, todo, cur, again, pauseVars>>

\* Mutant of LeaveNote: the guard is constructed before the flag is tested.
LeaveNoteUnderGuard(t) ==
    /\ pc[t] = "refused"
    /\ syncPending' = TRUE /\ syncing' = FALSE
    /\ Goto(t, AfterSync(t))
    /\ UNCHANGED <<engineVars, quota, req, todo, cur, again, pauseVars, owedVars>>

\* Mutant of LeaveNote: the request that finds a run under way is dropped.
LeaveNoNote(t) ==
    /\ pc[t] = "refused"
    /\ Goto(t, AfterSync(t))
    /\ UNCHANGED <<engineVars, gateVars, req, todo, cur, again, pauseVars, owedVars>>

\* syncPending_ = true; return.  No SyncGuard exists yet, so the flag stays.
LeaveNote(t) ==
    /\ pc[t] = "refused"
    /\ syncPending' = TRUE
    /\ Goto(t, AfterSync(t))
    /\ UNCHANGED <<engineVars, syncing, quota, req, todo, cur, again, pauseVars, owedVars>>

\* if (!authenticated_) return: the guard's destructor clears syncing_.
CheckAuth(t) ==
    /\ pc[t] = "held"
    /\ IF authenticated
       THEN Goto(t, "authed") /\ UNCHANGED syncing
       ELSE Goto(t, AfterSync(t)) /\ syncing' = FALSE
    /\ IF authenticated \/ t # Loop THEN UNCHANGED owedVars ELSE LoopGivesUp
    /\ UNCHANGED <<engineVars, syncPending, quota, req, todo, cur, again, pauseVars>>

\* The rows the for loop of triggerSync visits.
Visits(t, statuses) ==
    {f \in Asked(req[t]) : rows[f] \in statuses}

\* Mutant of TakeSnapshot: paused folders are not left out.
TakeSnapshotOfAllRows(t) ==
    /\ pc[t] = "authed"
    /\ quota' = IF req[t] = AllFolders THEN quota ELSE "none"
    /\ todo' = [todo EXCEPT ![t] = Visits(t, Present)]
    /\ Settle(Asked(req[t]) \ Visits(t, Present))
    /\ Goto(t, "each")
    /\ UNCHANGED <<engineVars, syncing, syncPending, req, cur, again, pauseVars>>

\* A named folder resets the quota backoff; then the folder rows are read once,
\* and the loop runs over that copy.  What was asked for and is paused or removed
\* is not owed any more.  (folder.enabled is true of every row that is read.)
TakeSnapshot(t) ==
    /\ pc[t] = "authed"
    /\ quota' = IF req[t] = AllFolders THEN quota ELSE "none"
    /\ todo' = [todo EXCEPT ![t] = Visits(t, Live)]
    /\ Settle(Asked(req[t]) \ Visits(t, Live))
    /\ Goto(t, "each")
    /\ UNCHANGED <<engineVars, syncing, syncPending, req, cur, again, pauseVars>>

\* Less than ten minutes after a 507 the folder is passed over.
SkipForQuota(t, f) ==
    /\ pc[t] = "each" /\ f \in todo[t]
    /\ quota = "active"
    /\ todo' = [todo EXCEPT ![t] = @ \ {f}]
    /\ skipped' = skipped \union ({f} \intersect owed)
    /\ UNCHANGED <<engineVars, gateVars, pc, req, cur, again, pauseVars, owed>>

\* Otherwise performDeltaSync(folder) starts; an elapsed backoff is forgotten.
StartFolder(t, f) ==
    /\ pc[t] = "each" /\ f \in todo[t]
    /\ quota # "active"
    /\ quota' = "none"
    /\ todo' = [todo EXCEPT ![t] = @ \ {f}]
    /\ cur' = [cur EXCEPT ![t] = f]
    /\ again' = [again EXCEPT ![t] = FALSE]
    /\ Goto(t, "scan")
    /\ Settle({f})
    /\ UNCHANGED <<engineVars, syncing, syncPending, req, pauseVars>>

\* UPDATE sync_folders SET status = s WHERE id = f: no row, no effect.
WriteStatus(f, s) ==
    rows' = IF rows[f] \in Present THEN [rows EXCEPT ![f] = s] ELSE rows

notRows == <<running, alive, futures, mainPc, mainReq, commands>>

\* Steps 1 to 3 of performDeltaSync end with updateSyncFolderStatus("syncing").
MarkSyncing(t) ==
    /\ pc[t] = "scan"
    /\ WriteStatus(cur[t], "syncing")
    /\ Goto(t, "transfer")
    /\ UNCHANGED <<notRows, authenticated, gateVars, req, todo, cur, again, pauseVars, owedVars>>

\* A 507 anywhere in the transfer; the other files and steps go on.
HitQuota(t) ==
    /\ pc[t] = "transfer" /\ quota = "none"
    /\ quota' = "active"
    /\ UNCHANGED <<engineVars, syncing, syncPending, runnerVars, pauseVars, owedVars>>

EndFolder(t) ==
    /\ Goto(t, "each")
    /\ cur' = [cur EXCEPT ![t] = NoFolder]

\* Step 9: updateSyncFolderStatus("idle").
FinishFolder(t) ==
    /\ pc[t] = "transfer"
    /\ WriteStatus(cur[t], "idle")
    /\ EndFolder(t)
    /\ UNCHANGED <<notRows, authenticated, gateVars, req, todo, again, pauseVars, owedVars>>

\* Any exception in the end: status "error", and triggerSync goes on to the next
\* folder.  In its second attempt withTokenRefresh takes whatever is thrown for a
\* failed refresh, and gives up the session.
FailFolder(t) ==
    /\ pc[t] = "transfer"
    /\ WriteStatus(cur[t], "error")
    /\ EndFolder(t)
    /\ authenticated' = (authenticated /\ ~again[t])
    /\ UNCHANGED <<notRows, gateVars, req, todo, again, pauseVars, owedVars>>

\* A TokenExpiredException in the first attempt: performDeltaSync writes "error" and
\* rethrows to withTokenRefresh.  Where the upload workers could not refresh the
\* token themselves, authenticated_ is false by now, and stays so.
MeetExpiredToken(t) ==
    /\ pc[t] = "transfer" /\ ~again[t]
    /\ WriteStatus(cur[t], "error")
    /\ Goto(t, "refresh")
    /\ authenticated' \in {authenticated, FALSE}
    /\ UNCHANGED <<notRows, gateVars, req, todo, cur, again, pauseVars, owedVars>>

RefreshToken(t) ==
    /\ pc[t] = "refresh"
    /\ again' = [again EXCEPT ![t] = TRUE]
    /\ Goto(t, "scan")
    /\ UNCHANGED <<engineVars, gateVars, req, todo, cur, pauseVars, owedVars>>

FailRefresh(t) ==
    /\ pc[t] = "refresh"
    /\ authenticated' = FALSE
    /\ EndFolder(t)
    /\ UNCHANGED <<notRows, rows, gateVars, req, todo, again, pauseVars, owedVars>>

\* The end of triggerSync's scope: ~SyncGuard.
Leave(t) ==
    /\ pc[t] = "each" /\ todo[t] = {}
    /\ syncing' = FALSE
    /\ Goto(t, AfterSync(t))
    /\ UNCHANGED <<engineVars, syncPending, quota, req, todo, cur, again, pauseVars, owedVars>>

\* Ten minutes have passed since quotaExceededAt_.
QuotaBackoffElapses ==
    /\ quota = "active"
    /\ quota' = "elapsed"
    /\ UNCHANGED <<engineVars, syncing, syncPending, runnerVars, pauseVars, owedVars>>

-----------------------------------------------------------------------------
(* syncLoop.                                                               *)

\* while (running_): the queued file events, then triggerSync() if signed in.
LoopIterate ==
    /\ pc[Loop] = "top" /\ running
    /\ Goto(Loop, IF authenticated THEN "call" ELSE "sleep")
    /\ req' = [req EXCEPT ![Loop] = AllFolders]
    /\ IF authenticated THEN UNCHANGED owedVars ELSE LoopGivesUp
    /\ UNCHANGED <<engineVars, gateVars, todo, cur, again, pauseVars>>

LoopExit ==
    /\ pc[Loop] \in {"top", "sleep"} /\ ~running
    /\ Goto(Loop, "exited")
    /\ UNCHANGED <<engineVars, gateVars, req, todo, cur, again, pauseVars, owedVars>>

\* One of the 30 checks of the sleep sees a queued request.
LoopWake ==
    /\ pc[Loop] = "sleep" /\ running /\ syncPending
    /\ syncPending' = FALSE
    /\ Goto(Loop, "top")
    /\ UNCHANGED <<engineVars, syncing, quota, req, todo, cur, again, pauseVars, owedVars>>

\* The 30 seconds are over.
LoopSleepEnds ==
    /\ pc[Loop] = "sleep" /\ running
    /\ Goto(Loop, "top")
    /\ UNCHANGED <<engineVars, gateVars, req, todo, cur, again, pauseVars, owedVars>>

-----------------------------------------------------------------------------
(* The main thread: IPC commands, one after the other, then the shutdown.  *)

Command ==
    /\ mainPc = "serve" /\ commands < MaxCommands
    /\ commands' = commands + 1

\* Mutant of Launch: the thread is detached, no future is kept.
LaunchDetached(f) ==
    \E s \in Slots :
        /\ pc[s] = "out"
        /\ Goto(s, "call")
        /\ req' = [req EXCEPT ![s] = f]
        /\ UNCHANGED futures

\* launchManagedSync: drop the finished futures, add the new one.
Launch(f) ==
    \E s \in Slots :
        /\ pc[s] = "out"
        /\ Goto(s, "call")
        /\ req' = [req EXCEPT ![s] = f]
        /\ futures' = {x \in futures : pc[x] # "out"} \union {s}

LaunchIfSignedIn(f) ==
    IF running /\ authenticated THEN Launch(f) ELSE UNCHANGED <<pc, req, futures>>

notLaunch == <<running, alive, authenticated, mainPc, mainReq>>
notLaunchRunner == <<todo, cur, again>>

AddFolder(f) ==
    /\ Command
    /\ rows[f] = "absent"
    /\ rows' = [rows EXCEPT ![f] = "idle"]
    /\ LaunchIfSignedIn(f)
    /\ UNCHANGED <<notLaunch, notLaunchRunner, gateVars, pauseVars, owedVars>>

RemoveFolder(f) ==
    /\ Command
    /\ rows[f] \in Present
    /\ rows' = [rows EXCEPT ![f] = "removed"]
    /\ userPaused' = userPaused \ {f} /\ midRun' = midRun \ {f}
    /\ UNCHANGED <<notLaunch, futures, gateVars, runnerVars, owedVars>>

InSomeRun(f) == \E t \in Runners : f \in todo[t] \/ f = cur[t]

\* pauseSync: the row is rewritten with status PAUSED.
PauseFolder(f) ==
    /\ Command
    /\ rows[f] \in Present
    /\ rows' = [rows EXCEPT ![f] = "paused"]
    /\ userPaused' = userPaused \union {f}
    /\ midRun' = IF InSomeRun(f) THEN midRun \union {f} ELSE midRun
    /\ UNCHANGED <<notLaunch, futures, gateVars, runnerVars, owedVars>>

ResumeFolder(f) ==
    /\ Command
    /\ rows[f] \in Present
    /\ rows' = [rows EXCEPT ![f] = "idle"]
    /\ userPaused' = userPaused \ {f} /\ midRun' = midRun \ {f}
    /\ LaunchIfSignedIn(f)
    /\ UNCHANGED <<notLaunch, notLaunchRunner, gateVars, owedVars>>

\* login, set_tokens and check_stored_tokens end signed in or signed out,
\* logout signed out.
SetAuthenticated(b) ==
    /\ Command
    /\ authenticated # b
    /\ authenticated' = b
    /\ UNCHANGED <<running, alive, rows, futures, mainPc, mainReq, gateVars,
                   runnerVars, pauseVars, owedVars>>

\* handleTriggerSync answers at once, then joins the thread of the previous
\* trigger_sync before it starts the next.
TriggerCommand(r) ==
    /\ Command
    /\ mainPc' = "join" /\ mainReq' = r
    /\ UNCHANGED <<running, alive, authenticated, rows, futures, gateVars,
                   runnerVars, pauseVars, owedVars>>

StartAsync ==
    /\ mainPc = "join" /\ pc[Async] = "out"
    /\ mainPc' = "serve"
    /\ Goto(Async, "call")
    /\ req' = [req EXCEPT ![Async] = mainReq]
    /\ UNCHANGED <<running, alive, authenticated, rows, futures, mainReq, commands,
                   gateVars, notLaunchRunner, pauseVars, owedVars>>

notMain == <<alive, authenticated, rows, mainReq, commands, gateVars, runnerVars,
             pauseVars, owedVars>>

\* Mutant of Stop: the joins come before running_ = false.
StopJoinFirst ==
    /\ mainPc = "serve"
    /\ mainPc' = "stopLoop"
    /\ UNCHANGED <<running, futures, notMain>>

\* SIGINT/SIGTERM: the command loop ends and SyncEngine::stop begins.
Stop ==
    /\ mainPc = "serve"
    /\ mainPc' = "stopLoop" /\ running' = FALSE
    /\ UNCHANGED <<futures, notMain>>

StopJoinLoop ==
    /\ mainPc = "stopLoop" /\ pc[Loop] = "exited"
    /\ mainPc' = "stopFutures"
    /\ UNCHANGED <<running, futures, notMain>>

StopWaitFutures ==
    /\ mainPc = "stopFutures"
    /\ \A s \in futures : pc[s] = "out"
    /\ futures' = {}
    /\ mainPc' = "destroyIpc"
    /\ UNCHANGED <<running, notMain>>

\* ~IpcServer joins asyncSyncThread_; the IPC server was constructed after the
\* engine, so it is destroyed first.
DestroyIpcServer ==
    /\ mainPc = "destroyIpc" /\ pc[Async] = "out"
    /\ mainPc' = "destroyEngine"
    /\ UNCHANGED <<running, futures, notMain>>

\* ~SyncEngine: stop() again, which returns at once, then the members go.
DestroyEngine ==
    /\ mainPc = "destroyEngine"
    /\ mainPc' = "exit" /\ alive' = FALSE
    /\ UNCHANGED <<running, futures, authenticated, rows, mainReq, commands, gateVars,
                   runnerVars, pauseVars, owedVars>>

-----------------------------------------------------------------------------
RunFolder(t) ==
    \/ \E f \in Folders : SkipForQuota(t, f) \/ StartFolder(t, f)
    \/ MarkSyncing(t)
    \/ FinishFolder(t) \/ FailFolder(t) \/ MeetExpiredToken(t)
    \/ RefreshToken(t) \/ FailRefresh(t)

TriggerSync(t) ==
    \/ Enter(t) \/ FindBusy(t) \/ LeaveNote(t)
    \/ CheckAuth(t) \/ TakeSnapshot(t) \/ RunFolder(t) \/ Leave(t)

SyncLoop == LoopIterate \/ LoopExit \/ LoopWake \/ LoopSleepEnds

ServeCommand ==
    \/ \E f \in Folders : AddFolder(f) \/ RemoveFolder(f) \/ PauseFolder(f) \/ ResumeFolder(f)
    \/ \E b \in BOOLEAN : SetAuthenticated(b)
    \/ \E r \in Requests : TriggerCommand(r)

Shutdown == StopJoinLoop \/ StopWaitFutures \/ DestroyIpcServer \/ DestroyEngine

Next ==
    \/ \E t \in Runners : TriggerSync(t) \/ HitQuota(t)
    \/ QuotaBackoffElapses
    \/ SyncLoop
    \/ ServeCommand \/ StartAsync
    \/ Stop \/ Shutdown

\* Every started thread keeps running: the scheduler is fair, and a transfer ends
\* (connect timeout and low-speed limit of every request).  The user, the quota and
\* the signals owe nothing.  Nothing is asked of the 30 seconds either: the loop is
\* only said to look at running_ and at the note while it sleeps (strong fairness:
\* 30 times in every sleep), so that what a note promises is not kept by the timer.
Fairness ==
    /\ \A t \in Runners : WF_vars(TriggerSync(t))
    /\ WF_vars(LoopIterate) /\ WF_vars(LoopExit) /\ SF_vars(LoopWake)
    /\ WF_vars(StartAsync)
    /\ WF_vars(Shutdown)

Spec == Init /\ [][Next]_vars
FairSpec == Spec /\ Fairness
-----------------------------------------------------------------------------
(* Properties.                                                             *)

\* syncing_ is true exactly while one runner is between its exchange and its
\* guard's destructor, and never are two runners there ("Prevent concurrent
\* sync runs (auto-loop vs manual trigger)"): performDeltaSync never runs twice
\* at once, on the same folder or on two.
ExclusiveRun ==
    /\ \A s, t \in Runners : Holding(s) /\ Holding(t) => s = t
    /\ syncing <=> \E t \in Runners : Holding(t)

\* No thread is in triggerSync once the engine is destroyed: the joins of stop()
\* and of ~IpcServer together cover every thread that was ever started ("managed
\* sync threads (replaces detached threads to prevent use-after-free)").
NoUseAfterDestroy ==
    ~alive => \A t \in Runners : pc[t] \in {"out", "exited"}

\* A pause that finds no run with the folder in its snapshot stays in force: the
\* row says "paused" until the user resumes or removes the folder, whatever
\* syncs run in the meantime.
PauseOutsideRunHolds ==
    \A f \in userPaused \ midRun : rows[f] = "paused"

\* triggerSync implements the queueing service the callers rely on.
Service == INSTANCE SyncService WITH
               holders <- {t \in Runners : Holding(t)},
               signedIn <- authenticated,
               live <- {f \in Folders : rows[f] \in Live}
ImplementsService == Service!Spec

\* A request that found a run under way is not lost: its note alone, without the
\* timer of the loop, brings about a run that starts with the folder.  The request
\* is void where that run finds the folder paused or removed, or the loop nobody
\* signed in (Settle), and the engine may stop first.  It may also be passed over
\* for the quota and remain owed, even where the user asked for the folder by its id:
\* the note does not say so, and the loop's request resets no backoff.
QueuedRequestServed ==
    \A f \in Folders : f \in owed ~> f \notin owed \/ f \in skipped \/ ~running

\* stop() returns and the process ends, whatever the threads were doing.
StopCompletes == (mainPc = "stopLoop") ~> (mainPc = "exit")

\* A second trigger_sync waits for the first one's thread, but not for ever.
TriggerProceeds == (mainPc = "join") ~> (mainPc # "join")
=============================================================================
