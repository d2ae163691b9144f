----------------------------- MODULE MetadataTx -----------------------------
(***************************************************************************)
(* The transactions of the backend on its one SQLite connection            *)
(* (backend/src/db/database.cpp), and who opens and closes them: the run   *)
(* of a folder, which records downloads and small uploads in a loop each,  *)
(* and its workers for large files, which record one file each             *)
(* (performDeltaSync in backend/src/sync/sync_engine.cpp).  IPC commands   *)
(* write rows at any time.                                                 *)
(*                                                                         *)
(* dbMutex_ is held for one call, not for a transaction, and nobody looks  *)
(* at the result of beginTransaction or commitTransaction.  A row is       *)
(* either on disk or, written inside the open transaction, unsaved.  Which *)
(* values the rows have is the subject of module DeltaSync.                *)
(*                                                                         *)
(* SQLite is external: BEGIN in a transaction, and COMMIT and ROLLBACK     *)
(* outside of one, are errors without effect; COMMIT may be refused, which *)
(* leaves the transaction open; closing the connection rolls back.         *)
(***************************************************************************)
EXTENDS Naturals

CONSTANTS
    Files,        \* small files, and files that are downloaded or deleted
    LargeFiles,   \* large files of the folder, each with a worker of its own
    FolderRow,    \* the row of sync_folders the run writes its status to
    CommandRow,   \* a row that only IPC commands write
    Directions,   \* the settings of SyncFolder::direction to consider
    MaxEvents     \* bound: failures, crashes and ends of the process

ASSUME RowsAssumption ==
    /\ Files \intersect LargeFiles = {}
    /\ FolderRow \notin Files \union LargeFiles
    /\ CommandRow \notin Files \union LargeFiles \union {FolderRow}
    /\ Directions \subseteq {"bidirectional", "push", "pull"}
    /\ MaxEvents \in Nat

Rows == Files \union LargeFiles \union {FolderRow, CommandRow}

VARIABLES
    direction,  \* folder.direction
    inTx,       \* the connection is not in autocommit mode
    unsaved,    \* rows written in the open transaction
    phase,      \* where the run of the folder is
    left,       \* rows its loop has still to write
    workerAt,   \* where the worker of each large file is
    events,     \* bound only
    \* History variables, read by no action:
    leaked,     \* who opened the transaction is gone, or was refused the COMMIT
    lost        \* rows rolled back though their writer took them for stored

txVars == <<inTx, unsaved, leaked, lost>>
txState == <<direction, txVars, phase, left, workerAt, events>>

TxTypeOK ==
    /\ direction \in Directions
    /\ inTx \in BOOLEAN /\ unsaved \subseteq Rows
    /\ phase \in {"idle", "request", "downloads", "deletes", "uploads", "large",
                  "conflicts", "error"}
    /\ left \subseteq Files
    /\ workerAt \in [LargeFiles -> {"out", "sending", "begun", "written", "failed"}]
    /\ events \in Nat
    /\ leaked \in BOOLEAN /\ lost \subseteq Rows

TxInit ==
    /\ direction \in Directions
    /\ inTx = FALSE /\ unsaved = {}
    /\ phase = "idle" /\ left = {}
    /\ workerAt = [f \in LargeFiles |-> "out"]
    /\ events = 0
    /\ leaked = FALSE /\ lost = {}

Event == events < MaxEvents /\ events' = events + 1

InLoop == phase \in {"downloads", "uploads"}
InWorker(f) == workerAt[f] \in {"begun", "written", "failed"}

-----------------------------------------------------------------------------
(* The calls of class Database.                                            *)

\* Any statement that writes a row: on disk at once, unless a transaction is open.
Write(row) ==
    /\ unsaved' = IF inTx THEN unsaved \union {row} ELSE unsaved
    /\ lost' = lost \ {row}
    /\ UNCHANGED <<inTx, leaked>>

\* beginTransaction: an error, which nobody notices, when one is open already.
Begin ==
    /\ inTx' = TRUE
    /\ UNCHANGED <<unsaved, leaked, lost>>

\* commitTransaction, whoever began it.
Commit ==
    /\ inTx' = FALSE /\ unsaved' = {} /\ leaked' = FALSE
    /\ UNCHANGED lost

CommitRefused ==
    /\ Event
    /\ leaked' = inTx
    /\ UNCHANGED <<inTx, unsaved, lost>>

\* The transaction is undone; the writers of "taken" think their rows are stored.
Undo(taken) ==
    /\ inTx' = FALSE /\ unsaved' = {} /\ leaked' = FALSE
    /\ lost' = lost \union (unsaved \intersect taken)

-----------------------------------------------------------------------------
(* The run of the folder.                                                  *)

\* updateSyncFolderStatus("syncing"), then the request.
StartRun ==
    /\ phase = "idle"
    /\ Write(FolderRow)
    /\ phase' = "request"
    /\ UNCHANGED <<direction, left, workerAt, events>>

\* PUSH, nothing to download, or the engine is stopping.
SkipDownloads ==
    /\ phase = "request"
    /\ phase' = "deletes"
    /\ UNCHANGED <<direction, txVars, left, workerAt, events>>

\* The download workers are joined: their results are recorded in one transaction.
BeginDownloads ==
    /\ phase = "request" /\ direction # "push"
    /\ Begin
    /\ left' \in SUBSET Files
    /\ phase' = "downloads"
    /\ UNCHANGED <<direction, workerAt, events>>

\* upsertFileMetadata; the loops ignore whether it succeeds.
RecordRow(f) ==
    /\ InLoop /\ f \in left
    /\ Write(f)
    /\ left' = left \ {f}
    /\ UNCHANGED <<direction, phase, workerAt, events>>

RecordRowFails(f) ==
    /\ Event
    /\ InLoop /\ f \in left
    /\ left' = left \ {f}
    /\ UNCHANGED <<direction, txVars, phase, workerAt>>

\* commitTransaction, then perhaps TokenExpiredException.
EndDownloads ==
    /\ phase = "downloads" /\ left = {}
    /\ \/ Commit /\ UNCHANGED events
       \/ CommitRefused
    /\ phase' \in {"deletes", "error"}
    /\ UNCHANGED <<direction, left, workerAt>>

\* deleteFileMetadata, of a deletion on the server or of one told to the server.
DropRow(f) ==
    /\ phase = "deletes"
    /\ Write(f)
    /\ UNCHANGED <<direction, phase, left, workerAt, events>>

\* file_size of a file that is gone throws while the uploads are classified.
ClassifyThrows ==
    /\ Event
    /\ phase = "deletes" /\ direction # "pull"
    /\ phase' = "error"
    /\ UNCHANGED <<direction, txVars, left, workerAt>>

\* PULL passes over step 6.
SkipUploads ==
    /\ phase = "deletes" /\ direction = "pull"
    /\ phase' = "conflicts"
    /\ UNCHANGED <<direction, txVars, left, workerAt, events>>

\* Mutant of BeginUploads: what cannot begin a transaction ends the run.
BeginUploadsChecked ==
    /\ phase = "deletes" /\ direction # "pull"
    /\ Begin
    /\ left' \in SUBSET (IF inTx THEN {} ELSE Files)
    /\ phase' = IF inTx THEN "error" ELSE "uploads"
    /\ UNCHANGED <<direction, workerAt, events>>

\* Every run that may upload gets here, also with nothing to upload.
BeginUploads ==
    /\ phase = "deletes" /\ direction # "pull"
    /\ Begin
    /\ left' \in SUBSET Files
    /\ phase' = "uploads"
    /\ UNCHANGED <<direction, workerAt, events>>

\* file_size or sha256_file of a file that is gone throws in the middle of the loop:
\* nobody closes the transaction.
UploadLoopThrows ==
    /\ Event
    /\ phase = "uploads" /\ left # {}
    /\ leaked' = inTx
    /\ phase' = "error" /\ left' = {}
    /\ UNCHANGED <<direction, inTx, unsaved, lost, workerAt>>

\* commitTransaction; then TokenExpiredException, or a worker for each large file.
EndUploads ==
    /\ phase = "uploads" /\ left = {}
    /\ \/ Commit /\ UNCHANGED events
       \/ CommitRefused
    /\ \/ phase' = "error" /\ UNCHANGED workerAt
       \/ /\ phase' = "large"
          /\ \E S \in SUBSET LargeFiles :
                workerAt' = [f \in LargeFiles |-> IF f \in S THEN "sending" ELSE "out"]
    /\ UNCHANGED <<direction, left>>

\* The workers are joined.
EndLarge ==
    /\ phase = "large" /\ \A f \in LargeFiles : workerAt[f] = "out"
    /\ phase' = "conflicts"
    /\ UNCHANGED <<direction, txVars, left, workerAt, events>>

\* Steps 7 to 9, or the catch clause: token and status of the folder.
EndRun ==
    /\ phase \in {"conflicts", "error"}
    /\ Write(FolderRow)
    /\ phase' = "idle"
    /\ UNCHANGED <<direction, left, workerAt, events>>

-----------------------------------------------------------------------------
(* largeFileWorker, after the upload of its file.                          *)

WorkerTo(f, where) == workerAt' = [workerAt EXCEPT ![f] = where]
notWorker == <<direction, phase, left>>

\* Not uploaded: an entry in the activity log.
SendFails(f) ==
    /\ workerAt[f] = "sending"
    /\ WorkerTo(f, "out")
    /\ UNCHANGED <<notWorker, txVars, events>>

WorkerBegin(f) ==
    /\ workerAt[f] = "sending"
    /\ Begin
    /\ WorkerTo(f, "begun")
    /\ UNCHANGED <<notWorker, events>>

WorkerWrite(f) ==
    /\ workerAt[f] = "begun"
    /\ Write(f)
    /\ WorkerTo(f, "written")
    /\ UNCHANGED <<notWorker, events>>

\* The row, or its entry in the activity log, is refused: dbOk is false.
WorkerWriteFails(f) ==
    /\ Event
    /\ workerAt[f] \in {"begun", "written"}
    /\ WorkerTo(f, "failed")
    /\ UNCHANGED <<notWorker, txVars>>

WorkerCommit(f) ==
    /\ workerAt[f] = "written"
    /\ \/ Commit /\ UNCHANGED events
       \/ CommitRefused
    /\ WorkerTo(f, "out")
    /\ UNCHANGED notWorker

\* Mutant of WorkerRollback: the failure is only logged.
WorkerLeaves(f) ==
    /\ workerAt[f] = "failed"
    /\ WorkerTo(f, "out")
    /\ UNCHANGED <<notWorker, txVars, events>>

\* rollbackTransaction, whoever began it.
WorkerRollback(f) ==
    /\ workerAt[f] = "failed"
    /\ Undo(Rows \ {f})
    /\ WorkerTo(f, "out")
    /\ UNCHANGED <<notWorker, events>>

-----------------------------------------------------------------------------
(* IPC commands and the end of the process.                                *)

\* addSyncFolder, updateSyncFolder, resolveConflict...: success is reported at once.
CommandWrites ==
    /\ Write(CommandRow)
    /\ UNCHANGED <<direction, phase, left, workerAt, events>>

\* Rows whose writer went on after it wrote them.
Settled ==
    Rows \ ((IF InLoop THEN Files ELSE {}) \union {f \in LargeFiles : InWorker(f)})

\* The process ends, and the backend starts again.
EndProcess ==
    /\ Event
    /\ Undo(Settled)
    /\ phase' = "idle" /\ left' = {}
    /\ workerAt' = [f \in LargeFiles |-> "out"]
    /\ UNCHANGED direction

\* Mutant of Close: the database is closed before the threads are joined.
CloseEarly == EndProcess

\* ~Database, after the threads are joined.
Close == phase = "idle" /\ EndProcess

Crash == phase # "idle" /\ EndProcess

-----------------------------------------------------------------------------
Run ==
    \/ StartRun \/ SkipDownloads \/ BeginDownloads \/ EndDownloads
    \/ \E f \in Files : RecordRow(f) \/ RecordRowFails(f) \/ DropRow(f)
    \/ ClassifyThrows \/ SkipUploads \/ BeginUploads \/ UploadLoopThrows \/ EndUploads
    \/ EndLarge \/ EndRun

Worker(f) ==
    \/ SendFails(f) \/ WorkerBegin(f) \/ WorkerWrite(f) \/ WorkerWriteFails(f)
    \/ WorkerCommit(f) \/ WorkerRollback(f)

TxNext ==
    \/ Run
    \/ \E f \in LargeFiles : Worker(f)
    \/ CommandWrites
    \/ Close \/ Crash

\* syncLoop starts a run every thirty seconds, as long as the user is signed in and the
\* folder is not paused; a run goes on to its end, and so do the workers.  (DropRow
\* alone may repeat itself: the list of deletions is finite.)
TxFairness ==
    /\ WF_txState(StartRun) /\ WF_txState(SkipDownloads \/ BeginDownloads)
    /\ \A f \in Files : WF_txState(RecordRow(f))
    /\ WF_txState(EndDownloads) /\ WF_txState(SkipUploads) /\ WF_txState(BeginUploads)
    /\ WF_txState(EndUploads) /\ WF_txState(EndLarge) /\ WF_txState(EndRun)
    /\ \A f \in LargeFiles : WF_txState(Worker(f))

TxSpec == TxInit /\ [][TxNext]_txState
TxFairSpec == TxSpec /\ TxFairness

-----------------------------------------------------------------------------
(* Properties.                                                             *)

\* Although BEGIN, COMMIT and ROLLBACK of the workers interleave and none of their
\* results is looked at, the connection is in a transaction only while a loop or a
\* worker is between its own BEGIN and its own COMMIT or ROLLBACK, or after one
\* that threw or was refused: a row is not left unsaved by an unlucky order.
OpenOnlyWhileOwned ==
    /\ inTx => leaked \/ InLoop \/ \E f \in LargeFiles : InWorker(f)
    /\ unsaved # {} => inTx

\* An orderly end of the process takes back no row that a command, a run or a worker
\* took for stored, unless a transaction was left open by an exception or a refusal.
CloseLosesNothing ==
    [][Close => lost' = lost \/ leaked]_txState

\* A transaction left open is closed by one of the next runs, since their BEGIN
\* fails and their COMMIT does not; a PULL folder with nothing to download has none.
LeakHeals == leaked ~> ~leaked \/ direction = "pull"

\* "DB updates for large files (safe: each worker handles distinct files)": the row
\* of an uploaded file is not taken back behind its worker's back.
WorkersAreSafe == lost \intersect LargeFiles = {}
=============================================================================
