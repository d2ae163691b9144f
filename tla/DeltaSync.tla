----------------------------- MODULE DeltaSync -----------------------------
(***************************************************************************)
(* What SyncEngine::performDeltaSync does to the files of one sync folder  *)
(* (backend/src/sync/sync_engine.cpp), run after run, while the user works *)
(* on the local files and other devices work on the server's.              *)
(*                                                                         *)
(* Three places hold a file: the local folder, the server, and the row of  *)
(* file_metadata that remembers what was last transferred.  A run compares *)
(* the first with the third, asks the server for its changes since the     *)
(* folder's change token, downloads, deletes, uploads, logs conflicts and  *)
(* saves the new token.  The user and the other devices write between any  *)
(* two of these steps.  The worker threads of a phase handle the files in  *)
(* any order; each small file is taken to be a batch of its own (at most   *)
(* three files, so that every worker can be under way at once).            *)
(*                                                                         *)
(* That runs exclude each other is shown in module SyncGate; which rows an *)
(* open transaction can lose is not modelled here.  The server is external *)
(* and modelled from how the client uses its answers: it reports what      *)
(* other devices changed since the token, as a conflict where the client   *)
(* lists the file as changed too, and to download or delete otherwise.     *)
(***************************************************************************)
EXTENDS Naturals, FiniteSets

CONSTANTS
    Paths,        \* relative paths in the folder
    Contents,     \* what a file may contain
    Absent,       \* no such file
    Directions,   \* the settings of SyncFolder::direction to consider
    MaxEvents     \* bound: writes by user and devices, failures and crashes

ASSUME ContentsAssumption ==
    /\ Absent \notin Contents
    /\ Directions \subseteq {"bidirectional", "push", "pull"}
    /\ MaxEvents \in Nat

File == Contents \union {Absent}

VARIABLES
    direction,    \* folder.direction
    excluded,     \* the paths whose names the scan excludes
    local,        \* the local files
    server,       \* the server's files
    known,        \* paths with a row in file_metadata
    hash,         \* file_metadata.checksum, as the content it is the hash of
    match,        \* local_mtime and size of the row are those of the file on disk
    hasToken,     \* sync_folders.change_token is not empty
    newSince,     \* paths other devices changed since that token was issued
    pending,      \* paths with a pending row in conflicts
    stopping,     \* ~running_, or the process is down
    pc,           \* the phase of the run
    changes,      \* localChanges: the change detected at each path
    scanHash,     \* DetectedChange::hash
    answer,       \* the DeltaSyncResponse
    newAfter,     \* paths other devices changed since that response was made
    left,         \* what the phase has still to handle
    done,         \* what the phase transferred and has not recorded
    small, large, \* the uploads by class
    events,       \* bound only
    \* History variables, read by no action:
    unsent,       \* paths where the user's content was never uploaded
    synced,       \* what folder and server last agreed on, or exchanged
    raced,        \* the user wrote the file after the scan of the run looked at it
    tainted,      \* the row need not describe the last transfer: the user wrote the
                  \* file while a run worked, or the transfer was not recorded as it was
    undone,       \* what this run's answer asked for and the run did not do
    missed        \* the same, of runs that saved their token all the same

settings == <<direction, excluded>>
fileVars == <<local, server, newSince, newAfter>>
rowVars == <<known, hash, tainted>>
runVars == <<changes, scanHash, answer, small, large>>
folderVars == <<hasToken, pending>>
vars == <<settings, fileVars, synced, rowVars, match, folderVars, stopping, pc, runVars,
          left, done, events, unsent, raced, undone, missed>>

Phases == {"idle", "request", "download", "delete", "classify", "small", "large",
           "conflicts"}
Kinds == {"none", "created", "modified", "deleted"}
Answers == [ok : BOOLEAN, down : SUBSET Paths, del : SUBSET Paths,
            conf : SUBSET Paths, file : [Paths -> File]]

TypeOK ==
    /\ direction \in Directions /\ excluded \subseteq Paths
    /\ local \in [Paths -> File] /\ server \in [Paths -> File]
    /\ known \subseteq Paths /\ hash \in [Paths -> File] /\ match \subseteq Paths
    /\ hasToken \in BOOLEAN /\ pending \subseteq Paths /\ stopping \in BOOLEAN
    /\ newSince \subseteq Paths /\ newAfter \subseteq Paths
    /\ pc \in Phases
    /\ changes \in [Paths -> Kinds] /\ scanHash \in [Paths -> File]
    /\ answer \in Answers
    /\ left \subseteq Paths /\ done \subseteq Paths
    /\ small \subseteq Paths /\ large \subseteq Paths
    /\ small \intersect large = {} /\ left \intersect done = {}
    /\ events \in Nat
    /\ unsent \subseteq Paths /\ raced \subseteq Paths /\ tainted \subseteq Paths
    /\ undone \subseteq Paths /\ missed \subseteq Paths /\ synced \in [Paths -> File]

\* The empty response performDeltaSync goes on with when the request failed.
NoAnswer == [ok |-> FALSE, down |-> {}, del |-> {}, conf |-> {},
             file |-> [p \in Paths |-> Absent]]

\* A folder that was just added: files on either side, no rows and no token.
Init ==
    /\ direction \in Directions /\ excluded \in SUBSET Paths
    /\ local \in [Paths -> File] /\ server \in [Paths -> File]
    /\ known = {} /\ hash = [p \in Paths |-> Absent] /\ match = {}
    /\ hasToken = FALSE /\ pending = {} /\ stopping = FALSE
    /\ newSince = Paths /\ newAfter = {}
    /\ pc = "idle"
    /\ changes = [p \in Paths |-> "none"] /\ scanHash = [p \in Paths |-> Absent]
    /\ answer = NoAnswer
    /\ left = {} /\ done = {} /\ small = {} /\ large = {}
    /\ events = 0
    /\ unsent = {p \in Paths : local[p] # Absent}
    /\ synced = [p \in Paths |-> Absent]
    /\ raced = {} /\ tainted = {} /\ undone = {} /\ missed = {}

\* performDeltaSync returns or throws: its local variables are gone.
EndRun ==
    /\ pc' = "idle"
    /\ changes' = [p \in Paths |-> "none"] /\ scanHash' = [p \in Paths |-> Absent]
    /\ answer' = NoAnswer
    /\ left' = {} /\ done' = {} /\ small' = {} /\ large' = {}
    /\ newAfter' = {} /\ raced' = {} /\ undone' = {}

\* One of the events that nothing in the program brings about.
Event == events < MaxEvents /\ events' = events + 1

-----------------------------------------------------------------------------
(* The user, the other devices, and the end of the process.                *)

UserChanges(p, c) ==
    /\ Event
    /\ local' = [local EXCEPT ![p] = c]
    /\ match' = match \ {p}
    /\ IF pc = "idle" THEN UNCHANGED <<raced, tainted>>
       ELSE raced' = raced \union {p} /\ tainted' = tainted \union {p}
    /\ UNCHANGED <<settings, server, newSince, newAfter, synced, known, hash, folderVars,
                   stopping, pc, runVars, left, done, undone, missed>>

\* The user creates or rewrites a file: a new mtime on disk.
UserWrites(p, c) == UserChanges(p, c) /\ unsent' = unsent \union {p}

UserDeletes(p) ==
    /\ local[p] # Absent
    /\ UserChanges(p, Absent)
    /\ unsent' = unsent \ {p}

\* Another device uploads or deletes: part of every later answer, once.
OtherDeviceWrites(p, c) ==
    /\ Event
    /\ server[p] # c
    /\ server' = [server EXCEPT ![p] = c]
    /\ newSince' = newSince \union {p}
    /\ newAfter' = IF pc = "idle" THEN {} ELSE newAfter \union {p}
    /\ missed' = missed \ {p}
    /\ UNCHANGED <<settings, local, synced, rowVars, match, folderVars, stopping, pc,
                   runVars, left, done, unsent, raced, undone>>

\* stop(): running_ = false.  The run goes on to its end, without transfers.
StopEngine ==
    /\ Event
    /\ ~stopping /\ pc # "idle"
    /\ stopping' = TRUE
    /\ UNCHANGED <<settings, fileVars, synced, rowVars, match, folderVars, pc, runVars,
                   left, done, unsent, raced, undone, missed>>

\* The run ends before step 8, by an exception that step's catch clause meets
\* (token expired, a file that vanished) or because the process dies; the rows,
\* the token and the files stay as they are.
Abandon ==
    /\ Event
    /\ pc # "idle"
    /\ tainted' = tainted \union done
    /\ EndRun
    /\ UNCHANGED <<settings, local, server, synced, newSince, known, hash, match, folderVars,
                   stopping, unsent, missed>>

\* The next start of the backend.
Restart ==
    /\ pc = "idle" /\ stopping
    /\ stopping' = FALSE
    /\ UNCHANGED <<settings, fileVars, synced, rowVars, match, folderVars, pc, runVars,
                   left, done, events, unsent, raced, undone, missed>>

-----------------------------------------------------------------------------
(* Steps 1 to 3: the scan and the request.                                 *)

\* seenPaths: the walk does not enter an excluded directory and passes over every
\* file whose path has an excluded component or extension.
Seen(p) == local[p] # Absent /\ p \notin excluded

\* Mutants of Change: a file without a row is passed over; a changed file is.
ChangeOfKnownOnly(p) ==
    CASE Seen(p) /\ p \in known /\ p \notin match /\ local[p] # hash[p] -> "modified"
      [] ~Seen(p) /\ p \in known -> "deleted"
      [] OTHER -> "none"

ChangeOfNewOnly(p) ==
    CASE Seen(p) /\ p \notin known -> "created"
      [] ~Seen(p) /\ p \in known -> "deleted"
      [] OTHER -> "none"

\* ChangeDetector::detectLocalChanges for one path.  A file whose mtime and size
\* are those of its row is not looked into; otherwise its hash decides.  What has a
\* row and was not seen counts as deleted, be it there or not.
Change(p) ==
    CASE Seen(p) /\ p \notin known -> "created"
      [] Seen(p) /\ p \in known /\ p \notin match /\ local[p] # hash[p] -> "modified"
      [] ~Seen(p) /\ p \in known -> "deleted"
      [] OTHER -> "none"

Changed == {p \in Paths : Change(p) # "none"}

\* The scan finds the changes at the paths of S: all of them, or, when an
\* exception ends the walk, those it had come to.
Scan(S) ==
    /\ pc = "idle" /\ ~stopping
    /\ changes' = [p \in Paths |-> IF p \in S THEN Change(p) ELSE "none"]
    /\ scanHash' = [p \in Paths |->
                       IF p \in S /\ Change(p) = "modified" THEN local[p] ELSE Absent]
    /\ raced' = Changed \ S
    /\ pc' = "request"
    /\ UNCHANGED <<settings, fileVars, synced, rowVars, match, folderVars, stopping, answer,
                   small, large, left, done, unsent, undone, missed>>

ScanAll == Scan(Paths) /\ UNCHANGED events

\* Deletions are worked out after the walk: a walk cut short reports none.
ScanFails ==
    /\ Event
    /\ \E S \in SUBSET {p \in Changed : Seen(p)} : Scan(S)

\* Mutant of Uploads: modified files are left out.
UploadsOfNewFiles == {p \in Paths : changes[p] = "created"}

\* Uploads come from the detector only: what was created or modified.
Uploads == {p \in Paths : changes[p] \in {"created", "modified"}}

\* The client lists its changed files, and without a token also the other rows.
Listed == {p \in Paths : changes[p] = "none" /\ p \in known /\ ~hasToken}

\* What the server has of p is what the client lists, or neither has it.
SameOnServer(p) ==
    CASE p \in Uploads -> server[p] = scanHash[p] /\ server[p] # Absent
      [] p \in Listed  -> server[p] = hash[p]
      [] OTHER         -> server[p] = Absent /\ ~hasToken

\* The server's answer, about what other devices changed since the token, or without
\* a token about all there is.
Answer ==
    LET differ == {p \in newSince : ~SameOnServer(p)}
        there == {p \in Paths : server[p] # Absent}
    IN  [ok |-> TRUE,
         down |-> (differ \intersect there) \ Uploads,
         del  |-> (differ \ there) \ Uploads,
         conf |-> differ \intersect there \intersect Uploads,
         file |-> server]

\* With direction PUSH the response's downloads and deletions are passed over.
TakeAnswer(a) ==
    /\ pc = "request"
    /\ answer' = a
    /\ IF direction = "push"
       THEN pc' = "classify" /\ left' = Uploads
       ELSE pc' = "download" /\ left' = a.down
    /\ newAfter' = {}
    /\ UNCHANGED <<settings, local, server, newSince, known, hash, match, folderVars, stopping,
                   changes, scanHash, small, large, done, unsent, raced, missed>>

Request ==
    /\ TakeAnswer(Answer)
    /\ undone' = {p \in newSince : ~SameOnServer(p)}
    /\ synced' = [p \in Paths |-> IF p \in newSince /\ SameOnServer(p)
                                  THEN server[p] ELSE synced[p]]
    /\ tainted' = tainted \union {p \in (newSince \intersect known) \ Listed : SameOnServer(p)}
    /\ UNCHANGED events

\* Every exception of the request, an expired token included, is logged only.
RequestFails == Event /\ TakeAnswer(NoAnswer) /\ UNCHANGED <<undone, synced, tainted>>

-----------------------------------------------------------------------------
(* Step 4: downloads.                                                      *)

\* HttpClient::downloadFile: into a temporary file, then renamed over the local
\* one, whatever that holds by now.
Fetch(p) ==
    /\ server[p] # Absent
    /\ local' = [local EXCEPT ![p] = server[p]]
    /\ match' = match \ {p}
    /\ unsent' = unsent \ {p}
    /\ synced' = [synced EXCEPT ![p] = server[p]]
    /\ undone' = undone \ {p}

notTransfer == <<settings, hasToken, pending, stopping, runVars, newAfter, newSince, missed>>

Download(p) ==
    /\ pc = "download" /\ p \in left /\ ~stopping
    /\ Fetch(p)
    /\ left' = left \ {p} /\ done' = done \union {p}
    /\ raced' = raced \ {p}
    /\ UNCHANGED <<notTransfer, server, rowVars, pc, events>>

\* Three attempts failed, or the file is no longer there.
DownloadFails(p) ==
    /\ pc = "download" /\ p \in left
    /\ IF server[p] = Absent THEN UNCHANGED events ELSE Event
    /\ left' = left \ {p}
    /\ UNCHANGED <<notTransfer, local, synced, match, unsent, server, rowVars, pc, done, raced,
                   undone>>

\* upsertFileMetadata for the files of S: the hashes of the contents "of", the mtimes
\* the files on disk have now, and sizes that are those of the files in "sized" and,
\* where they were taken at another moment than the mtime, may be those of others.
RecordRows(S, of, sized) ==
    /\ known' = known \union S
    /\ hash' = [p \in Paths |-> IF p \in S THEN of[p] ELSE hash[p]]
    /\ \E M \in SUBSET {p \in S \ sized : local[p] # Absent} :
         match' = (match \ S) \union M \union {p \in S \intersect sized : local[p] # Absent}
    /\ tainted' = (tainted \ S) \union {p \in S : p \in raced \/ of[p] # synced[p]}

AsAnswered == {p \in Paths : local[p] = answer.file[p]}

\* One transaction records what was downloaded, with the hashes and sizes of the response.
\* Stopped workers leave files behind.
RecordDownloads ==
    /\ pc = "download" /\ (left = {} \/ stopping)
    /\ RecordRows(done, answer.file, AsAnswered)
    /\ pc' = "delete" /\ left' = answer.del /\ done' = {}
    /\ UNCHANGED <<notTransfer, local, synced, server, events, unsent, raced, undone>>

\* The token expired in one worker, and the others took no more files: what was
\* downloaded is recorded, and TokenExpiredException ends the run.
DownloadTokenExpires ==
    /\ Event
    /\ pc = "download" /\ left # {}
    /\ RecordRows(done, answer.file, AsAnswered)
    /\ EndRun
    /\ UNCHANGED <<settings, hasToken, pending, stopping, newSince, missed, local, synced,
                   server, unsent>>

-----------------------------------------------------------------------------
(* Step 5: deletions.                                                      *)

\* deleteFileMetadata.
DropRow(p) ==
    /\ known' = known \ {p}
    /\ hash' = [hash EXCEPT ![p] = Absent]
    /\ tainted' = tainted \ {p}

\* The local file goes, whatever it holds by now, and so does its row.
DeleteLocal(p) ==
    /\ pc = "delete" /\ p \in left /\ ~stopping
    /\ local' = [local EXCEPT ![p] = Absent]
    /\ unsent' = unsent \ {p} /\ match' = match \ {p}
    /\ DropRow(p)
    /\ synced' = [synced EXCEPT ![p] = Absent]
    /\ left' = left \ {p} /\ undone' = undone \ {p}
    /\ UNCHANGED <<notTransfer, server, pc, events, done, raced>>

DeleteLocalFails(p) ==
    /\ Event
    /\ pc = "delete" /\ p \in left /\ ~stopping
    /\ left' = left \ {p}
    /\ UNCHANGED <<notTransfer, fileVars, synced, match, unsent, rowVars, pc, done, raced,
                   undone>>

\* Mutant of EndDeletes: PULL uploads as well.
EndDeletesForAll ==
    /\ pc = "delete" /\ (left = {} \/ stopping)
    /\ pc' = "classify" /\ left' = Uploads
    /\ UNCHANGED <<notTransfer, local, synced, server, match, unsent, rowVars, events, done,
                   raced, undone>>

\* With direction PULL step 6 is passed over.
EndDeletes ==
    /\ pc = "delete" /\ (left = {} \/ stopping)
    /\ IF direction = "pull"
       THEN pc' = "conflicts" /\ left' = answer.conf
       ELSE pc' = "classify" /\ left' = Uploads
    /\ UNCHANGED <<notTransfer, local, synced, server, match, unsent, rowVars, events, done,
                   raced, undone>>

-----------------------------------------------------------------------------
(* Step 6: uploads.                                                        *)

\* The server takes this device's version, and will not report it back to it.
Push(p, c) ==
    /\ server' = [server EXCEPT ![p] = c]
    /\ newSince' = newSince \ {p} /\ newAfter' = newAfter \ {p}
    /\ synced' = [synced EXCEPT ![p] = c]
    /\ undone' = undone \ {p} /\ missed' = missed \ {p}

notPush == <<settings, hasToken, pending, stopping, changes, scanHash, answer, local, match>>

\* A file that went since the scan is deleted on the server.
PushDeletion(p) ==
    /\ pc = "classify" /\ p \in left /\ local[p] = Absent
    /\ server[p] # Absent
    /\ Push(p, Absent)
    /\ DropRow(p)
    /\ left' = left \ {p}
    /\ UNCHANGED <<notPush, pc, small, large, events, done, unsent, raced>>

\* deleteFile returns false: on any error, and when the server has no such file.
PushDeletionFails(p) ==
    /\ pc = "classify" /\ p \in left /\ local[p] = Absent
    /\ IF server[p] = Absent THEN UNCHANGED events ELSE Event
    /\ left' = left \ {p}
    /\ UNCHANGED <<notPush, fileVars, synced, rowVars, missed, pc, small, large, done, unsent,
                   raced, undone>>

\* By its size now the file is sent in a batch or on its own.
Classify(p) ==
    /\ pc = "classify" /\ p \in left /\ local[p] # Absent
    /\ \/ small' = small \union {p} /\ UNCHANGED large
       \/ large' = large \union {p} /\ UNCHANGED small
    /\ left' = left \ {p}
    /\ UNCHANGED <<notPush, fileVars, synced, rowVars, missed, pc, events, done, unsent, raced, undone>>

EndClassify ==
    /\ pc = "classify" /\ left = {}
    /\ pc' = "small" /\ left' = small
    /\ UNCHANGED <<notPush, fileVars, synced, rowVars, missed, small, large, events, done, unsent,
                   raced, undone>>

\* uploadFileBatch or uploadFile reads the file as it is now.
Upload(p) ==
    /\ pc \in {"small", "large"} /\ p \in left /\ ~stopping
    /\ local[p] # Absent
    /\ Push(p, local[p])
    /\ unsent' = unsent \ {p}
    /\ left' = left \ {p} /\ done' = done \union {p}
    /\ UNCHANGED <<notPush, rowVars, pc, small, large, events, raced>>

\* Refused, over quota, still rate limited after three attempts, or not tried at
\* all in a run that is stopping; also a small file that has vanished.
UploadFails(p) ==
    /\ pc \in {"small", "large"} /\ p \in left
    /\ local[p] = Absent => pc = "small" \/ stopping
    /\ IF stopping \/ local[p] = Absent THEN UNCHANGED events ELSE Event
    /\ left' = left \ {p}
    /\ UNCHANGED <<notPush, fileVars, synced, rowVars, missed, pc, small, large, done, unsent,
                   raced, undone>>

\* The hash of the scan, or for a new file the hash of what it holds now.
UploadedHash == [p \in Paths |-> IF scanHash[p] # Absent THEN scanHash[p] ELSE local[p]]

\* After the last batch one loop records them all; sizes and mtimes are read here.
RecordSmall ==
    /\ pc = "small" /\ left = {}
    /\ \A p \in done : local[p] # Absent
    /\ RecordRows(done, UploadedHash, done)
    /\ pc' = "large" /\ left' = large /\ done' = {}
    /\ UNCHANGED <<settings, hasToken, pending, stopping, changes, scanHash, answer,
                   fileVars, synced, missed, small, large, events, unsent, raced, undone>>

\* A file that has vanished by then makes file_size throw in the middle of the loop.
RecordSmallThrows ==
    /\ pc = "small" /\ left = {}
    /\ \E p \in done : local[p] = Absent
    /\ \E S \in SUBSET {p \in done : local[p] # Absent} :
          /\ known' = known \union S
          /\ hash' = [p \in Paths |-> IF p \in S THEN UploadedHash[p] ELSE hash[p]]
          /\ match' = match \union S
    /\ tainted' = tainted \union done
    /\ EndRun
    /\ UNCHANGED <<settings, hasToken, pending, stopping, local, synced, server, newSince,
                   missed, events, unsent>>

\* A worker records its large file itself; the size is from before the upload.
RecordLarge(p) ==
    /\ pc = "large" /\ p \in done
    /\ RecordRows({p}, UploadedHash, {p} \ raced)
    /\ done' = done \ {p}
    /\ UNCHANGED <<settings, hasToken, pending, stopping, changes, scanHash, answer,
                   fileVars, synced, missed, pc, small, large, left, events, unsent, raced, undone>>

\* The database refuses; the row stays as it was.
RecordLargeFails(p) ==
    /\ Event
    /\ pc = "large" /\ p \in done
    /\ done' = done \ {p}
    /\ tainted' = tainted \union {p}
    /\ UNCHANGED <<notPush, fileVars, synced, missed, known, hash, pc, small, large, left,
                   unsent, raced, undone>>

\* file_size of a large file that has vanished throws in its std::thread, and so does
\* an expired token ("Let withTokenRefresh handle it"): std::terminate.
LargeWorkerDies(p) ==
    /\ pc = "large" /\ p \in left /\ ~stopping
    /\ IF local[p] = Absent THEN UNCHANGED events ELSE Event
    /\ stopping' = TRUE
    /\ tainted' = tainted \union done
    /\ EndRun
    /\ UNCHANGED <<settings, hasToken, pending, local, synced, server, newSince, known, hash,
                   match, missed, unsent>>

EndLarge ==
    /\ pc = "large" /\ left = {} /\ done = {}
    /\ pc' = "conflicts" /\ left' = answer.conf
    /\ UNCHANGED <<notPush, fileVars, synced, missed, rowVars, small, large, events, done,
                   unsent, raced, undone>>

-----------------------------------------------------------------------------
(* Steps 7 to 9: conflicts, token, end.  None of them looks at running_.   *)

\* PUSH: the local version wins; no row is written, and a failure is passed over.
ConflictPush(p) ==
    /\ pc = "conflicts" /\ direction = "push" /\ p \in left
    /\ local[p] # Absent
    /\ Push(p, local[p])
    /\ unsent' = unsent \ {p}
    /\ tainted' = tainted \union {p}
    /\ left' = left \ {p}
    /\ UNCHANGED <<notPush, known, hash, pc, small, large, events, done, raced>>

ConflictPushFails(p) ==
    /\ pc = "conflicts" /\ direction = "push" /\ p \in left
    /\ IF local[p] = Absent THEN UNCHANGED events ELSE Event
    /\ left' = left \ {p}
    /\ UNCHANGED <<notPush, fileVars, synced, rowVars, missed, pc, small, large, done, unsent,
                   raced, undone>>

\* PULL: the server's version wins; the row gets no mtime.
ConflictPull(p) ==
    /\ pc = "conflicts" /\ direction = "pull" /\ p \in left
    /\ Fetch(p)
    /\ known' = known \union {p} /\ hash' = [hash EXCEPT ![p] = answer.file[p]]
    /\ tainted' = IF server[p] = answer.file[p] THEN tainted \ {p} ELSE tainted \union {p}
    /\ left' = left \ {p}
    /\ raced' = raced \ {p}
    /\ UNCHANGED <<notTransfer, server, pc, events, done>>

ConflictPullFails(p) ==
    /\ pc = "conflicts" /\ direction = "pull" /\ p \in left
    /\ IF server[p] = Absent THEN UNCHANGED events ELSE Event
    /\ left' = left \ {p}
    /\ UNCHANGED <<notTransfer, local, synced, server, match, unsent, rowVars, pc, done, raced,
                   undone>>

\* BIDIRECTIONAL: a pending conflict for the user to resolve.
LogConflict(p) ==
    /\ pc = "conflicts" /\ direction = "bidirectional" /\ p \in left
    /\ pending' = pending \union {p}
    /\ left' = left \ {p}
    /\ UNCHANGED <<settings, fileVars, synced, rowVars, match, hasToken, stopping, pc, runVars,
                   events, done, unsent, raced, undone, missed>>

\* Mutant of Save: the token is taken although the request failed.
SaveUnchecked ==
    /\ pc = "conflicts" /\ left = {}
    /\ hasToken' = TRUE /\ newSince' = newAfter
    /\ missed' = missed \union (undone \ newAfter)
    /\ EndRun
    /\ UNCHANGED <<settings, local, synced, server, rowVars, match, pending, stopping,
                   events, unsent>>

\* The response's token is saved, whatever became of its files.
Save ==
    /\ pc = "conflicts" /\ left = {}
    /\ IF answer.ok
       THEN /\ hasToken' = TRUE /\ newSince' = newAfter
            /\ missed' = missed \union (undone \ newAfter)
       ELSE UNCHANGED <<hasToken, newSince, missed>>
    /\ EndRun
    /\ UNCHANGED <<settings, local, synced, server, rowVars, match, pending, stopping,
                   events, unsent>>

-----------------------------------------------------------------------------
Environment ==
    \/ \E p \in Paths, c \in Contents : UserWrites(p, c)
    \/ \E p \in Paths : UserDeletes(p)
    \/ \E p \in Paths, c \in File : OtherDeviceWrites(p, c)
    \/ StopEngine \/ Restart

Ask == ScanAll \/ ScanFails \/ Request \/ RequestFails

Downloads ==
    \/ \E p \in Paths : Download(p) \/ DownloadFails(p)
    \/ RecordDownloads \/ DownloadTokenExpires

Deletes ==
    \/ \E p \in Paths : DeleteLocal(p) \/ DeleteLocalFails(p)
    \/ EndDeletes

UploadPhase ==
    \/ \E p \in Paths :
          \/ PushDeletion(p) \/ PushDeletionFails(p) \/ Classify(p)
          \/ Upload(p) \/ UploadFails(p)
          \/ RecordLarge(p) \/ RecordLargeFails(p) \/ LargeWorkerDies(p)
    \/ EndClassify \/ RecordSmall \/ RecordSmallThrows \/ EndLarge

Conflicts ==
    \/ \E p \in Paths :
          \/ ConflictPush(p) \/ ConflictPushFails(p)
          \/ ConflictPull(p) \/ ConflictPullFails(p) \/ LogConflict(p)
    \/ Save

\* What the engine does, failures included: it never waits for the user.
Engine == Ask \/ Downloads \/ Deletes \/ UploadPhase \/ Conflicts

Next == Environment \/ Engine \/ Abandon

Spec == Init /\ [][Next]_vars

\* syncLoop starts a run at least every thirty seconds while the engine is up, and
\* every transfer ends (connect timeout, low-speed limit).  The writes, the failures
\* and the restart of a stopped backend owe nothing.
FairSpec == Spec /\ WF_vars(Engine)

-----------------------------------------------------------------------------
(* Properties.                                                             *)

\* The change token never passes over a change of another device: where the server
\* holds something else than what was last exchanged, the next answer will name the
\* file (without a token it names everything), or an earlier one did and the run
\* saved its token without acting on it.
TokenCovers ==
    \A p \in Paths : server[p] # synced[p] => p \in newSince \union missed

\* Between two runs the scan sees every local change since the last exchange, unless
\* the row was written for another moment than that of the exchange.  Of the paths
\* that change_detector.cpp:132 skips it sees no change at all.
EditsVisible ==
    pc = "idle" =>
        \A p \in Paths \ excluded :
            local[p] # synced[p] => Change(p) # "none" \/ p \in tainted

\* A download or a deletion destroys work of the user that the server never saw
\* only if it was written after the scan (or the row may have misled the scan); a file put
\* back to what was last transferred is no loss.  At the paths the scan skips nothing
\* protects it: the server's version or deletion simply replaces it.
UnsentSurvives ==
    [][\A p \in Paths \ excluded :
         (Downloads \/ Deletes) /\ p \in unsent /\ local'[p] # local[p]
            => p \in raced \union tainted \/ local[p] = hash[p]]_vars

\* "PUSH, // Local -> NAS only (Send Only)" and its counterpart PULL, in every step,
\* that of the conflicts included.
DirectionRespected ==
    [][Engine => /\ direction = "push" => UNCHANGED local
                 /\ direction = "pull" => UNCHANGED server]_vars

\* Once the writes and the failures end, the folder and the server agree on every
\* file, for good; local deletions, the paths the scan skips, and the exceptions
\* above excepted.
Converges ==
    \A p \in Paths :
        <>[](\/ local[p] = server[p] \/ p \in excluded
             \/ Change(p) = "deleted" \/ p \in missed \union tainted
             \/ stopping \/ direction # "bidirectional")

\* "File was deleted locally - tell server to delete": a local deletion gets there.
LocalDeletionReachesServer ==
    \A p \in Paths :
        Change(p) = "deleted" /\ p \notin excluded
            ~> Change(p) # "deleted" \/ server[p] = Absent \/ stopping
=============================================================================
