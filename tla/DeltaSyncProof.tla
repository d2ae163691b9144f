-------------------------- MODULE DeltaSyncProof --------------------------
(***************************************************************************)
(* Proofs about module DeltaSync, for any set of paths and contents and    *)
(* any number of events: type correctness; the change token passes over no *)
(* change of another device; between runs the scan sees every edit at a    *)
(* path it does not skip; downloads and deletions destroy no unsent work   *)
(* the scan saw; and the direction of the folder holds in every step.      *)
(***************************************************************************)
EXTENDS DeltaSync, TLAPS

InAnswer == pc \notin {"idle", "request"}

\* What the phases leave behind for the next one.
PhaseInv ==
    /\ pc \in {"idle", "request", "delete", "classify", "conflicts"} => done = {}
    /\ pc \in {"idle", "request", "download", "delete"} => small = {} /\ large = {}
    /\ pc = "classify" => left \intersect (small \union large) = {}
    /\ pc \in {"idle", "request"} => answer = NoAnswer
    /\ pc = "request" => \A p \in Paths : scanHash[p] # Absent => p \in known

\* While a run works on an answer, what the token it will save passes over is in
\* "undone" or was changed after the answer; and a file the answer deletes is gone
\* from the server, or was put back after the answer.
AnswerInv ==
    /\ newAfter \subseteq newSince
    /\ InAnswer /\ answer.ok =>
         \A p \in Paths : server[p] # synced[p] => p \in newAfter \union missed \union undone
    /\ pc \in {"download", "delete"} =>
         \A p \in answer.del : server[p] = Absent \/ p \in newAfter
    /\ pc = "delete" => left \subseteq answer.del

TokenInv == TokenCovers /\ AnswerInv

\* For every file that is not tainted the row is that of the last exchange,
\* and a file exchanged and not yet recorded is still as it was exchanged.
EditInv ==
    /\ \A p \in Paths \ (tainted \union done) :
         /\ p \in known => hash[p] = synced[p] /\ (p \in match => local[p] = synced[p])
         /\ p \notin known => synced[p] = Absent
    /\ \A p \in done \ raced : local[p] = synced[p]
    /\ \A p \in unsent : local[p] # Absent

\* Until the downloads and deletions are over, work that was never uploaded and that
\* the scan could see is among the uploads, and neither concerns an upload.  At the
\* excluded paths there are no uploads.
ScanInv ==
    /\ pc \in {"request", "download", "delete"} =>
         \A p \in unsent \ (raced \union tainted \union excluded) :
             local[p] = hash[p] \/ p \in Uploads
    /\ answer.down \intersect Uploads = {} /\ answer.del \intersect Uploads = {}
    /\ pc = "download" => left \subseteq answer.down
    /\ pc = "delete" => left \subseteq answer.del

LEMMA ChangeKind == \A p \in Paths : Change(p) \in Kinds
BY DEF Change, Kinds

\* A file the scan passes over is excluded, or has a row that says so.
LEMMA ChangeNone ==
    \A p \in Paths \ excluded :
        local[p] # Absent /\ Change(p) \notin {"created", "modified"}
            => p \in known /\ (p \in match \/ local[p] = hash[p])
BY DEF Change, Seen

LEMMA ChangeModified == \A p \in Paths : Change(p) = "modified" => p \in known
BY DEF Change

LEMMA TypeStep ==
  ASSUME TypeOK, PhaseInv, [Next]_vars
  PROVE  (TypeOK /\ PhaseInv)'
<1> USE DEF TypeOK, PhaseInv, NoAnswer, settings, fileVars, rowVars, runVars, folderVars,
            Answers, Kinds, Phases, File
<1>1. ASSUME NEW p \in Paths, NEW c \in Contents, UserWrites(p,c)
     PROVE  (TypeOK /\ PhaseInv)'
  BY <1>1 DEF UserWrites, UserChanges, Event
<1>2. ASSUME NEW p \in Paths, UserDeletes(p)
     PROVE  (TypeOK /\ PhaseInv)'
  BY <1>2 DEF UserDeletes, UserChanges, Event
<1>3. ASSUME NEW p \in Paths, NEW c \in File, OtherDeviceWrites(p,c)
     PROVE  (TypeOK /\ PhaseInv)'
  BY <1>3 DEF OtherDeviceWrites, Event
<1>4. CASE StopEngine
  BY <1>4 DEF StopEngine, Event
<1>5. CASE Restart
  BY <1>5 DEF Restart
<1>6. ASSUME NEW S \in SUBSET Paths, Scan(S), events' \in Nat
     PROVE  (TypeOK /\ PhaseInv)'
  <2>1. /\ changes' \in [Paths -> Kinds]
        /\ scanHash' \in [Paths -> File]
        /\ raced' \subseteq Paths
    BY <1>6, ChangeKind DEF Scan, Changed, TypeOK, Kinds, File
  <2>3. \A p \in Paths : scanHash'[p] # Absent => p \in known'
    BY <1>6, ChangeModified DEF Scan, rowVars
  <2>2. QED
    BY <1>6, <2>1, <2>3 DEF TypeOK, PhaseInv, fileVars, rowVars, folderVars, Scan, Phases
<1>7. CASE ScanAll \/ ScanFails
  <2>1. PICK S \in SUBSET Paths : Scan(S) /\ events' \in Nat
    BY <1>7 DEF ScanAll, ScanFails, Event, Changed, TypeOK
  <2>2. QED
    BY <1>6, <2>1
<1>8. CASE Request
  BY <1>8 DEF Request, TakeAnswer, Answer, Uploads
<1>9. CASE RequestFails
  BY <1>9 DEF RequestFails, TakeAnswer, Uploads, Event
<1>10. ASSUME NEW p \in Paths, Download(p)
     PROVE  (TypeOK /\ PhaseInv)'
  BY <1>10 DEF Download, Fetch, notTransfer
<1>11. ASSUME NEW p \in Paths, DownloadFails(p)
     PROVE  (TypeOK /\ PhaseInv)'
  BY <1>11 DEF DownloadFails, notTransfer, Event
<1>12. CASE RecordDownloads
  BY <1>12 DEF RecordDownloads, RecordRows, notTransfer
<1>13. CASE DownloadTokenExpires
  BY <1>13 DEF DownloadTokenExpires, RecordRows, EndRun, Event
<1>14. ASSUME NEW p \in Paths, DeleteLocal(p)
     PROVE  (TypeOK /\ PhaseInv)'
  BY <1>14 DEF DeleteLocal, DropRow, notTransfer
<1>15. ASSUME NEW p \in Paths, DeleteLocalFails(p)
     PROVE  (TypeOK /\ PhaseInv)'
  BY <1>15 DEF DeleteLocalFails, notTransfer, Event
<1>16. CASE EndDeletes
  BY <1>16 DEF EndDeletes, notTransfer, Uploads
<1>17. ASSUME NEW p \in Paths, PushDeletion(p)
     PROVE  (TypeOK /\ PhaseInv)'
  BY <1>17 DEF PushDeletion, Push, DropRow, notPush
<1>18. ASSUME NEW p \in Paths, PushDeletionFails(p)
     PROVE  (TypeOK /\ PhaseInv)'
  BY <1>18 DEF PushDeletionFails, notPush, Event
<1>19. ASSUME NEW p \in Paths, Classify(p)
     PROVE  (TypeOK /\ PhaseInv)'
  BY <1>19 DEF Classify, notPush
<1>20. ASSUME NEW p \in Paths, Upload(p)
     PROVE  (TypeOK /\ PhaseInv)'
  BY <1>20 DEF Upload, Push, notPush
<1>21. ASSUME NEW p \in Paths, UploadFails(p)
     PROVE  (TypeOK /\ PhaseInv)'
  BY <1>21 DEF UploadFails, notPush, Event
<1>22. ASSUME NEW p \in Paths, RecordLarge(p)
     PROVE  (TypeOK /\ PhaseInv)'
  BY <1>22 DEF RecordLarge, RecordRows, UploadedHash
<1>23. ASSUME NEW p \in Paths, RecordLargeFails(p)
     PROVE  (TypeOK /\ PhaseInv)'
  BY <1>23 DEF RecordLargeFails, notPush, Event
<1>24. ASSUME NEW p \in Paths, LargeWorkerDies(p)
     PROVE  (TypeOK /\ PhaseInv)'
  BY <1>24 DEF LargeWorkerDies, EndRun, Event
<1>25. CASE EndClassify
  BY <1>25 DEF EndClassify, notPush
<1>26. CASE RecordSmall
  BY <1>26 DEF RecordSmall, RecordRows, UploadedHash
<1>27. CASE RecordSmallThrows
  BY <1>27 DEF RecordSmallThrows, UploadedHash, EndRun
<1>28. CASE EndLarge
  BY <1>28 DEF EndLarge, notPush
<1>29. ASSUME NEW p \in Paths, ConflictPush(p)
     PROVE  (TypeOK /\ PhaseInv)'
  BY <1>29 DEF ConflictPush, Push, notPush
<1>30. ASSUME NEW p \in Paths, ConflictPushFails(p)
     PROVE  (TypeOK /\ PhaseInv)'
  BY <1>30 DEF ConflictPushFails, notPush, Event
<1>31. ASSUME NEW p \in Paths, ConflictPull(p)
     PROVE  (TypeOK /\ PhaseInv)'
  BY <1>31 DEF ConflictPull, Fetch, notTransfer
<1>32. ASSUME NEW p \in Paths, ConflictPullFails(p)
     PROVE  (TypeOK /\ PhaseInv)'
  BY <1>32 DEF ConflictPullFails, notTransfer, Event
<1>33. ASSUME NEW p \in Paths, LogConflict(p)
     PROVE  (TypeOK /\ PhaseInv)'
  BY <1>33 DEF LogConflict
<1>34. CASE Save
  BY <1>34 DEF Save, EndRun
<1>35. CASE Abandon
  BY <1>35 DEF Abandon, EndRun, Event
<1>36. CASE UNCHANGED vars
  BY <1>36 DEF vars
<1>37. QED
  BY <1>1, <1>2, <1>3, <1>4, <1>5, <1>7, <1>8, <1>9, <1>10, <1>11, <1>12, <1>13, <1>14, <1>15,
     <1>16, <1>17, <1>18, <1>19, <1>20, <1>21, <1>22, <1>23, <1>24, <1>25, <1>26, <1>27,
     <1>28, <1>29, <1>30, <1>31, <1>32, <1>33, <1>34, <1>35, <1>36 DEF Next, Environment,
     Engine, Ask, Downloads, Deletes, UploadPhase, Conflicts

LEMMA TokenStep ==
  ASSUME TypeOK, TokenInv, [Next]_vars
  PROVE  TokenInv'
<1> USE DEF TokenInv, TokenCovers, AnswerInv, InAnswer, TypeOK, fileVars, rowVars, runVars,
            folderVars, Answers, File
<1>1. ASSUME NEW p \in Paths, NEW c \in Contents, UserWrites(p,c)
     PROVE  TokenInv'
  BY <1>1 DEF UserWrites, UserChanges, Event
<1>2. ASSUME NEW p \in Paths, UserDeletes(p)
     PROVE  TokenInv'
  BY <1>2 DEF UserDeletes, UserChanges, Event
<1>3. ASSUME NEW p \in Paths, NEW c \in File, OtherDeviceWrites(p,c)
     PROVE  TokenInv'
  BY <1>3 DEF OtherDeviceWrites, Event
<1>4. CASE StopEngine
  BY <1>4 DEF StopEngine, Event
<1>5. CASE Restart
  BY <1>5 DEF Restart
<1>6. CASE ScanAll
  BY <1>6 DEF ScanAll, Scan
<1>7. CASE ScanFails
  BY <1>7 DEF ScanFails, Scan, Changed, Event
<1>8. CASE Request
  BY <1>8 DEF Request, TakeAnswer, Answer, Uploads
<1>9. CASE RequestFails
  BY <1>9 DEF RequestFails, TakeAnswer, NoAnswer, Uploads, Event
<1>10. ASSUME NEW p \in Paths, Download(p)
     PROVE  TokenInv'
  BY <1>10 DEF Download, Fetch, notTransfer
<1>11. ASSUME NEW p \in Paths, DownloadFails(p)
     PROVE  TokenInv'
  BY <1>11 DEF DownloadFails, notTransfer, Event
<1>12. CASE RecordDownloads
  BY <1>12 DEF RecordDownloads, RecordRows, notTransfer
<1>13. CASE DownloadTokenExpires
  BY <1>13 DEF DownloadTokenExpires, RecordRows, EndRun, Event
<1>14. ASSUME NEW p \in Paths, DeleteLocal(p)
     PROVE  TokenInv'
  BY <1>14 DEF DeleteLocal, DropRow, notTransfer
<1>15. ASSUME NEW p \in Paths, DeleteLocalFails(p)
     PROVE  TokenInv'
  BY <1>15 DEF DeleteLocalFails, notTransfer, Event
<1>16. CASE EndDeletes
  BY <1>16 DEF EndDeletes, notTransfer, Uploads
<1>17. ASSUME NEW p \in Paths, PushDeletion(p)
     PROVE  TokenInv'
  BY <1>17 DEF PushDeletion, Push, DropRow, notPush
<1>18. ASSUME NEW p \in Paths, PushDeletionFails(p)
     PROVE  TokenInv'
  BY <1>18 DEF PushDeletionFails, notPush, Event
<1>19. ASSUME NEW p \in Paths, Classify(p)
     PROVE  TokenInv'
  BY <1>19 DEF Classify, notPush
<1>20. ASSUME NEW p \in Paths, Upload(p)
     PROVE  TokenInv'
  BY <1>20 DEF Upload, Push, notPush
<1>21. ASSUME NEW p \in Paths, UploadFails(p)
     PROVE  TokenInv'
  BY <1>21 DEF UploadFails, notPush, Event
<1>22. ASSUME NEW p \in Paths, RecordLarge(p)
     PROVE  TokenInv'
  BY <1>22 DEF RecordLarge, RecordRows, UploadedHash
<1>23. ASSUME NEW p \in Paths, RecordLargeFails(p)
     PROVE  TokenInv'
  BY <1>23 DEF RecordLargeFails, notPush, Event
<1>24. ASSUME NEW p \in Paths, LargeWorkerDies(p)
     PROVE  TokenInv'
  BY <1>24 DEF LargeWorkerDies, EndRun, Event
<1>25. CASE EndClassify
  BY <1>25 DEF EndClassify, notPush
<1>26. CASE RecordSmall
  BY <1>26 DEF RecordSmall, RecordRows, UploadedHash
<1>27. CASE RecordSmallThrows
  BY <1>27 DEF RecordSmallThrows, UploadedHash, EndRun
<1>28. CASE EndLarge
  BY <1>28 DEF EndLarge, notPush
<1>29. ASSUME NEW p \in Paths, ConflictPush(p)
     PROVE  TokenInv'
  BY <1>29 DEF ConflictPush, Push, notPush
<1>30. ASSUME NEW p \in Paths, ConflictPushFails(p)
     PROVE  TokenInv'
  BY <1>30 DEF ConflictPushFails, notPush, Event
<1>31. ASSUME NEW p \in Paths, ConflictPull(p)
     PROVE  TokenInv'
  BY <1>31 DEF ConflictPull, Fetch, notTransfer
<1>32. ASSUME NEW p \in Paths, ConflictPullFails(p)
     PROVE  TokenInv'
  BY <1>32 DEF ConflictPullFails, notTransfer, Event
<1>33. ASSUME NEW p \in Paths, LogConflict(p)
     PROVE  TokenInv'
  BY <1>33 DEF LogConflict
<1>34. CASE Save
  BY <1>34 DEF Save, EndRun
<1>35. CASE Abandon
  BY <1>35 DEF Abandon, EndRun, Event
<1>36. CASE UNCHANGED vars
  BY <1>36 DEF vars
<1>37. QED
  BY <1>1, <1>2, <1>3, <1>4, <1>5, <1>6, <1>7, <1>8, <1>9, <1>10, <1>11, <1>12, <1>13, <1>14,
     <1>15, <1>16, <1>17, <1>18, <1>19, <1>20, <1>21, <1>22, <1>23, <1>24, <1>25, <1>26,
     <1>27, <1>28, <1>29, <1>30, <1>31, <1>32, <1>33, <1>34, <1>35, <1>36 DEF Next,
     Environment, Engine, Ask, Downloads, Deletes, UploadPhase, Conflicts

LEMMA EditStep ==
  ASSUME TypeOK, PhaseInv, EditInv, [Next]_vars
  PROVE  EditInv'
<1> USE DEF EditInv, TypeOK, PhaseInv, NoAnswer, fileVars, rowVars, runVars, folderVars,
            Answers, File
<1>1. ASSUME NEW p \in Paths, NEW c \in Contents, UserWrites(p,c)
     PROVE  EditInv'
  BY <1>1, ContentsAssumption DEF UserWrites, UserChanges, Event
<1>2. ASSUME NEW p \in Paths, UserDeletes(p)
     PROVE  EditInv'
  BY <1>2 DEF UserDeletes, UserChanges, Event
<1>3. ASSUME NEW p \in Paths, NEW c \in File, OtherDeviceWrites(p,c)
     PROVE  EditInv'
  BY <1>3 DEF OtherDeviceWrites, Event
<1>4. CASE StopEngine
  BY <1>4 DEF StopEngine, Event
<1>5. CASE Restart
  BY <1>5 DEF Restart
<1>6. CASE ScanAll
  BY <1>6 DEF ScanAll, Scan
<1>7. CASE ScanFails
  BY <1>7 DEF ScanFails, Scan, Changed, Event
<1>8. CASE Request
  BY <1>8 DEF Request, TakeAnswer, SameOnServer, Listed, Uploads
<1>9. CASE RequestFails
  BY <1>9 DEF RequestFails, TakeAnswer, NoAnswer, Uploads, Event
<1>10. ASSUME NEW p \in Paths, Download(p)
     PROVE  EditInv'
  BY <1>10 DEF Download, Fetch, notTransfer
<1>11. ASSUME NEW p \in Paths, DownloadFails(p)
     PROVE  EditInv'
  BY <1>11 DEF DownloadFails, notTransfer, Event
<1>12. CASE RecordDownloads
  BY <1>12 DEF RecordDownloads, RecordRows, notTransfer
<1>13. CASE DownloadTokenExpires
  BY <1>13 DEF DownloadTokenExpires, RecordRows, EndRun, Event
<1>14. ASSUME NEW p \in Paths, DeleteLocal(p)
     PROVE  EditInv'
  BY <1>14 DEF DeleteLocal, DropRow, notTransfer
<1>15. ASSUME NEW p \in Paths, DeleteLocalFails(p)
     PROVE  EditInv'
  BY <1>15 DEF DeleteLocalFails, notTransfer, Event
<1>16. CASE EndDeletes
  BY <1>16 DEF EndDeletes, notTransfer, Uploads
<1>17. ASSUME NEW p \in Paths, PushDeletion(p)
     PROVE  EditInv'
  BY <1>17 DEF PushDeletion, Push, DropRow, notPush
<1>18. ASSUME NEW p \in Paths, PushDeletionFails(p)
     PROVE  EditInv'
  BY <1>18 DEF PushDeletionFails, notPush, Event
<1>19. ASSUME NEW p \in Paths, Classify(p)
     PROVE  EditInv'
  BY <1>19 DEF Classify, notPush
<1>20. ASSUME NEW p \in Paths, Upload(p)
     PROVE  EditInv'
  BY <1>20 DEF Upload, Push, notPush
<1>21. ASSUME NEW p \in Paths, UploadFails(p)
     PROVE  EditInv'
  BY <1>21 DEF UploadFails, notPush, Event
<1>22. ASSUME NEW p \in Paths, RecordLarge(p)
     PROVE  EditInv'
  BY <1>22 DEF RecordLarge, RecordRows, UploadedHash
<1>23. ASSUME NEW p \in Paths, RecordLargeFails(p)
     PROVE  EditInv'
  BY <1>23 DEF RecordLargeFails, notPush, Event
<1>24. ASSUME NEW p \in Paths, LargeWorkerDies(p)
     PROVE  EditInv'
  BY <1>24 DEF LargeWorkerDies, EndRun, Event
<1>25. CASE EndClassify
  BY <1>25 DEF EndClassify, notPush
<1>26. CASE RecordSmall
  BY <1>26 DEF RecordSmall, RecordRows, UploadedHash
<1>27. CASE RecordSmallThrows
  BY <1>27 DEF RecordSmallThrows, UploadedHash, EndRun
<1>28. CASE EndLarge
  BY <1>28 DEF EndLarge, notPush
<1>29. ASSUME NEW p \in Paths, ConflictPush(p)
     PROVE  EditInv'
  BY <1>29 DEF ConflictPush, Push, notPush
<1>30. ASSUME NEW p \in Paths, ConflictPushFails(p)
     PROVE  EditInv'
  BY <1>30 DEF ConflictPushFails, notPush, Event
<1>31. ASSUME NEW p \in Paths, ConflictPull(p)
     PROVE  EditInv'
  BY <1>31 DEF ConflictPull, Fetch, notTransfer
<1>32. ASSUME NEW p \in Paths, ConflictPullFails(p)
     PROVE  EditInv'
  BY <1>32 DEF ConflictPullFails, notTransfer, Event
<1>33. ASSUME NEW p \in Paths, LogConflict(p)
     PROVE  EditInv'
  BY <1>33 DEF LogConflict
<1>34. CASE Save
  BY <1>34 DEF Save, EndRun
<1>35. CASE Abandon
  BY <1>35 DEF Abandon, EndRun, Event
<1>36. CASE UNCHANGED vars
  BY <1>36 DEF vars
<1>37. QED
  BY <1>1, <1>2, <1>3, <1>4, <1>5, <1>6, <1>7, <1>8, <1>9, <1>10, <1>11, <1>12, <1>13, <1>14,
     <1>15, <1>16, <1>17, <1>18, <1>19, <1>20, <1>21, <1>22, <1>23, <1>24, <1>25, <1>26,
     <1>27, <1>28, <1>29, <1>30, <1>31, <1>32, <1>33, <1>34, <1>35, <1>36 DEF Next,
     Environment, Engine, Ask, Downloads, Deletes, UploadPhase, Conflicts

LEMMA ScanStep ==
  ASSUME TypeOK, PhaseInv, EditInv, ScanInv, [Next]_vars
  PROVE  ScanInv'
<1> USE DEF ScanInv, EditInv, TypeOK, PhaseInv, NoAnswer, settings, fileVars, rowVars, runVars,
            folderVars, Answers, File, Uploads
<1>1. ASSUME NEW p \in Paths, NEW c \in Contents, UserWrites(p,c)
     PROVE  ScanInv'
  BY <1>1 DEF UserWrites, UserChanges, Event
<1>2. ASSUME NEW p \in Paths, UserDeletes(p)
     PROVE  ScanInv'
  BY <1>2 DEF UserDeletes, UserChanges, Event
<1>3. ASSUME NEW p \in Paths, NEW c \in File, OtherDeviceWrites(p,c)
     PROVE  ScanInv'
  BY <1>3 DEF OtherDeviceWrites, Event
<1>4. CASE StopEngine
  BY <1>4 DEF StopEngine, Event
<1>5. CASE Restart
  BY <1>5 DEF Restart
<1>6. ASSUME NEW S \in SUBSET Paths, Scan(S)
     PROVE  ScanInv'
  <2>1. answer' = NoAnswer /\ pc' = "request" /\ done = {} /\ excluded' = excluded
    BY <1>6 DEF Scan, PhaseInv, settings
  <2>2. ASSUME NEW p \in unsent', p \notin raced' \union tainted' \union excluded'
        PROVE  local'[p] = hash'[p] \/ p \in Uploads'
    <3>1. p \in unsent /\ p \notin tainted /\ p \in Paths \ excluded /\ local[p] # Absent
      BY <1>6, <2>1, <2>2 DEF Scan, rowVars, EditInv, TypeOK
    <3>2. p \in Changed => p \in S
      BY <1>6, <2>2 DEF Scan
    <3>3. local' = local /\ hash' = hash
      BY <1>6 DEF Scan, fileVars, rowVars
    <3>4. CASE Change(p) \in {"created", "modified"}
      BY <1>6, <3>1, <3>2, <3>4 DEF Changed, Uploads, Scan
    <3>5. CASE Change(p) \notin {"created", "modified"}
      <4>1. p \in known /\ (p \in match \/ local[p] = hash[p])
        BY <2>2, <3>1, <3>5, ChangeNone
      <4>2. QED
        BY <4>1, <3>1, <3>3, <2>1 DEF EditInv
    <3>6. QED
      BY <3>4, <3>5
  <2>3. QED
    BY <2>1, <2>2 DEF ScanInv, NoAnswer
<1>7. CASE ScanAll \/ ScanFails
  <2>1. PICK S \in SUBSET Paths : Scan(S)
    BY <1>7 DEF ScanAll, ScanFails, Changed
  <2>2. QED
    BY <1>6, <2>1
<1>8. CASE Request
  BY <1>8 DEF Request, TakeAnswer, Answer, Uploads
<1>9. CASE RequestFails
  BY <1>9 DEF RequestFails, TakeAnswer, Uploads, Event
<1>10. ASSUME NEW p \in Paths, Download(p)
     PROVE  ScanInv'
  BY <1>10 DEF Download, Fetch, notTransfer
<1>11. ASSUME NEW p \in Paths, DownloadFails(p)
     PROVE  ScanInv'
  BY <1>11 DEF DownloadFails, notTransfer, Event
<1>12. CASE RecordDownloads
  BY <1>12 DEF RecordDownloads, RecordRows, notTransfer
<1>13. CASE DownloadTokenExpires
  BY <1>13 DEF DownloadTokenExpires, RecordRows, EndRun, Event
<1>14. ASSUME NEW p \in Paths, DeleteLocal(p)
     PROVE  ScanInv'
  BY <1>14 DEF DeleteLocal, DropRow, notTransfer
<1>15. ASSUME NEW p \in Paths, DeleteLocalFails(p)
     PROVE  ScanInv'
  BY <1>15 DEF DeleteLocalFails, notTransfer, Event
<1>16. CASE EndDeletes
  BY <1>16 DEF EndDeletes, notTransfer, Uploads
<1>17. ASSUME NEW p \in Paths, PushDeletion(p)
     PROVE  ScanInv'
  BY <1>17 DEF PushDeletion, Push, DropRow, notPush
<1>18. ASSUME NEW p \in Paths, PushDeletionFails(p)
     PROVE  ScanInv'
  BY <1>18 DEF PushDeletionFails, notPush, Event
<1>19. ASSUME NEW p \in Paths, Classify(p)
     PROVE  ScanInv'
  BY <1>19 DEF Classify, notPush
<1>20. ASSUME NEW p \in Paths, Upload(p)
     PROVE  ScanInv'
  BY <1>20 DEF Upload, Push, notPush
<1>21. ASSUME NEW p \in Paths, UploadFails(p)
     PROVE  ScanInv'
  BY <1>21 DEF UploadFails, notPush, Event
<1>22. ASSUME NEW p \in Paths, RecordLarge(p)
     PROVE  ScanInv'
  BY <1>22 DEF RecordLarge, RecordRows, UploadedHash
<1>23. ASSUME NEW p \in Paths, RecordLargeFails(p)
     PROVE  ScanInv'
  BY <1>23 DEF RecordLargeFails, notPush, Event
<1>24. ASSUME NEW p \in Paths, LargeWorkerDies(p)
     PROVE  ScanInv'
  BY <1>24 DEF LargeWorkerDies, EndRun, Event
<1>25. CASE EndClassify
  BY <1>25 DEF EndClassify, notPush
<1>26. CASE RecordSmall
  BY <1>26 DEF RecordSmall, RecordRows, UploadedHash
<1>27. CASE RecordSmallThrows
  BY <1>27 DEF RecordSmallThrows, UploadedHash, EndRun
<1>28. CASE EndLarge
  BY <1>28 DEF EndLarge, notPush
<1>29. ASSUME NEW p \in Paths, ConflictPush(p)
     PROVE  ScanInv'
  BY <1>29 DEF ConflictPush, Push, notPush
<1>30. ASSUME NEW p \in Paths, ConflictPushFails(p)
     PROVE  ScanInv'
  BY <1>30 DEF ConflictPushFails, notPush, Event
<1>31. ASSUME NEW p \in Paths, ConflictPull(p)
     PROVE  ScanInv'
  BY <1>31 DEF ConflictPull, Fetch, notTransfer
<1>32. ASSUME NEW p \in Paths, ConflictPullFails(p)
     PROVE  ScanInv'
  BY <1>32 DEF ConflictPullFails, notTransfer, Event
<1>33. ASSUME NEW p \in Paths, LogConflict(p)
     PROVE  ScanInv'
  BY <1>33 DEF LogConflict
<1>34. CASE Save
  BY <1>34 DEF Save, EndRun
<1>35. CASE Abandon
  BY <1>35 DEF Abandon, EndRun, Event
<1>36. CASE UNCHANGED vars
  BY <1>36 DEF vars
<1>37. QED
  BY <1>1, <1>2, <1>3, <1>4, <1>5, <1>7, <1>8, <1>9, <1>10, <1>11, <1>12, <1>13, <1>14, <1>15,
     <1>16, <1>17, <1>18, <1>19, <1>20, <1>21, <1>22, <1>23, <1>24, <1>25, <1>26, <1>27,
     <1>28, <1>29, <1>30, <1>31, <1>32, <1>33, <1>34, <1>35, <1>36 DEF Next, Environment,
     Engine, Ask, Downloads, Deletes, UploadPhase, Conflicts

-----------------------------------------------------------------------------
\* Every variable keeps its type, a file is small or large and never both, and none
\* is both sent and still to be sent by the phase that works on it.
THEOREM TypeCorrect == Spec => []TypeOK
<1>1. Init => TypeOK /\ PhaseInv
  <2>1. Init => /\ NoAnswer \in Answers
                /\ [p \in Paths |-> Absent] \in [Paths -> File]
                /\ [p \in Paths |-> "none"] \in [Paths -> Kinds]
    BY DEF NoAnswer, Answers, File, Kinds
  <2>2. Init => hasToken \in BOOLEAN /\ stopping \in BOOLEAN
    BY DEF Init
  <2>3. Init => PhaseInv
    BY DEF Init, PhaseInv
  <2>4. QED
    BY <2>1, <2>2, <2>3 DEF Init, TypeOK, Phases
<1>2. TypeOK /\ PhaseInv /\ [Next]_vars => (TypeOK /\ PhaseInv)'
  BY TypeStep
<1>3. QED
  BY <1>1, <1>2, PTL DEF Spec

\* Where the server holds something else than what was last exchanged with it, the next
\* answer names the file, or an earlier one did and the run did not act on it.
THEOREM TokenNeverPasses == Spec => []TokenCovers
<1>1. Init => TokenInv
  BY DEF Init, TokenInv, TokenCovers, AnswerInv, InAnswer
<1>2. TypeOK /\ TokenInv /\ [Next]_vars => TokenInv'
  BY TokenStep
<1>3. TokenInv => TokenCovers
  BY DEF TokenInv
<1>4. QED
  BY <1>1, <1>2, <1>3, TypeCorrect, PTL DEF Spec

LEMMA Invariants == Spec => [](TypeOK /\ PhaseInv /\ EditInv /\ ScanInv)
<1>1. Init => PhaseInv /\ EditInv /\ ScanInv
  BY DEF Init, PhaseInv, EditInv, ScanInv, NoAnswer
<1>2. TypeOK /\ PhaseInv /\ [Next]_vars => PhaseInv'
  BY TypeStep
<1>3. TypeOK /\ PhaseInv /\ EditInv /\ [Next]_vars => EditInv'
  BY EditStep
<1>4. TypeOK /\ PhaseInv /\ EditInv /\ ScanInv /\ [Next]_vars => ScanInv'
  BY ScanStep
<1>5. QED
  BY <1>1, <1>2, <1>3, <1>4, TypeCorrect, PTL DEF Spec

\* Between two runs the scan sees every local change since the last exchange of a file
\* whose row was written for that exchange, at every path the scan does not skip.
THEOREM EditsAreVisible == Spec => []EditsVisible
<1>1. TypeOK /\ PhaseInv /\ EditInv => EditsVisible
  <2>1. SUFFICES ASSUME TypeOK, PhaseInv, EditInv, pc = "idle",
                        NEW p \in Paths \ excluded, local[p] # synced[p],
                        p \notin tainted
                 PROVE  Change(p) # "none"
    BY DEF EditsVisible
  <2>2. done = {}
    BY <2>1 DEF PhaseInv
  <2>3. CASE local[p] = Absent
    <3>1. p \in known
      BY <2>1, <2>2, <2>3 DEF EditInv
    <3>2. QED
      BY <2>3, <3>1 DEF Change, Seen
  <2>4. CASE local[p] # Absent
    <3>1. p \in known => p \notin match /\ local[p] # hash[p]
      BY <2>1, <2>2 DEF EditInv
    <3>2. QED
      BY <2>4, <3>1 DEF Change, Seen
  <2>5. QED
    BY <2>3, <2>4
<1>2. QED
  BY <1>1, Invariants, PTL

\* No download and no deletion destroys work that was never uploaded, unless it was
\* written after the scan, or the row did not describe the last exchange, or it is at
\* a path that the scan skips.
THEOREM UnsentIsSafe == Spec => UnsentSurvives
<1>1. ASSUME ScanInv, TypeOK, NEW p \in Paths \ excluded, Downloads \/ Deletes, p \in unsent,
             local'[p] # local[p]
      PROVE  p \in raced \union tainted \/ local[p] = hash[p]
  <2>1. \/ \E q \in Paths : Download(q) /\ q = p
        \/ \E q \in Paths : DeleteLocal(q) /\ q = p
    BY <1>1 DEF Downloads, Deletes, Download, DownloadFails, RecordDownloads,
                DownloadTokenExpires, DeleteLocal, DeleteLocalFails, EndDeletes, Fetch,
                fileVars, notTransfer, TypeOK
  <2>2. p \notin Uploads /\ pc \in {"download", "delete"}
    BY <1>1, <2>1 DEF ScanInv, Download, DeleteLocal
  <2>3. QED
    BY <1>1, <2>2 DEF ScanInv
<1>2. ScanInv /\ TypeOK /\ [Next]_vars =>
        [\A p \in Paths \ excluded : (Downloads \/ Deletes) /\ p \in unsent /\ local'[p] # local[p]
            => p \in raced \union tainted \/ local[p] = hash[p]]_vars
  BY <1>1
<1>3. QED
  BY <1>2, Invariants, PTL DEF Spec, UnsentSurvives
\* PUSH never comes to the phases that change the folder, PULL never to those that
\* change the server.
DirectionInv ==
    /\ direction = "push" => pc \notin {"download", "delete"}
    /\ direction = "pull" => pc \notin {"classify", "small", "large"}

LEMMA DirectionStep == DirectionInv /\ [Next]_vars => DirectionInv'
<1> SUFFICES ASSUME DirectionInv, [Next]_vars PROVE DirectionInv'
  OBVIOUS
<1> USE DEF DirectionInv, settings, fileVars, rowVars, runVars, folderVars
<1>1. CASE Environment
  BY <1>1 DEF Environment, UserWrites, UserDeletes, UserChanges, OtherDeviceWrites, StopEngine,
              Restart
<1>2. CASE Ask
  BY <1>2 DEF Ask, ScanAll, ScanFails, Scan, Request, RequestFails, TakeAnswer
<1>3. CASE Downloads
  BY <1>3 DEF Downloads, Download, DownloadFails, RecordDownloads, DownloadTokenExpires, EndRun,
              notTransfer
<1>4. CASE Deletes
  BY <1>4 DEF Deletes, DeleteLocal, DeleteLocalFails, EndDeletes, notTransfer
<1>5. CASE UploadPhase
  BY <1>5 DEF UploadPhase, PushDeletion, PushDeletionFails, Classify, Upload, UploadFails,
              RecordLarge, RecordLargeFails, LargeWorkerDies, EndClassify, RecordSmall,
              RecordSmallThrows, EndLarge, EndRun, notPush
<1>6. CASE Conflicts
  BY <1>6 DEF Conflicts, ConflictPush, ConflictPushFails, ConflictPull, ConflictPullFails,
              LogConflict, Save, EndRun, notPush, notTransfer
<1>7. CASE Abandon
  BY <1>7 DEF Abandon, EndRun
<1>8. CASE UNCHANGED vars
  BY <1>8 DEF vars
<1>9. QED
  BY <1>1, <1>2, <1>3, <1>4, <1>5, <1>6, <1>7, <1>8 DEF Next, Engine

\* SyncDirection: no step of a run changes the folder with PUSH, or the server with PULL.
THEOREM DirectionIsRespected == Spec => DirectionRespected
<1>1. Init => DirectionInv
  BY DEF Init, DirectionInv
<1>2. ASSUME DirectionInv, Engine
      PROVE  /\ direction = "push" => UNCHANGED local
             /\ direction = "pull" => UNCHANGED server
  <2> USE DEF DirectionInv, settings, fileVars, rowVars, runVars, folderVars
  <2>1. CASE Ask
    BY <2>1 DEF Ask, ScanAll, ScanFails, Scan, Request, RequestFails, TakeAnswer
  <2>2. CASE Downloads
    BY <1>2, <2>2 DEF Downloads, Download, DownloadFails, RecordDownloads,
                      DownloadTokenExpires, notTransfer
  <2>3. CASE Deletes
    BY <1>2, <2>3 DEF Deletes, DeleteLocal, DeleteLocalFails, EndDeletes, notTransfer
  <2>4. CASE UploadPhase
    BY <1>2, <2>4 DEF UploadPhase, PushDeletion, PushDeletionFails, Classify, Upload,
                      UploadFails, RecordLarge, RecordLargeFails, LargeWorkerDies, EndClassify,
                      RecordSmall, RecordSmallThrows, EndLarge, notPush
  <2>5. CASE Conflicts
    BY <2>5 DEF Conflicts, ConflictPush, ConflictPushFails, ConflictPull, ConflictPullFails,
                LogConflict, Save, notPush, notTransfer
  <2>6. QED
    BY <1>2, <2>1, <2>2, <2>3, <2>4, <2>5 DEF Engine
<1>3. DirectionInv /\ [Next]_vars =>
        [Engine => /\ direction = "push" => UNCHANGED local
                   /\ direction = "pull" => UNCHANGED server]_vars
  BY <1>2
<1>4. QED
  BY <1>1, <1>3, DirectionStep, PTL DEF Spec, DirectionRespected
=============================================================================
