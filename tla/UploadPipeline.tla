---------------------------- MODULE UploadPipeline ----------------------------
(***************************************************************************)
(* The batch uploads of one triggerSync of a folder: the worker threads of *)
(* step 6 of performDeltaSync, which share an index, a quota flag and one  *)
(* token refresh; what becomes of their results; and withTokenRefresh,     *)
(* which refreshes the token and runs performDeltaSync once more when its  *)
(* first run throws TokenExpiredException                                  *)
(* (backend/src/sync/sync_engine.cpp and sync_engine.h).                   *)
(*                                                                         *)
(* Access tokens are numbered in the order they are issued.  The server is *)
(* external: it answers 401 to a request sent with an expired token, and   *)
(* otherwise takes the batch, refuses it, or answers 429 or 507.  A file   *)
(* of a batch may vanish before its result is handled, and the database    *)
(* may refuse a write.  The downloads and large files of the run are left  *)
(* out: module DeltaSync is about those.                                   *)
(***************************************************************************)
EXTENDS Integers, Sequences, FiniteSets

CONSTANTS
    Batches,      \* the batches of files to upload, in any order
    Workers,      \* the batch workers (MAX_CONCURRENT)
    NoBatch,      \* a worker without a batch
    NoWorker,     \* nobody holds tokenRefreshMutex
    MaxAttempts,  \* the attempts for a batch: 3 in the code
    MaxEvents     \* bound: refusals, failures, expiries and vanished files

ASSUME PipelineAssumption ==
    /\ NoBatch \notin Batches /\ NoWorker \notin Workers
    /\ Workers # {}
    /\ MaxAttempts \in Nat \ {0}
    /\ MaxEvents \in Nat

VARIABLES
    phase,           \* where the thread of triggerSync is
    run,             \* 1, or 2 for withTokenRefresh's second attempt
    running,         \* running_
    authenticated,   \* authenticated_
    quotaExceeded,   \* quotaExceeded_
    recorded,        \* the batches whose rows are written
    logged,          \* the batches with a "failed" entry in the activity log
    taken,           \* the batches the index has passed in this run
    pipelineQuota,   \* pipelineQuotaExceeded
    tokenRefreshed,  \* tokenRefreshed, of this run
    refreshMutex,    \* who holds tokenRefreshMutex
    results,         \* batchResults
    pc,              \* where each worker is
    job,             \* allBatches[myIndex]
    attempt,         \* attempt
    sentWith,        \* the token the request was sent with
    token,           \* authToken_: the number of the latest token
    expired,         \* tokens up to this one are refused by the server
    \* History variables, read by no action:
    acked,           \* batches a worker was told are stored
    refreshFailed,   \* a token refresh failed
    dropped,         \* batches of workers whose refresh failed
    lost,            \* batches whose row or entry was refused, or that the loop over the
                     \* results did not get past, as it threw
    events           \* bound only

runVars == <<phase, run, running, authenticated, quotaExceeded, recorded, logged>>
sharedVars == <<taken, pipelineQuota, tokenRefreshed, refreshMutex, results>>
workerVars == <<pc, job, attempt, sentWith>>
tokenVars == <<token, expired>>
historyVars == <<acked, refreshFailed, dropped, lost, events>>
vars == <<runVars, sharedVars, workerVars, tokenVars, historyVars>>

Results == [batch : Batches, uploaded : BOOLEAN, tokenExpired : BOOLEAN, quotaHit : BOOLEAN]

TypeOK ==
    /\ phase \in {"upload", "thrown", "completed", "failed"}
    /\ run \in {1, 2}
    /\ running \in BOOLEAN /\ authenticated \in BOOLEAN /\ quotaExceeded \in BOOLEAN
    /\ recorded \subseteq Batches /\ logged \subseteq Batches /\ taken \subseteq Batches
    /\ pipelineQuota \in BOOLEAN /\ tokenRefreshed \in BOOLEAN
    /\ refreshMutex \in Workers \union {NoWorker}
    /\ results \in Seq(Results)
    /\ pc \in [Workers -> {"top", "try", "sent", "lock", "refresh", "done"}]
    /\ job \in [Workers -> Batches \union {NoBatch}]
    /\ attempt \in [Workers -> 0..MaxAttempts]
    /\ token \in Nat /\ expired \in Nat /\ sentWith \in [Workers -> 0..token]
    /\ acked \subseteq Batches /\ dropped \subseteq Batches /\ lost \subseteq Batches
    /\ refreshFailed \in BOOLEAN /\ events \in Nat

\* What performDeltaSync's local variables are when the pipeline starts.
FreshPipeline ==
    [taken |-> {}, results |-> << >>,
     pc |-> [w \in Workers |-> "top"],
     job |-> [w \in Workers |-> NoBatch],
     attempt |-> [w \in Workers |-> 0]]

\* The token may have expired long before the run.
Init ==
    /\ phase = "upload" /\ run = 1
    /\ running = TRUE /\ authenticated = TRUE /\ quotaExceeded = FALSE
    /\ recorded = {} /\ logged = {}
    /\ taken = FreshPipeline.taken /\ results = FreshPipeline.results
    /\ pipelineQuota = FALSE /\ tokenRefreshed = FALSE /\ refreshMutex = NoWorker
    /\ pc = FreshPipeline.pc /\ job = FreshPipeline.job /\ attempt = FreshPipeline.attempt
    /\ sentWith = [w \in Workers |-> 0]
    /\ token = 1 /\ expired \in {0, 1}
    /\ acked = {} /\ refreshFailed = FALSE /\ dropped = {} /\ lost = {}
    /\ events = 0

Event == events < MaxEvents /\ events' = events + 1
Goto(w, where) == pc' = [pc EXCEPT ![w] = where]

\* The change detector reports the files without a row: a second run leaves out
\* what the first recorded.
ToUpload == Batches \ recorded

-----------------------------------------------------------------------------
(* batchWorker.                                                            *)

\* Mutant of TakeBatch: the index advances by two.
TakeBatchSkipping(w) ==
    /\ pc[w] = "top" /\ running /\ ~pipelineQuota
    /\ \E b, skipped \in ToUpload \ taken :
          /\ taken' = taken \union {b, skipped}
          /\ job' = [job EXCEPT ![w] = b]
          /\ attempt' = [attempt EXCEPT ![w] = 0]
          /\ Goto(w, "try")
    /\ UNCHANGED <<runVars, pipelineQuota, tokenRefreshed, refreshMutex, results, sentWith,
                   tokenVars, historyVars>>

\* Mutant of TakeBatch: the index is read but not advanced.
TakeBatchAgain(w) ==
    /\ pc[w] = "top" /\ running /\ ~pipelineQuota
    /\ \E b \in ToUpload \ taken :
          /\ taken' = taken
          /\ job' = [job EXCEPT ![w] = b]
          /\ attempt' = [attempt EXCEPT ![w] = 0]
          /\ Goto(w, "try")
    /\ UNCHANGED <<runVars, pipelineQuota, tokenRefreshed, refreshMutex, results, sentWith,
                   tokenVars, historyVars>>

\* nextBatchIndex.fetch_add(1).
TakeBatch(w) ==
    /\ pc[w] = "top" /\ running /\ ~pipelineQuota
    /\ \E b \in ToUpload \ taken :
          /\ taken' = taken \union {b}
          /\ job' = [job EXCEPT ![w] = b]
          /\ attempt' = [attempt EXCEPT ![w] = 0]
          /\ Goto(w, "try")
    /\ UNCHANGED <<runVars, pipelineQuota, tokenRefreshed, refreshMutex, results, sentWith,
                   tokenVars, historyVars>>

EndWorker(w) ==
    /\ pc[w] = "top"
    /\ ~running \/ pipelineQuota \/ ToUpload \subseteq taken
    /\ Goto(w, "done")
    /\ UNCHANGED <<runVars, sharedVars, job, attempt, sentWith, tokenVars, historyVars>>

\* uploadFileBatch copies the token into its request.
Send(w) ==
    /\ pc[w] = "try" /\ attempt[w] < MaxAttempts /\ running /\ ~pipelineQuota
    /\ sentWith' = [sentWith EXCEPT ![w] = token]
    /\ Goto(w, "sent")
    /\ UNCHANGED <<runVars, sharedVars, job, attempt, tokenVars, historyVars>>

\* batchResults.push_back(result).
Store(w, uploaded, tokenExpired, quotaHit) ==
    /\ results' = Append(results, [batch |-> job[w], uploaded |-> uploaded,
                                   tokenExpired |-> tokenExpired, quotaHit |-> quotaHit])
    /\ job' = [job EXCEPT ![w] = NoBatch]
    /\ Goto(w, "top")

notStore == <<taken, tokenRefreshed, attempt, sentWith, tokenVars>>

\* The attempts are used up, or the pipeline is stopping: no result is true.
GiveUp(w) ==
    /\ pc[w] = "try" /\ (attempt[w] = MaxAttempts \/ ~running \/ pipelineQuota)
    /\ Store(w, FALSE, FALSE, FALSE)
    /\ UNCHANGED <<runVars, notStore, pipelineQuota, refreshMutex, historyVars>>

Accepted(w) == pc[w] = "sent" /\ sentWith[w] > expired

Uploaded(w) ==
    /\ Accepted(w)
    /\ Store(w, TRUE, FALSE, FALSE)
    /\ acked' = acked \union {job[w]}
    /\ UNCHANGED <<runVars, notStore, pipelineQuota, refreshMutex, refreshFailed, dropped, lost,
                   events>>

\* A network error, a status such as 503: uploadFileBatch returns false.
Refused(w) ==
    /\ Event
    /\ pc[w] = "sent"
    /\ Store(w, FALSE, FALSE, FALSE)
    /\ UNCHANGED <<runVars, notStore, pipelineQuota, refreshMutex, acked, refreshFailed, dropped,
                   lost>>

NextAttempt(w) ==
    /\ attempt' = [attempt EXCEPT ![w] = @ + 1]
    /\ Goto(w, "try")

\* 429.
RateLimited(w) ==
    /\ Event
    /\ Accepted(w)
    /\ NextAttempt(w)
    /\ UNCHANGED <<runVars, sharedVars, job, sentWith, tokenVars, acked, refreshFailed, dropped,
                   lost>>

\* 507.
QuotaHit(w) ==
    /\ Event
    /\ Accepted(w)
    /\ pipelineQuota' = TRUE
    /\ Store(w, FALSE, FALSE, TRUE)
    /\ UNCHANGED <<runVars, notStore, refreshMutex, acked, refreshFailed, dropped, lost>>

\* Mutant of TokenExpired: the result goes to the engine's thread at once.
TokenExpiredUnhandled(w) ==
    /\ pc[w] = "sent" /\ sentWith[w] <= expired
    /\ Store(w, FALSE, TRUE, FALSE)
    /\ UNCHANGED <<runVars, notStore, pipelineQuota, refreshMutex, historyVars>>

\* 401: the token of the request may be an older one than that of the client by now.
TokenExpired(w) ==
    /\ pc[w] = "sent" /\ sentWith[w] <= expired
    /\ Goto(w, "lock")
    /\ UNCHANGED <<runVars, sharedVars, job, attempt, sentWith, tokenVars, historyVars>>

\* "Another worker already refreshed - retry".
AlreadyRefreshed(w) ==
    /\ pc[w] = "lock" /\ refreshMutex = NoWorker
    /\ tokenRefreshed
    /\ NextAttempt(w)
    /\ UNCHANGED <<runVars, sharedVars, job, sentWith, tokenVars, historyVars>>

\* Mutant of EnterRefresh: whoever gets the mutex refreshes.
EnterRefreshAlways(w) ==
    /\ pc[w] = "lock" /\ refreshMutex = NoWorker
    /\ refreshMutex' = w
    /\ Goto(w, "refresh")
    /\ UNCHANGED <<runVars, taken, pipelineQuota, tokenRefreshed, results, job, attempt,
                   sentWith, tokenVars, historyVars>>

EnterRefresh(w) ==
    /\ pc[w] = "lock" /\ refreshMutex = NoWorker
    /\ ~tokenRefreshed
    /\ refreshMutex' = w
    /\ Goto(w, "refresh")
    /\ UNCHANGED <<runVars, taken, pipelineQuota, tokenRefreshed, results, job, attempt,
                   sentWith, tokenVars, historyVars>>

\* Mutant of Refreshed: the mutex is not released before the next attempt.
RefreshedLocked(w) ==
    /\ pc[w] = "refresh"
    /\ token' = token + 1
    /\ tokenRefreshed' = TRUE
    /\ NextAttempt(w)
    /\ UNCHANGED <<runVars, taken, pipelineQuota, refreshMutex, results, job, sentWith, expired,
                   historyVars>>

\* refreshAccessToken: a new token, "Retry this batch with new token".
Refreshed(w) ==
    /\ pc[w] = "refresh"
    /\ token' = token + 1
    /\ tokenRefreshed' = TRUE
    /\ refreshMutex' = NoWorker
    /\ NextAttempt(w)
    /\ UNCHANGED <<runVars, taken, pipelineQuota, results, job, sentWith, expired, historyVars>>

\* No refresh token, or the request failed: break, with tokenExpired set.
RefreshFails(w) ==
    /\ Event
    /\ pc[w] = "refresh"
    /\ refreshMutex' = NoWorker
    /\ Store(w, FALSE, TRUE, FALSE)
    /\ refreshFailed' = TRUE /\ dropped' = dropped \union {job[w]}
    /\ UNCHANGED <<runVars, notStore, pipelineQuota, acked, lost>>

-----------------------------------------------------------------------------
(* After the join: the results, and withTokenRefresh.                      *)

Joined == phase = "upload" /\ \A w \in Workers : pc[w] = "done"

\* One of the first i results hit the quota.
QuotaBy(i) == \E j \in 1..i : results[j].quotaHit

\* The batches of the first n results that were uploaded, and those that get a "failed"
\* entry: neither uploaded nor expired, up to the first result that hit the quota.
UploadedBy(n) == {results[i].batch : i \in {j \in 1..n : results[j].uploaded}}

FailedBy(n) ==
    {results[i].batch : i \in {j \in 1..n :
        ~results[j].uploaded /\ ~results[j].tokenExpired /\ ~QuotaBy(j - 1)}}

BatchesAfter(n) == {results[i].batch : i \in (n + 1)..Len(results)}

\* The loop has handled the first n results.  A write the database refused goes unnoticed.
HandleResults(n, refused) ==
    /\ recorded' = recorded \union (UploadedBy(n) \ refused)
    /\ logged' = logged \union (FailedBy(n) \ refused)
    /\ quotaExceeded' = (quotaExceeded \/ QuotaBy(n))
    /\ lost' = lost \union refused \union BatchesAfter(n)

Unrecoverable == ~tokenRefreshed /\ \E i \in DOMAIN results : results[i].tokenExpired

\* Mutant of ProcessResults: the rows are written when no exception is due.
ProcessResultsUnlessExpired ==
    /\ Joined
    /\ recorded' = recorded \union (IF Unrecoverable THEN {} ELSE UploadedBy(Len(results)))
    /\ logged' = logged \union FailedBy(Len(results))
    /\ quotaExceeded' = (quotaExceeded \/ QuotaBy(Len(results)))
    /\ IF Unrecoverable
       THEN authenticated' = FALSE /\ phase' = "thrown"
       ELSE UNCHANGED authenticated /\ phase' = "completed"
    /\ UNCHANGED <<run, running, sharedVars, workerVars, tokenVars, historyVars>>

\* One loop over batchResults, then the exception for an expired token.
ProcessResults ==
    /\ Joined
    /\ \E refused \in SUBSET (UploadedBy(Len(results)) \union FailedBy(Len(results))) :
          /\ HandleResults(Len(results), refused)
          /\ IF refused = {} THEN UNCHANGED events ELSE Event
    /\ IF Unrecoverable
       THEN authenticated' = FALSE /\ phase' = "thrown"
       ELSE UNCHANGED authenticated /\ phase' = "completed"
    /\ UNCHANGED <<run, running, sharedVars, workerVars, tokenVars, acked, refreshFailed, dropped>>

\* sha256_file and file_size throw for a file that is not there any more: of an uploaded
\* batch at any time, of a failed one if it vanishes behind the test for it.
AsksForFile(i) ==
    results[i].uploaded \/ (~results[i].tokenExpired /\ ~QuotaBy(i))

\* The loop throws at its result n + 1.  withTokenRefresh lets the exception of the first
\* run pass, even if a token expired, and takes that of the second for a failed refresh.
ResultsThrow ==
    /\ Event
    /\ Joined
    /\ \E n \in 0..(Len(results) - 1) :
          /\ AsksForFile(n + 1)
          /\ HandleResults(n, {})
    /\ authenticated' = (authenticated /\ run = 1)
    /\ phase' = "failed"
    /\ UNCHANGED <<run, running, sharedVars, workerVars, tokenVars, acked, refreshFailed, dropped>>

\* withTokenRefresh: one refresh and a second performDeltaSync.
RunAgain ==
    /\ phase = "thrown" /\ run = 1
    /\ token' = token + 1
    /\ run' = 2 /\ phase' = "upload"
    /\ taken' = FreshPipeline.taken /\ results' = FreshPipeline.results
    /\ pc' = FreshPipeline.pc /\ job' = FreshPipeline.job /\ attempt' = FreshPipeline.attempt
    /\ pipelineQuota' = FALSE /\ tokenRefreshed' = FALSE
    /\ UNCHANGED <<running, authenticated, quotaExceeded, recorded, logged, refreshMutex,
                   sentWith, expired, historyVars>>

\* The refresh fails, or the second run threw as well.
GiveUpSession ==
    /\ phase = "thrown"
    /\ IF run = 1 THEN Event /\ refreshFailed' = TRUE ELSE UNCHANGED <<events, refreshFailed>>
    /\ authenticated' = FALSE
    /\ phase' = "failed"
    /\ UNCHANGED <<run, running, quotaExceeded, recorded, logged, sharedVars, workerVars,
                   tokenVars, acked, dropped, lost>>

\* stop().
StopEngine ==
    /\ Event
    /\ running /\ phase = "upload"
    /\ running' = FALSE
    /\ UNCHANGED <<phase, run, authenticated, quotaExceeded, recorded, logged, sharedVars,
                   workerVars, tokenVars, acked, refreshFailed, dropped, lost>>

\* The server stops taking the tokens issued so far.
TokensExpire ==
    /\ Event
    /\ expired < token /\ phase \in {"upload", "thrown"}
    /\ expired' = token
    /\ UNCHANGED <<runVars, sharedVars, workerVars, token, acked, refreshFailed, dropped, lost>>

-----------------------------------------------------------------------------
Work(w) ==
    \/ TakeBatch(w) \/ EndWorker(w) \/ Send(w) \/ GiveUp(w)
    \/ Uploaded(w) \/ Refused(w) \/ RateLimited(w) \/ QuotaHit(w) \/ TokenExpired(w)
    \/ AlreadyRefreshed(w) \/ EnterRefresh(w) \/ Refreshed(w) \/ RefreshFails(w)

Finish == ProcessResults \/ ResultsThrow \/ RunAgain \/ GiveUpSession

Next == (\E w \in Workers : Work(w)) \/ Finish \/ StopEngine \/ TokensExpire

\* The threads run, and every request ends (connect timeout, low-speed limit).
Fairness == (\A w \in Workers : WF_vars(Work(w))) /\ WF_vars(Finish)

Spec == Init /\ [][Next]_vars
FairSpec == Spec /\ Fairness

-----------------------------------------------------------------------------
(* Properties.                                                             *)

Over == phase \in {"completed", "failed"}

\* What the server confirmed has its row when performDeltaSync returns or throws, also
\* when it throws because of another batch's token: the next run must not see those files
\* as new.  Only what the loop over the results had not got past when a file had vanished
\* under it, and a row the database refused, are missing; and no row is without a
\* confirmation.
ConfirmedIsRecorded ==
    phase # "upload" => /\ acked \subseteq recorded \union lost
                        /\ recorded \subseteq acked

\* A batch that a worker was told is stored is not sent again: not by another worker,
\* and not by withTokenRefresh's second run, except one whose row the first run could
\* not write.
NeverSentAgain == [][\A w \in Workers : Send(w) => job[w] \notin acked \ lost]_vars

\* In the end every batch has its row or its entry in the activity log, unless the quota
\* was hit, the engine stopped, the batch's worker could not refresh the token, the loop
\* over the results threw before it had got past the batch, or the write was refused.  A
\* quota that was hit has set quotaExceeded_, unless the loop threw before that result.
BatchesAccountedFor ==
    Over => \A b \in Batches : \/ b \in recorded \union logged \union dropped \union lost
                               \/ quotaExceeded \/ ~running
                               \/ pipelineQuota /\ lost # {}

\* "Only one worker refreshes at a time", and not one after the other either: a run
\* fetches at most one new token, and withTokenRefresh none when the run did.
OneRefreshPerRun == token <= run + 1

\* The user is signed out only after a refresh failed, not because a request was under
\* way with the old token while another worker got a new one.
SignOutJustified == ~authenticated => refreshFailed

\* The pipeline ends, with 401, 429 and 507 answers, refreshes and stop() in any order.
PipelineEnds == <>Over
=============================================================================
