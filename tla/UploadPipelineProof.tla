-------------------------- MODULE UploadPipelineProof --------------------------
(***************************************************************************)
(* Proofs about UploadPipeline, for any number of batches, workers and     *)
(* attempts: the types; that no batch the server confirmed is sent again;  *)
(* that a run fetches at most one new token; that the user is signed out   *)
(* only after a refresh failed; that every batch is accounted for; and     *)
(* that the workers never all wait.                                        *)
(***************************************************************************)
EXTENDS UploadPipeline, TLAPS

\* A worker between taking a batch and storing its result.
Busy(w) == pc[w] \in {"try", "sent", "lock", "refresh"}

\* A busy worker has a batch, and an attempt left once the request is sent.
JobInv ==
    \A w \in Workers :
        /\ Busy(w) => job[w] \in Batches
        /\ pc[w] \in {"sent", "lock", "refresh"} => attempt[w] < MaxAttempts

TypeInv == TypeOK /\ JobInv

\* The batches of the results that were uploaded, and of those that get a "failed" entry.
UploadedBatches == UploadedBy(Len(results))
FailedBatches == FailedBy(Len(results))

LEMMA TypeInit == Init => TypeInv
<1> SUFFICES ASSUME Init PROVE TypeInv
  OBVIOUS
<1> USE PipelineAssumption DEF Init, FreshPipeline
<1>1. JobInv
  BY DEF JobInv, Busy
<1>2. results \in Seq(Results)
  OBVIOUS
<1>3. pc \in [Workers -> {"top", "try", "sent", "lock", "refresh", "done"}]
  OBVIOUS
<1>4. job \in [Workers -> Batches \union {NoBatch}] /\ attempt \in [Workers -> 0..MaxAttempts]
  OBVIOUS
<1>5. token \in Nat /\ expired \in Nat /\ sentWith \in [Workers -> 0..token] /\ events \in Nat
  OBVIOUS
<1>6. authenticated \in BOOLEAN /\ running \in BOOLEAN /\ quotaExceeded \in BOOLEAN
  OBVIOUS
<1>7. pipelineQuota \in BOOLEAN /\ tokenRefreshed \in BOOLEAN /\ refreshFailed \in BOOLEAN
  OBVIOUS
<1>8. phase = "upload" /\ run = 1 /\ refreshMutex = NoWorker
  OBVIOUS
<1>9. recorded = {} /\ logged = {} /\ taken = {} /\ acked = {} /\ dropped = {} /\ lost = {}
  OBVIOUS
<1> QED
  BY <1>1, <1>2, <1>3, <1>4, <1>5, <1>6, <1>7, <1>8, <1>9 DEF TypeInv, TypeOK

\* A result that is stored is one of a batch.
LEMMA StoreType ==
  ASSUME TypeInv, NEW w \in Workers, Busy(w), NEW u \in BOOLEAN, NEW e \in BOOLEAN,
         NEW q \in BOOLEAN, Store(w, u, e, q)
  PROVE  /\ results' \in Seq(Results)
         /\ job' \in [Workers -> Batches \union {NoBatch}]
         /\ pc' \in [Workers -> {"top", "try", "sent", "lock", "refresh", "done"}]
         /\ attempt' = attempt => JobInv'
<1> USE DEF TypeInv, TypeOK, JobInv, Busy, Store, Goto
<1>1. [batch |-> job[w], uploaded |-> u, tokenExpired |-> e, quotaHit |-> q] \in Results
  BY DEF Results
<1>2. results' \in Seq(Results)
  BY <1>1
<1>3. attempt' = attempt => JobInv'
  OBVIOUS
<1> QED
  BY <1>2, <1>3

\* What the loop has written once it has handled the first n results, and what it has not.
LEMMA HandledResults ==
  ASSUME TypeInv, NEW n \in 0..Len(results), NEW refused \in SUBSET Batches,
         HandleResults(n, refused)
  PROVE  /\ recorded' \in SUBSET Batches /\ logged' \in SUBSET Batches /\ lost' \in SUBSET Batches
         /\ quotaExceeded' \in BOOLEAN
         /\ recorded' \subseteq recorded \union UploadedBatches /\ recorded \subseteq recorded'
         /\ UploadedBatches \subseteq recorded' \union lost' /\ lost \subseteq lost'
<1>1. \A i \in 1..Len(results) : results[i] \in Results
  BY DEF TypeInv, TypeOK
<1>2. \A i \in 1..Len(results) : results[i].batch \in Batches
  BY <1>1 DEF Results
<1>3. n \in Nat /\ n <= Len(results) /\ Len(results) \in Nat
  BY DEF TypeInv, TypeOK
<1>4. UploadedBy(n) \subseteq Batches /\ FailedBy(n) \subseteq Batches
  BY <1>2, <1>3 DEF UploadedBy, FailedBy
<1>5. BatchesAfter(n) \subseteq Batches
  BY <1>2, <1>3 DEF BatchesAfter
<1>6. UploadedBy(n) \subseteq UploadedBatches
  BY <1>3 DEF UploadedBy, UploadedBatches
<1>7. UploadedBatches \subseteq UploadedBy(n) \union BatchesAfter(n)
  <2>1. \A i \in 1..Len(results) : i \in 1..n \/ i \in (n + 1)..Len(results)
    BY <1>3
  <2> QED
    BY <2>1 DEF UploadedBy, UploadedBatches, BatchesAfter
<1>8. recorded \subseteq Batches /\ logged \subseteq Batches /\ lost \subseteq Batches
  BY DEF TypeInv, TypeOK
<1> QED
  BY <1>4, <1>5, <1>6, <1>7, <1>8 DEF HandleResults

\* The loop's steps, with the results they handle.
LEMMA ProcessedAll ==
  ASSUME TypeInv, ProcessResults
  PROVE  /\ phase = "upload" /\ phase' # "upload" /\ phase' \in {"thrown", "completed"}
         /\ authenticated' \in BOOLEAN /\ events' \in Nat
         /\ UNCHANGED <<run, running, sharedVars, workerVars, tokenVars, acked, refreshFailed,
                        dropped>>
         /\ \E refused \in SUBSET Batches : HandleResults(Len(results), refused)
<1>0. \A i \in 1..Len(results) : results[i] \in Results
  BY DEF TypeInv, TypeOK
<1>1. \A i \in 1..Len(results) : results[i].batch \in Batches
  BY <1>0 DEF Results
<1>2. Len(results) \in Nat
  BY DEF TypeInv, TypeOK
<1>3. UploadedBy(Len(results)) \union FailedBy(Len(results)) \subseteq Batches
  BY <1>1, <1>2 DEF UploadedBy, FailedBy
<1>4. PICK refused \in SUBSET (UploadedBy(Len(results)) \union FailedBy(Len(results))) :
         /\ HandleResults(Len(results), refused)
         /\ IF refused = {} THEN UNCHANGED events ELSE Event
  BY DEF ProcessResults
<1>5. events' \in Nat
  BY <1>4 DEF Event, TypeInv, TypeOK
<1>6. \E r \in SUBSET Batches : HandleResults(Len(results), r)
  BY <1>3, <1>4
<1>7. phase = "upload" /\ phase' \in {"thrown", "completed"} /\ authenticated' \in BOOLEAN
  BY DEF ProcessResults, Joined, TypeInv, TypeOK
<1> QED
  BY <1>5, <1>6, <1>7 DEF ProcessResults

LEMMA ThrowsAfter ==
  ASSUME TypeInv, ResultsThrow
  PROVE  /\ phase = "upload" /\ phase' = "failed"
         /\ authenticated' \in BOOLEAN /\ events' \in Nat
         /\ UNCHANGED <<run, running, sharedVars, workerVars, tokenVars, acked, refreshFailed,
                        dropped>>
         /\ \E n \in 0..Len(results) : HandleResults(n, {})
<1>1. Len(results) \in Nat
  BY DEF TypeInv, TypeOK
<1>2. PICK n \in 0..(Len(results) - 1) : HandleResults(n, {})
  BY DEF ResultsThrow
<1>3. n \in 0..Len(results)
  BY <1>1
<1> QED
  BY <1>2, <1>3 DEF ResultsThrow, Event, Joined, TypeInv, TypeOK

LEMMA TypeStep ==
  ASSUME TypeInv, [Next]_vars
  PROVE  TypeInv'
<1> USE PipelineAssumption DEF TypeInv, TypeOK, JobInv, Busy, runVars, sharedVars, workerVars, tokenVars, historyVars, notStore, Goto
<1>1. ASSUME NEW w \in Workers, TakeBatch(w) PROVE TypeInv'
  <2>1. PICK b \in ToUpload \ taken : /\ taken' = taken \union {b}
                                       /\ job' = [job EXCEPT ![w] = b]
    BY <1>1 DEF TakeBatch
  <2>2. b \in Batches
    BY DEF ToUpload
  <2>3. attempt' = [attempt EXCEPT ![w] = 0] /\ pc' = [pc EXCEPT ![w] = "try"]
    BY <1>1 DEF TakeBatch
  <2>4. taken' \subseteq Batches /\ job' \in [Workers -> Batches \union {NoBatch}]
    BY <2>1, <2>2
  <2>5. attempt' \in [Workers -> 0..MaxAttempts]
    BY <2>3
  <2>6. JobInv'
    BY <2>1, <2>2, <2>3
  <2>7. UNCHANGED <<runVars, pipelineQuota, tokenRefreshed, refreshMutex, results, sentWith,
                    tokenVars, historyVars>>
    BY <1>1 DEF TakeBatch
  <2> QED
    BY <2>3, <2>4, <2>5, <2>6, <2>7
<1>2. ASSUME NEW w \in Workers, EndWorker(w) PROVE TypeInv'
  BY <1>2 DEF EndWorker
<1>3. ASSUME NEW w \in Workers, Send(w) PROVE TypeInv'
  BY <1>3 DEF Send
<1>4. ASSUME NEW w \in Workers, GiveUp(w) PROVE TypeInv'
  <2>1. Busy(w)
    BY <1>4 DEF GiveUp, Busy
  <2>2. Store(w, FALSE, FALSE, FALSE)
    BY <1>4 DEF GiveUp
  <2> QED
    BY <1>4, <2>1, <2>2, StoreType DEF GiveUp
<1>5. ASSUME NEW w \in Workers, Uploaded(w) PROVE TypeInv'
  <2>1. Busy(w)
    BY <1>5 DEF Uploaded, Accepted, Busy
  <2>2. Store(w, TRUE, FALSE, FALSE)
    BY <1>5 DEF Uploaded
  <2> QED
    BY <1>5, <2>1, <2>2, StoreType DEF Uploaded, Accepted
<1>6. ASSUME NEW w \in Workers, Refused(w) PROVE TypeInv'
  <2>1. Busy(w)
    BY <1>6 DEF Refused, Event, Busy
  <2>2. Store(w, FALSE, FALSE, FALSE)
    BY <1>6 DEF Refused
  <2>3. events' \in Nat
    BY <1>6 DEF Refused, Event
  <2>4. results' \in Seq(Results) /\ job' \in [Workers -> Batches \union {NoBatch}]
        /\ pc' \in [Workers -> {"top", "try", "sent", "lock", "refresh", "done"}]
        /\ (attempt' = attempt => JobInv')
    BY <2>1, <2>2, StoreType
  <2>5. UNCHANGED attempt
    BY <1>6 DEF Refused
  <2>6. JobInv'
    BY <2>4, <2>5
  <2>7. dropped' \subseteq Batches /\ lost' \subseteq Batches
    BY <1>6, <2>1 DEF Refused
  <2> QED
    BY <1>6, <2>3, <2>4, <2>6, <2>7 DEF Refused
<1>7. ASSUME NEW w \in Workers, RateLimited(w) PROVE TypeInv'
  <2>1. attempt' \in [Workers -> 0..MaxAttempts]
    BY <1>7, PipelineAssumption DEF RateLimited, NextAttempt, Accepted, Event
  <2>2. JobInv'
    BY <1>7 DEF RateLimited, NextAttempt, Accepted, Event
  <2> QED
    BY <1>7, <2>1, <2>2 DEF RateLimited, NextAttempt, Accepted, Event
<1>8. ASSUME NEW w \in Workers, QuotaHit(w) PROVE TypeInv'
  <2>1. Busy(w)
    BY <1>8 DEF QuotaHit, Accepted, Event, Busy
  <2>2. Store(w, FALSE, FALSE, TRUE)
    BY <1>8 DEF QuotaHit
  <2>3. events' \in Nat
    BY <1>8 DEF QuotaHit, Event
  <2>4. results' \in Seq(Results) /\ job' \in [Workers -> Batches \union {NoBatch}]
        /\ pc' \in [Workers -> {"top", "try", "sent", "lock", "refresh", "done"}]
        /\ (attempt' = attempt => JobInv')
    BY <2>1, <2>2, StoreType
  <2>5. UNCHANGED attempt
    BY <1>8 DEF QuotaHit
  <2>6. JobInv'
    BY <2>4, <2>5
  <2>7. dropped' \subseteq Batches /\ lost' \subseteq Batches
    BY <1>8, <2>1 DEF QuotaHit
  <2> QED
    BY <1>8, <2>3, <2>4, <2>6, <2>7 DEF QuotaHit
<1>9. ASSUME NEW w \in Workers, TokenExpired(w) PROVE TypeInv'
  BY <1>9 DEF TokenExpired
<1>10. ASSUME NEW w \in Workers, AlreadyRefreshed(w) PROVE TypeInv'
  <2>1. attempt' \in [Workers -> 0..MaxAttempts]
    BY <1>10, PipelineAssumption DEF AlreadyRefreshed, NextAttempt
  <2>2. JobInv'
    BY <1>10 DEF AlreadyRefreshed, NextAttempt
  <2> QED
    BY <1>10, <2>1, <2>2 DEF AlreadyRefreshed, NextAttempt
<1>11. ASSUME NEW w \in Workers, EnterRefresh(w) PROVE TypeInv'
  BY <1>11 DEF EnterRefresh
<1>12. ASSUME NEW w \in Workers, Refreshed(w) PROVE TypeInv'
  <2>1. sentWith' \in [Workers -> 0..token'] /\ token' \in Nat
    BY <1>12 DEF Refreshed
  <2>2. attempt' \in [Workers -> 0..MaxAttempts]
    BY <1>12, PipelineAssumption DEF Refreshed, NextAttempt
  <2>3. JobInv'
    BY <1>12 DEF Refreshed, NextAttempt
  <2> QED
    BY <1>12, <2>1, <2>2, <2>3 DEF Refreshed, NextAttempt
<1>13. ASSUME NEW w \in Workers, RefreshFails(w) PROVE TypeInv'
  <2>1. Busy(w)
    BY <1>13 DEF RefreshFails, Event, Busy
  <2>2. Store(w, FALSE, TRUE, FALSE)
    BY <1>13 DEF RefreshFails
  <2>3. events' \in Nat
    BY <1>13 DEF RefreshFails, Event
  <2>4. results' \in Seq(Results) /\ job' \in [Workers -> Batches \union {NoBatch}]
        /\ pc' \in [Workers -> {"top", "try", "sent", "lock", "refresh", "done"}]
        /\ (attempt' = attempt => JobInv')
    BY <2>1, <2>2, StoreType
  <2>5. UNCHANGED attempt
    BY <1>13 DEF RefreshFails
  <2>6. JobInv'
    BY <2>4, <2>5
  <2>7. dropped' \subseteq Batches /\ lost' \subseteq Batches
    BY <1>13, <2>1 DEF RefreshFails
  <2> QED
    BY <1>13, <2>3, <2>4, <2>6, <2>7 DEF RefreshFails
<1>14. CASE ProcessResults
  <2>1. PICK refused \in SUBSET Batches : HandleResults(Len(results), refused)
    BY <1>14, ProcessedAll
  <2>2. Len(results) \in 0..Len(results)
    OBVIOUS
  <2>3. /\ recorded' \in SUBSET Batches /\ logged' \in SUBSET Batches /\ lost' \in SUBSET Batches
        /\ quotaExceeded' \in BOOLEAN
    BY <2>1, <2>2, HandledResults
  <2>4. /\ phase' \in {"thrown", "completed"} /\ authenticated' \in BOOLEAN /\ events' \in Nat
        /\ UNCHANGED <<run, running, sharedVars, workerVars, tokenVars, acked, refreshFailed,
                       dropped>>
    BY <1>14, ProcessedAll
  <2> QED
    BY <2>3, <2>4
<1>20. CASE ResultsThrow
  <2>1. PICK n \in 0..Len(results) : HandleResults(n, {})
    BY <1>20, ThrowsAfter
  <2>2. /\ recorded' \in SUBSET Batches /\ logged' \in SUBSET Batches /\ lost' \in SUBSET Batches
        /\ quotaExceeded' \in BOOLEAN
    BY <2>1, HandledResults
  <2>3. /\ phase' = "failed" /\ authenticated' \in BOOLEAN /\ events' \in Nat
        /\ UNCHANGED <<run, running, sharedVars, workerVars, tokenVars, acked, refreshFailed,
                       dropped>>
    BY <1>20, ThrowsAfter
  <2> QED
    BY <2>2, <2>3
<1>15. CASE RunAgain
  <2>1. sentWith' \in [Workers -> 0..token']
    BY <1>15 DEF RunAgain
  <2>2. results' \in Seq(Results)
    BY <1>15 DEF RunAgain, FreshPipeline
  <2>3. pc' \in [Workers -> {"top", "try", "sent", "lock", "refresh", "done"}]
    BY <1>15 DEF RunAgain, FreshPipeline
  <2>4. job' \in [Workers -> Batches \union {NoBatch}] /\ attempt' \in [Workers -> 0..MaxAttempts]
    BY <1>15, PipelineAssumption DEF RunAgain, FreshPipeline
  <2>5. JobInv'
    BY <1>15 DEF RunAgain, FreshPipeline
  <2>6. taken' = {} /\ token' \in Nat
    BY <1>15 DEF RunAgain, FreshPipeline
  <2>7. phase' = "upload" /\ run' = 2 /\ pipelineQuota' = FALSE /\ tokenRefreshed' = FALSE
    BY <1>15 DEF RunAgain
  <2>8. UNCHANGED <<running, authenticated, quotaExceeded, recorded, logged, refreshMutex,
                    expired, historyVars>>
    BY <1>15 DEF RunAgain
  <2> QED
    BY <2>1, <2>2, <2>3, <2>4, <2>5, <2>6, <2>7, <2>8
<1>16. CASE GiveUpSession
  <2>1. events' \in Nat
    BY <1>16 DEF GiveUpSession, Event
  <2>2. refreshFailed' \in BOOLEAN /\ authenticated' \in BOOLEAN /\ phase' = "failed"
    BY <1>16 DEF GiveUpSession
  <2>3. UNCHANGED <<run, running, quotaExceeded, recorded, logged, sharedVars, workerVars,
                    tokenVars, acked, dropped, lost>>
    BY <1>16 DEF GiveUpSession
  <2> QED
    BY <2>1, <2>2, <2>3
<1>17. CASE StopEngine
  <2>1. events' \in Nat
    BY <1>17 DEF StopEngine, Event
  <2>2. running' = FALSE /\ UNCHANGED <<phase, run, authenticated, quotaExceeded, recorded,
            logged, sharedVars, workerVars, tokenVars, acked, refreshFailed, dropped, lost>>
    BY <1>17 DEF StopEngine
  <2> QED
    BY <2>1, <2>2
<1>18. CASE TokensExpire
  BY <1>18 DEF TokensExpire, Event
<1>19. CASE UNCHANGED vars
  BY <1>19 DEF vars
<1> QED
  BY <1>1, <1>2, <1>3, <1>4, <1>5, <1>6, <1>7, <1>8, <1>9, <1>10, <1>11, <1>12, <1>13, <1>14, <1>15, <1>16, <1>17, <1>18, <1>19, <1>20 DEF Next, Work, Finish

\* The variables keep their types.
THEOREM TypeCorrect == Spec => []TypeOK
<1>1. TypeInv /\ [Next]_vars => TypeInv'
  BY TypeStep
<1> QED
  BY <1>1, TypeInit, PTL DEF Spec, TypeInv


-----------------------------------------------------------------------------
\* Storing a result adds the batch to the uploaded ones if it was uploaded.
LEMMA StoreUploaded ==
  ASSUME TypeInv, NEW w \in Workers, Busy(w), NEW u \in BOOLEAN, NEW e \in BOOLEAN,
         NEW q \in BOOLEAN, Store(w, u, e, q)
  PROVE  /\ UploadedBatches' = UploadedBatches \union (IF u THEN {job[w]} ELSE {})
         /\ \A i \in DOMAIN results' : results'[i].tokenExpired =>
               e \/ \E j \in DOMAIN results : results[j].tokenExpired
<1> DEFINE r == [batch |-> job[w], uploaded |-> u, tokenExpired |-> e, quotaHit |-> q]
<1>1. results \in Seq(Results) /\ r \in Results
  BY DEF TypeInv, TypeOK, JobInv, Busy, Results
<1>2. results' = Append(results, r)
  BY DEF Store
<1>3. r.batch = job[w] /\ r.uploaded = u /\ r.tokenExpired = e
  OBVIOUS
<1> HIDE DEF r
<1>4. Len(results) \in Nat /\ DOMAIN results = 1..Len(results)
  BY <1>1
<1>5. DOMAIN results' = 1..(Len(results) + 1)
  BY <1>1, <1>2
<1>6. \A i \in DOMAIN results : results'[i] = results[i]
  BY <1>1, <1>2
<1>7. results'[Len(results) + 1] = r
  BY <1>1, <1>2
<1>8. \A i \in DOMAIN results' : i \in DOMAIN results \/ i = Len(results) + 1
  BY <1>4, <1>5
<1>9. DOMAIN results \subseteq DOMAIN results' /\ Len(results) + 1 \in DOMAIN results'
  BY <1>4, <1>5
<1>11. Len(results') = Len(results) + 1
  BY <1>1, <1>2
<1>10. ASSUME NEW b PROVE b \in UploadedBatches' <=> b \in UploadedBatches \/ (u /\ b = job[w])
  <2>1. b \in UploadedBatches' <=>
          \E i \in DOMAIN results' : results'[i].uploaded /\ b = results'[i].batch
    BY <1>4, <1>5, <1>11 DEF UploadedBatches, UploadedBy
  <2>2. b \in UploadedBatches <=>
          \E i \in DOMAIN results : results[i].uploaded /\ b = results[i].batch
    BY <1>4 DEF UploadedBatches, UploadedBy
  <2> QED
    BY <1>3, <1>6, <1>7, <1>8, <1>9, <2>1, <2>2
<1> QED
  BY <1>3, <1>6, <1>7, <1>8, <1>10

\* While the workers are at it, what was confirmed is in their results, recorded or lost.
ResultsInv ==
    /\ recorded \subseteq acked
    /\ IF phase = "upload"
       THEN UploadedBatches \subseteq acked /\ acked \subseteq recorded \union UploadedBatches \union lost
       ELSE acked \subseteq recorded \union lost

LEMMA ResultsInit == Init => ResultsInv
<1> SUFFICES ASSUME Init PROVE ResultsInv
  OBVIOUS
<1>1. Len(results) = 0
  BY DEF Init, FreshPipeline
<1>2. UploadedBatches = {}
  BY <1>1 DEF UploadedBatches, UploadedBy
<1> QED
  BY <1>2 DEF Init, ResultsInv

\* Workers are only at it in phase "upload".
PhaseInv == phase # "upload" => \A w \in Workers : pc[w] = "done"

LEMMA PhaseInit == Init => PhaseInv
  BY DEF Init, PhaseInv

LEMMA PhaseStep ==
  ASSUME TypeInv, PhaseInv, [Next]_vars
  PROVE  PhaseInv'
<1> USE DEF TypeInv, TypeOK, PhaseInv, runVars, sharedVars, workerVars, tokenVars, historyVars, notStore, Goto
<1>1. ASSUME NEW w \in Workers, TakeBatch(w) PROVE PhaseInv'
  BY <1>1 DEF TakeBatch
<1>2. ASSUME NEW w \in Workers, EndWorker(w) PROVE PhaseInv'
  BY <1>2 DEF EndWorker
<1>3. ASSUME NEW w \in Workers, Send(w) PROVE PhaseInv'
  BY <1>3 DEF Send
<1>4. ASSUME NEW w \in Workers, GiveUp(w) PROVE PhaseInv'
  BY <1>4 DEF GiveUp, Store
<1>5. ASSUME NEW w \in Workers, Uploaded(w) PROVE PhaseInv'
  BY <1>5 DEF Uploaded, Store, Accepted
<1>6. ASSUME NEW w \in Workers, Refused(w) PROVE PhaseInv'
  BY <1>6 DEF Refused, Store, Event
<1>7. ASSUME NEW w \in Workers, RateLimited(w) PROVE PhaseInv'
  BY <1>7 DEF RateLimited, NextAttempt, Accepted, Event
<1>8. ASSUME NEW w \in Workers, QuotaHit(w) PROVE PhaseInv'
  BY <1>8 DEF QuotaHit, Store, Accepted, Event
<1>9. ASSUME NEW w \in Workers, TokenExpired(w) PROVE PhaseInv'
  BY <1>9 DEF TokenExpired
<1>10. ASSUME NEW w \in Workers, AlreadyRefreshed(w) PROVE PhaseInv'
  BY <1>10 DEF AlreadyRefreshed, NextAttempt
<1>11. ASSUME NEW w \in Workers, EnterRefresh(w) PROVE PhaseInv'
  BY <1>11 DEF EnterRefresh
<1>12. ASSUME NEW w \in Workers, Refreshed(w) PROVE PhaseInv'
  BY <1>12 DEF Refreshed, NextAttempt
<1>13. ASSUME NEW w \in Workers, RefreshFails(w) PROVE PhaseInv'
  BY <1>13 DEF RefreshFails, Store, Event
<1>14. CASE ProcessResults
  BY <1>14 DEF ProcessResults, Joined
<1>20. CASE ResultsThrow
  BY <1>20 DEF ResultsThrow, Joined
<1>15. CASE RunAgain
  BY <1>15 DEF RunAgain, FreshPipeline
<1>16. CASE GiveUpSession
  BY <1>16 DEF GiveUpSession, Event
<1>17. CASE StopEngine
  BY <1>17 DEF StopEngine, Event
<1>18. CASE TokensExpire
  BY <1>18 DEF TokensExpire, Event
<1>19. CASE UNCHANGED vars
  BY <1>19 DEF vars
<1> QED
  BY <1>1, <1>2, <1>3, <1>4, <1>5, <1>6, <1>7, <1>8, <1>9, <1>10, <1>11, <1>12, <1>13, <1>14, <1>15, <1>16, <1>17, <1>18, <1>19, <1>20 DEF Next, Work, Finish

LEMMA ResultsStep ==
  ASSUME TypeInv, PhaseInv, ResultsInv, [Next]_vars
  PROVE  ResultsInv'
<1> USE DEF ResultsInv, UploadedBatches, UploadedBy, runVars, sharedVars, workerVars, tokenVars, historyVars, notStore, Goto
<1>1. ASSUME NEW w \in Workers, TakeBatch(w) PROVE ResultsInv'
  BY <1>1 DEF TakeBatch
<1>2. ASSUME NEW w \in Workers, EndWorker(w) PROVE ResultsInv'
  BY <1>2 DEF EndWorker
<1>3. ASSUME NEW w \in Workers, Send(w) PROVE ResultsInv'
  BY <1>3 DEF Send
<1>4. ASSUME NEW w \in Workers, GiveUp(w) PROVE ResultsInv'
  <2>1. Busy(w) /\ UNCHANGED <<phase, recorded>> /\ acked' = acked
    BY <1>4 DEF GiveUp, Accepted, Busy, runVars
  <2>2. Store(w, FALSE, FALSE, FALSE)
    BY <1>4 DEF GiveUp
  <2>3. UploadedBatches' = UploadedBatches \union {}
    BY <2>1, <2>2, StoreUploaded
  <2>4. phase = "upload"
    BY <2>1 DEF PhaseInv, Busy
  <2> QED
    BY <1>4, <2>1, <2>3, <2>4 DEF GiveUp, ResultsInv
<1>5. ASSUME NEW w \in Workers, Uploaded(w) PROVE ResultsInv'
  <2>1. Busy(w) /\ UNCHANGED <<phase, recorded>> 
    BY <1>5 DEF Uploaded, Accepted, Busy, runVars
  <2>2. Store(w, TRUE, FALSE, FALSE)
    BY <1>5 DEF Uploaded
  <2>3. UploadedBatches' = UploadedBatches \union {job[w]}
    BY <2>1, <2>2, StoreUploaded
  <2>4. phase = "upload"
    BY <2>1 DEF PhaseInv, Busy
  <2> QED
    BY <1>5, <2>1, <2>3, <2>4 DEF Uploaded, ResultsInv
<1>6. ASSUME NEW w \in Workers, Refused(w) PROVE ResultsInv'
  <2>1. Busy(w) /\ UNCHANGED <<phase, recorded>> /\ acked' = acked
    BY <1>6 DEF Refused, Accepted, Busy, runVars
  <2>2. Store(w, FALSE, FALSE, FALSE)
    BY <1>6 DEF Refused
  <2>3. UploadedBatches' = UploadedBatches \union {}
    BY <2>1, <2>2, StoreUploaded
  <2>4. phase = "upload"
    BY <2>1 DEF PhaseInv, Busy
  <2> QED
    BY <1>6, <2>1, <2>3, <2>4 DEF Refused, ResultsInv
<1>7. ASSUME NEW w \in Workers, RateLimited(w) PROVE ResultsInv'
  BY <1>7 DEF RateLimited, NextAttempt, Accepted, Event
<1>8. ASSUME NEW w \in Workers, QuotaHit(w) PROVE ResultsInv'
  <2>1. Busy(w) /\ UNCHANGED <<phase, recorded>> /\ acked' = acked
    BY <1>8 DEF QuotaHit, Accepted, Busy, runVars
  <2>2. Store(w, FALSE, FALSE, TRUE)
    BY <1>8 DEF QuotaHit
  <2>3. UploadedBatches' = UploadedBatches \union {}
    BY <2>1, <2>2, StoreUploaded
  <2>4. phase = "upload"
    BY <2>1 DEF PhaseInv, Busy
  <2> QED
    BY <1>8, <2>1, <2>3, <2>4 DEF QuotaHit, ResultsInv
<1>9. ASSUME NEW w \in Workers, TokenExpired(w) PROVE ResultsInv'
  BY <1>9 DEF TokenExpired
<1>10. ASSUME NEW w \in Workers, AlreadyRefreshed(w) PROVE ResultsInv'
  BY <1>10 DEF AlreadyRefreshed, NextAttempt
<1>11. ASSUME NEW w \in Workers, EnterRefresh(w) PROVE ResultsInv'
  BY <1>11 DEF EnterRefresh
<1>12. ASSUME NEW w \in Workers, Refreshed(w) PROVE ResultsInv'
  BY <1>12 DEF Refreshed, NextAttempt
<1>13. ASSUME NEW w \in Workers, RefreshFails(w) PROVE ResultsInv'
  <2>1. Busy(w) /\ UNCHANGED <<phase, recorded>> /\ acked' = acked
    BY <1>13 DEF RefreshFails, Accepted, Busy, runVars
  <2>2. Store(w, FALSE, TRUE, FALSE)
    BY <1>13 DEF RefreshFails
  <2>3. UploadedBatches' = UploadedBatches \union {}
    BY <2>1, <2>2, StoreUploaded
  <2>4. phase = "upload"
    BY <2>1 DEF PhaseInv, Busy
  <2> QED
    BY <1>13, <2>1, <2>3, <2>4 DEF RefreshFails, ResultsInv
<1>14. CASE ProcessResults
  <2>1. phase = "upload" /\ phase' # "upload" /\ acked' = acked
    BY <1>14, ProcessedAll
  <2>2. PICK refused \in SUBSET Batches : HandleResults(Len(results), refused)
    BY <1>14, ProcessedAll
  <2>3. Len(results) \in 0..Len(results)
    BY DEF TypeInv, TypeOK
  <2>4. /\ recorded' \subseteq recorded \union UploadedBatches /\ recorded \subseteq recorded'
        /\ UploadedBatches \subseteq recorded' \union lost' /\ lost \subseteq lost'
    BY <2>2, <2>3, HandledResults
  <2> HIDE DEF UploadedBatches, UploadedBy
  <2> QED
    BY <2>1, <2>4 DEF ResultsInv
<1>20. CASE ResultsThrow
  <2>1. phase = "upload" /\ phase' # "upload" /\ acked' = acked
    BY <1>20, ThrowsAfter
  <2>2. PICK n \in 0..Len(results) : HandleResults(n, {})
    BY <1>20, ThrowsAfter
  <2>3. /\ recorded' \subseteq recorded \union UploadedBatches /\ recorded \subseteq recorded'
        /\ UploadedBatches \subseteq recorded' \union lost' /\ lost \subseteq lost'
    BY <2>2, HandledResults
  <2> HIDE DEF UploadedBatches, UploadedBy
  <2> QED
    BY <2>1, <2>3 DEF ResultsInv
<1>15. CASE RunAgain
  <2>1. Len(results') = 0
    BY <1>15 DEF RunAgain, FreshPipeline
  <2>2. UploadedBatches' = {}
    BY <2>1 DEF UploadedBatches, UploadedBy
  <2> QED
    BY <1>15, <2>2 DEF RunAgain, ResultsInv, historyVars
<1>16. CASE GiveUpSession
  BY <1>16 DEF GiveUpSession, Event
<1>17. CASE StopEngine
  BY <1>17 DEF StopEngine, Event
<1>18. CASE TokensExpire
  BY <1>18 DEF TokensExpire, Event
<1>19. CASE UNCHANGED vars
  BY <1>19 DEF vars
<1> QED
  BY <1>1, <1>2, <1>3, <1>4, <1>5, <1>6, <1>7, <1>8, <1>9, <1>10, <1>11, <1>12, <1>13, <1>14, <1>15, <1>16, <1>17, <1>18, <1>19, <1>20 DEF Next, Work, Finish

\* What the server confirmed has its row when the run returns or throws.
THEOREM ConfirmedAreRecorded == Spec => []ConfirmedIsRecorded
<1>1. TypeInv /\ PhaseInv /\ ResultsInv /\ [Next]_vars => TypeInv' /\ PhaseInv' /\ ResultsInv'
  BY TypeStep, PhaseStep, ResultsStep
<1>2. ResultsInv => ConfirmedIsRecorded
  BY DEF ResultsInv, ConfirmedIsRecorded
<1> QED
  BY <1>1, <1>2, TypeInit, PhaseInit, ResultsInit, PTL DEF Spec

-----------------------------------------------------------------------------
\* Two workers never have the same batch, and none has one that was confirmed.
SendInv ==
    /\ phase = "upload" => acked \subseteq recorded \union taken \union lost
    /\ \A w \in Workers : Busy(w) => job[w] \in taken /\ job[w] \notin acked \ lost
    /\ \A v, w \in Workers : Busy(v) /\ Busy(w) /\ job[v] = job[w] => v = w

LEMMA SendInit == Init => SendInv
  BY DEF Init, FreshPipeline, SendInv, Busy

LEMMA SendStep ==
  ASSUME TypeInv, PhaseInv, ResultsInv, SendInv, [Next]_vars
  PROVE  SendInv'
<1> USE DEF TypeInv, TypeOK, SendInv, Busy, ToUpload, runVars, sharedVars, workerVars, tokenVars, historyVars, notStore, Goto
<1>1. ASSUME NEW w \in Workers, TakeBatch(w) PROVE SendInv'
  <2>1. phase = "upload"
    BY <1>1 DEF TakeBatch, PhaseInv
  <2> QED
    BY <1>1, <2>1 DEF TakeBatch
<1>2. ASSUME NEW w \in Workers, EndWorker(w) PROVE SendInv'
  BY <1>2 DEF EndWorker
<1>3. ASSUME NEW w \in Workers, Send(w) PROVE SendInv'
  BY <1>3 DEF Send
<1>4. ASSUME NEW w \in Workers, GiveUp(w) PROVE SendInv'
  BY <1>4 DEF GiveUp, Store
<1>5. ASSUME NEW w \in Workers, Uploaded(w) PROVE SendInv'
  BY <1>5 DEF Uploaded, Store, Accepted
<1>6. ASSUME NEW w \in Workers, Refused(w) PROVE SendInv'
  BY <1>6 DEF Refused, Store, Event
<1>7. ASSUME NEW w \in Workers, RateLimited(w) PROVE SendInv'
  BY <1>7 DEF RateLimited, NextAttempt, Accepted, Event
<1>8. ASSUME NEW w \in Workers, QuotaHit(w) PROVE SendInv'
  BY <1>8 DEF QuotaHit, Store, Accepted, Event
<1>9. ASSUME NEW w \in Workers, TokenExpired(w) PROVE SendInv'
  BY <1>9 DEF TokenExpired
<1>10. ASSUME NEW w \in Workers, AlreadyRefreshed(w) PROVE SendInv'
  BY <1>10 DEF AlreadyRefreshed, NextAttempt
<1>11. ASSUME NEW w \in Workers, EnterRefresh(w) PROVE SendInv'
  BY <1>11 DEF EnterRefresh
<1>12. ASSUME NEW w \in Workers, Refreshed(w) PROVE SendInv'
  BY <1>12 DEF Refreshed, NextAttempt
<1>13. ASSUME NEW w \in Workers, RefreshFails(w) PROVE SendInv'
  BY <1>13 DEF RefreshFails, Store, Event
<1>14. CASE ProcessResults
  <2>1. phase' # "upload" /\ \A v \in Workers : ~Busy(v)'
    BY <1>14 DEF ProcessResults, Joined
  <2> QED
    BY <2>1
<1>20. CASE ResultsThrow
  <2>1. phase' # "upload" /\ \A v \in Workers : ~Busy(v)'
    BY <1>20 DEF ResultsThrow, Joined
  <2> QED
    BY <2>1
<1>15. CASE RunAgain
  <2>1. acked' \subseteq recorded' \union lost'
    BY <1>15 DEF RunAgain, ResultsInv, historyVars
  <2>2. \A v \in Workers : ~Busy(v)'
    BY <1>15 DEF RunAgain, FreshPipeline, Busy
  <2> QED
    BY <2>1, <2>2 DEF SendInv
<1>16. CASE GiveUpSession
  BY <1>16 DEF GiveUpSession, Event
<1>17. CASE StopEngine
  BY <1>17 DEF StopEngine, Event
<1>18. CASE TokensExpire
  BY <1>18 DEF TokensExpire, Event
<1>19. CASE UNCHANGED vars
  BY <1>19 DEF vars
<1> QED
  BY <1>1, <1>2, <1>3, <1>4, <1>5, <1>6, <1>7, <1>8, <1>9, <1>10, <1>11, <1>12, <1>13, <1>14, <1>15, <1>16, <1>17, <1>18, <1>19, <1>20 DEF Next, Work, Finish

\* A batch whose upload was confirmed is not sent again, in either run.
THEOREM ConfirmedNotSentAgain == Spec => NeverSentAgain
<1>1. /\ TypeInv /\ PhaseInv /\ ResultsInv /\ SendInv /\ [Next]_vars
      => TypeInv' /\ PhaseInv' /\ ResultsInv' /\ SendInv'
  BY TypeStep, PhaseStep, ResultsStep, SendStep
<1>2. SendInv => \A w \in Workers : Send(w) => job[w] \notin acked \ lost
  BY DEF SendInv, Send, Busy
<1> QED
  BY <1>1, <1>2, TypeInit, PhaseInit, ResultsInit, SendInit, PTL DEF Spec, NeverSentAgain

-----------------------------------------------------------------------------
\* A run that has its new token is not in a refresh, and does not throw for one.
RefreshInv ==
    /\ token <= (IF tokenRefreshed THEN run + 1 ELSE run)
    /\ \A w \in Workers : pc[w] = "refresh" => refreshMutex = w /\ ~tokenRefreshed
    /\ phase = "thrown" => ~tokenRefreshed

LEMMA RefreshInit == Init => RefreshInv
  BY DEF Init, FreshPipeline, RefreshInv


LEMMA RefreshStep ==
  ASSUME TypeInv, PhaseInv, RefreshInv, [Next]_vars
  PROVE  RefreshInv'
<1> USE PipelineAssumption DEF TypeInv, TypeOK, PhaseInv, RefreshInv, runVars, sharedVars, workerVars, tokenVars, historyVars, notStore, Goto
<1>1. ASSUME NEW w \in Workers, TakeBatch(w) PROVE RefreshInv'
  BY <1>1 DEF TakeBatch
<1>2. ASSUME NEW w \in Workers, EndWorker(w) PROVE RefreshInv'
  BY <1>2 DEF EndWorker
<1>3. ASSUME NEW w \in Workers, Send(w) PROVE RefreshInv'
  BY <1>3 DEF Send
<1>4. ASSUME NEW w \in Workers, GiveUp(w) PROVE RefreshInv'
  BY <1>4 DEF GiveUp, Store
<1>5. ASSUME NEW w \in Workers, Uploaded(w) PROVE RefreshInv'
  BY <1>5 DEF Uploaded, Store, Accepted
<1>6. ASSUME NEW w \in Workers, Refused(w) PROVE RefreshInv'
  BY <1>6 DEF Refused, Store, Event
<1>7. ASSUME NEW w \in Workers, RateLimited(w) PROVE RefreshInv'
  BY <1>7 DEF RateLimited, NextAttempt, Accepted, Event
<1>8. ASSUME NEW w \in Workers, QuotaHit(w) PROVE RefreshInv'
  BY <1>8 DEF QuotaHit, Store, Accepted, Event
<1>9. ASSUME NEW w \in Workers, TokenExpired(w) PROVE RefreshInv'
  BY <1>9 DEF TokenExpired
<1>10. ASSUME NEW w \in Workers, AlreadyRefreshed(w) PROVE RefreshInv'
  BY <1>10 DEF AlreadyRefreshed, NextAttempt
<1>11. ASSUME NEW w \in Workers, EnterRefresh(w) PROVE RefreshInv'
  BY <1>11 DEF EnterRefresh
<1>12. ASSUME NEW w \in Workers, Refreshed(w) PROVE RefreshInv'
  BY <1>12 DEF Refreshed, NextAttempt
<1>13. ASSUME NEW w \in Workers, RefreshFails(w) PROVE RefreshInv'
  BY <1>13 DEF RefreshFails, Store, Event
<1>14. CASE ProcessResults
  <2>1. phase' = "thrown" => ~tokenRefreshed
    BY <1>14 DEF ProcessResults, Unrecoverable
  <2> QED
    BY <1>14, <2>1 DEF ProcessResults
<1>20. CASE ResultsThrow
  BY <1>20 DEF ResultsThrow
<1>15. CASE RunAgain
  BY <1>15 DEF RunAgain, FreshPipeline
<1>16. CASE GiveUpSession
  BY <1>16 DEF GiveUpSession, Event
<1>17. CASE StopEngine
  BY <1>17 DEF StopEngine, Event
<1>18. CASE TokensExpire
  BY <1>18 DEF TokensExpire, Event
<1>19. CASE UNCHANGED vars
  BY <1>19 DEF vars
<1> QED
  BY <1>1, <1>2, <1>3, <1>4, <1>5, <1>6, <1>7, <1>8, <1>9, <1>10, <1>11, <1>12, <1>13, <1>14, <1>15, <1>16, <1>17, <1>18, <1>19, <1>20 DEF Next, Work, Finish

\* A run fetches at most one new token, and the wrapper none when the run did.
THEOREM OneRefreshEach == Spec => []OneRefreshPerRun
<1>1. TypeInv /\ PhaseInv /\ RefreshInv /\ [Next]_vars => TypeInv' /\ PhaseInv' /\ RefreshInv'
  BY TypeStep, PhaseStep, RefreshStep
<1>2. TypeInv /\ RefreshInv => OneRefreshPerRun
  BY DEF TypeInv, TypeOK, RefreshInv, OneRefreshPerRun
<1> QED
  BY <1>1, <1>2, TypeInit, PhaseInit, RefreshInit, PTL DEF Spec

-----------------------------------------------------------------------------
\* A result with tokenExpired set comes from a refresh that failed, and so does the
\* exception the results are turned into.
SignOutInv ==
    /\ ~authenticated => refreshFailed
    /\ \A i \in DOMAIN results : results[i].tokenExpired => refreshFailed
    /\ phase = "thrown" \/ run = 2 => refreshFailed

LEMMA SignOutInit == Init => SignOutInv
<1> SUFFICES ASSUME Init PROVE SignOutInv
  OBVIOUS
<1>1. DOMAIN results = {}
  BY DEF Init, FreshPipeline
<1> QED
  BY <1>1 DEF Init, SignOutInv

LEMMA SignOutStep ==
  ASSUME TypeInv, SignOutInv, [Next]_vars
  PROVE  SignOutInv'
<1> USE DEF TypeInv, TypeOK, SignOutInv, runVars, sharedVars, workerVars, tokenVars, historyVars, notStore, Goto
<1>1. ASSUME NEW w \in Workers, TakeBatch(w) PROVE SignOutInv'
  BY <1>1 DEF TakeBatch
<1>2. ASSUME NEW w \in Workers, EndWorker(w) PROVE SignOutInv'
  BY <1>2 DEF EndWorker
<1>3. ASSUME NEW w \in Workers, Send(w) PROVE SignOutInv'
  BY <1>3 DEF Send
<1>4. ASSUME NEW w \in Workers, GiveUp(w) PROVE SignOutInv'
  <2>1. Busy(w) /\ UNCHANGED <<phase, run, authenticated>>
    BY <1>4 DEF GiveUp, Accepted, Busy, runVars
  <2>2. Store(w, FALSE, FALSE, FALSE)
    BY <1>4 DEF GiveUp
  <2>3. refreshFailed' = refreshFailed
    BY <1>4 DEF GiveUp, historyVars
  <2>4. \A i \in DOMAIN results' : results'[i].tokenExpired =>
          FALSE \/ \E j \in DOMAIN results : results[j].tokenExpired
    BY <2>1, <2>2, StoreUploaded
  <2> QED
    BY <2>1, <2>3, <2>4 DEF SignOutInv
<1>5. ASSUME NEW w \in Workers, Uploaded(w) PROVE SignOutInv'
  <2>1. Busy(w) /\ UNCHANGED <<phase, run, authenticated>>
    BY <1>5 DEF Uploaded, Accepted, Busy, runVars
  <2>2. Store(w, TRUE, FALSE, FALSE)
    BY <1>5 DEF Uploaded
  <2>3. refreshFailed' = refreshFailed
    BY <1>5 DEF Uploaded, historyVars
  <2>4. \A i \in DOMAIN results' : results'[i].tokenExpired =>
          FALSE \/ \E j \in DOMAIN results : results[j].tokenExpired
    BY <2>1, <2>2, StoreUploaded
  <2> QED
    BY <2>1, <2>3, <2>4 DEF SignOutInv
<1>6. ASSUME NEW w \in Workers, Refused(w) PROVE SignOutInv'
  <2>1. Busy(w) /\ UNCHANGED <<phase, run, authenticated>>
    BY <1>6 DEF Refused, Accepted, Busy, runVars
  <2>2. Store(w, FALSE, FALSE, FALSE)
    BY <1>6 DEF Refused
  <2>3. refreshFailed' = refreshFailed
    BY <1>6 DEF Refused, historyVars
  <2>4. \A i \in DOMAIN results' : results'[i].tokenExpired =>
          FALSE \/ \E j \in DOMAIN results : results[j].tokenExpired
    BY <2>1, <2>2, StoreUploaded
  <2> QED
    BY <2>1, <2>3, <2>4 DEF SignOutInv
<1>7. ASSUME NEW w \in Workers, RateLimited(w) PROVE SignOutInv'
  BY <1>7 DEF RateLimited, NextAttempt, Accepted, Event
<1>8. ASSUME NEW w \in Workers, QuotaHit(w) PROVE SignOutInv'
  <2>1. Busy(w) /\ UNCHANGED <<phase, run, authenticated>>
    BY <1>8 DEF QuotaHit, Accepted, Busy, runVars
  <2>2. Store(w, FALSE, FALSE, TRUE)
    BY <1>8 DEF QuotaHit
  <2>3. refreshFailed' = refreshFailed
    BY <1>8 DEF QuotaHit, historyVars
  <2>4. \A i \in DOMAIN results' : results'[i].tokenExpired =>
          FALSE \/ \E j \in DOMAIN results : results[j].tokenExpired
    BY <2>1, <2>2, StoreUploaded
  <2> QED
    BY <2>1, <2>3, <2>4 DEF SignOutInv
<1>9. ASSUME NEW w \in Workers, TokenExpired(w) PROVE SignOutInv'
  BY <1>9 DEF TokenExpired
<1>10. ASSUME NEW w \in Workers, AlreadyRefreshed(w) PROVE SignOutInv'
  BY <1>10 DEF AlreadyRefreshed, NextAttempt
<1>11. ASSUME NEW w \in Workers, EnterRefresh(w) PROVE SignOutInv'
  BY <1>11 DEF EnterRefresh
<1>12. ASSUME NEW w \in Workers, Refreshed(w) PROVE SignOutInv'
  BY <1>12 DEF Refreshed, NextAttempt
<1>13. ASSUME NEW w \in Workers, RefreshFails(w) PROVE SignOutInv'
  <2>1. Busy(w) /\ UNCHANGED <<phase, run, authenticated>>
    BY <1>13 DEF RefreshFails, Accepted, Busy, runVars
  <2>2. Store(w, FALSE, TRUE, FALSE)
    BY <1>13 DEF RefreshFails
  <2>3. refreshFailed' = TRUE
    BY <1>13 DEF RefreshFails, historyVars
  <2>4. \A i \in DOMAIN results' : results'[i].tokenExpired =>
          TRUE \/ \E j \in DOMAIN results : results[j].tokenExpired
    BY <2>1, <2>2, StoreUploaded
  <2> QED
    BY <2>1, <2>3, <2>4 DEF SignOutInv
<1>14. CASE ProcessResults
  <2>1. phase' = "thrown" \/ authenticated' # authenticated => refreshFailed
    BY <1>14 DEF ProcessResults, Unrecoverable
  <2>2. UNCHANGED <<run, results, refreshFailed>>
    BY <1>14 DEF ProcessResults
  <2> QED
    BY <2>1, <2>2
<1>20. CASE ResultsThrow
  BY <1>20 DEF ResultsThrow
<1>15. CASE RunAgain
  <2>1. DOMAIN results' = {}
    BY <1>15 DEF RunAgain, FreshPipeline
  <2> QED
    BY <1>15, <2>1 DEF RunAgain
<1>16. CASE GiveUpSession
  BY <1>16 DEF GiveUpSession, Event
<1>17. CASE StopEngine
  BY <1>17 DEF StopEngine, Event
<1>18. CASE TokensExpire
  BY <1>18 DEF TokensExpire, Event
<1>19. CASE UNCHANGED vars
  BY <1>19 DEF vars
<1> QED
  BY <1>1, <1>2, <1>3, <1>4, <1>5, <1>6, <1>7, <1>8, <1>9, <1>10, <1>11, <1>12, <1>13, <1>14, <1>15, <1>16, <1>17, <1>18, <1>19, <1>20 DEF Next, Work, Finish

\* The user is signed out only after a refresh failed.
THEOREM SignOutIsJustified == Spec => []SignOutJustified
<1>1. TypeInv /\ SignOutInv /\ [Next]_vars => TypeInv' /\ SignOutInv'
  BY TypeStep, SignOutStep
<1>2. SignOutInv => SignOutJustified
  BY DEF SignOutInv, SignOutJustified
<1> QED
  BY <1>1, <1>2, TypeInit, SignOutInit, PTL DEF Spec
-----------------------------------------------------------------------------
HasResult(b) == \E i \in DOMAIN results : results[i].batch = b
Accounted(b) ==
    \/ b \in recorded \union logged \union dropped \union lost
    \/ quotaExceeded \/ ~running
    \/ pipelineQuota /\ lost # {}

\* While the workers are at it, a batch the index has passed is with one of them or has
\* its result; a result with tokenExpired set is of a dropped batch; workers that have
\* ended left no batch, unless the quota was hit or the engine stopped.
AccountInv ==
    IF phase = "upload"
    THEN /\ \A b \in taken : HasResult(b) \/ \E w \in Workers : Busy(w) /\ job[w] = b
         /\ \A i \in DOMAIN results : results[i].tokenExpired => results[i].batch \in dropped
         /\ pipelineQuota => \E i \in DOMAIN results : results[i].quotaHit
         /\ \A w \in Workers : pc[w] = "done" =>
               ~running \/ pipelineQuota \/ ToUpload \subseteq taken
    ELSE \A b \in Batches : Accounted(b)

LEMMA AccountInit == Init => AccountInv
<1> SUFFICES ASSUME Init PROVE AccountInv
  OBVIOUS
<1>1. DOMAIN results = {} /\ taken = {} /\ pipelineQuota = FALSE /\ phase = "upload"
  BY DEF Init, FreshPipeline
<1>2. \A w \in Workers : pc[w] = "top"
  BY DEF Init, FreshPipeline
<1> QED
  BY <1>1, <1>2 DEF AccountInv

\* A result that is stored is one of its worker's batch; the others stay.
LEMMA StoreResult ==
  ASSUME TypeInv, NEW w \in Workers, Busy(w), NEW u \in BOOLEAN, NEW e \in BOOLEAN,
         NEW q \in BOOLEAN, Store(w, u, e, q)
  PROVE  /\ \A b : HasResult(b) \/ b = job[w] => HasResult(b)'
         /\ \A i \in DOMAIN results' : results'[i].tokenExpired =>
               \/ e /\ results'[i].batch = job[w]
               \/ \E j \in DOMAIN results :
                     results[j].tokenExpired /\ results[j].batch = results'[i].batch
         /\ q \/ (\E i \in DOMAIN results : results[i].quotaHit) =>
               \E i \in DOMAIN results' : results'[i].quotaHit
<1> DEFINE r == [batch |-> job[w], uploaded |-> u, tokenExpired |-> e, quotaHit |-> q]
<1>1. results \in Seq(Results) /\ r \in Results
  BY DEF TypeInv, TypeOK, JobInv, Busy, Results
<1>2. results' = Append(results, r)
  BY DEF Store
<1>3. r.batch = job[w] /\ r.tokenExpired = e /\ r.quotaHit = q
  OBVIOUS
<1> HIDE DEF r
<1>4. Len(results) \in Nat /\ DOMAIN results = 1..Len(results)
  BY <1>1
<1>5. DOMAIN results' = 1..(Len(results) + 1)
  BY <1>1, <1>2
<1>6. \A i \in DOMAIN results : results'[i] = results[i]
  BY <1>1, <1>2
<1>7. results'[Len(results) + 1] = r
  BY <1>1, <1>2
<1>8. \A i \in DOMAIN results' : i \in DOMAIN results \/ i = Len(results) + 1
  BY <1>4, <1>5
<1>9. DOMAIN results \subseteq DOMAIN results' /\ Len(results) + 1 \in DOMAIN results'
  BY <1>4, <1>5
<1>10. \A b : HasResult(b) \/ b = job[w] => HasResult(b)'
  BY <1>3, <1>6, <1>7, <1>9 DEF HasResult
<1>11. \A i \in DOMAIN results' : results'[i].tokenExpired =>
               \/ e /\ results'[i].batch = job[w]
               \/ \E j \in DOMAIN results :
                     results[j].tokenExpired /\ results[j].batch = results'[i].batch
  BY <1>3, <1>6, <1>7, <1>8
<1>12. q \/ (\E i \in DOMAIN results : results[i].quotaHit) =>
               \E i \in DOMAIN results' : results'[i].quotaHit
  BY <1>3, <1>6, <1>7, <1>9
<1> QED
  BY <1>10, <1>11, <1>12

\* A worker that stores a result gives up its batch and nothing else.
LEMMA StoreAccounts ==
  ASSUME TypeInv, PhaseInv, AccountInv, NEW w \in Workers, Busy(w), NEW u \in BOOLEAN,
         NEW e \in BOOLEAN, NEW q \in BOOLEAN, Store(w, u, e, q),
         UNCHANGED <<phase, recorded, taken, running>>,
         pipelineQuota' <=> pipelineQuota \/ q, dropped \subseteq dropped',
         e => job[w] \in dropped'
  PROVE  AccountInv'
<1>1. phase = "upload" /\ phase' = "upload"
  BY DEF PhaseInv, Busy
<1>2. /\ pc' = [pc EXCEPT ![w] = "top"] /\ pc \in [Workers -> {"top", "try", "sent", "lock", "refresh", "done"}]
      /\ \A v \in Workers \ {w} : job'[v] = job[v]
  BY DEF Store, Goto, TypeInv, TypeOK
<1>3. \A b \in taken' : HasResult(b)' \/ \E v \in Workers : Busy(v)' /\ job'[v] = b
  <2> SUFFICES ASSUME NEW b \in taken, ~HasResult(b)'
               PROVE  \E v \in Workers : Busy(v)' /\ job'[v] = b
    OBVIOUS
  <2>1. ~HasResult(b) /\ b # job[w]
    BY StoreResult
  <2>2. PICK v \in Workers : Busy(v) /\ job[v] = b
    BY <1>1, <2>1 DEF AccountInv
  <2> QED
    BY <1>2, <2>1, <2>2 DEF Busy
<1>4. \A i \in DOMAIN results' : results'[i].tokenExpired => results'[i].batch \in dropped'
  BY <1>1, StoreResult DEF AccountInv
<1>5. pipelineQuota' => \E i \in DOMAIN results' : results'[i].quotaHit
  BY <1>1, StoreResult DEF AccountInv
<1>6. \A v \in Workers : pc'[v] = "done" =>
         ~running' \/ pipelineQuota' \/ ToUpload' \subseteq taken'
  BY <1>1, <1>2 DEF AccountInv, ToUpload
<1> QED
  BY <1>1, <1>3, <1>4, <1>5, <1>6 DEF AccountInv

\* The loop over the results leaves no batch without an account, wherever it ends.
LEMMA HandledAccounts ==
  ASSUME TypeInv, AccountInv, Joined, phase' # "upload",
         UNCHANGED <<running, pipelineQuota, dropped>>,
         NEW n \in 0..Len(results), NEW refused \in SUBSET Batches, HandleResults(n, refused)
  PROVE  AccountInv'
<1>1. phase = "upload" /\ \A v \in Workers : pc[v] = "done"
  BY DEF Joined
<1>2. PICK w \in Workers : pc[w] = "done"
  BY <1>1, PipelineAssumption
<1>3. n \in Nat /\ n <= Len(results) /\ DOMAIN results = 1..Len(results) /\ Len(results) \in Nat
  BY DEF TypeInv, TypeOK
<1>4. SUFFICES ASSUME NEW b \in Batches, running, ~quotaExceeded', ~(pipelineQuota /\ lost' # {})
               PROVE  b \in recorded' \union logged' \union dropped' \union lost'
  BY DEF AccountInv, Accounted
\* A result that hit the quota is past the end of the loop, and lost.
<1>7. ~pipelineQuota
  <2> SUFFICES ASSUME pipelineQuota PROVE FALSE
    OBVIOUS
  <2>1. PICK i \in 1..Len(results) : results[i].quotaHit
    BY <1>1, <1>3 DEF AccountInv
  <2>2. ~(i \in 1..n)
    BY <1>4, <2>1 DEF HandleResults, QuotaBy
  <2>3. i \in (n + 1)..Len(results)
    BY <1>3, <2>2
  <2>4. results[i].batch \in lost'
    BY <2>3 DEF HandleResults, BatchesAfter
  <2> QED
    BY <1>4, <2>4
<1>5. CASE b \in recorded
  BY <1>5 DEF HandleResults
<1>6. CASE b \notin recorded
  <2>1. b \in taken
    BY <1>1, <1>2, <1>4, <1>6, <1>7 DEF AccountInv, ToUpload
  <2>2. \A v \in Workers : ~Busy(v)
    BY <1>1 DEF Busy
  <2>3. PICK i \in 1..Len(results) : results[i].batch = b
    BY <1>1, <1>3, <2>1, <2>2 DEF AccountInv, HasResult
  <2>4. CASE i \in (n + 1)..Len(results)
    BY <2>3, <2>4 DEF HandleResults, BatchesAfter
  <2>5. CASE i \notin (n + 1)..Len(results)
    <3>1. i \in 1..n
      BY <1>3, <2>5
    <3>2. \A j \in 1..n : ~results[j].quotaHit
      BY <1>4 DEF HandleResults, QuotaBy
    <3>3. CASE results[i].uploaded
      BY <2>3, <3>1, <3>3 DEF HandleResults, UploadedBy
    <3>4. CASE results[i].tokenExpired
      BY <1>1, <1>3, <2>3, <3>4 DEF AccountInv
    <3>5. CASE ~results[i].uploaded /\ ~results[i].tokenExpired
      <4>1. ~QuotaBy(i - 1)
        BY <1>3, <3>1, <3>2 DEF QuotaBy
      <4> QED
        BY <2>3, <3>1, <3>5, <4>1 DEF HandleResults, FailedBy
    <3> QED
      BY <3>3, <3>4, <3>5
  <2> QED
    BY <2>4, <2>5
<1> QED
  BY <1>5, <1>6

LEMMA AccountStep ==
  ASSUME TypeInv, PhaseInv, AccountInv, [Next]_vars
  PROVE  AccountInv'
<1> USE DEF runVars, sharedVars, workerVars, tokenVars, historyVars, notStore, Goto
<1>0. pc \in [Workers -> {"top", "try", "sent", "lock", "refresh", "done"}]
  BY DEF TypeInv, TypeOK
\* A step of a busy worker that keeps its batch.
<1>a. ASSUME NEW w \in Workers, Busy(w), NEW where \in {"try", "sent", "lock", "refresh"},
             Goto(w, where),
             UNCHANGED <<phase, run, running, recorded, taken, pipelineQuota, results, job,
                         dropped>>
      PROVE  AccountInv'
  <2>1. phase = "upload" /\ phase' = "upload"
    BY <1>a DEF PhaseInv, Busy
  <2>2. \A v \in Workers : (Busy(v)' <=> Busy(v)) /\ (pc'[v] = "done" <=> pc[v] = "done")
    BY <1>0, <1>a DEF Busy
  <2> QED
    BY <1>a, <2>1, <2>2 DEF AccountInv, HasResult, ToUpload
<1>1. ASSUME NEW w \in Workers, TakeBatch(w) PROVE AccountInv'
  <2>1. PICK b \in ToUpload \ taken : taken' = taken \union {b} /\ job' = [job EXCEPT ![w] = b]
    BY <1>1 DEF TakeBatch
  <2>2. phase = "upload" /\ phase' = "upload" /\ pc[w] = "top" /\ pc' = [pc EXCEPT ![w] = "try"]
    BY <1>1 DEF TakeBatch, PhaseInv
  <2>3. job'[w] = b /\ Busy(w)'
    BY <1>0, <2>1, <2>2 DEF Busy, TypeInv, TypeOK
  <2>4. \A v \in Workers : Busy(v) => Busy(v)' /\ job'[v] = job[v]
    BY <1>0, <2>1, <2>2 DEF Busy, TypeInv, TypeOK
  <2>5. UNCHANGED <<running, recorded, pipelineQuota, results, dropped>>
    BY <1>1 DEF TakeBatch
  <2>6. \A c \in taken' : HasResult(c)' \/ \E v \in Workers : Busy(v)' /\ job'[v] = c
    BY <2>1, <2>2, <2>3, <2>4, <2>5 DEF AccountInv, HasResult
  <2>7. \A v \in Workers : pc'[v] = "done" => pc[v] = "done"
    BY <1>0, <2>2
  <2>8. \A v \in Workers : pc'[v] = "done" =>
           ~running' \/ pipelineQuota' \/ ToUpload' \subseteq taken'
    BY <2>1, <2>2, <2>5, <2>7 DEF AccountInv, ToUpload
  <2> QED
    BY <2>2, <2>5, <2>6, <2>8 DEF AccountInv
<1>2. ASSUME NEW w \in Workers, EndWorker(w) PROVE AccountInv'
  <2>1. phase = "upload" /\ phase' = "upload"
    BY <1>2 DEF EndWorker, PhaseInv
  <2>2. \A v \in Workers : Busy(v)' <=> Busy(v)
    BY <1>0, <1>2 DEF EndWorker, Busy
  <2>3. UNCHANGED <<running, recorded, taken, pipelineQuota, results, job, dropped>>
    BY <1>2 DEF EndWorker
  <2>4. ~running \/ pipelineQuota \/ ToUpload \subseteq taken
    BY <1>2 DEF EndWorker
  <2> QED
    BY <2>1, <2>2, <2>3, <2>4 DEF AccountInv, HasResult, ToUpload
<1>3. ASSUME NEW w \in Workers, Send(w) PROVE AccountInv'
  BY <1>3, <1>a DEF Send, Busy
<1>4. ASSUME NEW w \in Workers, GiveUp(w) PROVE AccountInv'
  BY <1>4, StoreAccounts DEF GiveUp, Busy
<1>5. ASSUME NEW w \in Workers, Uploaded(w) PROVE AccountInv'
  BY <1>5, StoreAccounts DEF Uploaded, Accepted, Busy
<1>6. ASSUME NEW w \in Workers, Refused(w) PROVE AccountInv'
  BY <1>6, StoreAccounts DEF Refused, Busy
<1>7. ASSUME NEW w \in Workers, RateLimited(w) PROVE AccountInv'
  BY <1>7, <1>a DEF RateLimited, NextAttempt, Accepted, Busy
<1>8. ASSUME NEW w \in Workers, QuotaHit(w) PROVE AccountInv'
  BY <1>8, StoreAccounts DEF QuotaHit, Accepted, Busy
<1>9. ASSUME NEW w \in Workers, TokenExpired(w) PROVE AccountInv'
  BY <1>9, <1>a DEF TokenExpired, Busy
<1>10. ASSUME NEW w \in Workers, AlreadyRefreshed(w) PROVE AccountInv'
  BY <1>10, <1>a DEF AlreadyRefreshed, NextAttempt, Busy
<1>11. ASSUME NEW w \in Workers, EnterRefresh(w) PROVE AccountInv'
  BY <1>11, <1>a DEF EnterRefresh, Busy
<1>12. ASSUME NEW w \in Workers, Refreshed(w) PROVE AccountInv'
  BY <1>12, <1>a DEF Refreshed, NextAttempt, Busy
<1>13. ASSUME NEW w \in Workers, RefreshFails(w) PROVE AccountInv'
  BY <1>13, StoreAccounts DEF RefreshFails, Busy
<1>14. CASE ProcessResults
  <2>1. /\ phase = "upload" /\ phase' # "upload" /\ UNCHANGED <<running, pipelineQuota, dropped>>
    BY <1>14, ProcessedAll
  <2>2. PICK refused \in SUBSET Batches : HandleResults(Len(results), refused)
    BY <1>14, ProcessedAll
  <2>3. Len(results) \in 0..Len(results)
    BY DEF TypeInv, TypeOK
  <2> QED
    BY <1>14, <2>1, <2>2, <2>3, HandledAccounts DEF ProcessResults
<1>20. CASE ResultsThrow
  <2>1. /\ phase = "upload" /\ phase' # "upload" /\ UNCHANGED <<running, pipelineQuota, dropped>>
    BY <1>20, ThrowsAfter
  <2>2. PICK n \in 0..Len(results) : HandleResults(n, {})
    BY <1>20, ThrowsAfter
  <2> QED
    BY <1>20, <2>1, <2>2, HandledAccounts DEF ResultsThrow
<1>15. CASE RunAgain
  <2>1. DOMAIN results' = {} /\ taken' = {} /\ pipelineQuota' = FALSE /\ phase' = "upload"
    BY <1>15 DEF RunAgain, FreshPipeline
  <2>2. \A w \in Workers : pc'[w] = "top"
    BY <1>15 DEF RunAgain, FreshPipeline
  <2> QED
    BY <2>1, <2>2 DEF AccountInv
<1>16. CASE GiveUpSession
  BY <1>16 DEF GiveUpSession, AccountInv, Accounted
<1>17. CASE StopEngine
  <2>1. phase = "upload" /\ phase' = "upload" /\ running' = FALSE
    BY <1>17 DEF StopEngine
  <2> QED
    BY <1>17, <2>1 DEF StopEngine, AccountInv, HasResult, Busy
<1>18. CASE TokensExpire
  BY <1>18 DEF TokensExpire, AccountInv, Accounted, HasResult, Busy, ToUpload
<1>19. CASE UNCHANGED vars
  BY <1>19 DEF vars, AccountInv, Accounted, HasResult, Busy, ToUpload
<1> QED
  BY <1>1, <1>2, <1>3, <1>4, <1>5, <1>6, <1>7, <1>8, <1>9, <1>10, <1>11, <1>12, <1>13, <1>14,
     <1>15, <1>16, <1>17, <1>18, <1>19, <1>20 DEF Next, Work, Finish

\* Every batch ends up in the rows or in the log, unless the quota, a stop or a failed
\* refresh explains it: the index, the results and the loop over them lose none.
THEOREM AllBatchesAccountedFor == Spec => []BatchesAccountedFor
<1>1. TypeInv /\ PhaseInv /\ AccountInv /\ [Next]_vars => TypeInv' /\ PhaseInv' /\ AccountInv'
  BY TypeStep, PhaseStep, AccountStep
<1>2. AccountInv => BatchesAccountedFor
  BY DEF AccountInv, Accounted, BatchesAccountedFor, Over
<1> QED
  BY <1>1, <1>2, TypeInit, PhaseInit, AccountInit, PTL DEF Spec

-----------------------------------------------------------------------------
\* tokenRefreshMutex is free, or its holder is at the request for the new token.
MutexInv == refreshMutex # NoWorker => refreshMutex \in Workers /\ pc[refreshMutex] = "refresh"

LEMMA MutexStep ==
  ASSUME TypeInv, PhaseInv, RefreshInv, MutexInv, [Next]_vars
  PROVE  MutexInv'
<1> USE PipelineAssumption DEF TypeInv, TypeOK, PhaseInv, RefreshInv, MutexInv, runVars, sharedVars,
                               workerVars, tokenVars, historyVars, notStore, Goto
<1>1. ASSUME NEW w \in Workers, TakeBatch(w) PROVE MutexInv'
  BY <1>1 DEF TakeBatch
<1>2. ASSUME NEW w \in Workers, EndWorker(w) PROVE MutexInv'
  BY <1>2 DEF EndWorker
<1>3. ASSUME NEW w \in Workers, Send(w) PROVE MutexInv'
  BY <1>3 DEF Send
<1>4. ASSUME NEW w \in Workers, GiveUp(w) PROVE MutexInv'
  BY <1>4 DEF GiveUp, Store
<1>5. ASSUME NEW w \in Workers, Uploaded(w) PROVE MutexInv'
  BY <1>5 DEF Uploaded, Store, Accepted
<1>6. ASSUME NEW w \in Workers, Refused(w) PROVE MutexInv'
  BY <1>6 DEF Refused, Store, Event
<1>7. ASSUME NEW w \in Workers, RateLimited(w) PROVE MutexInv'
  BY <1>7 DEF RateLimited, NextAttempt, Accepted, Event
<1>8. ASSUME NEW w \in Workers, QuotaHit(w) PROVE MutexInv'
  BY <1>8 DEF QuotaHit, Store, Accepted, Event
<1>9. ASSUME NEW w \in Workers, TokenExpired(w) PROVE MutexInv'
  BY <1>9 DEF TokenExpired
<1>10. ASSUME NEW w \in Workers, AlreadyRefreshed(w) PROVE MutexInv'
  BY <1>10 DEF AlreadyRefreshed, NextAttempt
<1>11. ASSUME NEW w \in Workers, EnterRefresh(w) PROVE MutexInv'
  BY <1>11 DEF EnterRefresh
<1>12. ASSUME NEW w \in Workers, Refreshed(w) PROVE MutexInv'
  BY <1>12 DEF Refreshed, NextAttempt
<1>13. ASSUME NEW w \in Workers, RefreshFails(w) PROVE MutexInv'
  BY <1>13 DEF RefreshFails, Store, Event
<1>14. CASE ProcessResults
  BY <1>14 DEF ProcessResults, Joined
<1>20. CASE ResultsThrow
  BY <1>20 DEF ResultsThrow, Joined
<1>15. CASE RunAgain
  BY <1>15 DEF RunAgain, FreshPipeline
<1>16. CASE GiveUpSession
  BY <1>16 DEF GiveUpSession, Event
<1>17. CASE StopEngine
  BY <1>17 DEF StopEngine, Event
<1>18. CASE TokensExpire
  BY <1>18 DEF TokensExpire, Event
<1>19. CASE UNCHANGED vars
  BY <1>19 DEF vars
<1> QED
  BY <1>1, <1>2, <1>3, <1>4, <1>5, <1>6, <1>7, <1>8, <1>9, <1>10, <1>11, <1>12, <1>13, <1>14,
     <1>15, <1>16, <1>17, <1>18, <1>19, <1>20 DEF Next, Work, Finish

\* A worker can take its next step by itself: in every place but one some answer of the
\* server or some value of the flags is always there, and tokenRefreshMutex is free.
GoesOn(w) ==
    \/ pc[w] \in {"top", "try", "sent", "refresh"}
    \/ pc[w] = "lock" /\ refreshMutex = NoWorker

\* Until the pipeline is over somebody goes on, without the help of any event: a worker,
\* or the thread that joins them all, or withTokenRefresh.
SomebodyGoesOn == Over \/ (\E w \in Workers : GoesOn(w)) \/ Joined \/ phase = "thrown"

\* The workers do not block each other on tokenRefreshMutex, and the join does not wait
\* for ever: whoever waits for the mutex waits for a worker that is in its refresh, and
\* that one goes on.  It is the safety part of PipelineEnds, for any number of workers.
THEOREM PipelineNeverStuck == Spec => []SomebodyGoesOn
<1>1. Init => MutexInv
  BY DEF Init, MutexInv
<1>2. /\ TypeInv /\ PhaseInv /\ RefreshInv /\ MutexInv /\ [Next]_vars
      => TypeInv' /\ PhaseInv' /\ RefreshInv' /\ MutexInv'
  BY TypeStep, PhaseStep, RefreshStep, MutexStep
<1>3. ASSUME TypeInv, MutexInv PROVE SomebodyGoesOn
  <2>1. SUFFICES ASSUME phase = "upload", NEW w \in Workers, pc[w] # "done", ~GoesOn(w)
                 PROVE  \E v \in Workers : GoesOn(v)
    BY <1>3 DEF SomebodyGoesOn, Over, Joined, TypeInv, TypeOK
  <2>2. refreshMutex # NoWorker
    BY <1>3, <2>1 DEF GoesOn, TypeInv, TypeOK
  <2> QED
    BY <1>3, <2>2 DEF MutexInv, GoesOn
<1> QED
  BY <1>1, <1>2, <1>3, TypeInit, PhaseInit, RefreshInit, PTL DEF Spec
=============================================================================
