------------------------ MODULE SharedResourcesProof ------------------------
(***************************************************************************)
(* Proofs about the two resources that all threads of the backend share:   *)
(* the pool of CURL handles (CurlHandlePool), for any finite set of        *)
(* threads and any maxHandles_, and the transactions on the one SQLite     *)
(* connection (MetadataTx), for any sets of files and any number of        *)
(* failures.                                                               *)
(***************************************************************************)
EXTENDS CurlHandlePool, MetadataTx, FiniteSetTheorems, TLAPS

-----------------------------------------------------------------------------
(* CurlHandlePool.  That the handles are conserved is inductive together   *)
(* with the types: release() keeps the free handles within those created   *)
(* only because the handle it returns was created.  The count of wakeups   *)
(* comes on top: conservation makes the free handles a finite set.         *)

HandleInv == TypeOK /\ HandlesConserved

LEMMA HandleInit == Init => HandleInv
  BY PoolAssumption DEF Init, HandleInv, TypeOK, HandlesConserved, At

\* One step for each part of the code that runs under mutex_.
LEMMA HandleStep == HandleInv /\ [Next]_vars => HandleInv'
<1> SUFFICES ASSUME HandleInv, [Next]_vars PROVE HandleInv'
  OBVIOUS
<1> USE PoolAssumption DEF HandleInv, TypeOK, HandlesConserved, At, Goto
<1>1. ASSUME NEW t \in Threads,
             Call(t) \/ CreateFails(t) \/ Wait(t) \/ SpuriousWakeup(t)
      PROVE  HandleInv'
  <2>1. TypeOK'
    BY <1>1 DEF Call, CreateFails, Wait, SpuriousWakeup
  <2>2. At("using")' = At("using") /\ UNCHANGED <<totalCreated, available, held>>
    BY <1>1 DEF Call, CreateFails, Wait, SpuriousWakeup
  <2> QED
    BY <2>1, <2>2
<1>2. ASSUME NEW t \in Threads, NEW h \in available, Take(t, h), pc[t] # "using",
             UNCHANGED <<totalCreated, calls>>
      PROVE  HandleInv'
  <2>1. TypeOK'
    BY <1>2 DEF Take
  <2>2. At("using")' = At("using") \union {t}
    BY <1>2 DEF Take
  <2>3. \A s \in At("using") : held'[s] = held[s]
    BY <1>2 DEF Take
  <2>4. held'[t] = h
    BY <1>2 DEF Take
  <2>5. 1..totalCreated' = available' \union {held'[s] : s \in At("using")'}
    BY <1>2, <2>2, <2>3, <2>4 DEF Take
  <2> QED
    BY <1>2, <2>1, <2>2, <2>3, <2>4, <2>5 DEF Take
<1>3. ASSUME NEW t \in Threads, Create(t) PROVE HandleInv'
  <2>1. TypeOK'
    BY <1>3 DEF Create
  <2>2. At("using")' = At("using") \union {t} /\ t \notin At("using")
    BY <1>3 DEF Create
  <2>3. \A s \in At("using") : held'[s] = held[s]
    BY <1>3, <2>2 DEF Create
  <2>4. held'[t] = totalCreated + 1 /\ totalCreated' = totalCreated + 1
    BY <1>3 DEF Create
  <2>5. 1..totalCreated' = (1..totalCreated) \union {totalCreated + 1}
    BY <2>4
  <2>6. \A s \in At("using") : held[s] \in 1..totalCreated
    OBVIOUS
  <2>7. 1..totalCreated' = available' \union {held'[s] : s \in At("using")'}
    BY <1>3, <2>2, <2>3, <2>4, <2>5 DEF Create
  <2>8. \A s, u \in At("using")' : held'[s] = held'[u] => s = u
    BY <2>2, <2>3, <2>4, <2>6
  <2> QED
    BY <1>3, <2>1, <2>2, <2>3, <2>4, <2>6, <2>7, <2>8 DEF Create
<1>4. ASSUME NEW t \in Threads, Recheck(t), available = {} PROVE HandleInv'
  <2>1. TypeOK'
    BY <1>4 DEF Recheck
  <2>2. At("using")' = At("using") /\ UNCHANGED <<totalCreated, available, held>>
    BY <1>4 DEF Recheck
  <2> QED
    BY <2>1, <2>2
<1>5. ASSUME NEW t \in Threads, Release(t) PROVE HandleInv'
  <2>1. held[t] \in 1..totalCreated /\ held[t] \notin available
    BY <1>5 DEF Release
  <2>2. TypeOK'
    BY <1>5, <2>1 DEF Release, NotifyOne
  <2>3. At("using")' = At("using") \ {t} /\ t \in At("using")
    BY <1>5 DEF Release, NotifyOne
  <2>4. \A s \in At("using")' : held'[s] = held[s]
    BY <1>5, <2>3 DEF Release
  <2>5. 1..totalCreated' = available' \union {held'[s] : s \in At("using")'}
    BY <1>5, <2>3, <2>4 DEF Release
  <2> QED
    BY <1>5, <2>1, <2>2, <2>3, <2>4, <2>5 DEF Release
<1>6. CASE UNCHANGED vars
  BY <1>6 DEF vars
<1> QED
  BY <1>1, <1>2, <1>3, <1>4, <1>5, <1>6 DEF Next, Acquire, Reuse, Recheck

\* The variables keep their types.
THEOREM TypeCorrect == Spec => []TypeOK
  BY HandleInit, HandleStep, PTL DEF Spec, HandleInv

\* No handle is lost or shared, and never are there more than maxHandles_.
THEOREM HandlesAreConserved == Spec => []HandlesConserved
  BY HandleInit, HandleStep, PTL DEF Spec, HandleInv

-----------------------------------------------------------------------------
\* The sets that are counted are finite.
LEMMA Finite ==
  ASSUME HandleInv
  PROVE  /\ IsFiniteSet(available) /\ Cardinality(available) \in Nat
         /\ \A where : IsFiniteSet(At(where)) /\ Cardinality(At(where)) \in Nat
<1>1. IsFiniteSet(1..totalCreated)
  BY FS_Interval DEF HandleInv, TypeOK
<1>2. IsFiniteSet(available)
  BY <1>1, FS_Subset DEF HandleInv, TypeOK
<1>3. ASSUME NEW where PROVE IsFiniteSet(At(where))
  <2>1. At(where) \in SUBSET Threads
    BY DEF At
  <2> QED
    BY <2>1, FS_Subset, PoolAssumption
<1> QED
  BY <1>2, <1>3, FS_CardinalityType

\* A handle that comes free wakes a sleeper; a handle that is taken is one less; and
\* a woken thread that goes back to sleep found none.
LEMMA WakeupStep ==
  ASSUME HandleInv, NoLostWakeup, [Next]_vars
  PROVE  NoLostWakeup'
<1> USE DEF HandleInv, TypeOK, At, Goto
<1>a. IsFiniteSet(available) /\ Cardinality(available) \in Nat
  BY Finite
<1>b. IsFiniteSet(At("woken")) /\ Cardinality(At("woken")) \in Nat
  BY Finite
<1>1. ASSUME NEW t \in Threads, Call(t) PROVE NoLostWakeup'
  <2>1. At("waiting")' = At("waiting") /\ At("woken")' = At("woken") /\ available' = available
    BY <1>1 DEF Call
  <2> QED
    BY <2>1 DEF NoLostWakeup
<1>2. ASSUME NEW t \in Threads, Create(t) \/ CreateFails(t) PROVE NoLostWakeup'
  <2>1. At("waiting")' = At("waiting") /\ At("woken")' = At("woken") /\ available' = available
    BY <1>2 DEF Create, CreateFails
  <2> QED
    BY <2>1 DEF NoLostWakeup
<1>3. ASSUME NEW t \in Threads, Reuse(t) PROVE NoLostWakeup'
  <2>1. PICK h \in available : available' = available \ {h}
    BY <1>3 DEF Reuse, Take
  <2>2. At("waiting")' = At("waiting") /\ At("woken")' = At("woken")
    BY <1>3 DEF Reuse, Take
  <2>3. Cardinality(available') = Cardinality(available) - 1
    BY <1>a, <2>1, FS_RemoveElement
  <2> QED
    BY <1>a, <1>b, <2>2, <2>3 DEF NoLostWakeup
<1>4. ASSUME NEW t \in Threads, Wait(t) PROVE NoLostWakeup'
  <2>1. available' = {} /\ At("woken")' = At("woken")
    BY <1>4 DEF Wait
  <2> QED
    BY <1>b, <2>1, FS_EmptySet DEF NoLostWakeup
<1>5. ASSUME NEW t \in Threads, SpuriousWakeup(t) PROVE NoLostWakeup'
  <2>1. At("woken")' = At("woken") \union {t} /\ t \notin At("woken") /\ t \in At("waiting")
    BY <1>5 DEF SpuriousWakeup
  <2>2. Cardinality(At("woken")') = Cardinality(At("woken")) + 1
    BY <1>b, <2>1, FS_AddElement
  <2>3. available' = available
    BY <1>5 DEF SpuriousWakeup
  <2> QED
    BY <1>a, <1>b, <2>1, <2>2, <2>3 DEF NoLostWakeup
<1>6. ASSUME NEW t \in Threads, Recheck(t) PROVE NoLostWakeup'
  <2>1. At("woken")' = At("woken") \ {t} /\ t \in At("woken")
    BY <1>6 DEF Recheck, Take
  <2>2. Cardinality(At("woken")') = Cardinality(At("woken")) - 1
    BY <1>b, <2>1, FS_RemoveElement
  <2>3. Cardinality(At("woken")) # 0
    BY <1>b, <2>1, FS_EmptySet
  <2>4. CASE available = {}
    <3>1. available' = {}
      BY <1>6, <2>4 DEF Recheck
    <3> QED
      BY <1>b, <2>2, <2>3, <3>1, FS_EmptySet DEF NoLostWakeup
  <2>5. CASE available # {}
    <3>1. PICK h \in available : available' = available \ {h}
      BY <1>6, <2>5 DEF Recheck, Take
    <3>2. At("waiting")' = At("waiting")
      BY <1>6, <2>5 DEF Recheck, Take
    <3>3. Cardinality(available') = Cardinality(available) - 1
      BY <1>a, <3>1, FS_RemoveElement
    <3> QED
      BY <1>a, <1>b, <2>2, <3>2, <3>3 DEF NoLostWakeup
  <2> QED
    BY <2>4, <2>5
<1>7. ASSUME NEW t \in Threads, Release(t) PROVE NoLostWakeup'
  <2>1. CASE At("waiting") = {}
    <3>1. At("waiting")' = {}
      BY <1>7, <2>1 DEF Release, NotifyOne
    <3> QED
      BY <3>1 DEF NoLostWakeup
  <2>2. CASE At("waiting") # {}
    <3>1. PICK w \in At("waiting") : pc' = [pc EXCEPT ![t] = "idle", ![w] = "woken"]
      BY <1>7, <2>2 DEF Release, NotifyOne
    <3>2. At("woken")' = At("woken") \union {w} /\ w \notin At("woken")
      BY <1>7, <3>1 DEF Release
    <3>3. Cardinality(At("woken")') = Cardinality(At("woken")) + 1
      BY <1>b, <3>2, FS_AddElement
    <3>4. available' = available \union {held[t]}
      BY <1>7 DEF Release
    <3>5. \/ Cardinality(available') = Cardinality(available)
          \/ Cardinality(available') = Cardinality(available) + 1
      <4>1. Cardinality(available \union {held[t]}) =
              IF held[t] \in available THEN Cardinality(available)
              ELSE Cardinality(available) + 1
        BY <1>a, FS_AddElement
      <4> QED
        BY <3>4, <4>1
    <3>6. Cardinality(available') \in Nat
      BY <1>a, <3>4, FS_AddElement, FS_CardinalityType
    <3> QED
      BY <1>a, <1>b, <2>2, <3>3, <3>5, <3>6 DEF NoLostWakeup
  <2> QED
    BY <2>1, <2>2
<1>8. CASE UNCHANGED vars
  BY <1>8 DEF vars, NoLostWakeup
<1> QED
  BY <1>1, <1>2, <1>3, <1>4, <1>5, <1>6, <1>7, <1>8 DEF Next, Acquire

\* While a thread sleeps in acquire(), every free handle has a woken taker.
THEOREM WakeupsAreKept == Spec => []NoLostWakeup
<1>1. Init => NoLostWakeup
  BY DEF Init, NoLostWakeup, At
<1>2. HandleInv /\ NoLostWakeup /\ [Next]_vars => NoLostWakeup'
  BY WakeupStep
<1> QED
  BY <1>1, <1>2, HandleInit, HandleStep, PTL DEF Spec

\* A thread sleeps in acquire() only after all handles have been created.
SleepInv == At("waiting") \union At("woken") # {} => totalCreated = maxHandles

LEMMA SleepStep ==
  ASSUME HandleInv, SleepInv, [Next]_vars
  PROVE  SleepInv'
<1> USE PoolAssumption DEF HandleInv, TypeOK, HandlesConserved, SleepInv, At, Goto
<1>1. ASSUME NEW t \in Threads, Call(t) PROVE SleepInv'
  BY <1>1 DEF Call
<1>2. ASSUME NEW t \in Threads, Reuse(t) PROVE SleepInv'
  BY <1>2 DEF Reuse, Take
<1>3. ASSUME NEW t \in Threads, Create(t) PROVE SleepInv'
  BY <1>3 DEF Create
<1>4. ASSUME NEW t \in Threads, CreateFails(t) PROVE SleepInv'
  BY <1>4 DEF CreateFails
<1>5. ASSUME NEW t \in Threads, Wait(t) PROVE SleepInv'
  BY <1>5 DEF Wait
<1>6. ASSUME NEW t \in Threads, SpuriousWakeup(t) PROVE SleepInv'
  BY <1>6 DEF SpuriousWakeup
<1>7. ASSUME NEW t \in Threads, Recheck(t) PROVE SleepInv'
  BY <1>7 DEF Recheck, Take
<1>8. ASSUME NEW t \in Threads, Release(t) PROVE SleepInv'
  BY <1>8 DEF Release, NotifyOne
<1>9. CASE UNCHANGED vars
  BY <1>9 DEF vars
<1> QED
  BY <1>1, <1>2, <1>3, <1>4, <1>5, <1>6, <1>7, <1>8, <1>9 DEF Next, Acquire

\* Whoever sleeps in acquire() will be woken or is overtaken: a woken thread is on its
\* way to a handle, or a request is under way whose release() wakes a thread.
SleepersAreServed == At("waiting") # {} => At("woken") \union At("using") # {}

\* With a pool that may have a handle at all (HttpClient's has 16), the threads in
\* acquire() never all sleep: the safety part of AcquireReturns, for any number of threads.
THEOREM NotAllAsleep == ASSUME maxHandles # 0 PROVE Spec => []SleepersAreServed
<1>1. Init => NoLostWakeup /\ SleepInv
  BY DEF Init, NoLostWakeup, SleepInv, At
<1>2. /\ HandleInv /\ NoLostWakeup /\ SleepInv /\ [Next]_vars
      => HandleInv' /\ NoLostWakeup' /\ SleepInv'
  BY HandleStep, WakeupStep, SleepStep
<1>3. HandleInv /\ NoLostWakeup /\ SleepInv => SleepersAreServed
  <2>1. SUFFICES ASSUME HandleInv, NoLostWakeup, SleepInv, At("waiting") # {}, At("woken") = {}
                 PROVE  At("using") # {}
    BY DEF SleepersAreServed
  <2>2. Cardinality(available) = 0
    BY <2>1, Finite, FS_EmptySet DEF NoLostWakeup
  <2>3. available = {}
    BY <2>1, <2>2, Finite, FS_EmptySet
  <2>4. 1 \in 1..totalCreated
    BY <2>1, PoolAssumption DEF SleepInv
  <2> QED
    BY <2>1, <2>3, <2>4 DEF HandleInv, HandlesConserved
<1> QED
  BY <1>1, <1>2, <1>3, HandleInit, PTL DEF Spec

-----------------------------------------------------------------------------
(* MetadataTx.  That a transaction is open only while someone will close   *)
(* it is inductive once workers are known to be under way only in their    *)
(* phase; that an orderly end of the process loses nothing follows.        *)

\* Workers are under way only in their phase.
WorkersInv == \A f \in LargeFiles : workerAt[f] # "out" => phase = "large"

RecordsInv == TxTypeOK /\ OpenOnlyWhileOwned /\ WorkersInv

LEMMA RecordsInit == TxInit => RecordsInv
<1> SUFFICES ASSUME TxInit PROVE RecordsInv
  OBVIOUS
<1>1. TxTypeOK
  <2>1. /\ events \in Nat
        /\ workerAt \in [LargeFiles -> {"out", "sending", "begun", "written", "failed"}]
    BY DEF TxInit
  <2>2. QED
    BY <2>1 DEF TxInit, TxTypeOK
<1>2. OpenOnlyWhileOwned /\ WorkersInv
  BY DEF TxInit, OpenOnlyWhileOwned, WorkersInv
<1>3. QED
  BY <1>1, <1>2 DEF RecordsInv

\* What the calls of class Database do to the transaction.
LEMMA WriteKeeps ==
  ASSUME TxTypeOK, OpenOnlyWhileOwned, NEW row \in Rows, Write(row)
  PROVE  /\ inTx' \in BOOLEAN /\ inTx' = inTx
         /\ leaked' \in BOOLEAN /\ leaked' = leaked
         /\ unsaved' \subseteq Rows /\ lost' \subseteq Rows
         /\ unsaved' # {} => inTx'
BY DEF TxTypeOK, OpenOnlyWhileOwned, Write

LEMMA BeginKeeps ==
  ASSUME TxTypeOK, Begin
  PROVE  /\ inTx' \in BOOLEAN /\ inTx'
         /\ leaked' \in BOOLEAN
         /\ unsaved' \subseteq Rows /\ lost' \subseteq Rows
BY DEF TxTypeOK, Begin

LEMMA CommitCloses ==
  ASSUME TxTypeOK, OpenOnlyWhileOwned, (Commit /\ UNCHANGED events) \/ CommitRefused
  PROVE  /\ inTx' \in BOOLEAN /\ leaked' \in BOOLEAN
         /\ inTx' => leaked'
         /\ unsaved' \subseteq Rows /\ lost' \subseteq Rows
         /\ unsaved' # {} => inTx'
         /\ events' \in Nat
<1>1. CASE Commit /\ UNCHANGED events
  BY <1>1 DEF TxTypeOK, OpenOnlyWhileOwned, Commit
<1>2. CASE CommitRefused
  BY <1>2 DEF TxTypeOK, OpenOnlyWhileOwned, CommitRefused, Event
<1>3. QED
  BY <1>1, <1>2

LEMMA UndoCloses ==
  ASSUME TxTypeOK, NEW taken, Undo(taken)
  PROVE  /\ inTx' = FALSE /\ leaked' = FALSE
         /\ unsaved' = {} /\ lost' \subseteq Rows
BY DEF TxTypeOK, Undo

LEMMA RecordsStep == RecordsInv /\ [TxNext]_txState => RecordsInv'
<1> SUFFICES ASSUME RecordsInv, [TxNext]_txState PROVE RecordsInv'
  OBVIOUS
<1> USE DEF RecordsInv
<1>a. FolderRow \in Rows /\ CommandRow \in Rows /\ Files \subseteq Rows /\ LargeFiles \subseteq Rows
  BY DEF Rows
<1>1. CASE StartRun
  BY <1>1, <1>a, WriteKeeps DEF StartRun, TxTypeOK, OpenOnlyWhileOwned, WorkersInv, InLoop, InWorker
<1>2. CASE SkipDownloads
  BY <1>2 DEF SkipDownloads, txVars, TxTypeOK, OpenOnlyWhileOwned, WorkersInv, InLoop, InWorker
<1>3. CASE BeginDownloads
  BY <1>3, BeginKeeps DEF BeginDownloads, TxTypeOK, OpenOnlyWhileOwned, WorkersInv, InLoop
<1>4. ASSUME NEW f \in Files, RecordRow(f) PROVE RecordsInv'
  BY <1>4, <1>a, WriteKeeps DEF RecordRow, TxTypeOK, OpenOnlyWhileOwned, WorkersInv, InLoop,
                                InWorker
<1>5. ASSUME NEW f \in Files, RecordRowFails(f) PROVE RecordsInv'
  BY <1>5 DEF RecordRowFails, Event, txVars, TxTypeOK, OpenOnlyWhileOwned, WorkersInv, InLoop,
              InWorker
<1>6. CASE EndDownloads
  BY <1>6, CommitCloses DEF EndDownloads, TxTypeOK, OpenOnlyWhileOwned, WorkersInv
<1>7. ASSUME NEW f \in Files, DropRow(f) PROVE RecordsInv'
  BY <1>7, <1>a, WriteKeeps DEF DropRow, TxTypeOK, OpenOnlyWhileOwned, WorkersInv, InLoop, InWorker
<1>8. CASE SkipUploads
  BY <1>8 DEF SkipUploads, txVars, TxTypeOK, OpenOnlyWhileOwned, WorkersInv, InLoop, InWorker
<1>8a. CASE ClassifyThrows
  BY <1>8a DEF ClassifyThrows, Event, txVars, TxTypeOK, OpenOnlyWhileOwned, WorkersInv, InLoop,
               InWorker
<1>9. CASE BeginUploads
  BY <1>9, BeginKeeps DEF BeginUploads, TxTypeOK, OpenOnlyWhileOwned, WorkersInv, InLoop
<1>10. CASE UploadLoopThrows
  BY <1>10 DEF UploadLoopThrows, Event, TxTypeOK, OpenOnlyWhileOwned, WorkersInv
<1>11. CASE EndUploads
  <2>1. /\ workerAt' \in [LargeFiles -> {"out", "sending", "begun", "written", "failed"}]
        /\ WorkersInv'
    BY <1>11 DEF EndUploads, TxTypeOK, WorkersInv
  <2>2. QED
    BY <1>11, <2>1, CommitCloses DEF EndUploads, TxTypeOK, OpenOnlyWhileOwned
<1>12. CASE EndLarge
  BY <1>12 DEF EndLarge, txVars, TxTypeOK, OpenOnlyWhileOwned, WorkersInv, InLoop, InWorker
<1>13. CASE EndRun
  BY <1>13, <1>a, WriteKeeps DEF EndRun, TxTypeOK, OpenOnlyWhileOwned, WorkersInv, InLoop, InWorker
<1>14. ASSUME NEW f \in LargeFiles, Worker(f) PROVE RecordsInv'
  <2>0. phase = "large"
    BY <1>14 DEF Worker, SendFails, WorkerBegin, WorkerWrite, WorkerWriteFails, WorkerCommit,
                 WorkerRollback, WorkersInv
  <2>1. CASE SendFails(f)
    BY <2>0, <2>1 DEF SendFails, WorkerTo, notWorker, txVars, TxTypeOK,
                      OpenOnlyWhileOwned, WorkersInv, InLoop, InWorker
  <2>2. CASE WorkerBegin(f)
    BY <2>0, <2>2, BeginKeeps DEF WorkerBegin, WorkerTo, notWorker, TxTypeOK, OpenOnlyWhileOwned,
                                  WorkersInv, InWorker
  <2>3. CASE WorkerWrite(f)
    BY <2>0, <2>3, <1>a, WriteKeeps DEF WorkerWrite, WorkerTo, notWorker, TxTypeOK,
                                       OpenOnlyWhileOwned, WorkersInv, InLoop, InWorker
  <2>4. CASE WorkerWriteFails(f)
    BY <2>0, <2>4 DEF WorkerWriteFails, Event, WorkerTo, notWorker, txVars, TxTypeOK,
                      OpenOnlyWhileOwned, WorkersInv, InLoop, InWorker
  <2>5. CASE WorkerCommit(f)
    BY <2>0, <2>5, CommitCloses DEF WorkerCommit, WorkerTo, notWorker, TxTypeOK, OpenOnlyWhileOwned,
                                    WorkersInv
  <2>6. CASE WorkerRollback(f)
    BY <2>0, <2>6, UndoCloses DEF WorkerRollback, WorkerTo, notWorker, TxTypeOK, OpenOnlyWhileOwned,
                                  WorkersInv
  <2>7. QED
    BY <1>14, <2>1, <2>2, <2>3, <2>4, <2>5, <2>6 DEF Worker
<1>15. CASE CommandWrites
  BY <1>15, <1>a, WriteKeeps DEF CommandWrites, TxTypeOK, OpenOnlyWhileOwned, WorkersInv, InLoop,
                                 InWorker
<1>16. CASE EndProcess
  <2>1. events' \in Nat
    BY <1>16 DEF EndProcess, Event, TxTypeOK
  <2>2. inTx' = FALSE /\ leaked' = FALSE /\ unsaved' = {} /\ lost' \subseteq Rows
    BY <1>16 DEF EndProcess, Undo, TxTypeOK
  <2>3. QED
    BY <1>16, <2>1, <2>2 DEF EndProcess, TxTypeOK, OpenOnlyWhileOwned, WorkersInv
<1>17. CASE UNCHANGED txState
  BY <1>17 DEF txState, txVars, TxTypeOK, OpenOnlyWhileOwned, WorkersInv, InLoop, InWorker
<1>18. QED
  BY <1>1, <1>2, <1>3, <1>4, <1>5, <1>6, <1>7, <1>8, <1>8a, <1>9, <1>10, <1>11, <1>12, <1>13,
     <1>14, <1>15, <1>16, <1>17 DEF TxNext, Run, Close, Crash

\* The variables keep their types, for any files and failures.
THEOREM TxTypeCorrect == TxSpec => []TxTypeOK
BY RecordsInit, RecordsStep, PTL DEF TxSpec, RecordsInv

\* beginTransaction, commitTransaction and rollbackTransaction of any number of workers
\* leave no transaction open, other than those of exceptions and refused commits.
THEOREM OnlyOwnersKeepOpen == TxSpec => []OpenOnlyWhileOwned
BY RecordsInit, RecordsStep, PTL DEF TxSpec, RecordsInv

\* ~Database after the joins takes back no row, but for a transaction left open.
THEOREM CloseIsSafe == TxSpec => CloseLosesNothing
<1>1. RecordsInv /\ [TxNext]_txState => [Close => lost' = lost \/ leaked]_txState
  BY DEF RecordsInv, TxTypeOK, OpenOnlyWhileOwned, WorkersInv, InLoop, InWorker, Close, EndProcess,
         Undo
<1>2. QED
  BY <1>1, RecordsInit, RecordsStep, PTL DEF TxSpec, CloseLosesNothing
=============================================================================
