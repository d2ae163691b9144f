--------------------------- MODULE FileEventsProof ---------------------------
(***************************************************************************)
(* Proofs about FileEvents, for any folders and files, on both platforms:  *)
(* type correctness; an event reaches the queue only while its folder is   *)
(* watched; a removed folder sees at most one more upload; and the three   *)
(* mutexes and the joins do not deadlock.                                  *)
(*                                                                         *)
(* All rest on who holds which mutex (LockOrder).  The watcher's mutex     *)
(* keeps the folders watched while a Linux thread has an event in hand; on *)
(* Windows it does not, and the join before the folder is dropped does     *)
(* (ThreadInv, WatchInv).                                                  *)
(***************************************************************************)
EXTENDS FileEvents, SequenceTheorems, TLAPS

Busy == {"judge", "call", "push"}

\* A watch thread that is busy has an event of a file in hand, and the command of the main
\* thread is about a folder.
HandInv ==
    /\ \A t \in Threads : thread[t] \in Busy =>
          hand[t].file \in Files /\ hand[t].action \in Actions
    /\ main.at \in {"watch", "unwatch", "join", "delete"} => main.folder \in Folders

TypeInv == TypeOK /\ HandInv

\* Who holds the mutexes.
LockOrder ==
    /\ implLock = "watch" <=> thread["watch"] \in Busy
    /\ implLock = "main" <=> platform = "windows" /\ main.at \in {"join", "joinAll"}
    /\ \A t \in Threads : callLock = t <=> thread[t] = "push"
    /\ queueLock <=> loop.at \in {"drain", "upload", "sending"}

\* Linux has one watch thread and never joins it for one folder; Windows has threads for
\* watched folders only.  To a thread that is gone nothing is reported.
ThreadInv ==
    /\ platform = "linux" => main.at # "join" /\ \A d \in Folders : thread[d] = "none"
    /\ platform = "windows" =>
          /\ thread["watch"] = "none"
          /\ \A d \in Folders : thread[d] # "none" => d \in watches
    /\ \A t \in Threads : thread[t] = "none" => kernel[t] = <<>>

\* The event is of a file in a folder of that thread; it is stale, or the folder is watched.
Known(t, event) ==
    /\ ThreadOf(Home[event.file]) = t
    /\ event.action # "stale" => Home[event.file] \in watches

\* So it is for all that is reported and for what is in hand.
WatchInv ==
    /\ \A t \in Threads : \A i \in 1 .. Len(kernel[t]) : Known(t, kernel[t][i])
    /\ \A t \in Threads : thread[t] \in Busy => Known(t, hand[t])

\* No upload has begun for a folder that has a row; none is about to begin for one that has
\* seen an upload since it was removed.
RemovalInv ==
    \A d \in Folders :
        /\ d \in rows => late[d] = 0
        /\ late[d] <= 1
        /\ late[d] = 1 => ~(loop.at = "upload" /\ loop.folder = d)

\* Who is joined is told to end, and stop() ends the loop too.
StopInv ==
    /\ main.at = "join" => main.folder \in told
    /\ main.at = "joinAll" => told = Threads
    /\ main.at \in {"stop", "joinAll", "joinLoop", "stopped"} => ~running

\* What the operations on sequences of events do, as far as it matters here.
LEMMA SeqSteps ==
    ASSUME NEW S, NEW q \in Seq(S)
    PROVE  /\ Len(q) \in Nat /\ \A i \in 1 .. Len(q) : q[i] \in S
           /\ \A n \in 0 .. Len(q) :
                 /\ SubSeq(q, 1, n) \in Seq(S) /\ Len(SubSeq(q, 1, n)) = n
                 /\ \A i \in 1 .. n : SubSeq(q, 1, n)[i] = q[i]
           /\ q # <<>> =>
                 /\ Head(q) = q[1] /\ Head(q) \in S /\ 1 \in 1 .. Len(q)
                 /\ Tail(q) \in Seq(S) /\ Len(Tail(q)) = Len(q) - 1
                 /\ \A i \in 1 .. Len(Tail(q)) : Tail(q)[i] = q[i + 1]
<1>1. Len(q) \in Nat /\ \A i \in 1 .. Len(q) : q[i] \in S
  BY LenProperties, ElementOfSeq
<1>2. ASSUME NEW n \in 0 .. Len(q)
      PROVE  /\ SubSeq(q, 1, n) \in Seq(S) /\ Len(SubSeq(q, 1, n)) = n
             /\ \A i \in 1 .. n : SubSeq(q, 1, n)[i] = q[i]
  <2>1. \A i \in 1 .. n : q[i] \in S
    BY <1>1
  <2>2. /\ SubSeq(q, 1, n) \in Seq(S)
        /\ Len(SubSeq(q, 1, n)) = IF 1 <= n THEN n - 1 + 1 ELSE 0
        /\ \A i \in 1 .. n - 1 + 1 : SubSeq(q, 1, n)[i] = q[1 + i - 1]
    BY <1>1, <2>1, SubSeqProperties
  <2> QED BY <1>1, <2>2
<1>3. q # <<>> =>
         /\ Head(q) = q[1] /\ Head(q) \in S /\ 1 \in 1 .. Len(q)
         /\ Tail(q) \in Seq(S) /\ Len(Tail(q)) = Len(q) - 1
         /\ \A i \in 1 .. Len(Tail(q)) : Tail(q)[i] = q[i + 1]
  BY <1>1, HeadTailProperties, EmptySeq
<1> QED BY <1>1, <1>2, <1>3

-----------------------------------------------------------------------------
(* Types.                                                                    *)

LEMMA EventFields ==
    /\ \A event \in Events : event.file \in Files /\ event.action \in Actions \union {"stale"}
    /\ \A f \in Files, a \in Actions : [file |-> f, action |-> a] \in Events
    /\ \A event \in Events : [event EXCEPT !.action = "stale"] \in Events
BY DEF Events

LEMMA ThreadNames ==
    /\ "watch" \in Threads /\ None \notin Threads
    /\ \A d \in Folders : d \in Threads /\ d # "watch" /\ ThreadOf(d) \in Threads
BY FileEventsAssumption DEF Threads, ThreadOf

\* Forgetting folders marks the events of their files, and does nothing else.
LEMMA ForgetMarks ==
    ASSUME kernel \in [Threads -> Seq(Events)], NEW gone
    PROVE  /\ Forget(gone) \in [Threads -> Seq(Events)]
           /\ \A t \in Threads :
                 /\ Len(Forget(gone)[t]) = Len(kernel[t])
                 /\ \A i \in 1 .. Len(kernel[t]) :
                       LET event == Forget(gone)[t][i]
                       IN  /\ event.file = kernel[t][i].file
                           /\ event.action \in {kernel[t][i].action, "stale"}
                           /\ Home[event.file] \in gone => event.action = "stale"
<1> DEFINE new(t) == [i \in DOMAIN kernel[t] |->
                        IF Home[kernel[t][i].file] \in gone
                        THEN [kernel[t][i] EXCEPT !.action = "stale"] ELSE kernel[t][i]]
<1>1. ASSUME NEW t \in Threads
      PROVE  /\ new(t) \in Seq(Events) /\ Len(new(t)) = Len(kernel[t])
             /\ \A i \in 1 .. Len(kernel[t]) :
                   /\ new(t)[i].file = kernel[t][i].file
                   /\ new(t)[i].action \in {kernel[t][i].action, "stale"}
                   /\ Home[new(t)[i].file] \in gone => new(t)[i].action = "stale"
  <2>1. /\ DOMAIN kernel[t] = 1 .. Len(kernel[t]) /\ Len(kernel[t]) \in Nat
        /\ \A i \in 1 .. Len(kernel[t]) : kernel[t][i] \in Events
    BY LenProperties, ElementOfSeq
  <2>2. \A i \in 1 .. Len(kernel[t]) :
           new(t)[i] = IF Home[kernel[t][i].file] \in gone
                       THEN [kernel[t][i] EXCEPT !.action = "stale"] ELSE kernel[t][i]
    BY <2>1
  <2>3. \A i \in 1 .. Len(kernel[t]) : new(t)[i] \in Events
    BY <2>1, <2>2, EventFields
  <2>4. new(t) \in [1 .. Len(kernel[t]) -> Events]
    BY <2>1, <2>3
  <2>5. new(t) \in Seq(Events)
    BY <2>1, <2>4, SeqDef
  <2>6. Len(new(t)) = Len(kernel[t])
    <3>1. /\ DOMAIN new(t) = 1 .. Len(kernel[t])
          /\ DOMAIN new(t) = 1 .. Len(new(t)) /\ Len(new(t)) \in Nat
      BY <2>1, <2>4, <2>5, LenProperties
    <3> QED BY <2>1, <3>1
  <2>7. \A i \in 1 .. Len(kernel[t]) :
           /\ new(t)[i].file = kernel[t][i].file
           /\ new(t)[i].action \in {kernel[t][i].action, "stale"}
           /\ Home[kernel[t][i].file] \in gone => new(t)[i].action = "stale"
    BY <2>1, <2>2 DEF Events
  <2> QED BY <2>5, <2>6, <2>7
<1>2. Forget(gone) = [t \in Threads |-> new(t)]
  BY DEF Forget
<1> HIDE DEF new
<1> QED BY <1>1, <1>2

\* What becomes of the events the system has to report.
LEMMA KernelTyped == ASSUME TypeInv, [Next]_vars PROVE kernel' \in [Threads -> Seq(Events)]
<1> USE DEF TypeInv, TypeOK, watcher
<1>1. ASSUME NEW f \in Files, NEW a \in Actions, Change(f, a)
      PROVE  kernel' \in [Threads -> Seq(Events)]
  <2> DEFINE t == ThreadOf(Home[f])
             event == [file |-> f, action |-> a]
  <2>1. t \in Threads /\ event \in Events
    BY FileEventsAssumption, ThreadNames, EventFields
  <2>2. CASE kernel' = [kernel EXCEPT ![t] = Append(@, event)]
    <3>1. Append(kernel[t], event) \in Seq(Events)
      BY <2>1, AppendProperties
    <3> QED BY <2>1, <2>2, <3>1
  <2>3. CASE Overflow(t)
    <3>1. CASE kernel' = kernel
      BY <3>1
    <3>2. CASE \E n \in 0 .. Len(kernel[t]) : kernel' = [kernel EXCEPT ![t] = SubSeq(@, 1, n)]
      <4>1. \A n \in 0 .. Len(kernel[t]) : SubSeq(kernel[t], 1, n) \in Seq(Events)
        BY <2>1, SeqSteps
      <4> QED BY <2>1, <3>2, <4>1
    <3> QED BY <2>3, <3>1, <3>2 DEF Overflow
  <2>4. CASE UNCHANGED kernel
    BY <2>4
  <2>5. kernel' = [kernel EXCEPT ![t] = Append(@, event)] \/ Overflow(t) \/ UNCHANGED kernel
    BY <1>1 DEF Change
  <2> QED BY <2>2, <2>3, <2>4, <2>5
<1>2. ASSUME NEW t \in Threads, WatchThread(t) PROVE kernel' \in [Threads -> Seq(Events)]
  <2>1. CASE Read(t)
    <3>1. Tail(kernel[t]) \in Seq(Events)
      BY <2>1, SeqSteps DEF Read
    <3> QED BY <2>1, <3>1 DEF Read
  <2>2. CASE ThreadEnds(t)
    BY <2>2, EmptySeq DEF ThreadEnds
  <2>3. CASE Judge(t) \/ Call(t) \/ Push(t)
    BY <2>3 DEF Judge, Call, Push
  <2> QED BY <1>2, <2>1, <2>2, <2>3 DEF WatchThread
<1>3. CASE StopWatchLinux \/ StopAllLinux
  BY <1>3, ForgetMarks DEF StopWatchLinux, StopAllLinux
<1>4. CASE (\E f \in Files : Tick(f)) \/ SyncLoop \/ UNCHANGED vars
  BY <1>4 DEF Tick, SyncLoop, Drain, ProcessFileEvent, Process, Upload, Sent, Drained, LoopEnds,
              vars
<1>5. ASSUME NEW d \in Folders,
             \/ AddSyncFolder(d) \/ ResumeSync(d) \/ PauseSync(d) \/ RemoveSyncFolder(d)
             \/ UpdateSyncFolderSettings(d)
      PROVE  kernel' \in [Threads -> Seq(Events)]
  BY <1>5 DEF AddSyncFolder, ResumeSync, PauseSync, RemoveSyncFolder, UpdateSyncFolderSettings,
              Begin
<1>6. CASE Watch \/ StopWatchWindows \/ StopAllWindows \/ Joined \/ DeleteRow \/ Stop
           \/ AllJoined \/ LoopJoined
  BY <1>6 DEF Watch, StopWatchWindows, StopAllWindows, Joined, DeleteRow, Stop, AllJoined,
              LoopJoined
<1> QED BY <1>1, <1>2, <1>3, <1>4, <1>5, <1>6 DEF Next, Main, Unlocking

LEMMA ChangeTyped ==
    ASSUME TypeInv, [Next]_vars,
           (\E f \in Files, a \in Actions : Change(f, a)) \/ \E f \in Files : Tick(f)
    PROVE  TypeInv'
<1>0. kernel' \in [Threads -> Seq(Events)]
  BY KernelTyped
<1> USE DEF TypeInv, TypeOK, HandInv, watcher, debounce, queue, engine
<1>1. ASSUME NEW f \in Files, NEW a \in Actions, Change(f, a) PROVE TypeInv'
  <2>1. UNCHANGED <<platform, thread, hand, told, watches, implLock, debounce, callLock, queue,
                    engine, loop, main, died>>
    BY <1>1 DEF Change
  <2> QED BY <1>0, <2>1
<1>2. ASSUME NEW f \in Files, Tick(f) PROVE TypeInv'
  BY <1>2, FileEventsAssumption DEF Tick
<1> QED BY <1>1, <1>2

LEMMA WatcherTyped ==
    ASSUME TypeInv, [Next]_vars, NEW t \in Threads, WatchThread(t) PROVE TypeInv'
<1>0. kernel' \in [Threads -> Seq(Events)]
  BY KernelTyped
<1> USE DEF TypeInv, TypeOK, HandInv, debounce, queue, engine, Busy
<1>1. CASE Read(t)
  <2>1. Head(kernel[t]) \in Events
    BY <1>1, SeqSteps DEF Read
  <2>2. Head(kernel[t]).action # "stale" => Head(kernel[t]).action \in Actions
    BY <2>1, EventFields
  <2>3. CASE Head(kernel[t]).action = "stale"
    BY <1>0, <1>1, <2>3 DEF Read
  <2>4. CASE Head(kernel[t]).action # "stale"
    <3>1. /\ hand' = [hand EXCEPT ![t] = Head(kernel[t])]
          /\ thread' = [thread EXCEPT ![t] = "judge"]
          /\ implLock' \in {implLock, "watch"} /\ died' \in BOOLEAN
          /\ UNCHANGED <<platform, told, watches, debounce, callLock, queue, engine, loop, main>>
      BY <1>1, <2>4 DEF Read
    <3>2. hand'[t] = Head(kernel[t]) /\ Head(kernel[t]).file \in Files
      BY <2>1, <3>1, EventFields
    <3>3. HandInv'
      BY <2>2, <2>4, <3>1, <3>2
    <3>4. TypeOK'
      BY <1>0, <2>1, <3>1
    <3> QED BY <3>3, <3>4
  <2> QED BY <2>3, <2>4
<1>2. CASE Judge(t)
  <2> HIDE DEF TypeInv, TypeOK, HandInv
  <2>1. hand[t].file \in Files /\ hand[t].action \in Actions
    BY <1>2 DEF Judge, TypeInv, HandInv
  <2>2. last' \in [Files -> Actions \union {None}] /\ age' \in [Files -> 0 .. Window]
    <3>1. last \in [Files -> Actions \union {None}] /\ age \in [Files -> 0 .. Window]
      BY DEF TypeInv, TypeOK
    <3>2. \/ UNCHANGED <<last, age>>
          \/ /\ last' = [last EXCEPT ![hand[t].file] = hand[t].action]
             /\ age' = [age EXCEPT ![hand[t].file] = 0]
      BY <1>2 DEF Judge
    <3>3. 0 \in 0 .. Window
      BY FileEventsAssumption
    <3> QED BY <2>1, <3>1, <3>2, <3>3
  <2>3. /\ thread[t] = "judge"
        /\ \/ thread' = [thread EXCEPT ![t] = "idle"] /\ hand' = [hand EXCEPT ![t] = NoEvent]
           \/ thread' = [thread EXCEPT ![t] = "call"] /\ hand' = hand
        /\ implLock' \in {None, implLock}
        /\ UNCHANGED <<platform, kernel, told, watches, callLock, queue, engine, loop, main, died>>
    BY <1>2 DEF Judge, Done
  <2>4. HandInv'
    BY <2>3 DEF TypeInv, TypeOK, HandInv
  <2>5. TypeOK'
    <3>1. /\ thread' \in [Threads -> {"none", "idle", "judge", "call", "push"}]
          /\ hand' \in [Threads -> Events \union {NoEvent}]
          /\ implLock' \in {None, "watch", "main"}
      BY <2>3 DEF TypeInv, TypeOK
    <3>2. UNCHANGED <<platform, kernel, told, watches, callLock, eventQueue, queueLock, running,
                      rows, pull, ops, late, loop, main, died>>
      BY <2>3
    <3> QED BY <2>2, <3>1, <3>2 DEF TypeInv, TypeOK
  <2> QED BY <2>4, <2>5 DEF TypeInv
<1>3. CASE Call(t)
  BY <1>3 DEF Call
<1>4. CASE Push(t)
  <2>1. hand[t] \in Events
    <3>1. hand[t] \in Events \union {NoEvent} /\ hand[t].action # "stale"
      BY <1>4 DEF Push, Actions
    <3> QED BY <3>1 DEF NoEvent
  <2>2. eventQueue' \in Seq(Events)
    BY <1>4, <2>1, AppendProperties DEF Push
  <2> QED BY <1>4, <2>2 DEF Push, Done
<1>5. CASE ThreadEnds(t)
  BY <1>0, <1>5 DEF ThreadEnds
<1> QED BY <1>1, <1>2, <1>3, <1>4, <1>5 DEF WatchThread

LEMMA LoopTyped == ASSUME TypeInv, SyncLoop PROVE TypeInv'
<1> USE DEF TypeInv, TypeOK, HandInv, watcher, debounce, queue, engine
<1>1. CASE Drain
  BY <1>1 DEF Drain, Draining
<1>2. CASE ProcessFileEvent
  <2>1. Tail(eventQueue) \in Seq(Events) /\ Head(eventQueue) \in Events
    BY <1>2, SeqSteps DEF ProcessFileEvent, Process
  <2>2. Head(eventQueue).file \in Files /\ rows \subseteq Folders
    BY <2>1, EventFields
  <2>3. loop' \in {loop} \union [at : {"upload"}, file : Files, folder : Folders]
    <3> DEFINE event == Head(eventQueue)
               matching == Prefixes[event.file] \intersect rows
               uploads == matching \ (IF event.action = "deleted" THEN matching ELSE pull)
    <3>1. \/ UNCHANGED loop
          \/ \E d \in uploads : loop' = [at |-> "upload", file |-> event.file, folder |-> d]
      BY <1>2 DEF ProcessFileEvent, Process
    <3> QED BY <2>2, <3>1
  <2> QED BY <1>2, <2>1, <2>3 DEF ProcessFileEvent, Process
<1>3. CASE Upload
  <2>1. late' \in [Folders -> 0 .. 2]
    <3> HIDE DEF TypeInv, TypeOK, HandInv
    <3>1. late \in [Folders -> 0 .. 2]
      BY DEF TypeInv, TypeOK
    <3>2. \A d \in Folders : (IF late[d] < 2 THEN late[d] + 1 ELSE late[d]) \in 0 .. 2
      BY <3>1
    <3>3. \/ late' = late
          \/ late' = [late EXCEPT ![loop.folder] = IF @ < 2 THEN @ + 1 ELSE @]
      BY <1>3 DEF Upload
    <3> QED BY <3>1, <3>2, <3>3
  <2> QED BY <1>3, <2>1 DEF Upload, Draining
<1>4. CASE Sent
  BY <1>4 DEF Sent, Draining
<1>5. CASE Drained
  BY <1>5 DEF Drained, Asleep
<1>6. CASE LoopEnds
  BY <1>6 DEF LoopEnds
<1> QED BY <1>1, <1>2, <1>3, <1>4, <1>5, <1>6 DEF SyncLoop

LEMMA MainTyped == ASSUME TypeInv, [Next]_vars, Main PROVE TypeInv'
<1>0. kernel' \in [Threads -> Seq(Events)]
  BY KernelTyped
<1> USE DEF TypeInv, TypeOK, HandInv, watcher, debounce, queue, engine
<1>1. ASSUME NEW d \in Folders, NEW at \in {"watch", "unwatch"}, NEW removes \in BOOLEAN,
             Begin(at, d, removes),
             rows' \subseteq Folders, pull' \subseteq Folders, late' \in [Folders -> 0 .. 2]
      PROVE  TypeInv'
  <2>1. ops' \in 0 .. MaxOps
    BY <1>1, FileEventsAssumption DEF Begin
  <2> QED BY <1>1, <2>1 DEF Begin
<1>2. ASSUME NEW d \in Folders,
             AddSyncFolder(d) \/ ResumeSync(d) \/ PauseSync(d) \/ RemoveSyncFolder(d)
      PROVE  TypeInv'
  <2> HIDE DEF TypeInv, TypeOK, HandInv
  <2>1. rows \subseteq Folders /\ pull \subseteq Folders /\ late \in [Folders -> 0 .. 2]
    BY DEF TypeInv, TypeOK
  <2>2. \E at \in {"watch", "unwatch"}, removes \in BOOLEAN : Begin(at, d, removes)
    BY <1>2 DEF AddSyncFolder, ResumeSync, PauseSync, RemoveSyncFolder
  <2>3. rows' \subseteq Folders /\ pull' \subseteq Folders /\ late' \in [Folders -> 0 .. 2]
    <3>1. \/ UNCHANGED <<rows, pull, late>>
          \/ /\ rows' = rows \union {d} /\ pull' = pull \ {d}
             /\ late' = [late EXCEPT ![d] = 0]
      BY <1>2 DEF AddSyncFolder, ResumeSync, PauseSync, RemoveSyncFolder
    <3> QED BY <2>1, <3>1
  <2> QED BY <1>1, <2>2, <2>3
<1>3. ASSUME NEW d \in Folders, UpdateSyncFolderSettings(d) PROVE TypeInv'
  BY <1>3, FileEventsAssumption DEF UpdateSyncFolderSettings
<1>4. Free \in [at : {"idle"}, folder : Folders \union {None}, removes : BOOLEAN]
  BY DEF Free
<1>5. CASE Watch
  <2>1. main' = Free /\ main.folder \in Folders
    BY <1>5 DEF Watch
  <2>2. /\ thread' = thread \/ thread' = [thread EXCEPT ![main.folder] = "idle"]
        /\ told' \subseteq told /\ watches' \subseteq watches \union {main.folder}
        /\ UNCHANGED <<platform, kernel, hand, implLock, debounce, callLock, queue, engine, loop,
                       died>>
    BY <1>5 DEF Watch
  <2>3. TypeOK'
    BY <1>4, <2>1, <2>2
  <2>4. HandInv'
    BY <2>1, <2>2 DEF Free, Busy
  <2> QED BY <2>3, <2>4
<1>6. main.folder \in Folders =>
         /\ AfterUnwatch \in [at : {"idle", "delete"}, folder : Folders \union {None},
                               removes : BOOLEAN]
         /\ AfterUnwatch.at = "delete" => AfterUnwatch.folder \in Folders
  BY <1>4 DEF AfterUnwatch
<1>7. CASE StopWatchLinux
  <2>1. /\ main' = AfterUnwatch /\ main.folder \in Folders /\ watches' \subseteq watches
        /\ UNCHANGED <<platform, thread, hand, told, implLock, debounce, callLock, queue, engine,
                       loop, died>>
    BY <1>7 DEF StopWatchLinux
  <2> QED BY <1>0, <1>6, <2>1
<1>8. CASE StopWatchWindows
  <2>1. /\ main.folder \in Folders /\ told' \subseteq told \union {main.folder}
        /\ implLock' \in {"main", implLock}
        /\ main' \in {AfterUnwatch, [main EXCEPT !.at = "join"]}
        /\ UNCHANGED <<platform, kernel, thread, hand, watches, debounce, callLock, queue, engine,
                       loop, died>>
    BY <1>8 DEF StopWatchWindows
  <2>2. told' \subseteq Threads
    BY <2>1, ThreadNames
  <2>3. /\ main' \in [at : {"idle", "delete", "join"}, folder : Folders \union {None},
                      removes : BOOLEAN]
        /\ main'.at \in {"delete", "join"} => main'.folder \in Folders
    BY <1>6, <2>1
  <2> QED BY <2>1, <2>2, <2>3
<1>9. CASE Joined
  BY <1>6, <1>9 DEF Joined
<1>10. CASE DeleteRow
  BY <1>4, <1>10 DEF DeleteRow
<1>11. CASE Stop \/ StopAllLinux \/ StopAllWindows \/ AllJoined \/ LoopJoined
  BY <1>0, <1>11 DEF Stop, StopAllLinux, StopAllWindows, AllJoined, LoopJoined
<1> QED BY <1>2, <1>3, <1>5, <1>7, <1>8, <1>9, <1>10, <1>11 DEF Main, Unlocking

LEMMA TypeInit == Init => TypeInv
<1> SUFFICES ASSUME Init PROVE TypeInv
  OBVIOUS
<1>1. kernel \in [Threads -> Seq(Events)] /\ eventQueue \in Seq(Events)
  BY EmptySeq DEF Init
<1>2. rows \subseteq Folders /\ watches \subseteq Folders /\ platform \in Platforms
  BY FileEventsAssumption DEF Init
<1>3. thread \in [Threads -> {"none", "idle"}] /\ hand \in [Threads -> {NoEvent}]
  BY DEF Init
<1>4. /\ Free \in [at : {"idle"}, folder : {None}, removes : {FALSE}]
      /\ Asleep \in [at : {"sleep"}, file : {None}, folder : {None}]
  BY DEF Free, Asleep
<1>5. HandInv
  BY <1>3, <1>4 DEF Init, HandInv, Busy
<1>6. /\ last \in [Files -> {None}] /\ age \in [Files -> 0 .. Window]
      /\ late \in [Folders -> 0 .. 2] /\ ops \in 0 .. MaxOps
  BY FileEventsAssumption DEF Init
<1> QED BY <1>1, <1>2, <1>3, <1>4, <1>5, <1>6 DEF Init, TypeInv, TypeOK

LEMMA TypeStep == TypeInv /\ [Next]_vars => TypeInv'
<1> SUFFICES ASSUME TypeInv, [Next]_vars PROVE TypeInv'
  OBVIOUS
<1>1. CASE UNCHANGED vars
  BY <1>1 DEF vars, watcher, debounce, queue, engine, TypeInv, TypeOK, HandInv
<1> QED BY <1>1, ChangeTyped, WatcherTyped, LoopTyped, MainTyped DEF Next

\* Every variable keeps its type; who is busy with an event has one.
THEOREM TypeCorrect == Spec => []TypeOK
<1>1. TypeInv => TypeOK
  BY DEF TypeInv
<1> QED BY <1>1, TypeInit, TypeStep, PTL DEF Spec

-----------------------------------------------------------------------------
(* Locks and threads.                                                        *)

\* What time, syncLoop and the commands of the main thread do without the watcher.
LEMMA QuietStep ==
    ASSUME \/ \E f \in Files : Tick(f)
           \/ SyncLoop
           \/ \E d \in Folders : \/ AddSyncFolder(d) \/ ResumeSync(d) \/ PauseSync(d)
                                 \/ RemoveSyncFolder(d) \/ UpdateSyncFolderSettings(d)
           \/ DeleteRow \/ Stop \/ LoopJoined \/ UNCHANGED vars,
           TypeInv
    PROVE  /\ UNCHANGED <<platform, kernel, thread, hand, told, watches, implLock, callLock>>
           /\ main.at \in {"join", "joinAll"} => main' = main
           /\ main'.at \in {"join", "joinAll"} => main' = main
<1>1. CASE (\E f \in Files : Tick(f)) \/ UNCHANGED vars
  BY <1>1 DEF Tick, vars, watcher
<1>2. CASE SyncLoop
  BY <1>2 DEF SyncLoop, Drain, ProcessFileEvent, Process, Upload, Sent, Drained, LoopEnds, watcher
<1>3. ASSUME NEW d \in Folders,
             \/ AddSyncFolder(d) \/ ResumeSync(d) \/ PauseSync(d)
             \/ RemoveSyncFolder(d) \/ UpdateSyncFolderSettings(d)
      PROVE  /\ UNCHANGED <<platform, kernel, thread, hand, told, watches, implLock, callLock>>
             /\ main.at = "idle" /\ main'.at \in {"idle", "watch", "unwatch"}
  BY <1>3 DEF AddSyncFolder, ResumeSync, PauseSync, RemoveSyncFolder, UpdateSyncFolderSettings,
              Begin, watcher
<1>4. CASE DeleteRow \/ Stop \/ LoopJoined
  <2>1. /\ UNCHANGED <<platform, kernel, thread, hand, told, watches, implLock, callLock>>
        /\ main.at \in {"delete", "idle", "joinLoop"}
    BY <1>4 DEF DeleteRow, Stop, LoopJoined, watcher
  <2>2. main' \in {Free, [main EXCEPT !.at = "stop"], [main EXCEPT !.at = "stopped"]}
    BY <1>4 DEF DeleteRow, Stop, LoopJoined
  <2>3. main'.at \in {"idle", "stop", "stopped"}
    BY <2>2 DEF Free, TypeInv, TypeOK
  <2> QED BY <2>1, <2>3
<1> QED BY <1>1, <1>2, <1>3, <1>4

\* The command of the main thread after unwatch.
LEMMA AfterUnwatchAt ==
    ASSUME TypeInv, main.at \in {"unwatch", "join"}
    PROVE  AfterUnwatch.at \in {"idle", "delete"}
BY DEF TypeInv, TypeOK, AfterUnwatch, Free

\* Only syncLoop takes and releases queueMutex_.
LEMMA QueueLocked ==
    ASSUME TypeInv, [Next]_vars, queueLock <=> loop.at \in {"drain", "upload", "sending"}
    PROVE  queueLock' <=> loop'.at \in {"drain", "upload", "sending"}
<1>1. CASE SyncLoop
  <2> USE DEF Draining, Asleep, queue, engine
  <2>1. CASE Drain
    BY <2>1 DEF Drain
  <2>2. CASE ProcessFileEvent
    <3>1. queueLock' = queueLock /\ loop.at = "drain" /\ (loop' = loop \/ loop'.at = "upload")
      BY <2>2 DEF ProcessFileEvent, Process
    <3> QED BY <3>1
  <2>3. CASE Upload
    <3>1. /\ queueLock' = queueLock /\ loop.at = "upload"
          /\ loop' \in {Draining, [loop EXCEPT !.at = "sending"]}
      BY <2>3 DEF Upload, queue
    <3>2. loop'.at \in {"drain", "sending"}
      BY <3>1 DEF TypeInv, TypeOK
    <3> QED BY <3>1, <3>2
  <2>4. CASE Sent
    BY <2>4 DEF Sent
  <2>5. CASE Drained
    BY <2>5 DEF Drained
  <2>6. CASE LoopEnds
    BY <2>6 DEF LoopEnds, TypeInv, TypeOK
  <2> QED BY <1>1, <2>1, <2>2, <2>3, <2>4, <2>5, <2>6 DEF SyncLoop
<1>2. CASE \/ \E f \in Files, a \in Actions : Change(f, a)
           \/ \E t \in Threads : WatchThread(t)
           \/ \E f \in Files : Tick(f)
           \/ UNCHANGED vars
  BY <1>2 DEF Change, WatchThread, Read, Judge, Call, Push, ThreadEnds, Tick, vars, queue
<1>3. CASE Main
  <2>1. queueLock' = queueLock /\ loop' = loop
    BY <1>3 DEF Main, AddSyncFolder, ResumeSync, PauseSync, RemoveSyncFolder,
                UpdateSyncFolderSettings, Begin, Unlocking, Watch, StopWatchLinux, StopWatchWindows,
                StopAllLinux, StopAllWindows, Joined, DeleteRow, Stop, AllJoined, LoopJoined, queue
  <2> QED BY <2>1
<1> QED BY <1>1, <1>2, <1>3 DEF Next

\* The mutexes of the watcher are taken and released as the threads and the main thread go on.
LEMMA LockStep ==
    ASSUME TypeInv, LockOrder, ThreadInv, [Next]_vars PROVE LockOrder'
<1> DEFINE Held == /\ implLock = "watch" <=> thread["watch"] \in Busy
                   /\ implLock = "main" <=> platform = "windows" /\ main.at \in {"join", "joinAll"}
                   /\ \A t \in Threads : callLock = t <=> thread[t] = "push"
<1>1. Held /\ "watch" # None /\ "main" # None /\ implLock \in {None, "watch", "main"}
      /\ thread \in [Threads -> {"none", "idle", "judge", "call", "push"}]
  BY FileEventsAssumption DEF LockOrder, TypeInv, TypeOK
<1> SUFFICES Held'
  BY QueueLocked DEF LockOrder
<1>2. ASSUME NEW f \in Files, NEW a \in Actions, Change(f, a) PROVE Held'
  BY <1>1, <1>2 DEF Change
<1>3. ASSUME NEW t \in Threads, WatchThread(t) PROVE Held'
  <2>0. /\ main' = main /\ platform' = platform
        /\ thread' \in [Threads -> {"none", "idle", "judge", "call", "push"}]
        /\ \A u \in Threads \ {t} : thread'[u] = thread[u]
    BY <1>1, <1>3 DEF WatchThread, Read, Judge, Call, Push, ThreadEnds, Done
  <2>1. CASE Read(t)
    <3>1. /\ thread[t] = "idle" /\ (t = "watch" => implLock = None) /\ callLock' = callLock
          /\ \/ UNCHANGED <<thread, implLock>>
             \/ /\ thread' = [thread EXCEPT ![t] = "judge"]
                /\ implLock' = IF t = "watch" THEN "watch" ELSE implLock
      BY <2>1 DEF Read
    <3> QED BY <1>1, <2>0, <3>1, ThreadNames DEF Busy
  <2>2. CASE Judge(t)
    <3>1. /\ thread[t] = "judge" /\ callLock' = callLock
          /\ \/ Done(t)
             \/ thread' = [thread EXCEPT ![t] = "call"] /\ implLock' = implLock
      BY <2>2 DEF Judge
    <3> QED BY <1>1, <2>0, <3>1, ThreadNames DEF Busy, Done
  <2>3. CASE Call(t)
    BY <1>1, <2>0, <2>3, ThreadNames DEF Call, Busy
  <2>4. CASE Push(t)
    BY <1>1, <2>0, <2>4, ThreadNames DEF Push, Done, Busy
  <2>5. CASE ThreadEnds(t)
    BY <1>1, <2>0, <2>5, ThreadNames DEF ThreadEnds, Busy
  <2> QED BY <1>3, <2>1, <2>2, <2>3, <2>4, <2>5 DEF WatchThread
<1>4. CASE Watch
  <2>1. /\ implLock = None /\ main' = Free /\ UNCHANGED <<platform, implLock, callLock>>
        /\ main.at = "watch" /\ main.folder \in Folders
    BY <1>4 DEF Watch, TypeInv, HandInv
  <2>2. \/ thread' = thread
        \/ /\ thread[main.folder] = "none"
           /\ thread' = [thread EXCEPT ![main.folder] = "idle"]
    <3>1. \/ thread' = thread
          \/ /\ platform # "linux" /\ main.folder \notin watches
             /\ thread' = [thread EXCEPT ![main.folder] = "idle"]
      BY <1>4 DEF Watch
    <3>2. platform \in {"linux", "windows"}
      BY FileEventsAssumption DEF TypeInv, TypeOK
    <3> QED BY <2>1, <3>1, <3>2 DEF ThreadInv
  <2> QED BY <1>1, <2>1, <2>2, ThreadNames DEF Free, Busy
<1>5. CASE StopWatchLinux
  BY <1>1, <1>5, AfterUnwatchAt DEF StopWatchLinux
<1>6. CASE StopWatchWindows
  <2>1. /\ platform = "windows" /\ main.at = "unwatch" /\ implLock = None
        /\ UNCHANGED <<platform, thread, callLock>>
        /\ \/ implLock' = "main" /\ main' = [main EXCEPT !.at = "join"]
           \/ implLock' = implLock /\ main' = AfterUnwatch
    BY <1>6 DEF StopWatchWindows
  <2>2. [main EXCEPT !.at = "join"].at = "join"
    BY DEF TypeInv, TypeOK
  <2> QED BY <1>1, <2>1, <2>2, AfterUnwatchAt
<1>7. CASE StopAllLinux \/ StopAllWindows
  <2>1. /\ main.at = "stop" /\ implLock = None /\ UNCHANGED <<platform, thread, callLock>>
        /\ main' = [main EXCEPT !.at = "joinAll"]
        /\ \/ platform = "linux" /\ implLock' = implLock
           \/ platform = "windows" /\ implLock' = "main"
    BY <1>7 DEF StopAllLinux, StopAllWindows
  <2>2. main'.at = "joinAll"
    BY <2>1 DEF TypeInv, TypeOK
  <2> QED BY <1>1, <2>1, <2>2
<1>8. CASE Joined
  <2>1. /\ main.at = "join" /\ main' = AfterUnwatch /\ implLock' = None
        /\ UNCHANGED <<platform, thread, callLock>>
    BY <1>8 DEF Joined
  <2>2. platform = "windows"
    BY <2>1, FileEventsAssumption DEF ThreadInv, TypeInv, TypeOK
  <2>3. thread["watch"] \notin Busy
    BY <2>2 DEF ThreadInv, Busy
  <2> QED BY <1>1, <2>1, <2>2, <2>3, AfterUnwatchAt
<1>9. CASE AllJoined
  <2>1. /\ implLock' = None /\ UNCHANGED <<platform, thread, callLock>>
        /\ \A t \in Threads : thread[t] = "none"
        /\ main' = [main EXCEPT !.at = "joinLoop"]
    BY <1>9 DEF AllJoined
  <2>2. main'.at = "joinLoop"
    BY <2>1 DEF TypeInv, TypeOK
  <2> QED BY <1>1, <2>1, <2>2, ThreadNames DEF Busy
<1>10. CASE \/ \E f \in Files : Tick(f)
            \/ SyncLoop
            \/ \E d \in Folders : \/ AddSyncFolder(d) \/ ResumeSync(d) \/ PauseSync(d)
                                  \/ RemoveSyncFolder(d) \/ UpdateSyncFolderSettings(d)
            \/ DeleteRow \/ Stop \/ LoopJoined \/ UNCHANGED vars
  BY <1>1, <1>10, QuietStep
<1> QED BY <1>2, <1>3, <1>4, <1>5, <1>6, <1>7, <1>8, <1>9, <1>10 DEF Next, Main, Unlocking

\* On Linux there is one watch thread, on Windows one for some watched folders; the system
\* reports nothing to a thread that is gone.
LEMMA ThreadStep ==
    ASSUME TypeInv, LockOrder, ThreadInv, [Next]_vars PROVE ThreadInv'
<1>1. /\ platform \in {"linux", "windows"}
      /\ kernel \in [Threads -> Seq(Events)] /\ kernel' \in [Threads -> Seq(Events)]
      /\ thread \in [Threads -> {"none", "idle", "judge", "call", "push"}]
  BY KernelTyped, FileEventsAssumption DEF TypeInv, TypeOK
<1>2. ASSUME NEW f \in Files, NEW a \in Actions, Change(f, a) PROVE ThreadInv'
  <2> DEFINE t == ThreadOf(Home[f])
  <2>1. /\ UNCHANGED <<platform, thread, watches, main>>
        /\ \/ kernel' = kernel
           \/ /\ thread[t] # "none"
              /\ \/ \E n \in 0 .. Len(kernel[t]) : kernel' = [kernel EXCEPT ![t] = SubSeq(@, 1, n)]
                 \/ kernel' = [kernel EXCEPT ![t] = Append(@, [file |-> f, action |-> a])]
    BY <1>2 DEF Change, Overflow
  <2>2. \A u \in Threads : kernel'[u] = kernel[u] \/ thread[u] # "none"
    BY <1>1, <2>1
  <2> QED BY <2>1, <2>2 DEF ThreadInv
<1>3. ASSUME NEW t \in Threads, WatchThread(t) PROVE ThreadInv'
  <2>1. /\ thread[t] # "none" /\ UNCHANGED <<platform, watches, main>>
        /\ thread'[t] = "none" => kernel'[t] = <<>>
        /\ \A u \in Threads \ {t} : thread'[u] = thread[u] /\ kernel'[u] = kernel[u]
    BY <1>1, <1>3 DEF WatchThread, Read, Judge, Call, Push, ThreadEnds, Done
  <2> QED BY <1>1, <2>1, ThreadNames DEF ThreadInv
<1>4. CASE Watch
  <2>1. /\ main' = Free /\ UNCHANGED <<platform, kernel>> /\ main.folder \in Folders
        /\ \/ UNCHANGED <<thread, watches>>
           \/ platform = "linux" /\ thread' = thread
           \/ /\ platform = "windows" /\ watches' = watches \union {main.folder}
              /\ thread' = [thread EXCEPT ![main.folder] = "idle"]
    BY <1>1, <1>4 DEF Watch, TypeInv, HandInv
  <2> QED BY <1>1, <2>1, ThreadNames DEF ThreadInv, Free
<1>5. ASSUME NEW gone, kernel' = Forget(gone), platform = "linux", main'.at # "join",
             UNCHANGED <<platform, thread>>
      PROVE  ThreadInv'
  <2>1. \A t \in Threads : kernel[t] = <<>> => kernel'[t] = <<>>
    BY <1>1, <1>5, ForgetMarks, EmptySeq
  <2> QED BY <1>5, <2>1 DEF ThreadInv
<1>6. CASE StopWatchLinux
  BY <1>5, <1>6, AfterUnwatchAt DEF StopWatchLinux
<1>7. CASE StopAllLinux
  <2>1. main'.at = "joinAll"
    BY <1>7 DEF StopAllLinux, TypeInv, TypeOK
  <2> QED BY <1>5, <1>7, <2>1 DEF StopAllLinux
<1>8. CASE StopWatchWindows \/ StopAllWindows
  BY <1>8 DEF StopWatchWindows, StopAllWindows, ThreadInv
<1>9. CASE Joined
  <2>1. platform = "windows"
    BY <1>1, <1>9 DEF Joined, ThreadInv
  <2>2. /\ UNCHANGED <<platform, kernel, thread>> /\ watches' = watches \ {main.folder}
        /\ thread[main.folder] = "none"
    BY <1>9 DEF Joined
  <2> QED BY <2>1, <2>2 DEF ThreadInv
<1>10. CASE AllJoined
  <2>1. /\ UNCHANGED <<platform, kernel, thread>> /\ \A t \in Threads : thread[t] = "none"
        /\ main'.at = "joinLoop"
    BY <1>10 DEF AllJoined, TypeInv, TypeOK
  <2> QED BY <2>1, ThreadNames DEF ThreadInv
<1>11. CASE \/ \E f \in Files : Tick(f)
            \/ SyncLoop
            \/ \E d \in Folders : \/ AddSyncFolder(d) \/ ResumeSync(d) \/ PauseSync(d)
                                  \/ RemoveSyncFolder(d) \/ UpdateSyncFolderSettings(d)
            \/ DeleteRow \/ Stop \/ LoopJoined \/ UNCHANGED vars
  <2>1. UNCHANGED <<platform, kernel, thread, watches>> /\ (main'.at = "join" => main' = main)
    BY <1>11, QuietStep
  <2> QED BY <2>1 DEF ThreadInv
<1> QED BY <1>2, <1>3, <1>4, <1>6, <1>7, <1>8, <1>9, <1>10, <1>11 DEF Next, Main, Unlocking

-----------------------------------------------------------------------------
(* Watched folders.                                                          *)

\* What the system reports when a file is changed is of a watched folder.
LEMMA ChangeKnown ==
    ASSUME TypeInv, WatchInv, NEW f \in Files, NEW a \in Actions, Change(f, a) PROVE WatchInv'
<1> DEFINE t == ThreadOf(Home[f])
           event == [file |-> f, action |-> a]
<1>1. kernel \in [Threads -> Seq(Events)] /\ t \in Threads /\ event \in Events
  BY FileEventsAssumption, ThreadNames, EventFields DEF TypeInv, TypeOK
<1>2. UNCHANGED <<platform, thread, hand, watches>>
  BY DEF Change
<1>3. \A u \in Threads : \A i \in 1 .. Len(kernel'[u]) : Known(u, kernel'[u][i])
  <2>1. CASE kernel' = kernel
    BY <2>1 DEF WatchInv
  <2>2. ASSUME NEW n \in 0 .. Len(kernel[t]), kernel' = [kernel EXCEPT ![t] = SubSeq(@, 1, n)]
        PROVE  \A u \in Threads : \A i \in 1 .. Len(kernel'[u]) : Known(u, kernel'[u][i])
    <3>1. kernel'[t] = SubSeq(kernel[t], 1, n) /\ \A u \in Threads \ {t} : kernel'[u] = kernel[u]
      BY <1>1, <2>2
    <3>2. /\ Len(kernel'[t]) = n
          /\ \A i \in 1 .. n : i \in 1 .. Len(kernel[t]) /\ kernel'[t][i] = kernel[t][i]
      BY <1>1, <3>1, SeqSteps
    <3> QED BY <3>1, <3>2 DEF WatchInv
  <2>3. CASE /\ Home[f] \in watches
             /\ kernel' = [kernel EXCEPT ![t] = Append(@, event)]
    <3>1. kernel'[t] = Append(kernel[t], event) /\ \A u \in Threads \ {t} : kernel'[u] = kernel[u]
      BY <1>1, <2>3
    <3>2. /\ Len(kernel[t]) \in Nat /\ Len(kernel'[t]) = Len(kernel[t]) + 1
          /\ \A i \in 1 .. Len(kernel[t]) : kernel'[t][i] = kernel[t][i]
          /\ kernel'[t][Len(kernel[t]) + 1] = event
      BY <1>1, <3>1, AppendProperties, LenProperties
    <3>3. Known(t, event)
      BY <2>3 DEF Known
    <3>4. \A i \in 1 .. Len(kernel'[t]) : i \in 1 .. Len(kernel[t]) \/ i = Len(kernel[t]) + 1
      BY <3>2
    <3> HIDE DEF t, event
    <3> QED BY <3>1, <3>2, <3>3, <3>4 DEF WatchInv
  <2>4. \/ kernel' = kernel
        \/ \E n \in 0 .. Len(kernel[t]) : kernel' = [kernel EXCEPT ![t] = SubSeq(@, 1, n)]
        \/ Home[f] \in watches /\ kernel' = [kernel EXCEPT ![t] = Append(@, event)]
    BY DEF Change, Overflow
  <2> QED BY <2>1, <2>2, <2>3, <2>4
<1> QED BY <1>2, <1>3 DEF WatchInv, Known, ThreadOf

\* A watch thread takes an event in hand only if it is not stale.
LEMMA ReadKnown == ASSUME TypeInv, WatchInv, NEW t \in Threads, Read(t) PROVE WatchInv'
<1>1. /\ UNCHANGED <<platform, watches>> /\ kernel[t] # <<>>
      /\ kernel' = [kernel EXCEPT ![t] = Tail(@)]
      /\ \/ UNCHANGED <<thread, hand>>
         \/ /\ Head(kernel[t]).action # "stale"
            /\ hand' = [hand EXCEPT ![t] = Head(kernel[t])]
            /\ thread' = [thread EXCEPT ![t] = "judge"]
  BY DEF Read
<1>2. /\ kernel \in [Threads -> Seq(Events)] /\ hand \in [Threads -> Events \union {NoEvent}]
      /\ thread \in [Threads -> {"none", "idle", "judge", "call", "push"}]
  BY DEF TypeInv, TypeOK
<1>3. /\ Head(kernel[t]) = kernel[t][1] /\ 1 \in 1 .. Len(kernel[t]) /\ Len(kernel[t]) \in Nat
      /\ Len(Tail(kernel[t])) = Len(kernel[t]) - 1
      /\ \A i \in 1 .. Len(Tail(kernel[t])) : Tail(kernel[t])[i] = kernel[t][i + 1]
  BY <1>1, <1>2, SeqSteps
<1>4. Known(t, Head(kernel[t]))
  BY <1>3 DEF WatchInv
<1>5. \A u \in Threads : \A i \in 1 .. Len(kernel'[u]) : Known(u, kernel'[u][i])
  <2>1. kernel'[t] = Tail(kernel[t]) /\ \A u \in Threads \ {t} : kernel'[u] = kernel[u]
    BY <1>1, <1>2
  <2>2. \A i \in 1 .. Len(kernel'[t]) :
           i + 1 \in 1 .. Len(kernel[t]) /\ kernel'[t][i] = kernel[t][i + 1]
    BY <1>3, <2>1
  <2>3. \A i \in 1 .. Len(kernel'[t]) : Known(t, kernel'[t][i])
    BY <2>2 DEF WatchInv
  <2> QED BY <2>1, <2>3 DEF WatchInv
<1>6. \A u \in Threads : thread'[u] \in Busy => Known(u, hand'[u])
  BY <1>1, <1>2, <1>4 DEF WatchInv
<1> QED BY <1>1, <1>5, <1>6 DEF WatchInv, Known, ThreadOf

\* When a folder is not watched any more nobody has an event of it in hand, and what the
\* system still has to report of it is stale.
LEMMA WatchStep ==
    ASSUME TypeInv, LockOrder, ThreadInv, WatchInv, [Next]_vars PROVE WatchInv'
<1>1. /\ platform \in {"linux", "windows"} /\ implLock \in {None, "watch", "main"}
      /\ kernel \in [Threads -> Seq(Events)]
      /\ thread \in [Threads -> {"none", "idle", "judge", "call", "push"}]
  BY FileEventsAssumption DEF TypeInv, TypeOK
<1>2. ASSUME UNCHANGED <<platform, kernel>>, watches \subseteq watches',
             \A t \in Threads : thread'[t] \in Busy => thread[t] \in Busy /\ hand'[t] = hand[t]
      PROVE  WatchInv'
  BY <1>2 DEF WatchInv, Known, ThreadOf
<1>3. ASSUME NEW t \in Threads, WatchThread(t) PROVE WatchInv'
  <2>1. CASE Read(t)
    BY <2>1, ReadKnown
  <2>2. CASE Judge(t) \/ Call(t) \/ Push(t)
    <3>1. /\ UNCHANGED <<platform, kernel, watches>> /\ thread[t] \in Busy
          /\ \A u \in Threads \ {t} : thread'[u] = thread[u] /\ hand'[u] = hand[u]
          /\ thread'[t] = "idle" \/ hand' = hand
      BY <1>1, <2>2 DEF Judge, Call, Push, Done, Busy, TypeInv, TypeOK
    <3> QED BY <1>2, <3>1 DEF Busy
  <2>3. CASE ThreadEnds(t)
    <3>1. /\ UNCHANGED <<platform, hand, watches>>
          /\ thread'[t] = "none" /\ kernel'[t] = <<>>
          /\ \A u \in Threads \ {t} : thread'[u] = thread[u] /\ kernel'[u] = kernel[u]
      BY <1>1, <2>3 DEF ThreadEnds
    <3>2. Len(kernel'[t]) = 0
      BY <3>1, EmptySeq
    <3> QED BY <3>1, <3>2 DEF WatchInv, Known, ThreadOf, Busy
  <2> QED BY <1>3, <2>1, <2>2, <2>3 DEF WatchThread
<1>4. CASE Watch
  <2>1. /\ UNCHANGED <<platform, kernel, hand>> /\ watches \subseteq watches'
        /\ \/ thread' = thread
           \/ thread' = [thread EXCEPT ![main.folder] = "idle"]
    BY <1>4 DEF Watch
  <2> QED BY <1>1, <1>2, <2>1 DEF Busy
<1>5. ASSUME NEW gone, kernel' = Forget(gone), platform = "linux", implLock = None,
             UNCHANGED <<platform, thread>>,
             \A f \in Files : Home[f] \in watches => Home[f] \in gone \/ Home[f] \in watches'
      PROVE  WatchInv'
  <2>1. \A t \in Threads : thread'[t] \notin Busy
    <3>1. None # "watch" /\ \A t \in Threads : t = "watch" \/ t \in Folders
      BY FileEventsAssumption DEF Threads
    <3> QED BY <1>5, <3>1 DEF LockOrder, ThreadInv, Busy
  <2>2. ASSUME NEW t \in Threads, NEW i \in 1 .. Len(kernel'[t]) PROVE Known(t, kernel[t][i])'
    <3>1. /\ i \in 1 .. Len(kernel[t]) /\ kernel'[t][i].file = kernel[t][i].file
          /\ kernel'[t][i].action \in {kernel[t][i].action, "stale"}
          /\ Home[kernel'[t][i].file] \in gone => kernel'[t][i].action = "stale"
      BY <1>1, <1>5, <2>2, ForgetMarks
    <3>2. Known(t, kernel[t][i]) /\ kernel[t][i].file \in Files
      BY <1>1, <3>1, SeqSteps, EventFields DEF WatchInv
    <3> QED BY <1>5, <3>1, <3>2 DEF Known, ThreadOf
  <2> QED BY <2>1, <2>2 DEF WatchInv
<1>6. CASE StopWatchLinux
  BY <1>5, <1>6 DEF StopWatchLinux
<1>7. CASE StopAllLinux
  BY <1>5, <1>7, FileEventsAssumption DEF StopAllLinux
<1>8. CASE Joined
  <2>1. platform = "windows"
    BY <1>1, <1>8 DEF Joined, ThreadInv
  <2>2. /\ UNCHANGED <<platform, kernel, thread, hand>> /\ watches' = watches \ {main.folder}
        /\ thread[main.folder] = "none" /\ main.folder \in Folders
    BY <1>8 DEF Joined, TypeInv, HandInv
  <2>3. kernel[main.folder] = <<>> /\ Len(kernel[main.folder]) = 0 /\ main.folder \in Threads
    BY <2>2, ThreadNames, EmptySeq DEF ThreadInv
  <2>4. \A t \in Threads : \A event : Known(t, event) /\ t # main.folder => Known(t, event)'
    BY <2>1, <2>2 DEF Known, ThreadOf
  <2> QED BY <2>2, <2>3, <2>4 DEF WatchInv, Busy
<1>9. CASE AllJoined
  <2>1. UNCHANGED <<kernel, thread>> /\ \A t \in Threads : thread[t] = "none"
    BY <1>9 DEF AllJoined
  <2>2. \A t \in Threads : Len(kernel'[t]) = 0
    BY <2>1, EmptySeq DEF ThreadInv
  <2> QED BY <2>1, <2>2 DEF WatchInv, Busy
<1>10. CASE StopWatchWindows \/ StopAllWindows
  BY <1>2, <1>10 DEF StopWatchWindows, StopAllWindows
<1>11. CASE \/ \E f \in Files : Tick(f)
            \/ SyncLoop
            \/ \E d \in Folders : \/ AddSyncFolder(d) \/ ResumeSync(d) \/ PauseSync(d)
                                  \/ RemoveSyncFolder(d) \/ UpdateSyncFolderSettings(d)
            \/ DeleteRow \/ Stop \/ LoopJoined \/ UNCHANGED vars
  BY <1>2, <1>11, QuietStep
<1> QED BY <1>3, <1>4, <1>6, <1>7, <1>8, <1>9, <1>10, <1>11, ChangeKnown DEF Next, Main, Unlocking

-----------------------------------------------------------------------------
(* Removed folders.                                                          *)

\* syncLoop decides to upload for a folder it has just read; only addSyncFolder puts a
\* folder back.
LEMMA RemovalStep == ASSUME TypeInv, RemovalInv, [Next]_vars PROVE RemovalInv'
<1>1. late \in [Folders -> 0 .. 2]
  BY DEF TypeInv, TypeOK
<1>2. ASSUME rows' \subseteq rows, late' = late, loop' = loop \/ loop'.at # "upload"
      PROVE  RemovalInv'
  BY <1>2 DEF RemovalInv
<1>3. CASE SyncLoop
  <2>1. CASE ProcessFileEvent
    <3>1. /\ rows' = rows /\ late' = late
          /\ loop' = loop \/ \E d \in rows : loop'.folder = d
      BY <2>1 DEF ProcessFileEvent, Process, engine
    <3> QED BY <1>1, <3>1 DEF RemovalInv
  <2>2. CASE Upload
    <3>1. /\ rows' = rows /\ loop.at = "upload"
          /\ \/ loop' = Draining /\ late' = late
             \/ /\ loop' = [loop EXCEPT !.at = "sending"]
                /\ late' = IF loop.folder \in rows THEN late
                           ELSE [late EXCEPT ![loop.folder] = IF @ < 2 THEN @ + 1 ELSE @]
      BY <2>2 DEF Upload
    <3>2. loop'.at # "upload"
      BY <3>1 DEF Draining, TypeInv, TypeOK
    <3>3. CASE late' = late
      BY <1>2, <3>1, <3>2, <3>3
    <3>4. CASE /\ loop.folder \notin rows
               /\ late' = [late EXCEPT ![loop.folder] = IF @ < 2 THEN @ + 1 ELSE @]
      <4>1. \A d \in Folders : late'[d] = IF d = loop.folder THEN 1 ELSE late[d]
        <5>1. loop.folder \in Folders => late[loop.folder] = 0
          BY <1>1, <3>1 DEF RemovalInv
        <5> QED BY <1>1, <3>4, <5>1
      <4> QED BY <1>1, <3>1, <3>2, <3>4, <4>1 DEF RemovalInv
    <3> QED BY <3>1, <3>3, <3>4
  <2>3. CASE Drain \/ Sent \/ Drained
    BY <1>2, <2>3 DEF Drain, Sent, Drained, Draining, Asleep, engine
  <2>4. CASE LoopEnds
    <3>1. rows' = rows /\ late' = late /\ loop'.at = "ended"
      BY <2>4 DEF LoopEnds, engine, TypeInv, TypeOK
    <3> QED BY <1>2, <3>1
  <2> QED BY <1>3, <2>1, <2>2, <2>3, <2>4 DEF SyncLoop
<1>4. ASSUME NEW d \in Folders, AddSyncFolder(d) PROVE RemovalInv'
  <2>1. /\ rows' = rows \union {d} /\ late' = [late EXCEPT ![d] = 0] /\ loop' = loop
    BY <1>4 DEF AddSyncFolder, Begin
  <2>2. \A e \in Folders : late'[e] = IF e = d THEN 0 ELSE late[e]
    BY <1>1, <2>1
  <2> QED BY <2>1, <2>2 DEF RemovalInv
<1>5. CASE \/ \E f \in Files, a \in Actions : Change(f, a)
           \/ \E t \in Threads : WatchThread(t)
           \/ \E f \in Files : Tick(f)
           \/ UNCHANGED vars
  <2>1. UNCHANGED <<rows, late, loop>>
    BY <1>5 DEF Change, WatchThread, Read, Judge, Call, Push, ThreadEnds, Tick, vars, engine
  <2> QED BY <1>2, <2>1
<1>6. CASE /\ Main
           /\ ~ \E d \in Folders : AddSyncFolder(d)
  <2>1. /\ rows' \subseteq rows /\ late' = late /\ loop' = loop
    BY <1>6 DEF Main, ResumeSync, PauseSync, RemoveSyncFolder, UpdateSyncFolderSettings,
                Begin, Unlocking, Watch, StopWatchLinux, StopWatchWindows, StopAllLinux,
                StopAllWindows, Joined, DeleteRow, Stop, AllJoined, LoopJoined, engine
  <2> QED BY <1>2, <2>1
<1> QED BY <1>3, <1>4, <1>5, <1>6 DEF Next

-----------------------------------------------------------------------------
(* Theorems.                                                                 *)

EventsInv == TypeInv /\ LockOrder /\ ThreadInv /\ WatchInv /\ RemovalInv

LEMMA EventsInit == Init => EventsInv
<1> SUFFICES ASSUME Init PROVE EventsInv
  OBVIOUS
<1>1. /\ platform \in {"linux", "windows"} /\ watches \subseteq Folders
      /\ kernel = [t \in Threads |-> <<>>]
      /\ thread = [t \in Threads |->
                      IF t \in (IF platform = "linux" THEN {"watch"} ELSE watches)
                      THEN "idle" ELSE "none"]
      /\ main.at = "idle" /\ loop.at = "sleep"
      /\ implLock = None /\ callLock = None /\ ~queueLock
  BY FileEventsAssumption DEF Init, Free, Asleep
<1>2. \A t \in Threads : thread[t] \in {"none", "idle"} /\ kernel[t] = <<>> /\ Len(kernel[t]) = 0
  BY <1>1, EmptySeq
<1>3. LockOrder
  BY <1>1, <1>2, ThreadNames, FileEventsAssumption DEF LockOrder, Busy
<1>4. ThreadInv
  <2>1. platform = "linux" => \A d \in Folders : thread[d] = "none"
    BY <1>1, ThreadNames
  <2>2. platform = "windows" =>
           thread["watch"] = "none" /\ \A d \in Folders : thread[d] # "none" => d \in watches
    BY <1>1, ThreadNames, FileEventsAssumption
  <2> QED BY <1>1, <1>2, <2>1, <2>2 DEF ThreadInv
<1>5. WatchInv
  BY <1>2 DEF WatchInv, Busy
<1>6. RemovalInv
  BY <1>1 DEF Init, RemovalInv
<1> QED BY <1>3, <1>4, <1>5, <1>6, TypeInit DEF EventsInv

LEMMA EventsStep == EventsInv /\ [Next]_vars => EventsInv'
BY TypeStep, LockStep, ThreadStep, WatchStep, RemovalStep DEF EventsInv

\* A thread that waits for a mutex waits for somebody who goes on: the watcher's mutex is
\* held by a thread with an event in hand or by the main thread while it joins, on Windows
\* only; that of FileWatcher by the thread that calls the engine back; and queueMutex_ by
\* syncLoop while it drains the queue, never while it sleeps.
THEOREM LocksHaveHolders == Spec => []LockOrder
<1>1. EventsInv => LockOrder
  BY DEF EventsInv
<1> QED BY <1>1, EventsInit, EventsStep, PTL DEF Spec

\* RemovalIsHeeded for every set of folders and files: of the events that are queued when a
\* folder is removed at most the one upload begins whose folders had been read.
THEOREM RemovalHeeded == Spec => []RemovalIsHeeded
<1>1. EventsInv => RemovalIsHeeded
  BY DEF EventsInv, RemovalInv, RemovalIsHeeded
<1> QED BY <1>1, EventsInit, EventsStep, PTL DEF Spec

\* UnwatchedIsQuiet: an event reaches the queue of the engine only if its folder is watched
\* at that moment, on both platforms.
THEOREM UnwatchedStaysQuiet == Spec => UnwatchedIsQuiet
<1>1. EventsInv =>
         [\A t \in Threads : thread[t] = "push" /\ thread'[t] # "push" =>
             Home[hand[t].file] \in watches]_vars
  <2> SUFFICES ASSUME EventsInv, NEW t \in Threads, thread[t] = "push"
               PROVE  Home[hand[t].file] \in watches
    OBVIOUS
  <2>1. hand[t].action # "stale"
    BY DEF EventsInv, TypeInv, HandInv, Busy, Actions
  <2> QED BY <2>1 DEF EventsInv, WatchInv, Known, Busy
<1> QED BY <1>1, EventsInit, EventsStep, PTL DEF Spec, UnwatchedIsQuiet

\* The chains of waiting end: a watch thread that waits for FileWatcher's mutex waits for the
\* one that calls the engine back, and that one for syncLoop.
LEMMA ChainsEnd ==
    ASSUME EventsInv, NEW t \in Threads, thread[t] # "none", t \in told \/ thread[t] # "idle"
    PROVE  LoopGoesOn \/ \E u \in Threads : WatchThreadGoesOn(u)
<1>1. /\ thread[t] \in {"idle", "judge", "call", "push"} /\ callLock \in Threads \union {None}
      /\ \A u \in Threads : callLock = u <=> thread[u] = "push"
      /\ queueLock => LoopGoesOn
  BY DEF EventsInv, TypeInv, TypeOK, LockOrder, LoopGoesOn
<1>2. CASE thread[t] = "idle"
  BY <1>2 DEF WatchThreadGoesOn
<1>3. ASSUME NEW u \in Threads, thread[u] = "push"
      PROVE  LoopGoesOn \/ \E v \in Threads : WatchThreadGoesOn(v)
  BY <1>1, <1>3 DEF WatchThreadGoesOn
<1>4. CASE thread[t] \in {"judge", "call"}
  <2>1. CASE callLock = None
    BY <1>4, <2>1 DEF WatchThreadGoesOn
  <2>2. CASE callLock \in Threads
    BY <1>1, <1>3, <2>2
  <2> QED BY <1>1, <2>1, <2>2
<1> QED BY <1>1, <1>2, <1>3, <1>4

LEMMA StopStep == ASSUME TypeInv, StopInv, [Next]_vars PROVE StopInv'
<1>1. ASSUME UNCHANGED <<told, running>>,
             main' = main \/ main'.at \notin {"join", "joinAll"},
             main'.at \in {"stop", "joinLoop", "stopped"} => ~running
      PROVE  StopInv'
  BY <1>1 DEF StopInv
<1>2. CASE \/ \E f \in Files, a \in Actions : Change(f, a)
           \/ \E t \in Threads : WatchThread(t)
           \/ (\E f \in Files : Tick(f)) \/ SyncLoop \/ UNCHANGED vars
  <2>1. UNCHANGED <<told, running, main>>
    BY <1>2 DEF Change, WatchThread, Read, Judge, Call, Push, ThreadEnds, Tick, SyncLoop, Drain,
                ProcessFileEvent, Process, Upload, Sent, Drained, LoopEnds, vars, watcher, engine
  <2> QED BY <2>1 DEF StopInv
<1>3. ASSUME NEW d \in Folders,
             \/ AddSyncFolder(d) \/ ResumeSync(d) \/ PauseSync(d)
             \/ RemoveSyncFolder(d) \/ UpdateSyncFolderSettings(d)
      PROVE  StopInv'
  <2>1. /\ UNCHANGED <<told, running>>
        /\ main' = main \/ main'.at \in {"watch", "unwatch"}
    BY <1>3 DEF AddSyncFolder, ResumeSync, PauseSync, RemoveSyncFolder, UpdateSyncFolderSettings,
                Begin, watcher, engine
  <2> QED BY <1>1, <2>1 DEF StopInv
<1>4. CASE Watch
  <2>1. main'.at = "idle" /\ running' = running
    BY <1>4 DEF Watch, Free, engine
  <2> QED BY <2>1 DEF StopInv
<1>5. CASE StopWatchLinux \/ Joined
  <2>1. UNCHANGED <<told, running>> /\ main' = AfterUnwatch /\ main.at \in {"unwatch", "join"}
    BY <1>5 DEF StopWatchLinux, Joined, engine
  <2> QED BY <1>1, <2>1, AfterUnwatchAt
<1>6. CASE StopWatchWindows
  <2>1. /\ main.at = "unwatch" /\ running' = running
        /\ \/ main' = AfterUnwatch
           \/ main' = [main EXCEPT !.at = "join"] /\ main.folder \in told'
    BY <1>6 DEF StopWatchWindows, engine
  <2>2. \/ main'.at \in {"idle", "delete"}
        \/ main'.at = "join" /\ main'.folder \in told'
    BY <2>1, AfterUnwatchAt DEF TypeInv, TypeOK
  <2> QED BY <2>1, <2>2 DEF StopInv
<1>7. CASE StopAllLinux \/ StopAllWindows
  <2>1. /\ main.at = "stop" /\ running' = running /\ told' = Threads /\ Threads' = Threads
        /\ main' = [main EXCEPT !.at = "joinAll"]
    BY <1>7 DEF StopAllLinux, StopAllWindows, engine, Threads
  <2>2. main'.at = "joinAll"
    BY <2>1 DEF TypeInv, TypeOK
  <2> QED BY <2>1, <2>2 DEF StopInv
<1>8. CASE AllJoined \/ LoopJoined
  <2>1. /\ main.at \in {"joinAll", "joinLoop"} /\ UNCHANGED <<told, running>>
        /\ main' \in {[main EXCEPT !.at = "joinLoop"], [main EXCEPT !.at = "stopped"]}
    BY <1>8 DEF AllJoined, LoopJoined, watcher, engine
  <2>2. main'.at \in {"joinLoop", "stopped"}
    BY <2>1 DEF TypeInv, TypeOK
  <2> QED BY <2>1, <2>2 DEF StopInv
<1>9. CASE Stop
  <2>1. running' = FALSE /\ main' = [main EXCEPT !.at = "stop"]
    BY <1>9 DEF Stop
  <2>2. main'.at = "stop"
    BY <2>1 DEF TypeInv, TypeOK
  <2> QED BY <2>1, <2>2 DEF StopInv
<1>10. CASE DeleteRow
  BY <1>1, <1>10 DEF DeleteRow, Free, watcher
<1> QED BY <1>2, <1>3, <1>4, <1>5, <1>6, <1>7, <1>8, <1>9, <1>10 DEF Next, Main, Unlocking

\* NobodyBlocks for any folders and any number of watch threads: the three mutexes and the
\* joins do not deadlock.  That a command ends, MainReturns, needs fairness besides.
THEOREM NoDeadlock == Spec => []NobodyBlocks
<1>1. EventsInv /\ StopInv => NobodyBlocks
  <2> SUFFICES ASSUME EventsInv, StopInv, main.at \notin {"idle", "stopped"}
               PROVE  MainGoesOn \/ LoopGoesOn \/ \E t \in Threads : WatchThreadGoesOn(t)
    BY DEF NobodyBlocks
  <2>1. /\ main.at \in {"watch", "unwatch", "stop", "join", "joinAll", "delete", "joinLoop"}
        /\ implLock \in {None, "watch", "main"}
        /\ loop.at \in {"sleep", "drain", "upload", "sending", "ended"}
    BY DEF EventsInv, TypeInv, TypeOK
  <2>2. CASE main.at \in {"watch", "unwatch", "stop"}
    <3>1. CASE implLock = "watch"
      BY <3>1, ChainsEnd, ThreadNames DEF EventsInv, LockOrder, Busy
    <3>2. implLock # "main"
      BY <2>2 DEF EventsInv, LockOrder
    <3> QED BY <2>1, <2>2, <3>1, <3>2 DEF MainGoesOn
  <2>3. CASE main.at = "join"
    <3>1. main.folder \in told /\ main.folder \in Threads
      BY <2>3, ThreadNames DEF StopInv, EventsInv, TypeInv, HandInv
    <3> QED BY <2>3, <3>1, ChainsEnd DEF MainGoesOn
  <2>4. CASE main.at = "joinAll"
    BY <2>4, ChainsEnd DEF MainGoesOn, StopInv
  <2>5. CASE main.at = "delete"
    BY <2>5 DEF MainGoesOn
  <2>6. CASE main.at = "joinLoop"
    BY <2>1, <2>6 DEF MainGoesOn, LoopGoesOn, StopInv
  <2> QED BY <2>1, <2>2, <2>3, <2>4, <2>5, <2>6
<1>2. Init => StopInv
  BY DEF Init, Free, StopInv
<1>3. EventsInv /\ StopInv /\ [Next]_vars => StopInv'
  BY StopStep DEF EventsInv
<1> QED BY <1>1, <1>2, <1>3, EventsInit, EventsStep, PTL DEF Spec
=============================================================================
