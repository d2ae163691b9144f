------------------------------ MODULE FileEvents ------------------------------
(***************************************************************************)
(* From a change on disk to the upload it causes.  Linux has one watch     *)
(* thread, which holds the mutex of LinuxFileWatcher while it passes an    *)
(* event on; Windows has one thread per folder and joins it under the      *)
(* mutex of WindowsFileWatcher.  FileWatcher drops events within a window  *)
(* (onFileEvent) and calls the engine back under its own mutex; the        *)
(* callback waits for queueMutex_, which syncLoop holds while it uploads   *)
(* what is in eventQueue_.  The main thread watches and unwatches folders, *)
(* and stops it all.                                                       *)
(*                                                                         *)
(* Time is the age of a debounce entry, in ticks.  The runs of syncLoop    *)
(* itself are the subject of module SyncGate.                              *)
(***************************************************************************)
EXTENDS Naturals, Sequences, FiniteSetsExt

CONSTANTS
    Folders, Files,
    Home,            \* the folder in which a file lies
    Prefixes,        \* the folders whose path is a prefix of the file's
    Platforms,
    AtStart,         \* the sets of folders there may be at the start
    Window,          \* debounceDelay_, in ticks
    KernelCap,       \* events the system keeps for a watch thread
    MaxFlight,       \* bound: events under way when another change is made
    MaxOps,          \* bound: folder commands
    None

ASSUME FileEventsAssumption ==
    /\ Home \in [Files -> Folders]
    /\ Prefixes \in [Files -> SUBSET Folders]
    /\ \A f \in Files : Home[f] \in Prefixes[f]
    /\ AtStart \subseteq SUBSET Folders
    /\ Platforms \subseteq {"linux", "windows"}
    /\ Window \in Nat /\ KernelCap \in Nat \ {0} /\ MaxFlight \in Nat /\ MaxOps \in Nat
    /\ "watch" \notin Folders /\ None \notin Folders \union {"watch", "main"} \union Files

VARIABLES
    platform,
    kernel,          \* per watch thread: what the system has to report
    thread, hand,    \* per watch thread: where it is, the event it handles
    told,            \* watch threads that are to end
    watches,         \* watches_
    implLock,        \* mutex_ of the platform's watcher: None, the watch thread or main
    last, age,       \* debounceMap_, per file: the action passed on and how long ago
    callLock,        \* mutex_ of FileWatcher, while it calls the engine back
    eventQueue,
    queueLock,       \* queueMutex_ is held by syncLoop
    running, loop,   \* running_, syncLoop
    main,            \* the main thread
    rows, pull,      \* the sync folders in the database, those that only download
    ops,             \* counts folder commands
    died,            \* std::terminate
    late             \* history: uploads begun for a folder since it was removed

watcher == <<kernel, thread, hand, told, watches, implLock>>
debounce == <<last, age>>
queue == <<eventQueue, queueLock>>
engine == <<running, rows, pull, ops, late>>
vars == <<platform, watcher, debounce, callLock, queue, engine, loop, main, died>>

Actions == {"created", "modified", "deleted"}
Events == [file : Files, action : Actions \union {"stale"}]
NoEvent == [file |-> None, action |-> "stale"]
Threads == Folders \union {"watch"}
ThreadOf(folder) == IF platform = "linux" THEN "watch" ELSE folder

TypeOK ==
    /\ platform \in Platforms
    /\ kernel \in [Threads -> Seq(Events)]
    /\ thread \in [Threads -> {"none", "idle", "judge", "call", "push"}]
    /\ hand \in [Threads -> Events \union {NoEvent}]
    /\ told \subseteq Threads /\ watches \subseteq Folders
    /\ implLock \in {None, "watch", "main"}
    /\ last \in [Files -> Actions \union {None}] /\ age \in [Files -> 0 .. Window]
    /\ callLock \in Threads \union {None}
    /\ eventQueue \in Seq(Events) /\ queueLock \in BOOLEAN
    /\ running \in BOOLEAN /\ died \in BOOLEAN
    /\ loop \in [at : {"sleep", "drain", "upload", "sending", "ended"},
                 file : Files \union {None}, folder : Folders \union {None}]
    /\ main \in [at : {"idle", "watch", "unwatch", "join", "delete", "stop", "joinAll",
                       "joinLoop", "stopped"},
                 folder : Folders \union {None}, removes : BOOLEAN]
    /\ rows \subseteq Folders /\ pull \subseteq Folders
    /\ ops \in 0 .. MaxOps /\ late \in [Folders -> 0 .. 2]

Free == [at |-> "idle", folder |-> None, removes |-> FALSE]
Draining == [at |-> "drain", file |-> None, folder |-> None]
Asleep == [at |-> "sleep", file |-> None, folder |-> None]

\* After start(), with no folder paused.
Init ==
    /\ platform \in Platforms
    /\ rows \in AtStart /\ pull = {} /\ watches = rows
    /\ kernel = [t \in Threads |-> <<>>]
    /\ thread = [t \in Threads |->
                    IF t \in (IF platform = "linux" THEN {"watch"} ELSE watches)
                    THEN "idle" ELSE "none"]
    /\ hand = [t \in Threads |-> NoEvent]
    /\ told = {} /\ implLock = None /\ callLock = None
    /\ last = [f \in Files |-> None] /\ age = [f \in Files |-> Window]
    /\ eventQueue = <<>> /\ queueLock = FALSE
    /\ running = TRUE /\ loop = Asleep /\ main = Free
    /\ ops = 0 /\ died = FALSE
    /\ late = [d \in Folders |-> 0]

-----------------------------------------------------------------------------
(* The file system.                                                          *)

\* The kernel queue is full: Linux drops what is new, Windows what it has not handed over.
Overflow(t) ==
    IF platform = "linux" THEN kernel' = kernel
    ELSE \E n \in 0 .. Len(kernel[t]) : kernel' = [kernel EXCEPT ![t] = SubSeq(@, 1, n)]

\* A file is changed and, if its folder is watched, the system has something to report.
Change(f, action) ==
    /\ Len(eventQueue) + MapThenSumSet(LAMBDA t : Len(kernel[t]), Threads) < MaxFlight
    /\ LET t == ThreadOf(Home[f])
           event == [file |-> f, action |-> action]
       IN IF Home[f] \notin watches \/ thread[t] = "none" \/ t \in told THEN UNCHANGED kernel
          ELSE IF Len(kernel[t]) = KernelCap THEN Overflow(t)
          ELSE kernel' = [kernel EXCEPT ![t] = Append(@, event)]
    /\ UNCHANGED <<platform, thread, hand, told, watches, implLock, debounce, callLock, queue,
                   engine, loop, main, died>>

-----------------------------------------------------------------------------
(* The watch threads.                                                        *)

\* The thread is done with its event.
Done(t) ==
    /\ thread' = [thread EXCEPT ![t] = "idle"]
    /\ hand' = [hand EXCEPT ![t] = NoEvent]
    /\ implLock' = IF t = "watch" THEN None ELSE implLock

\* The next event; Linux looks its folder up, and has forgotten it if it is not watched any
\* more.  The size is asked for if the file exists; if it is deleted in between, file_size
\* throws and nobody catches it.
Read(t) ==
    /\ thread[t] = "idle" /\ kernel[t] # <<>>
    /\ t = "watch" => implLock = None
    /\ kernel' = [kernel EXCEPT ![t] = Tail(@)]
    /\ IF Head(kernel[t]).action = "stale" THEN UNCHANGED <<thread, hand, implLock, died>>
       ELSE /\ hand' = [hand EXCEPT ![t] = Head(kernel[t])]
            /\ thread' = [thread EXCEPT ![t] = "judge"]
            /\ implLock' = IF t = "watch" THEN "watch" ELSE implLock
            /\ died' \in BOOLEAN
    /\ UNCHANGED <<platform, told, watches, debounce, callLock, queue, engine, loop, main>>

\* shouldDebounce
Drops(event) ==
    /\ age[event.file] < Window
    /\ event.action \in {last[event.file], "modified"}

\* Mutant of Judge: an event that is dropped starts the window again.
JudgeExtends(t) ==
    /\ thread[t] = "judge" /\ callLock = None
    /\ age' = [age EXCEPT ![hand[t].file] = 0]
    /\ last' = [last EXCEPT ![hand[t].file] = hand[t].action]
    /\ IF Drops(hand[t]) THEN Done(t)
       ELSE /\ thread' = [thread EXCEPT ![t] = "call"]
            /\ UNCHANGED <<hand, implLock>>
    /\ UNCHANGED <<platform, kernel, told, watches, callLock, queue, engine, loop, main, died>>

\* onFileEvent up to the call: dropped, or noted in the map.
Judge(t) ==
    /\ thread[t] = "judge" /\ callLock = None
    /\ IF Drops(hand[t])
       THEN /\ Done(t)
            /\ UNCHANGED <<last, age>>
       ELSE /\ thread' = [thread EXCEPT ![t] = "call"]
            /\ last' = [last EXCEPT ![hand[t].file] = hand[t].action]
            /\ age' = [age EXCEPT ![hand[t].file] = 0]
            /\ UNCHANGED <<hand, implLock>>
    /\ UNCHANGED <<platform, kernel, told, watches, callLock, queue, engine, loop, main, died>>

\* userCallback_ is called under mutex_.
Call(t) ==
    /\ thread[t] = "call" /\ callLock = None
    /\ callLock' = t
    /\ thread' = [thread EXCEPT ![t] = "push"]
    /\ UNCHANGED <<platform, kernel, hand, told, watches, implLock, debounce, queue, engine, loop,
                   main, died>>

\* The callback of the engine.
Push(t) ==
    /\ thread[t] = "push" /\ ~queueLock
    /\ eventQueue' = Append(eventQueue, hand[t])
    /\ callLock' = None
    /\ Done(t)
    /\ UNCHANGED <<platform, kernel, told, watches, debounce, queueLock, engine, loop, main, died>>

\* running is false, or (Windows) the directory cannot be read any more.  Whether what is
\* left was in the buffer already, and is passed on first, is left open.
ThreadEnds(t) ==
    /\ thread[t] = "idle"
    /\ t \in told \/ platform = "windows"
    /\ thread' = [thread EXCEPT ![t] = "none"]
    /\ kernel' = [kernel EXCEPT ![t] = <<>>]
    /\ UNCHANGED <<platform, hand, told, watches, implLock, debounce, callLock, queue, engine, loop,
                   main, died>>

\* Time passes; an entry older than the window says nothing any more.
Tick(f) ==
    /\ age[f] < Window
    /\ age' = [age EXCEPT ![f] = @ + 1]
    /\ last' = [last EXCEPT ![f] = IF age[f] + 1 = Window THEN None ELSE @]
    /\ UNCHANGED <<platform, watcher, callLock, queue, engine, loop, main, died>>

-----------------------------------------------------------------------------
(* syncLoop and processFileEvent.                                            *)

\* There are events: the queue is locked until they have all been processed.
Drain ==
    /\ loop.at = "sleep" /\ running /\ eventQueue # <<>>
    /\ loop' = Draining
    /\ queueLock' = TRUE
    /\ UNCHANGED <<platform, watcher, debounce, callLock, eventQueue, engine, main, died>>

\* The first row whose path is a prefix decides; the order of the rows is SQLite's.
Process(folders) ==
    /\ loop.at = "drain" /\ eventQueue # <<>>
    /\ eventQueue' = Tail(eventQueue)
    /\ LET event == Head(eventQueue)
           matching == Prefixes[event.file] \intersect folders
           uploads == matching \ (IF event.action = "deleted" THEN matching ELSE pull)
       IN \/ /\ uploads = {} \/ matching \intersect pull # {}
             /\ UNCHANGED loop
          \/ \E d \in uploads :
                loop' = [at |-> "upload", file |-> event.file, folder |-> d]
    /\ UNCHANGED <<platform, watcher, debounce, callLock, queueLock, engine, main, died>>

\* Mutant of ProcessFileEvent: the folders are those known when the engine was started.
ProcessWithCached == Process(Folders)

\* The folders are read for each event.
ProcessFileEvent == Process(rows)

\* uploadFile: refused if nobody is signed in.
Upload ==
    /\ loop.at = "upload"
    /\ \/ /\ loop' = Draining
          /\ UNCHANGED late
       \/ /\ loop' = [loop EXCEPT !.at = "sending"]
          /\ late' = IF loop.folder \in rows THEN late
                     ELSE [late EXCEPT ![loop.folder] = IF @ < 2 THEN @ + 1 ELSE @]
    /\ UNCHANGED <<platform, watcher, debounce, callLock, queue, running, rows, pull, ops, main,
                   died>>

Sent ==
    /\ loop.at = "sending"
    /\ loop' = Draining
    /\ UNCHANGED <<platform, watcher, debounce, callLock, queue, engine, main, died>>

\* The lock is released; the runs of all folders and the sleep follow.
Drained ==
    /\ loop.at = "drain" /\ eventQueue = <<>>
    /\ loop' = Asleep
    /\ queueLock' = FALSE
    /\ UNCHANGED <<platform, watcher, debounce, callLock, eventQueue, engine, main, died>>

LoopEnds ==
    /\ loop.at = "sleep" /\ ~running
    /\ loop' = [loop EXCEPT !.at = "ended"]
    /\ UNCHANGED <<platform, watcher, debounce, callLock, queue, engine, main, died>>

-----------------------------------------------------------------------------
(* The main thread.                                                          *)

Begin(at, d, removes) ==
    /\ main.at = "idle" /\ ops < MaxOps
    /\ main' = [at |-> at, folder |-> d, removes |-> removes]
    /\ ops' = ops + 1
    /\ UNCHANGED <<platform, watcher, debounce, callLock, queue, running, loop, died>>

AddSyncFolder(d) ==
    /\ d \notin rows
    /\ Begin("watch", d, FALSE)
    /\ rows' = rows \union {d} /\ pull' = pull \ {d}
    /\ late' = [late EXCEPT ![d] = 0]

\* It may also be watched already.
ResumeSync(d) == d \in rows /\ Begin("watch", d, FALSE) /\ UNCHANGED <<rows, pull, late>>

PauseSync(d) == d \in rows /\ Begin("unwatch", d, FALSE) /\ UNCHANGED <<rows, pull, late>>

RemoveSyncFolder(d) == d \in rows /\ Begin("unwatch", d, TRUE) /\ UNCHANGED <<rows, pull, late>>

UpdateSyncFolderSettings(d) ==
    /\ main.at = "idle" /\ ops < MaxOps /\ d \in rows
    /\ \E p \in {pull \union {d}, pull \ {d}} : pull' = p
    /\ ops' = ops + 1
    /\ UNCHANGED <<platform, watcher, debounce, callLock, queue, running, loop, main, rows, late,
                   died>>

\* startWatch, unless the directory cannot be watched.
Watch ==
    /\ main.at = "watch" /\ implLock = None
    /\ main' = Free
    /\ \/ UNCHANGED <<thread, told, watches>>
       \/ /\ main.folder \notin watches
          /\ watches' = watches \union {main.folder}
          /\ IF platform = "linux" THEN UNCHANGED <<thread, told>>
             ELSE /\ thread' = [thread EXCEPT ![main.folder] = "idle"]
                  /\ told' = told \ {main.folder}
    /\ UNCHANGED <<platform, kernel, hand, implLock, debounce, callLock, queue, engine, loop, died>>

\* What follows stopWatch.
AfterUnwatch == IF main.removes THEN [main EXCEPT !.at = "delete"] ELSE Free

\* What the system still reports of a folder names a watch that is not in the map.
Forget(gone) ==
    [t \in Threads |-> [i \in DOMAIN kernel[t] |->
        IF Home[kernel[t][i].file] \in gone THEN [kernel[t][i] EXCEPT !.action = "stale"]
        ELSE kernel[t][i]]]

\* Mutant of StopWatchLinux: the descriptor stays in the map.
StopWatchLinuxKeepsDescriptor ==
    /\ platform = "linux" /\ main.at = "unwatch" /\ implLock = None
    /\ watches' = watches \ {main.folder}
    /\ main' = AfterUnwatch
    /\ UNCHANGED <<platform, kernel, thread, hand, told, implLock, debounce, callLock, queue, engine,
                   loop, died>>

StopWatchLinux ==
    /\ platform = "linux" /\ main.at = "unwatch" /\ implLock = None
    /\ watches' = watches \ {main.folder}
    /\ kernel' = Forget({main.folder})
    /\ main' = AfterUnwatch
    /\ UNCHANGED <<platform, thread, hand, told, implLock, debounce, callLock, queue, engine, loop,
                   died>>

\* Mutant of StopWatchWindows: the thread is joined without being told to end.
StopWatchWindowsUntold ==
    /\ platform = "windows" /\ main.at = "unwatch" /\ implLock = None
    /\ IF main.folder \in watches
       THEN /\ implLock' = "main"
            /\ main' = [main EXCEPT !.at = "join"]
       ELSE /\ main' = AfterUnwatch
            /\ UNCHANGED implLock
    /\ UNCHANGED <<platform, kernel, thread, hand, told, watches, debounce, callLock, queue, engine,
                   loop, died>>

\* The thread is told to end, and joined with the mutex held.
StopWatchWindows ==
    /\ platform = "windows" /\ main.at = "unwatch" /\ implLock = None
    /\ IF main.folder \in watches
       THEN /\ told' = told \union {main.folder}
            /\ implLock' = "main"
            /\ main' = [main EXCEPT !.at = "join"]
       ELSE /\ main' = AfterUnwatch
            /\ UNCHANGED <<told, implLock>>
    /\ UNCHANGED <<platform, kernel, thread, hand, watches, debounce, callLock, queue, engine, loop,
                   died>>

Joined ==
    /\ main.at = "join" /\ thread[main.folder] = "none"
    /\ watches' = watches \ {main.folder}
    /\ implLock' = None
    /\ main' = AfterUnwatch
    /\ UNCHANGED <<platform, kernel, thread, hand, told, debounce, callLock, queue, engine, loop,
                   died>>

\* The row of a removed folder is deleted, or that fails.
DeleteRow ==
    /\ main.at = "delete"
    /\ rows' \in {rows \ {main.folder}, rows}
    /\ pull' = pull \intersect rows'
    /\ main' = Free
    /\ UNCHANGED <<platform, watcher, debounce, callLock, queue, running, ops, late, loop, died>>

Stop ==
    /\ main.at = "idle"
    /\ running' = FALSE
    /\ main' = [main EXCEPT !.at = "stop"]
    /\ UNCHANGED <<platform, watcher, debounce, callLock, queue, rows, pull, ops, late, loop, died>>

\* Mutant of StopAllLinux: the thread is joined in the scope of the lock, as on Windows.
StopAllLinuxHoldsLock ==
    /\ platform = "linux" /\ main.at = "stop" /\ implLock = None
    /\ watches' = {}
    /\ kernel' = Forget(Folders)
    /\ told' = Threads
    /\ implLock' = "main"
    /\ main' = [main EXCEPT !.at = "joinAll"]
    /\ UNCHANGED <<platform, thread, hand, debounce, callLock, queue, engine, loop, died>>

\* The watches are removed, the lock released, the thread told to end.
StopAllLinux ==
    /\ platform = "linux" /\ main.at = "stop" /\ implLock = None
    /\ watches' = {}
    /\ kernel' = Forget(Folders)
    /\ told' = Threads
    /\ main' = [main EXCEPT !.at = "joinAll"]
    /\ UNCHANGED <<platform, thread, hand, implLock, debounce, callLock, queue, engine, loop, died>>

StopAllWindows ==
    /\ platform = "windows" /\ main.at = "stop" /\ implLock = None
    /\ told' = Threads
    /\ implLock' = "main"
    /\ main' = [main EXCEPT !.at = "joinAll"]
    /\ UNCHANGED <<platform, kernel, thread, hand, watches, debounce, callLock, queue, engine, loop,
                   died>>

AllJoined ==
    /\ main.at = "joinAll" /\ \A t \in Threads : thread[t] = "none"
    /\ watches' = {} /\ implLock' = None
    /\ main' = [main EXCEPT !.at = "joinLoop"]
    /\ UNCHANGED <<platform, kernel, thread, hand, told, debounce, callLock, queue, engine, loop,
                   died>>

LoopJoined ==
    /\ main.at = "joinLoop" /\ loop.at = "ended"
    /\ main' = [main EXCEPT !.at = "stopped"]
    /\ UNCHANGED <<platform, watcher, debounce, callLock, queue, engine, loop, died>>

-----------------------------------------------------------------------------
WatchThread(t) == Read(t) \/ Judge(t) \/ Call(t) \/ Push(t) \/ ThreadEnds(t)
SyncLoop == Drain \/ ProcessFileEvent \/ Upload \/ Sent \/ Drained \/ LoopEnds
Unlocking == Watch \/ StopWatchLinux \/ StopWatchWindows \/ StopAllLinux \/ StopAllWindows
Main ==
    \/ \E d \in Folders : \/ AddSyncFolder(d) \/ ResumeSync(d) \/ PauseSync(d)
                          \/ RemoveSyncFolder(d) \/ UpdateSyncFolderSettings(d)
    \/ Unlocking \/ Joined \/ DeleteRow \/ Stop \/ AllJoined \/ LoopJoined

Next ==
    /\ ~died
    /\ \/ \E f \in Files, a \in Actions : Change(f, a)
       \/ \E t \in Threads : WatchThread(t)
       \/ \E f \in Files : Tick(f)
       \/ SyncLoop \/ Main

\* Threads go on, uploads end (they have timeouts), time passes.  A mutex that is free again
\* and again is got in the end; nobody has to stop, to change a file or to break a watch.
Fairness ==
    /\ \A t \in Threads :
          /\ WF_vars(~died /\ (Read(t) \/ Push(t)))
          /\ WF_vars(~died /\ ThreadEnds(t) /\ t \in told /\ kernel[t] = <<>>)
    /\ WF_vars(~died /\ (Judge("watch") \/ Call("watch")))
    /\ \A d \in Folders : SF_vars(~died /\ (Judge(d) \/ Call(d)))
    /\ \A f \in Files : WF_vars(~died /\ Tick(f))
    /\ WF_vars(~died /\ SyncLoop)
    /\ SF_vars(~died /\ Unlocking)
    /\ WF_vars(~died /\ (Joined \/ DeleteRow \/ AllJoined \/ LoopJoined))

Spec == Init /\ [][Next]_vars /\ Fairness

-----------------------------------------------------------------------------
(* Properties.                                                               *)

\* The guards of what takes the main thread, a watch thread or syncLoop further.
MainGoesOn ==
    \/ main.at \in {"watch", "unwatch", "stop"} /\ implLock = None
    \/ main.at = "join" /\ thread[main.folder] = "none"
    \/ main.at = "joinAll" /\ \A t \in Threads : thread[t] = "none"
    \/ main.at = "joinLoop" /\ loop.at = "ended"
    \/ main.at = "delete"
WatchThreadGoesOn(t) ==
    \/ thread[t] \in {"judge", "call"} /\ callLock = None
    \/ thread[t] = "push" /\ ~queueLock
    \/ thread[t] = "idle" /\ t \in told
LoopGoesOn ==
    \/ loop.at \in {"drain", "upload", "sending"}
    \/ loop.at = "sleep" /\ ~running

\* No circle among the three mutexes and the joins: as long as a command or stop() waits, the
\* main thread, a watch thread or syncLoop can take a step that brings its end nearer.
NobodyBlocks ==
    main.at \notin {"idle", "stopped"} =>
        MainGoesOn \/ LoopGoesOn \/ \E t \in Threads : WatchThreadGoesOn(t)

\* The waiting ends: pauseSync, resumeSync, removeSyncFolder, addSyncFolder and stop return,
\* although a watch thread may hold the mutex they need while it waits for the uploads of
\* syncLoop.
MainReturns == main.at # "idle" ~> main.at \in {"idle", "stopped"} \/ died

\* Once unwatch or stop has returned no event of the folder reaches the queue, whatever the
\* system had reported before.
UnwatchedIsQuiet ==
    [][\A t \in Threads : thread[t] = "push" /\ thread'[t] # "push" =>
          Home[hand[t].file] \in watches]_vars

\* The window is not extended by what it drops: a file that is written all the time is
\* passed on again and again.
StreamHeard ==
    \A f \in Files :
        []<>(~died /\ \E t \in Threads : thread[t] = "judge" /\ hand[t].file = f) =>
        []<>(\E t \in Threads : thread[t] = "push" /\ hand[t].file = f)

\* Events that are still queued when their folder is removed are not uploaded to it: at
\* most the one upload begins for which the folders had been read.
RemovalIsHeeded == \A d \in Folders : late[d] <= 1
=============================================================================
