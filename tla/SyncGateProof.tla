---------------------------- MODULE SyncGateProof ----------------------------
(***************************************************************************)
(* Proofs about SyncGate, for any number of folders, threads and commands: *)
(* the types, mutual exclusion of synchronisation runs, the absence of a   *)
(* running thread when the engine is destroyed, the pause that holds, and  *)
(* the refinement of SyncService.                                          *)
(***************************************************************************)
EXTENDS SyncGate, TLAPS

USE ThreadsAssumption

\* Every variable keeps its type, whatever the interleaving.
THEOREM TypeCorrect == Spec => []TypeOK
<1>1. Init => TypeOK
  <2> SUFFICES ASSUME Init PROVE TypeOK
    OBVIOUS
  <2> USE DEF Init
  <2>1. /\ running \in BOOLEAN /\ alive \in BOOLEAN /\ authenticated \in BOOLEAN
        /\ syncing \in BOOLEAN /\ syncPending \in BOOLEAN
        /\ again \in [Runners -> BOOLEAN]
    OBVIOUS
  <2>2. rows \in [Folders -> Present \union {"absent", "removed"}]
    BY DEF Present, Live
  <2>3. pc \in [Runners -> Inside \union Outside]
    BY DEF Inside, Outside
  <2>4. /\ mainReq \in Requests
        /\ req \in [Runners -> Requests]
    BY DEF Requests
  <2>5. /\ todo \in [Runners -> SUBSET Folders]
        /\ cur \in [Runners -> Folders \union {NoFolder}]
    OBVIOUS
  <2> QED
    BY <2>1, <2>2, <2>3, <2>4, <2>5 DEF TypeOK
<1>2. TypeOK /\ [Next]_vars => TypeOK'
  <2> SUFFICES ASSUME TypeOK, [Next]_vars
               PROVE  TypeOK'
    OBVIOUS
  <2> USE DEF TypeOK, Runners, Requests, Present, Live, Inside, Outside,
              engineVars, gateVars, runnerVars, pauseVars, owedVars, Goto, AfterSync,
              Settle, Asked, WriteStatus, EndFolder, notRows, notLaunch, notLaunchRunner, notMain
  <2>0. LoopGivesUp => owed' \subseteq Folders /\ skipped' \subseteq Folders
    BY DEF LoopGivesUp
  <2>1. ASSUME NEW t \in Runners, Enter(t)
        PROVE  TypeOK'
    BY <2>1 DEF Enter
  <2>2. ASSUME NEW t \in Runners, FindBusy(t)
        PROVE  TypeOK'
    BY <2>2 DEF FindBusy
  <2>3. ASSUME NEW t \in Runners, LeaveNote(t)
        PROVE  TypeOK'
    BY <2>3 DEF LeaveNote
  <2>4. ASSUME NEW t \in Runners, CheckAuth(t)
        PROVE  TypeOK'
    BY <2>4, <2>0 DEF CheckAuth
  <2>5. ASSUME NEW t \in Runners, TakeSnapshot(t)
        PROVE  TypeOK'
    BY <2>5 DEF TakeSnapshot, Visits
  <2>6. ASSUME NEW t \in Runners, Leave(t)
        PROVE  TypeOK'
    BY <2>6 DEF Leave
  <2>7. ASSUME NEW t \in Runners, NEW f \in Folders, SkipForQuota(t, f)
        PROVE  TypeOK'
    BY <2>7 DEF SkipForQuota
  <2>8. ASSUME NEW t \in Runners, NEW f \in Folders, StartFolder(t, f)
        PROVE  TypeOK'
    BY <2>8 DEF StartFolder
  <2>9. ASSUME NEW t \in Runners, MarkSyncing(t)
        PROVE  TypeOK'
    BY <2>9 DEF MarkSyncing
  <2>10. ASSUME NEW t \in Runners, HitQuota(t)
        PROVE  TypeOK'
    BY <2>10 DEF HitQuota
  <2>11. ASSUME NEW t \in Runners, FinishFolder(t)
        PROVE  TypeOK'
    BY <2>11 DEF FinishFolder
  <2>12. ASSUME NEW t \in Runners, FailFolder(t)
        PROVE  TypeOK'
    BY <2>12 DEF FailFolder
  <2>13. ASSUME NEW t \in Runners, MeetExpiredToken(t)
        PROVE  TypeOK'
    BY <2>13 DEF MeetExpiredToken
  <2>14. ASSUME NEW t \in Runners, RefreshToken(t)
        PROVE  TypeOK'
    BY <2>14 DEF RefreshToken
  <2>15. ASSUME NEW t \in Runners, FailRefresh(t)
        PROVE  TypeOK'
    BY <2>15 DEF FailRefresh
  <2>16. CASE QuotaBackoffElapses
    BY <2>16 DEF QuotaBackoffElapses
  <2>17. CASE SyncLoop
    <3>1. CASE LoopIterate
      BY <2>0, <3>1 DEF LoopIterate
    <3>2. CASE LoopExit \/ LoopWake \/ LoopSleepEnds
      BY <3>2 DEF LoopExit, LoopWake, LoopSleepEnds
    <3> QED
      BY <2>17, <3>1, <3>2 DEF SyncLoop
  <2>18. ASSUME NEW f \in Folders, AddFolder(f)
         PROVE  TypeOK'
    BY <2>18 DEF AddFolder, Command, LaunchIfSignedIn, Launch
  <2>19. ASSUME NEW f \in Folders, ResumeFolder(f)
         PROVE  TypeOK'
    BY <2>19 DEF ResumeFolder, Command, LaunchIfSignedIn, Launch
  <2>20. ASSUME NEW f \in Folders, RemoveFolder(f)
         PROVE  TypeOK'
    BY <2>20 DEF RemoveFolder, Command
  <2>21. ASSUME NEW f \in Folders, PauseFolder(f)
         PROVE  TypeOK'
    BY <2>21 DEF PauseFolder, Command
  <2>22. ASSUME NEW b \in BOOLEAN, SetAuthenticated(b)
         PROVE  TypeOK'
    BY <2>22 DEF SetAuthenticated, Command
  <2>23. ASSUME NEW r \in Requests, TriggerCommand(r)
         PROVE  TypeOK'
    BY <2>23 DEF TriggerCommand, Command
  <2>24. CASE StartAsync
    BY <2>24 DEF StartAsync
  <2>25. CASE Stop
    BY <2>25 DEF Stop
  <2>26. CASE StopJoinLoop \/ StopWaitFutures
    BY <2>26 DEF StopJoinLoop, StopWaitFutures
  <2>27. CASE DestroyIpcServer \/ DestroyEngine
    BY <2>27 DEF DestroyIpcServer, DestroyEngine
  <2>28. CASE UNCHANGED vars
    BY <2>28 DEF vars
  <2> QED
    BY <2>1, <2>2, <2>3, <2>4, <2>5, <2>6, <2>7, <2>8, <2>9, <2>10, <2>11, <2>12, <2>13,
       <2>14, <2>15, <2>16, <2>17, <2>18, <2>19, <2>20, <2>21, <2>22, <2>23, <2>24, <2>25,
       <2>26, <2>27, <2>28
       DEF Next, TriggerSync, RunFolder, ServeCommand, Shutdown
<1> QED
  BY <1>1, <1>2, PTL DEF Spec

-----------------------------------------------------------------------------
(* Mutual exclusion.  The set of runners inside a run is all that matters: *)
(* the flag says whether it is empty, only a caller that read false may    *)
(* join it, and only its member clears the flag.                           *)

Holders == {t \in Runners : Holding(t)}

\* How each step moves the holders and the flag.
HoldersStep ==
    \/ syncing' = syncing /\ Holders' = Holders
    \/ \E t \in Runners : ~syncing /\ syncing' /\ Holders' = Holders \union {t}
    \/ \E t \in Holders : ~syncing' /\ Holders' = Holders \ {t}

\* A runner that moves from one place to another changes the holders only
\* when exactly one of the places is inside a run.
LEMMA GotoHolders ==
    ASSUME TypeOK, NEW t \in Runners, NEW where, Goto(t, where)
    PROVE  Holders' = IF where \in Inside THEN Holders \union {t} ELSE Holders \ {t}
BY DEF TypeOK, Holders, Holding, Goto

\* Every step of the system is one of the three moves of HoldersStep.
LEMMA NextHolders == ASSUME TypeOK, [Next]_vars PROVE HoldersStep
<1> USE DEF engineVars, gateVars, runnerVars, pauseVars, HoldersStep
<1>1. ASSUME NEW t \in Runners, Enter(t)
      PROVE  HoldersStep
  <2>1. Goto(t, "held") /\ ~syncing /\ syncing'
    BY <1>1 DEF Enter
  <2>2. Holders' = Holders \union {t}
    BY <2>1, GotoHolders DEF Inside
  <2> QED
    BY <2>1, <2>2
<1>2. ASSUME NEW t \in Runners, FindBusy(t) \/ LeaveNote(t)
      PROVE  HoldersStep
  <2>1. /\ t \notin Holders /\ syncing' = syncing
        /\ \E where \in {"refused", "sleep", "out"} : Goto(t, where)
    BY <1>2 DEF FindBusy, LeaveNote, AfterSync, Holders, Holding, Inside
  <2>2. Holders' = Holders
    BY <2>1, GotoHolders DEF Inside
  <2> QED
    BY <2>1, <2>2
<1>3. ASSUME NEW t \in Runners, NEW where \in Inside, pc[t] \in Inside, Goto(t, where),
             syncing' = syncing
      PROVE  HoldersStep
  BY <1>3, GotoHolders DEF Holders, Holding
<1>4. ASSUME NEW t \in Runners, pc[t] \in Inside, Goto(t, AfterSync(t)), syncing' = FALSE
      PROVE  HoldersStep
  <2>1. AfterSync(t) \notin Inside
    BY DEF AfterSync, Inside
  <2>2. t \in Holders /\ Holders' = Holders \ {t}
    BY <1>4, <2>1, GotoHolders DEF Holders, Holding
  <2> QED
    BY <1>4, <2>2
<1>5. ASSUME NEW t \in Runners, CheckAuth(t) \/ Leave(t)
      PROVE  HoldersStep
  <2>1. /\ pc[t] \in Inside
        /\ \/ Goto(t, "authed") /\ syncing' = syncing
           \/ Goto(t, AfterSync(t)) /\ syncing' = FALSE
    BY <1>5 DEF CheckAuth, Leave, Inside
  <2> QED
    BY <2>1, <1>3, <1>4 DEF Inside
<1>6. ASSUME NEW t \in Runners, TakeSnapshot(t) \/ MarkSyncing(t) \/ RefreshToken(t)
      PROVE  HoldersStep
  <2>1. /\ pc[t] \in Inside /\ syncing' = syncing
        /\ \E where \in {"each", "transfer", "scan"} : Goto(t, where)
    BY <1>6 DEF TakeSnapshot, MarkSyncing, RefreshToken, Inside
  <2> QED
    BY <2>1, <1>3 DEF Inside
<1>7. ASSUME NEW t \in Runners,
             FinishFolder(t) \/ FailFolder(t) \/ MeetExpiredToken(t) \/ FailRefresh(t)
      PROVE  HoldersStep
  <2>1. /\ pc[t] \in Inside /\ syncing' = syncing
        /\ \E where \in {"each", "refresh"} : Goto(t, where)
    BY <1>7 DEF FinishFolder, FailFolder, MeetExpiredToken, FailRefresh, EndFolder, Inside
  <2> QED
    BY <2>1, <1>3 DEF Inside
<1>8. ASSUME NEW t \in Runners, NEW f \in Folders, StartFolder(t, f)
      PROVE  HoldersStep
  <2>1. pc[t] \in Inside /\ syncing' = syncing /\ Goto(t, "scan")
    BY <1>8 DEF StartFolder, Inside
  <2> QED
    BY <2>1, <1>3 DEF Inside
<1>9. ASSUME UNCHANGED <<pc, syncing>>
      PROVE  HoldersStep
  BY <1>9 DEF Holders, Holding
<1>10. ASSUME NEW t \in Runners, NEW where \in Outside, pc[t] \in Outside, Goto(t, where),
              syncing' = syncing
       PROVE  HoldersStep
  <2>1. where \notin Inside /\ t \notin Holders
    BY <1>10 DEF Outside, Inside, Holders, Holding
  <2> QED
    BY <2>1, <1>10, GotoHolders
<1>11. CASE SyncLoop
  <2>1. /\ pc[Loop] \in Outside /\ syncing' = syncing
        /\ \E where \in Outside : Goto(Loop, where)
    BY <1>11 DEF SyncLoop, LoopIterate, LoopExit, LoopWake, LoopSleepEnds, Outside
  <2> QED
    BY <2>1, <1>10 DEF Runners
<1>12. ASSUME NEW f \in Folders, AddFolder(f) \/ ResumeFolder(f)
       PROVE  HoldersStep
  <2>1. /\ syncing' = syncing
        /\ \/ \E s \in Slots : pc[s] = "out" /\ Goto(s, "call")
           \/ pc' = pc
    BY <1>12 DEF AddFolder, ResumeFolder, LaunchIfSignedIn, Launch
  <2> QED
    BY <2>1, <1>9, <1>10 DEF Runners, Outside
<1>13. CASE StartAsync
  <2>1. pc[Async] = "out" /\ Goto(Async, "call") /\ syncing' = syncing
    BY <1>13 DEF StartAsync
  <2> QED
    BY <2>1, <1>10 DEF Runners, Outside
<1>14. ASSUME NEW t \in Runners, HitQuota(t)
       PROVE  HoldersStep
  <2>1. UNCHANGED <<pc, syncing>>
    BY <1>14 DEF HitQuota
  <2> QED
    BY <2>1, <1>9
<1>15. ASSUME NEW t \in Runners, NEW f \in Folders, SkipForQuota(t, f)
       PROVE  HoldersStep
  <2>1. UNCHANGED <<pc, syncing>>
    BY <1>15 DEF SkipForQuota
  <2> QED
    BY <2>1, <1>9
<1>16. ASSUME NEW f \in Folders, RemoveFolder(f) \/ PauseFolder(f)
       PROVE  HoldersStep
  <2>1. UNCHANGED <<pc, syncing>>
    BY <1>16 DEF RemoveFolder, PauseFolder
  <2> QED
    BY <2>1, <1>9
<1>17. ASSUME NEW b \in BOOLEAN, SetAuthenticated(b)
       PROVE  HoldersStep
  <2>1. UNCHANGED <<pc, syncing>>
    BY <1>17 DEF SetAuthenticated
  <2> QED
    BY <2>1, <1>9
<1>18. ASSUME NEW r \in Requests, TriggerCommand(r)
       PROVE  HoldersStep
  <2>1. UNCHANGED <<pc, syncing>>
    BY <1>18 DEF TriggerCommand
  <2> QED
    BY <2>1, <1>9
<1>19. CASE QuotaBackoffElapses \/ Stop \/ Shutdown \/ UNCHANGED vars
  <2>1. UNCHANGED <<pc, syncing>>
    BY <1>19 DEF QuotaBackoffElapses, Stop, Shutdown, StopJoinLoop, StopWaitFutures,
                DestroyIpcServer, DestroyEngine, notMain, vars
  <2> QED
    BY <2>1, <1>9
<1> HIDE DEF HoldersStep
<1> QED
  BY <1>1, <1>2, <1>5, <1>6, <1>7, <1>8, <1>11, <1>12, <1>13, <1>14, <1>15, <1>16,
     <1>17, <1>18, <1>19 DEF Next, TriggerSync, RunFolder, ServeCommand

\* ExclusiveRun in terms of the holders.
LEMMA ExclusiveHolders ==
    ExclusiveRun <=> /\ \A s, t \in Holders : s = t
                     /\ syncing <=> Holders # {}
BY DEF ExclusiveRun, Holders

LEMMA ExclusiveInductive == ASSUME TypeOK, ExclusiveRun, [Next]_vars PROVE ExclusiveRun'
<1>1. /\ \A s, t \in Holders : s = t
      /\ syncing <=> Holders # {}
  BY ExclusiveHolders
<1>2. syncing \in BOOLEAN
  BY DEF TypeOK
<1>3. HoldersStep
  BY NextHolders
<1>4. /\ \A s, t \in Holders' : s = t
      /\ syncing' <=> Holders' # {}
  <2>1. CASE syncing' = syncing /\ Holders' = Holders
    BY <1>1, <2>1
  <2>2. ASSUME NEW t \in Runners, ~syncing, syncing', Holders' = Holders \union {t}
        PROVE  /\ \A u, v \in Holders' : u = v
               /\ syncing' <=> Holders' # {}
    BY <1>1, <2>2
  <2>3. ASSUME NEW t \in Holders, ~syncing', Holders' = Holders \ {t}
        PROVE  /\ \A u, v \in Holders' : u = v
               /\ syncing' <=> Holders' # {}
    BY <1>1, <2>3
  <2> QED
    BY <1>3, <2>1, <2>2, <2>3 DEF HoldersStep
<1> QED
  BY <1>4 DEF ExclusiveRun, Holders

\* At most one runner is inside a synchronisation, and syncing_ says so: for any
\* number of folders, background syncs and commands.
THEOREM RunsExclude == Spec => []ExclusiveRun
<1>1. Init => ExclusiveRun
  BY DEF Init, ExclusiveRun, Holding, Inside
<1>2. TypeOK /\ ExclusiveRun /\ [Next]_vars => ExclusiveRun'
  BY ExclusiveInductive
<1> QED
  BY <1>1, <1>2, TypeCorrect, PTL DEF Spec

-----------------------------------------------------------------------------
(* SyncGate implements SyncService.                                        *)

\* What is owed changes in five actions only; the others leave the flag alone, or
\* else who is signed in and the rows.
LEMMA NextOwed ==
    ASSUME [Next]_vars
    PROVE  \/ owed' = owed /\ (syncing' = syncing \/ UNCHANGED <<authenticated, rows>>)
           \/ \E t \in Runners : FindBusy(t) \/ CheckAuth(t) \/ TakeSnapshot(t)
           \/ \E t \in Runners, f \in Folders : StartFolder(t, f)
           \/ LoopIterate
<1> USE DEF pauseVars, owedVars, engineVars, gateVars
<1> DEFINE Kept == owed' = owed /\ (syncing' = syncing \/ UNCHANGED <<authenticated, rows>>)
<1>1. ASSUME NEW t \in Runners, Enter(t) \/ LeaveNote(t) \/ Leave(t)
      PROVE  Kept
  BY <1>1 DEF Enter, LeaveNote, Leave
<1>2. ASSUME NEW t \in Runners, HitQuota(t) \/ \E f \in Folders : SkipForQuota(t, f)
      PROVE  Kept
  BY <1>2 DEF SkipForQuota, HitQuota
<1>3. ASSUME NEW t \in Runners,
             \/ MarkSyncing(t) \/ FinishFolder(t) \/ FailFolder(t)
             \/ MeetExpiredToken(t) \/ RefreshToken(t) \/ FailRefresh(t)
      PROVE  Kept
  BY <1>3 DEF MarkSyncing, FinishFolder, FailFolder, MeetExpiredToken, RefreshToken, FailRefresh
<1>4. CASE LoopExit \/ LoopWake \/ LoopSleepEnds \/ QuotaBackoffElapses
  BY <1>4 DEF LoopExit, LoopWake, LoopSleepEnds, QuotaBackoffElapses
<1>5. CASE ServeCommand
  BY <1>5 DEF ServeCommand, AddFolder, RemoveFolder, PauseFolder, ResumeFolder,
              SetAuthenticated, TriggerCommand
<1>6. CASE StartAsync \/ Stop \/ Shutdown
  BY <1>6 DEF StartAsync, Stop, Shutdown, StopJoinLoop, StopWaitFutures, DestroyIpcServer,
              DestroyEngine, notMain
<1>7. CASE UNCHANGED vars
  BY <1>7 DEF vars
<1> QED
  BY <1>1, <1>2, <1>3, <1>4, <1>5, <1>6, <1>7 DEF Next, TriggerSync, RunFolder, SyncLoop

\* Every step of the threads is a step of the queueing service, or none of it.
LEMMA StepRefines ==
    ASSUME TypeOK, TypeOK', ExclusiveRun, [Next]_vars
    PROVE  [Service!Next]_Service!vars
<1> DEFINE H == {t \in Runners : Holding(t)}
           L == {f \in Folders : rows[f] \in Live}
<1> USE DEF Service!Next, Service!vars, Service!surroundings
<1>1. /\ \A s, t \in H : s = t
      /\ syncing <=> H # {}
  BY DEF ExclusiveRun
<1>2. HoldersStep
  BY NextHolders
<1>3. H = Holders /\ H' = Holders'
  BY DEF Holders
<1>4. ASSUME syncing' = syncing
      PROVE  H' = H
  BY <1>1, <1>2, <1>3, <1>4 DEF HoldersStep
<1>5. ASSUME UNCHANGED <<authenticated, rows>>
      PROVE  authenticated' = authenticated /\ L' = L
  BY <1>5
<1>6. ASSUME NEW t \in Runners, FindBusy(t)
      PROVE  [Service!Next]_Service!vars
  <2>1. /\ owed' = owed \union Asked(req[t]) /\ syncing /\ syncing' = syncing
        /\ UNCHANGED <<authenticated, rows>>
    BY <1>6 DEF FindBusy, gateVars, engineVars
  <2>2. Asked(req[t]) \in SUBSET Folders
    BY DEF TypeOK, Requests, Asked
  <2>3. Service!Queue(Asked(req[t]))
    BY <2>1, <1>1, <1>4, <1>5 DEF Service!Queue
  <2> QED
    BY <2>2, <2>3
<1>7. ASSUME NEW t \in Runners, TakeSnapshot(t)
      PROVE  [Service!Next]_Service!vars
  <2> DEFINE S == Asked(req[t]) \ Visits(t, Live)
  <2>1. /\ owed' = owed \ S /\ syncing' = syncing /\ t \in H
        /\ UNCHANGED <<authenticated, rows>>
    BY <1>7 DEF TakeSnapshot, Settle, Holding, Inside, engineVars
  <2>2. S \in SUBSET Folders /\ S \intersect L = {}
    BY DEF TypeOK, Requests, Asked, Visits
  <2>3. Service!PassOver(S)
    BY <2>1, <2>2, <1>4, <1>5 DEF Service!PassOver
  <2> QED
    BY <2>2, <2>3
<1>8. ASSUME NEW t \in Runners, NEW f \in Folders, StartFolder(t, f)
      PROVE  [Service!Next]_Service!vars
  <2>1. /\ owed' = owed \ {f} /\ syncing' = syncing /\ t \in H
        /\ UNCHANGED <<authenticated, rows>>
    BY <1>8 DEF StartFolder, Settle, Holding, Inside, engineVars
  <2>2. Service!Serve(f)
    BY <2>1, <1>4, <1>5 DEF Service!Serve
  <2> QED
    BY <2>2
<1>9. ASSUME NEW t \in Runners, CheckAuth(t)
      PROVE  [Service!Next]_Service!vars
  <2>1. /\ t \in H /\ UNCHANGED <<authenticated, rows>>
        /\ owed' = owed \/ Service!GiveUp
        /\ authenticated => owed' = owed /\ syncing' = syncing
        /\ ~authenticated => ~syncing'
    BY <1>9 DEF CheckAuth, LoopGivesUp, Settle, Holding, Inside, engineVars, owedVars,
                Service!GiveUp
  <2>2. CASE authenticated
    BY <2>1, <2>2, <1>4, <1>5
  <2>3. CASE ~authenticated
    <3>1. H' = H \ {t}
      BY <2>1, <2>3, <1>1, <1>2, <1>3 DEF HoldersStep
    <3>2. Service!Release(t)
      BY <2>1, <3>1, <1>5 DEF Service!Release
    <3> QED
      BY <3>2
  <2> QED
    BY <2>2, <2>3
<1>10. CASE LoopIterate
  <2>1. /\ UNCHANGED <<authenticated, rows>> /\ syncing' = syncing
        /\ owed' = owed \/ Service!GiveUp
    BY <1>10 DEF LoopIterate, LoopGivesUp, Settle, engineVars, gateVars, owedVars, Service!GiveUp
  <2> QED
    BY <2>1, <1>4, <1>5 DEF Service!Forget
<1>11. CASE owed' = owed /\ syncing' = syncing
  <2>1. authenticated' \in BOOLEAN /\ L' \in SUBSET Folders
    BY DEF TypeOK
  <2> QED
    BY <1>11, <2>1, <1>4 DEF Service!SurroundingsChange
<1>12. CASE owed' = owed /\ UNCHANGED <<authenticated, rows>>
  <2>1. CASE Holders' = Holders
    BY <1>3, <1>5, <1>12, <2>1
  <2>2. ASSUME NEW t \in Runners, ~syncing, Holders' = Holders \union {t}
        PROVE  Service!Acquire(t)
    BY <1>1, <1>3, <1>5, <1>12, <2>2 DEF Service!Acquire
  <2>3. ASSUME NEW t \in Holders, Holders' = Holders \ {t}
        PROVE  t \in Runners /\ Service!Release(t)
    BY <1>3, <1>5, <1>12, <2>3 DEF Service!Release
  <2> QED
    BY <1>2, <2>1, <2>2, <2>3 DEF HoldersStep
<1> QED
  BY NextOwed, <1>6, <1>7, <1>8, <1>9, <1>10, <1>11, <1>12

\* triggerSync and its callers implement the abstract service: one run at a time;
\* a request is queued only while a run goes on, and it is dropped only by a run
\* that starts with the folder or finds it paused or removed, or by a loop that
\* finds nobody signed in.
THEOREM GateImplementsService == Spec => ImplementsService
<1>1. Init => Service!Init
  BY DEF Init, Service!Init, Holding, Inside
<1>2. TypeOK /\ TypeOK' /\ ExclusiveRun /\ [Next]_vars => [Service!Next]_Service!vars
  BY StepRefines
<1> QED
  BY <1>1, <1>2, TypeCorrect, RunsExclude, PTL
     DEF Spec, Service!Spec, ImplementsService

-----------------------------------------------------------------------------
(* The shutdown leaves no thread behind.                                   *)

\* Each stage of the shutdown has waited for one more group of threads, and the
\* futures cover every background sync that has not ended.
ShutdownInv ==
    /\ pc[Loop] # "out"
    /\ \A t \in Runners \ {Loop} : pc[t] \notin {"top", "sleep", "exited"}
    /\ \A s \in Slots \ futures : pc[s] = "out"
    /\ mainPc \in {"stopFutures", "destroyIpc", "destroyEngine", "exit"} => pc[Loop] = "exited"
    /\ mainPc \in {"destroyIpc", "destroyEngine", "exit"} => \A s \in Slots : pc[s] = "out"
    /\ mainPc \in {"destroyEngine", "exit"} => pc[Async] = "out"
    /\ alive <=> mainPc # "exit"

Idle == {"out", "top", "sleep", "exited"}    \* not in triggerSync

\* A step of triggerSync moves one thread that is in it, and when it leaves, the
\* thread is where its caller continues.
LEMMA TriggerMoves ==
    ASSUME NEW t \in Runners, TriggerSync(t) \/ HitQuota(t)
    PROVE  /\ UNCHANGED <<alive, futures, mainPc>>
           /\ \/ pc' = pc
              \/ /\ pc[t] \notin Idle
                 /\ \E where : /\ where \notin Idle \/ where = AfterSync(t)
                               /\ Goto(t, where)
<1> USE DEF engineVars, runnerVars, notRows, Idle
<1>1. ASSUME Enter(t) \/ FindBusy(t) \/ LeaveNote(t) \/ CheckAuth(t) \/ TakeSnapshot(t) \/ Leave(t)
      PROVE  /\ UNCHANGED <<alive, futures, mainPc>>
             /\ pc[t] \notin Idle
             /\ \E where \in {"held", "refused", "authed", "each", AfterSync(t)} : Goto(t, where)
  BY <1>1 DEF Enter, FindBusy, LeaveNote, CheckAuth, TakeSnapshot, Leave
<1>2. ASSUME \/ \E f \in Folders : StartFolder(t, f)
             \/ MarkSyncing(t) \/ FinishFolder(t) \/ FailFolder(t)
             \/ MeetExpiredToken(t) \/ RefreshToken(t) \/ FailRefresh(t)
      PROVE  /\ UNCHANGED <<alive, futures, mainPc>>
             /\ pc[t] \notin Idle
             /\ \E where \in {"scan", "transfer", "each", "refresh"} : Goto(t, where)
  BY <1>2 DEF StartFolder, MarkSyncing, FinishFolder, FailFolder, MeetExpiredToken,
              RefreshToken, FailRefresh, EndFolder
<1>3. ASSUME HitQuota(t) \/ \E f \in Folders : SkipForQuota(t, f)
      PROVE  UNCHANGED <<alive, futures, mainPc, pc>>
  BY <1>3 DEF HitQuota, SkipForQuota
<1> QED
  BY <1>1, <1>2, <1>3 DEF TriggerSync, RunFolder

LEMMA ShutdownInductive == ASSUME TypeOK, ShutdownInv, [Next]_vars PROVE ShutdownInv'
<1> USE DEF ShutdownInv
<1>1. ASSUME NEW t \in Runners, TriggerSync(t) \/ HitQuota(t)
      PROVE  ShutdownInv'
  <2>1. CASE UNCHANGED <<alive, futures, mainPc, pc>>
    BY <2>1
  <2>2. ASSUME NEW where, where \notin Idle \/ where = AfterSync(t), Goto(t, where),
               pc[t] \notin Idle, UNCHANGED <<alive, futures, mainPc>>
        PROVE  ShutdownInv'
    BY <2>2 DEF TypeOK, Goto, AfterSync, Idle, Runners
  <2> QED
    BY <1>1, <2>1, <2>2, TriggerMoves
<1>2. CASE SyncLoop
  <2>1. /\ UNCHANGED <<alive, futures, mainPc>> /\ pc[Loop] \in {"top", "sleep"}
        /\ \E where \in {"call", "sleep", "exited", "top"} : Goto(Loop, where)
    BY <1>2 DEF SyncLoop, LoopIterate, LoopExit, LoopWake, LoopSleepEnds, engineVars
  <2> QED
    BY <2>1 DEF TypeOK, Goto, Runners
<1>3. ASSUME NEW f \in Folders, AddFolder(f) \/ ResumeFolder(f)
      PROVE  ShutdownInv'
  <2>1. mainPc = "serve" /\ mainPc' = mainPc /\ alive' = alive
    BY <1>3 DEF AddFolder, ResumeFolder, Command, notLaunch
  <2>2. CASE Launch(f)
    BY <2>1, <2>2 DEF TypeOK, Launch, Goto, Runners
  <2>3. CASE UNCHANGED <<pc, futures>>
    BY <2>1, <2>3
  <2> QED
    BY <1>3, <2>2, <2>3 DEF AddFolder, ResumeFolder, LaunchIfSignedIn
<1>4. ASSUME NEW f \in Folders, RemoveFolder(f) \/ PauseFolder(f)
      PROVE  ShutdownInv'
  BY <1>4 DEF RemoveFolder, PauseFolder, notLaunch, runnerVars
<1>5. ASSUME NEW b \in BOOLEAN, SetAuthenticated(b)
      PROVE  ShutdownInv'
  BY <1>5 DEF SetAuthenticated, runnerVars
<1>6. ASSUME NEW r \in Requests, TriggerCommand(r)
      PROVE  ShutdownInv'
  BY <1>6 DEF TriggerCommand, Command, runnerVars
<1>7. CASE StartAsync
  BY <1>7 DEF TypeOK, StartAsync, Goto, Runners
<1>8. CASE Stop
  BY <1>8 DEF Stop, notMain, runnerVars
<1>9. CASE StopJoinLoop
  BY <1>9 DEF StopJoinLoop, notMain, runnerVars
<1>10. CASE StopWaitFutures
  BY <1>10 DEF StopWaitFutures, notMain, runnerVars
<1>11. CASE DestroyIpcServer
  BY <1>11 DEF DestroyIpcServer, notMain, runnerVars
<1>12. CASE DestroyEngine
  BY <1>12 DEF DestroyEngine, runnerVars
<1>13. CASE QuotaBackoffElapses \/ UNCHANGED vars
  BY <1>13 DEF QuotaBackoffElapses, vars, engineVars, runnerVars
<1> QED
  BY <1>1, <1>2, <1>3, <1>4, <1>5, <1>6, <1>7, <1>8, <1>9, <1>10, <1>11, <1>12, <1>13
     DEF Next, ServeCommand, Shutdown

\* No thread can reach the engine once it is destroyed, however the shutdown
\* interleaves with the syncs that are still running.
THEOREM DestroyIsSafe == Spec => []NoUseAfterDestroy
<1>1. Init => ShutdownInv
  BY DEF Init, ShutdownInv, Runners
<1>2. TypeOK /\ ShutdownInv /\ [Next]_vars => ShutdownInv'
  BY ShutdownInductive
<1>3. ShutdownInv => NoUseAfterDestroy
  BY DEF ShutdownInv, NoUseAfterDestroy, Runners
<1> QED
  BY <1>1, <1>2, <1>3, TypeCorrect, PTL DEF Spec

-----------------------------------------------------------------------------
(* A pause outside a run holds.                                            *)

\* A folder paused outside a run stays out of every work list: that is why no
\* later status write can reach its row.
PauseInv ==
    \A f \in userPaused \ midRun :
        rows[f] = "paused" /\ \A t \in Runners : f \notin todo[t] /\ f # cur[t]

LEMMA PauseInductive == ASSUME TypeOK, PauseInv, [Next]_vars PROVE PauseInv'
<1> USE DEF PauseInv, TypeOK, pauseVars
<1>1. ASSUME NEW t \in Runners, TakeSnapshot(t)
      PROVE  PauseInv'
  BY <1>1 DEF TakeSnapshot, Visits, Live, engineVars
<1>2. ASSUME NEW t \in Runners, NEW f \in Folders, SkipForQuota(t, f) \/ StartFolder(t, f)
      PROVE  PauseInv'
  BY <1>2 DEF SkipForQuota, StartFolder, engineVars
<1>3. ASSUME NEW t \in Runners,
             MarkSyncing(t) \/ FinishFolder(t) \/ FailFolder(t) \/ MeetExpiredToken(t)
      PROVE  PauseInv'
  <2>1. /\ UNCHANGED <<userPaused, midRun, todo>>
        /\ \E s : WriteStatus(cur[t], s)
        /\ cur' = cur \/ cur' = [cur EXCEPT ![t] = NoFolder]
    BY <1>3 DEF MarkSyncing, FinishFolder, FailFolder, MeetExpiredToken, EndFolder
  <2> QED
    BY <2>1 DEF WriteStatus
<1>4. ASSUME NEW t \in Runners, FailRefresh(t)
      PROVE  PauseInv'
  BY <1>4 DEF FailRefresh, EndFolder
<1>5. ASSUME NEW f \in Folders, AddFolder(f) \/ ResumeFolder(f)
      PROVE  PauseInv'
  <2>1. UNCHANGED <<todo, cur>> /\ rows' = [rows EXCEPT ![f] = "idle"]
    BY <1>5 DEF AddFolder, ResumeFolder, notLaunchRunner
  <2>2. \/ rows[f] = "absent" /\ midRun' = midRun /\ userPaused' = userPaused
        \/ midRun' = midRun \ {f} /\ userPaused' = userPaused \ {f}
    BY <1>5 DEF AddFolder, ResumeFolder
  <2> QED
    BY <2>1, <2>2
<1>6. ASSUME NEW f \in Folders, RemoveFolder(f)
      PROVE  PauseInv'
  BY <1>6 DEF RemoveFolder, runnerVars
<1>7. ASSUME NEW f \in Folders, PauseFolder(f)
      PROVE  PauseInv'
  BY <1>7 DEF PauseFolder, InSomeRun, runnerVars
<1>8. ASSUME UNCHANGED <<rows, todo, cur, userPaused, midRun>>
      PROVE  PauseInv'
  BY <1>8
<1>9. ASSUME NEW t \in Runners,
             \/ Enter(t) \/ FindBusy(t) \/ LeaveNote(t) \/ CheckAuth(t) \/ Leave(t)
             \/ RefreshToken(t) \/ HitQuota(t)
      PROVE  UNCHANGED <<rows, todo, cur, userPaused, midRun>>
  BY <1>9 DEF Enter, FindBusy, LeaveNote, CheckAuth, Leave, RefreshToken, HitQuota,
              engineVars, runnerVars
<1>10. ASSUME SyncLoop \/ QuotaBackoffElapses \/ UNCHANGED vars
       PROVE  UNCHANGED <<rows, todo, cur, userPaused, midRun>>
  BY <1>10 DEF SyncLoop, LoopIterate, LoopExit, LoopWake, LoopSleepEnds,
               QuotaBackoffElapses, vars, engineVars, runnerVars
<1>11. ASSUME NEW b \in BOOLEAN, SetAuthenticated(b)
       PROVE  UNCHANGED <<rows, todo, cur, userPaused, midRun>>
  BY <1>11 DEF SetAuthenticated, runnerVars
<1>12. ASSUME NEW r \in Requests, TriggerCommand(r)
       PROVE  UNCHANGED <<rows, todo, cur, userPaused, midRun>>
  BY <1>12 DEF TriggerCommand, runnerVars
<1>13. ASSUME StartAsync \/ Stop \/ Shutdown
       PROVE  UNCHANGED <<rows, todo, cur, userPaused, midRun>>
  BY <1>13 DEF StartAsync, Stop, Shutdown, StopJoinLoop, StopWaitFutures, DestroyIpcServer,
               DestroyEngine, notMain, notLaunchRunner, runnerVars
<1> HIDE DEF PauseInv
<1> QED
  BY <1>1, <1>2, <1>3, <1>4, <1>5, <1>6, <1>7, <1>8, <1>9, <1>10, <1>11, <1>12, <1>13
     DEF Next, TriggerSync, RunFolder, ServeCommand

\* A pause issued while no run has the folder in its snapshot stays in force.
THEOREM PauseOutsideRunIsKept == Spec => []PauseOutsideRunHolds
<1>1. Init => PauseInv
  BY DEF Init, PauseInv
<1>2. TypeOK /\ PauseInv /\ [Next]_vars => PauseInv'
  BY PauseInductive
<1>3. PauseInv => PauseOutsideRunHolds
  BY DEF PauseInv, PauseOutsideRunHolds
<1> QED
  BY <1>1, <1>2, <1>3, TypeCorrect, PTL DEF Spec
=============================================================================
