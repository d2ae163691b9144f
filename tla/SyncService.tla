----------------------------- MODULE SyncService -----------------------------
(***************************************************************************)
(* What the rest of BaluDesk may rely on when it calls                     *)
(* SyncEngine::triggerSync: at most one caller runs a synchronisation at a *)
(* time, and a request made while one is running is not refused, it is     *)
(* queued (sync_engine.h, "Sync queuing: if a sync is requested while one  *)
(* is running, queue it").  A queued request is a set of folders that are  *)
(* owed a run.  A folder ceases to be owed when a running synchronisation  *)
(* starts with it, or finds it paused or removed, and all of them when     *)
(* nobody is signed in; nothing else may drop a request.                   *)
(***************************************************************************)
CONSTANTS
    Runners,   \* the threads that call triggerSync
    Folders    \* the sync folders

VARIABLES
    holders,   \* the runners inside a synchronisation run
    owed,      \* the folders with a queued, not yet started request
    signedIn,  \* whether there is anybody to synchronise for
    live       \* the folders neither paused nor removed

vars == <<holders, owed, signedIn, live>>
surroundings == <<signedIn, live>>

TypeOK ==
    /\ holders \subseteq Runners
    /\ owed \subseteq Folders
    /\ signedIn \in BOOLEAN /\ live \subseteq Folders

Init ==
    /\ holders = {}
    /\ owed = {}
    /\ signedIn \in BOOLEAN /\ live \subseteq Folders

\* A run begins only when no run is going on.
Acquire(t) ==
    /\ holders = {}
    /\ holders' = {t}
    /\ UNCHANGED <<owed, surroundings>>

\* A request that finds a run going on is queued: its folders become owed.
Queue(S) ==
    /\ holders # {}
    /\ owed' = owed \union S
    /\ UNCHANGED <<holders, surroundings>>

\* The run going on starts with folder f; what was owed to it is settled.
Serve(f) ==
    /\ holders # {}
    /\ owed' = owed \ {f}
    /\ UNCHANGED <<holders, surroundings>>

\* The run going on finds folders S paused or removed.
PassOver(S) ==
    /\ holders # {} /\ S \intersect live = {}
    /\ owed' = owed \ S
    /\ UNCHANGED <<holders, surroundings>>

GiveUp == ~signedIn /\ owed' = {}

\* A run that finds nobody signed in may end so.
Release(t) ==
    /\ t \in holders
    /\ holders' = holders \ {t}
    /\ UNCHANGED owed \/ GiveUp
    /\ UNCHANGED surroundings

Forget ==
    /\ GiveUp
    /\ UNCHANGED <<holders, surroundings>>

\* Folders and accounts come and go, and no request with them.
SurroundingsChange ==
    /\ signedIn' \in BOOLEAN /\ live' \in SUBSET Folders
    /\ UNCHANGED <<holders, owed>>

Next ==
    \/ \E t \in Runners : Acquire(t) \/ Release(t)
    \/ \E S \in SUBSET Folders : Queue(S) \/ PassOver(S)
    \/ \E f \in Folders : Serve(f)
    \/ Forget \/ SurroundingsChange

Spec == Init /\ [][Next]_vars
=============================================================================
