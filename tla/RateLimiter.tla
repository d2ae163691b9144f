----------------------------- MODULE RateLimiter -----------------------------
(***************************************************************************)
(* The sliding-window limiter every upload asks for a slot                 *)
(* (backend/src/api/rate_limiter.cpp), and the uploads that ask it         *)
(* (uploadFile and uploadFileBatch of backend/src/api/http_client.cpp).    *)
(*                                                                         *)
(* mutex_ is held from the entry of acquire() to its return or its wait,   *)
(* but steady_clock::now() is read several times on the way, and the time  *)
(* goes on between two readings.  So the stretch is split at the readings, *)
(* and holder says who is in it.  timestamps_ is a queue; here it is what  *)
(* follows the first "purged" entries of "granted", all the slots given.   *)
(***************************************************************************)
EXTENDS Integers, Sequences, FiniteSets

CONSTANTS
    Threads,      \* the upload workers
    NoThread,     \* nobody holds mutex_
    maxRequests,  \* maxRequests_
    window,       \* window_
    timeout,      \* the timeout of acquire()
    MaxTime,      \* bound: the clock stops here
    MaxCalls      \* bound: uploads begun in a behaviour

ASSUME LimiterAssumption ==
    /\ NoThread \notin Threads
    /\ maxRequests \in Nat \ {0}
    /\ window \in Nat /\ timeout \in Nat
    /\ MaxTime \in Nat /\ MaxCalls \in Nat

VARIABLES
    clock,      \* steady_clock
    granted,    \* the times of all slots given: the queue and its past
    purged,     \* how many of them are no longer in timestamps_
    holder,     \* who holds mutex_
    pc,         \* where each thread is
    deadline,   \* acquire()'s deadline, per thread
    waitUntil,  \* acquire()'s waitUntil, per thread
    calls       \* bound only

timeVars == <<deadline, waitUntil>>
vars == <<clock, granted, purged, holder, pc, timeVars, calls>>

Inside == {"purge", "test", "push", "full", "last", "lastTest"}
Outside == {"idle", "lock", "waiting", "relock", "granted", "refused"}

TypeOK ==
    /\ clock \in Nat
    /\ granted \in Seq(Nat)
    /\ purged \in 0..Len(granted)
    /\ holder \in Threads \union {NoThread}
    /\ pc \in [Threads -> Inside \union Outside]
    /\ deadline \in [Threads -> Nat] /\ waitUntil \in [Threads -> Nat]
    /\ calls \in Nat

Init ==
    /\ clock = 0
    /\ granted = << >> /\ purged = 0
    /\ holder = NoThread
    /\ pc = [t \in Threads |-> "idle"]
    /\ deadline = [t \in Threads |-> 0] /\ waitUntil = [t \in Threads |-> 0]
    /\ calls = 0

Goto(t, where) == pc' = [pc EXCEPT ![t] = where]
InQueue == Len(granted) - purged
Sooner(a, b) == IF a < b THEN a ELSE b

-----------------------------------------------------------------------------
Tick ==
    /\ clock < MaxTime
    /\ clock' = clock + 1
    /\ UNCHANGED <<granted, purged, holder, pc, timeVars, calls>>

\* An upload begins and calls acquire().
Call(t) ==
    /\ pc[t] = "idle" /\ calls < MaxCalls
    /\ calls' = calls + 1
    /\ Goto(t, "lock")
    /\ UNCHANGED <<clock, granted, purged, holder, timeVars>>

\* The deadline counts from the moment the mutex was obtained.
Enter(t) ==
    /\ pc[t] = "lock" /\ holder = NoThread
    /\ holder' = t
    /\ deadline' = [deadline EXCEPT ![t] = clock + timeout]
    /\ Goto(t, "purge")
    /\ UNCHANGED <<clock, granted, purged, waitUntil, calls>>

\* Mutant of Expired: a slot is free again when half the window is over.
ExpiredEarly(i) == granted[i] + (window \div 2) < clock

\* timestamps_[i] < now - window_.
Expired(i) == granted[i] + window < clock

\* The front of the queue goes while it has expired.
PurgeExpired ==
    \E k \in purged..Len(granted) :
        /\ \A i \in (purged + 1)..k : Expired(i)
        /\ k < Len(granted) => ~Expired(k + 1)
        /\ purged' = k

\* purgeExpired(), at the top of the loop or after the deadline.
Purge(t) ==
    /\ pc[t] \in {"purge", "last"}
    /\ PurgeExpired
    /\ Goto(t, IF pc[t] = "purge" THEN "test" ELSE "lastTest")
    /\ UNCHANGED <<clock, granted, holder, timeVars, calls>>

HasRoom == InQueue < maxRequests

FindRoom(t) ==
    /\ pc[t] \in {"test", "lastTest"} /\ HasRoom
    /\ Goto(t, "push")
    /\ UNCHANGED <<clock, granted, purged, holder, timeVars, calls>>

\* timestamps_.push_back(now()); return true.
Push(t) ==
    /\ pc[t] = "push"
    /\ granted' = Append(granted, clock)
    /\ holder' = NoThread
    /\ Goto(t, "granted")
    /\ UNCHANGED <<clock, purged, timeVars, calls>>

\* waitUntil = min(expiry of the oldest, deadline).
FindFull(t) ==
    /\ pc[t] = "test" /\ ~HasRoom
    /\ waitUntil' = [waitUntil EXCEPT
                        ![t] = Sooner(granted[purged + 1] + window, deadline[t])]
    /\ Goto(t, "full")
    /\ UNCHANGED <<clock, granted, purged, holder, deadline, calls>>

\* return false.
Refuse(t) ==
    /\ holder' = NoThread
    /\ Goto(t, "refused")

\* Mutant of GiveUp: the thread that has nothing to wait for keeps the mutex.
GiveUpLocked(t) ==
    /\ pc[t] = "full" /\ waitUntil[t] <= clock
    /\ Goto(t, "refused")
    /\ UNCHANGED <<clock, granted, purged, holder, timeVars, calls>>

\* if (waitUntil <= now()) return false, "Already past deadline".
GiveUp(t) ==
    /\ pc[t] = "full" /\ waitUntil[t] <= clock
    /\ Refuse(t)
    /\ UNCHANGED <<clock, granted, purged, timeVars, calls>>

\* cv_.wait_until: nobody ever notifies cv_.
Wait(t) ==
    /\ pc[t] = "full" /\ waitUntil[t] > clock
    /\ holder' = NoThread
    /\ Goto(t, "waiting")
    /\ UNCHANGED <<clock, granted, purged, timeVars, calls>>

\* The time is over.
WakeUp(t) ==
    /\ pc[t] = "waiting" /\ waitUntil[t] <= clock
    /\ Goto(t, "relock")
    /\ UNCHANGED <<clock, granted, purged, holder, timeVars, calls>>

SpuriousWakeup(t) ==
    /\ pc[t] = "waiting" /\ waitUntil[t] > clock
    /\ Goto(t, "relock")
    /\ UNCHANGED <<clock, granted, purged, holder, timeVars, calls>>

\* wait_until has the mutex again; if (now() >= deadline) there is one last look.
Relock(t) ==
    /\ pc[t] = "relock" /\ holder = NoThread
    /\ holder' = t
    /\ Goto(t, IF clock >= deadline[t] THEN "last" ELSE "purge")
    /\ UNCHANGED <<clock, granted, purged, timeVars, calls>>

GiveUpAtLast(t) ==
    /\ pc[t] = "lastTest" /\ ~HasRoom
    /\ Refuse(t)
    /\ UNCHANGED <<clock, granted, purged, timeVars, calls>>

\* uploadFile and uploadFileBatch send the request, whatever acquire() returned.
Send(t) ==
    /\ pc[t] \in {"granted", "refused"}
    /\ Goto(t, "idle")
    /\ deadline' = [deadline EXCEPT ![t] = 0] /\ waitUntil' = [waitUntil EXCEPT ![t] = 0]
    /\ UNCHANGED <<clock, granted, purged, holder, calls>>

-----------------------------------------------------------------------------
Acquire(t) ==
    \/ Enter(t) \/ Purge(t) \/ FindRoom(t) \/ Push(t)
    \/ FindFull(t) \/ GiveUp(t) \/ Wait(t)
    \/ WakeUp(t) \/ Relock(t) \/ GiveUpAtLast(t)

Next ==
    \/ Tick
    \/ \E t \in Threads : Call(t) \/ Acquire(t) \/ SpuriousWakeup(t) \/ Send(t)

\* Time passes, and a thread that can go on does.
Fairness ==
    /\ WF_vars(Tick)
    /\ \A t \in Threads : WF_vars(Acquire(t)) /\ WF_vars(Send(t))

Spec == Init /\ [][Next]_vars
FairSpec == Spec /\ Fairness

-----------------------------------------------------------------------------
(* Properties.                                                             *)

\* "Maximum requests allowed in the time window": acquire() never gives more than
\* maxRequests_ slots in any stretch of length window_, though the clock moves
\* between purging, testing and pushing, and other threads take slots during a wait.
SlotsSpread ==
    \A i \in 1..Len(granted) :
        i + maxRequests <= Len(granted) => granted[i] + window < granted[i + maxRequests]

\* "acquire() blocks until a slot is available" or the time is up: a thread whose
\* deadline the clock reaches comes out of acquire().
AcquireReturns ==
    \A t \in Threads :
        pc[t] = "purge" /\ deadline[t] <= MaxTime ~> pc[t] \in {"granted", "refused"}
=============================================================================
