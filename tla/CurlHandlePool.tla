--------------------------- MODULE CurlHandlePool ---------------------------
(***************************************************************************)
(* The pool of CURL handles every HTTP request of the backend draws from   *)
(* (backend/src/api/curl_handle_pool.cpp).  acquire() hands out a free     *)
(* handle, creates one while fewer than maxHandles_ exist, and otherwise   *)
(* waits on cv_; ScopedHandle's destructor calls release(), on every path  *)
(* out of a request.                                                       *)
(*                                                                         *)
(* mutex_ makes each stretch of acquire() and release() up to a wait or an *)
(* end one step.  The order of the free handles, a stack in the code, is   *)
(* left open, and so is what resetHandle sets.                             *)
(***************************************************************************)
EXTENDS Naturals, FiniteSets

CONSTANTS
    Threads,     \* the threads that send requests
    maxHandles,  \* maxHandles_
    NoHandle,    \* a thread that has none
    MaxCalls     \* bound: requests sent in a behaviour

ASSUME PoolAssumption ==
    /\ IsFiniteSet(Threads)
    /\ maxHandles \in Nat
    /\ NoHandle \notin Nat
    /\ MaxCalls \in Nat

VARIABLES
    totalCreated,  \* totalCreated_: the handles are 1..totalCreated
    available,     \* available_
    pc,            \* where each thread is
    held,          \* the handle in each thread's ScopedHandle
    calls          \* bound only

vars == <<totalCreated, available, pc, held, calls>>

TypeOK ==
    /\ totalCreated \in Nat
    /\ available \subseteq 1..totalCreated
    /\ pc \in [Threads -> {"idle", "enter", "waiting", "woken", "using"}]
    /\ held \in [Threads -> Nat \union {NoHandle}]
    /\ calls \in Nat

Init ==
    /\ totalCreated = 0 /\ available = {}
    /\ pc = [t \in Threads |-> "idle"]
    /\ held = [t \in Threads |-> NoHandle]
    /\ calls = 0

At(where) == {t \in Threads : pc[t] = where}
Goto(t, where) == pc' = [pc EXCEPT ![t] = where]

-----------------------------------------------------------------------------
\* A request begins and calls acquire().
Call(t) ==
    /\ pc[t] = "idle" /\ calls < MaxCalls
    /\ calls' = calls + 1
    /\ Goto(t, "enter")
    /\ UNCHANGED <<totalCreated, available, held>>

\* Mutant of Take: the handle is read off the pool but stays there.
TakeAndLeave(t, h) ==
    /\ h \in available
    /\ available' = available
    /\ held' = [held EXCEPT ![t] = h]
    /\ Goto(t, "using")

Take(t, h) ==
    /\ h \in available
    /\ available' = available \ {h}
    /\ held' = [held EXCEPT ![t] = h]
    /\ Goto(t, "using")

Reuse(t) ==
    /\ pc[t] = "enter"
    /\ \E h \in available : Take(t, h)
    /\ UNCHANGED <<totalCreated, calls>>

Create(t) ==
    /\ pc[t] = "enter"
    /\ available = {} /\ totalCreated < maxHandles
    /\ totalCreated' = totalCreated + 1
    /\ held' = [held EXCEPT ![t] = totalCreated']
    /\ Goto(t, "using")
    /\ UNCHANGED <<available, calls>>

\* curl_easy_init returned nothing: acquire() throws, and nothing is counted.
CreateFails(t) ==
    /\ pc[t] = "enter"
    /\ available = {} /\ totalCreated < maxHandles
    /\ Goto(t, "idle")
    /\ UNCHANGED <<totalCreated, available, held, calls>>

\* cv_.wait: the predicate is false, the thread sleeps without the mutex.
Wait(t) ==
    /\ pc[t] = "enter"
    /\ available = {} /\ totalCreated >= maxHandles
    /\ Goto(t, "waiting")
    /\ UNCHANGED <<totalCreated, available, held, calls>>

\* A condition variable may wake a thread that nobody notified.
SpuriousWakeup(t) ==
    /\ pc[t] = "waiting"
    /\ Goto(t, "woken")
    /\ UNCHANGED <<totalCreated, available, held, calls>>

\* A woken thread has the mutex again: a thread that came by in between may have
\* taken the handle, and then it sleeps again.
Recheck(t) ==
    /\ pc[t] = "woken"
    /\ IF available = {}
       THEN Goto(t, "waiting") /\ UNCHANGED <<available, held>>
       ELSE \E h \in available : Take(t, h)
    /\ UNCHANGED <<totalCreated, calls>>

\* Mutant of NotifyOne: nobody is woken.
NotifyNobody(t) == Goto(t, "idle")

\* cv_.notify_one() as t leaves: one of the sleepers wakes up, if there is one.
NotifyOne(t) ==
    \/ At("waiting") = {} /\ Goto(t, "idle")
    \/ \E w \in At("waiting") : pc' = [pc EXCEPT ![t] = "idle", ![w] = "woken"]

\* ~ScopedHandle: release().
Release(t) ==
    /\ pc[t] = "using"
    /\ available' = available \union {held[t]}
    /\ held' = [held EXCEPT ![t] = NoHandle]
    /\ NotifyOne(t)
    /\ UNCHANGED <<totalCreated, calls>>

-----------------------------------------------------------------------------
Acquire(t) == Reuse(t) \/ Create(t) \/ CreateFails(t) \/ Wait(t) \/ Recheck(t)

Next == \E t \in Threads : Call(t) \/ Acquire(t) \/ SpuriousWakeup(t) \/ Release(t)

\* A thread that is not asleep goes on, and a request ends: connectTimeout_ and the
\* low-speed limit see to that.
Fairness == \A t \in Threads : WF_vars(Acquire(t)) /\ WF_vars(Release(t))

Spec == Init /\ [][Next]_vars
FairSpec == Spec /\ Fairness

-----------------------------------------------------------------------------
(* Properties.                                                             *)

\* No handle is lost, and none is used by two requests at once: every handle ever
\* created is either free or held by exactly one thread, and there are never more
\* than maxHandles_.
HandlesConserved ==
    /\ totalCreated <= maxHandles
    /\ 1..totalCreated = available \union {held[t] : t \in At("using")}
    /\ \A t \in At("using") : held[t] \notin available
    /\ \A s, t \in At("using") : held[s] = held[t] => s = t

\* No wakeup is lost: while threads sleep in acquire(), there are at least as many
\* woken ones under way as there are free handles, so no free handle is left over
\* beside a sleeper, whoever comes by and takes one in between.
NoLostWakeup ==
    At("waiting") # {} => Cardinality(available) <= Cardinality(At("woken"))

\* Every acquire() returns or throws in the end, as long as no more than a given
\* number of requests is made.
AcquireReturns ==
    \A t \in Threads : pc[t] = "enter" ~> pc[t] \in {"using", "idle"}
=============================================================================
