--------------------------- MODULE RateLimiterProof ---------------------------
(***************************************************************************)
(* The rate limiter never gives more than maxRequests_ slots in a stretch  *)
(* of length window_, for any number of threads and any settings.          *)
(*                                                                         *)
(* SlotsSpread is not inductive.  A push keeps it because the slot given   *)
(* maxRequests_ slots earlier is no longer in the queue (QueueInv), what   *)
(* left the queue had expired and stays expired, and the room found before *)
(* the push is still there at the push: nobody else held the mutex.        *)
(***************************************************************************)
EXTENDS RateLimiter, TLAPS

MutexInv == \A t \in Threads : pc[t] \in Inside => holder = t

QueueInv ==
    /\ \A i \in 1..purged : granted[i] + window < clock
    /\ \A t \in Threads : pc[t] = "push" => HasRoom

IInv == TypeOK /\ MutexInv /\ QueueInv /\ SlotsSpread

LEMMA InvInit == Init => IInv
<1> SUFFICES ASSUME Init PROVE IInv
  OBVIOUS
<1>1. TypeOK
  <2>1. granted \in Seq(Nat) /\ Len(granted) = 0
    BY DEF Init
  <2>2. pc \in [Threads -> Inside \union Outside]
    BY DEF Init, Outside
  <2>3. purged \in 0..Len(granted) /\ clock \in Nat /\ calls \in Nat
    BY <2>1 DEF Init
  <2>4. deadline \in [Threads -> Nat] /\ waitUntil \in [Threads -> Nat]
    BY DEF Init
  <2>5. holder \in Threads \union {NoThread}
    BY DEF Init
  <2> QED
    BY <2>1, <2>2, <2>3, <2>4, <2>5 DEF TypeOK
<1>2. MutexInv /\ QueueInv
  BY DEF Init, MutexInv, QueueInv, Inside
<1>3. SlotsSpread
  <2>1. 1..Len(granted) = {}
    BY DEF Init
  <2> QED
    BY <2>1 DEF SlotsSpread
<1> QED
  BY <1>1, <1>2, <1>3 DEF IInv

\* Steps that touch neither the clock nor the queue.
LEMMA SameQueue ==
  ASSUME IInv, UNCHANGED <<clock, granted, purged>>, TypeOK', MutexInv',
         \A t \in Threads : pc'[t] = "push" => HasRoom
  PROVE  IInv'
  BY DEF IInv, QueueInv, SlotsSpread, HasRoom, InQueue

LEMMA InvStep == IInv /\ [Next]_vars => IInv'
<1> SUFFICES ASSUME IInv, [Next]_vars PROVE IInv'
  OBVIOUS
<1>t. TypeOK /\ MutexInv /\ QueueInv /\ SlotsSpread
  BY DEF IInv
<1>1. CASE Tick
  <2>1. TypeOK' /\ MutexInv'
    BY <1>t, <1>1 DEF Tick, TypeOK, MutexInv, timeVars
  <2>2. \A i \in 1..purged : granted[i] + window < clock + 1
    BY <1>t, LimiterAssumption DEF TypeOK, QueueInv
  <2>4. QueueInv'
    BY <1>t, <1>1, <2>2 DEF Tick, QueueInv, HasRoom, InQueue
  <2>3. SlotsSpread'
    BY <1>t, <1>1 DEF Tick, SlotsSpread
  <2> QED
    BY <2>1, <2>3, <2>4 DEF IInv
<1>2. ASSUME NEW t \in Threads, Call(t) PROVE IInv'
  <2>1. TypeOK' /\ MutexInv'
    BY <1>t, <1>2 DEF Call, Goto, TypeOK, MutexInv, Inside, Outside, timeVars
  <2>2. \A s \in Threads : pc'[s] = "push" => HasRoom
    BY <1>t, <1>2 DEF Call, Goto, TypeOK, QueueInv
  <2> QED
    BY <1>2, <2>1, <2>2, SameQueue DEF Call
<1>3. ASSUME NEW t \in Threads, Enter(t) \/ Relock(t) PROVE IInv'
  <2>1. TypeOK'
    <3>1. CASE Enter(t)
      BY <1>t, <3>1, LimiterAssumption DEF Enter, Goto, TypeOK, Inside, Outside
    <3>2. CASE Relock(t)
      BY <1>t, <3>2 DEF Relock, Goto, TypeOK, Inside, Outside, timeVars
    <3> QED
      BY <1>3, <3>1, <3>2
  <2>2. MutexInv'
    BY <1>t, <1>3, LimiterAssumption DEF Enter, Relock, Goto, TypeOK, MutexInv
  <2>3. \A s \in Threads : pc'[s] = "push" => HasRoom
    BY <1>t, <1>3 DEF Enter, Relock, Goto, TypeOK, QueueInv
  <2> QED
    BY <1>3, <2>1, <2>2, <2>3, SameQueue DEF Enter, Relock
<1>4. ASSUME NEW t \in Threads, Purge(t) PROVE IInv'
  <2>1. PICK k \in purged..Len(granted) :
          (\A i \in (purged + 1)..k : Expired(i)) /\ purged' = k
    BY <1>4 DEF Purge, PurgeExpired
  <2>2. TypeOK' /\ MutexInv'
    BY <1>t, <1>4, <2>1 DEF Purge, Goto, TypeOK, MutexInv, Inside, Outside, timeVars
  <2>3. \A i \in 1..purged' : granted[i] + window < clock
    BY <1>t, <2>1 DEF TypeOK, QueueInv, Expired
  <2>4. HasRoom => HasRoom'
    BY <1>t, <1>4, <2>1, LimiterAssumption DEF Purge, TypeOK, HasRoom, InQueue
  <2>5. QueueInv'
    BY <1>t, <1>4, <2>3, <2>4 DEF Purge, Goto, TypeOK, QueueInv
  <2>6. SlotsSpread'
    BY <1>t, <1>4 DEF Purge, SlotsSpread
  <2> QED
    BY <2>2, <2>5, <2>6 DEF IInv
<1>5. ASSUME NEW t \in Threads, FindRoom(t) PROVE IInv'
  <2>1. TypeOK' /\ MutexInv'
    BY <1>t, <1>5 DEF FindRoom, Goto, TypeOK, MutexInv, Inside, Outside, timeVars
  <2>2. \A s \in Threads : pc'[s] = "push" => HasRoom
    BY <1>t, <1>5 DEF FindRoom, Goto, TypeOK, QueueInv
  <2> QED
    BY <1>5, <2>1, <2>2, SameQueue DEF FindRoom
<1>6. ASSUME NEW t \in Threads, Push(t) PROVE IInv'
  <2>1. granted' = Append(granted, clock) /\ UNCHANGED <<clock, purged>>
    BY <1>6 DEF Push
  <2>2. Len(granted') = Len(granted) + 1
    BY <1>t, <2>1 DEF TypeOK
  <2>3. granted'[Len(granted) + 1] = clock
    BY <1>t, <2>1 DEF TypeOK
  <2>4. \A i \in 1..Len(granted) : granted'[i] = granted[i]
    BY <1>t, <2>1 DEF TypeOK
  <2>5. TypeOK'
    BY <1>t, <1>6, <2>1, <2>2 DEF Push, Goto, TypeOK, Outside, timeVars
  <2>6. \A s \in Threads : pc'[s] \in Inside => s # t /\ pc[s] \in Inside
    BY <1>t, <1>6 DEF Push, Goto, TypeOK, Inside
  <2>7. \A s \in Threads : pc'[s] \notin Inside
    BY <1>t, <1>6, <2>6 DEF Push, MutexInv, Inside
  <2>8. MutexInv' /\ QueueInv'
    BY <1>t, <2>1, <2>4, <2>7 DEF TypeOK, MutexInv, QueueInv, Inside
  <2>9. Len(granted) - purged < maxRequests
    BY <1>t, <1>6 DEF Push, QueueInv, HasRoom, InQueue
  <2>10. ASSUME NEW i \in 1..Len(granted'), i + maxRequests <= Len(granted')
         PROVE  granted'[i] + window < granted'[i + maxRequests]
    <3>1. i \in 1..Len(granted)
      BY <1>t, <2>2, <2>10, LimiterAssumption DEF TypeOK
    <3>2. CASE i + maxRequests <= Len(granted)
      <4>1. granted[i] + window < granted[i + maxRequests]
        BY <1>t, <3>1, <3>2 DEF SlotsSpread
      <4>2. i + maxRequests \in 1..Len(granted)
        BY <1>t, <3>1, <3>2, LimiterAssumption DEF TypeOK
      <4> QED
        BY <2>4, <3>1, <4>1, <4>2
    <3>3. CASE i + maxRequests = Len(granted) + 1
      <4>1. i \in 1..purged
        BY <1>t, <2>9, <3>1, <3>3, LimiterAssumption DEF TypeOK
      <4>2. granted[i] + window < clock
        BY <1>t, <4>1 DEF QueueInv
      <4> QED
        BY <2>3, <2>4, <3>1, <3>3, <4>2
    <3>4. Len(granted) \in Nat /\ i + maxRequests \in Nat
      BY <1>t, <3>1, LimiterAssumption DEF TypeOK
    <3>5. i + maxRequests <= Len(granted) \/ i + maxRequests = Len(granted) + 1
      BY <2>2, <2>10, <3>4
    <3> QED
      BY <3>2, <3>3, <3>5
  <2>11. SlotsSpread'
    BY <2>10 DEF SlotsSpread
  <2> QED
    BY <2>5, <2>8, <2>11 DEF IInv
<1>7. ASSUME NEW t \in Threads, FindFull(t) PROVE IInv'
  <2>1. granted[purged + 1] \in Nat
    BY <1>t, <1>7, LimiterAssumption DEF FindFull, HasRoom, InQueue, TypeOK
  <2>2. TypeOK'
    BY <1>t, <1>7, <2>1, LimiterAssumption
       DEF FindFull, Sooner, Goto, TypeOK, Inside, Outside
  <2>3. MutexInv'
    BY <1>t, <1>7 DEF FindFull, Goto, TypeOK, MutexInv, Inside
  <2>4. \A s \in Threads : pc'[s] = "push" => HasRoom
    BY <1>t, <1>7 DEF FindFull, Goto, TypeOK, QueueInv
  <2> QED
    BY <1>7, <2>2, <2>3, <2>4, SameQueue DEF FindFull
<1>8. ASSUME NEW t \in Threads, GiveUp(t) \/ GiveUpAtLast(t) \/ Wait(t) PROVE IInv'
  <2> USE DEF GiveUp, GiveUpAtLast, Wait, Refuse
  <2>1. TypeOK'
    BY <1>t, <1>8 DEF Goto, TypeOK, Outside, timeVars
  <2>2. \A s \in Threads : pc'[s] \in Inside => s # t /\ pc[s] \in Inside
    BY <1>t, <1>8 DEF Goto, TypeOK, Inside
  <2>3. \A s \in Threads : pc'[s] \notin Inside
    BY <1>t, <1>8, <2>2 DEF MutexInv, Inside
  <2>4. MutexInv' /\ \A s \in Threads : pc'[s] = "push" => HasRoom
    BY <2>3 DEF MutexInv, Inside
  <2> QED
    BY <1>8, <2>1, <2>4, SameQueue
<1>9. ASSUME NEW t \in Threads, WakeUp(t) \/ SpuriousWakeup(t) \/ Send(t) PROVE IInv'
  <2> USE DEF WakeUp, SpuriousWakeup, Send
  <2>1. TypeOK'
    <3>1. CASE Send(t)
      BY <1>t, <3>1 DEF Goto, TypeOK, Outside
    <3>2. CASE WakeUp(t) \/ SpuriousWakeup(t)
      BY <1>t, <3>2 DEF Goto, TypeOK, Outside, timeVars
    <3> QED
      BY <1>9, <3>1, <3>2
  <2>3. MutexInv'
    BY <1>t, <1>9 DEF Goto, TypeOK, MutexInv, Inside
  <2>2. \A s \in Threads : pc'[s] = "push" => HasRoom
    BY <1>t, <1>9 DEF Goto, TypeOK, QueueInv
  <2> QED
    BY <1>9, <2>1, <2>2, <2>3, SameQueue
<1>10. CASE UNCHANGED vars
  BY <1>t, <1>10
     DEF vars, timeVars, IInv, TypeOK, MutexInv, QueueInv, SlotsSpread, HasRoom, InQueue
<1> QED
  BY <1>1, <1>2, <1>3, <1>4, <1>5, <1>6, <1>7, <1>8, <1>9, <1>10 DEF Next, Acquire

\* The variables keep their types.
THEOREM TypeCorrect == Spec => []TypeOK
  BY InvInit, InvStep, PTL DEF Spec, IInv

\* Never more than maxRequests_ slots within window_.
THEOREM SlotsAreSpread == Spec => []SlotsSpread
  BY InvInit, InvStep, PTL DEF Spec, IInv
=============================================================================
