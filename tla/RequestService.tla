---------------------------- MODULE RequestService ----------------------------
(***************************************************************************)
(* What the window may rely on when it sends commands to the backend: each *)
(* is settled at most once; what the answer of a command claims has been   *)
(* done; and once a command is answered, nothing that was sent before it   *)
(* takes effect any more, not even if it had timed out.  The exception are *)
(* commands that only ask for something to be done in the background: that *)
(* may begin after later commands were answered, but for each at most once *)
(* and in the order in which they were sent.                               *)
(***************************************************************************)
EXTENDS Naturals

CONSTANTS Calls          \* numbers, in the order in which they are made

VARIABLES
    outcome,             \* per call: what became of its promise
    done,                \* per call: it took effect in the backend
    claims,              \* the calls whose success claims an effect
    deferred             \* the calls whose effect is to come in the background

vars == <<outcome, done, claims, deferred>>

Answered(c) == outcome[c] \in {"ok", "error"}

Init ==
    /\ outcome = [c \in Calls |-> "new"]
    /\ done = [c \in Calls |-> FALSE]
    /\ claims = {} /\ deferred = {}

\* A command goes out, or is refused since there is no backend.
Make(c) ==
    /\ outcome[c] = "new"
    /\ \E o \in {"waiting", "refused"} : outcome' = [outcome EXCEPT ![c] = o]
    /\ \/ claims' \in {claims, claims \union {c}} /\ UNCHANGED deferred
       \/ deferred' = deferred \union {c} /\ UNCHANGED claims
    /\ UNCHANGED done

\* Nothing later is answered yet, or done if that is deferred as well.
InTime(c) ==
    \A later \in Calls : later > c =>
        IF c \in deferred THEN later \in deferred => ~done[later] ELSE ~Answered(later)

\* It takes effect, once.
TakeEffect(c) ==
    /\ outcome[c] \in {"waiting", "ok", "error", "timeout"} /\ ~done[c]
    /\ InTime(c)
    /\ done' = [done EXCEPT ![c] = TRUE]
    /\ UNCHANGED <<outcome, claims, deferred>>

Answer(c) ==
    /\ outcome[c] = "waiting"
    /\ \/ outcome' = [outcome EXCEPT ![c] = "error"]
       \/ /\ c \in claims => done[c]
          /\ outcome' = [outcome EXCEPT ![c] = "ok"]
    /\ UNCHANGED <<done, claims, deferred>>

TimeOut(c) ==
    /\ outcome[c] = "waiting"
    /\ outcome' = [outcome EXCEPT ![c] = "timeout"]
    /\ UNCHANGED <<done, claims, deferred>>

Next == \E c \in Calls : Make(c) \/ TakeEffect(c) \/ Answer(c) \/ TimeOut(c)

Spec == Init /\ [][Next]_vars
=============================================================================
