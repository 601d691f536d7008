---------------------------- MODULE PriorityLock ----------------------------
(***************************************************************************)
(* What the per-device arbiter promises its callers, without saying how a  *)
(* waiting task learns that its turn has come: one holder at a time, and a *)
(* free device is only ever given to a request that no other request       *)
(* beats.  Nested holds, condition notifications, spurious wake-ups and    *)
(* pending cancellations are invisible here.                               *)
(***************************************************************************)
EXTENDS Integers

CONSTANTS
    Tasks,      \* the asyncio tasks that talk to one device
    NoTask,     \* the value of "holder" while the device is free
    MaxSequence \* bound: requests that ever enter the queue


BACKGROUND == 0
PREVIEW    == 1
APPLY      == 2
USER       == 3
Intents    == {BACKGROUND, PREVIEW, APPLY, USER}

VARIABLES
    holder,   \* the task that may use the device
    requests, \* the requests that have not been served
    tickets   \* how many requests have arrived

vars == <<holder, requests, tickets>>

Request == [task : Tasks, intent : Intents, sequence : 1..MaxSequence]

\* Higher intent first; within one intent, the earlier arrival first.
Beats(v, w) ==
    \/ v.intent > w.intent
    \/ v.intent = w.intent /\ v.sequence < w.sequence

Unbeaten(w) == \A v \in requests : ~Beats(v, w)

Involved(t) == holder = t \/ \E w \in requests : w.task = t

Init ==
    /\ holder = NoTask
    /\ requests = {}
    /\ tickets = 0

NewRequest(t, i) == [task |-> t, intent |-> i, sequence |-> tickets + 1]

Ask(t, i) ==
    /\ tickets < MaxSequence
    /\ ~Involved(t)
    /\ requests' = requests \cup {NewRequest(t, i)}
    /\ tickets' = tickets + 1
    /\ UNCHANGED holder

\* A newcomer may go first when the device is free and nobody waiting beats it.
AskAndTake(t, i) ==
    /\ tickets < MaxSequence
    /\ ~Involved(t)
    /\ holder = NoTask
    /\ Unbeaten(NewRequest(t, i))
    /\ holder' = t
    /\ tickets' = tickets + 1
    /\ UNCHANGED requests

Take(w) ==
    /\ w \in requests
    /\ holder = NoTask
    /\ Unbeaten(w)
    /\ holder' = w.task
    /\ requests' = requests \ {w}
    /\ UNCHANGED tickets

Withdraw(w) ==
    /\ w \in requests
    /\ requests' = requests \ {w}
    /\ UNCHANGED <<holder, tickets>>

Leave(t) ==
    /\ holder = t
    /\ holder' = NoTask
    /\ UNCHANGED <<requests, tickets>>

Next ==
    \/ \E t \in Tasks, i \in Intents : Ask(t, i) \/ AskAndTake(t, i)
    \/ \E w \in requests : Take(w) \/ Withdraw(w)
    \/ \E t \in Tasks : Leave(t)

SafeSpec == Init /\ [][Next]_vars

\* A free device with work waiting is given to somebody, and is given back.
Spec ==
    /\ SafeSpec
    /\ WF_vars(\E w \in requests : Take(w))
    /\ \A t \in Tasks : SF_vars(Leave(t))

=============================================================================
