--------------------------- MODULE LatestRequests ---------------------------
(***************************************************************************)
(* LatestRequests (control_arbiter.py) as GoveeBLEEntity._async_latest     *)
(* uses it: the requests of all entities of a device run one at a time in  *)
(* arrival order, and a request whose turn comes after a newer one for the *)
(* same control is skipped.                                                *)
(*                                                                         *)
(* A request is named by its place in the order of arrival, which also     *)
(* serves as the token that run() stores under the control's key.  The     *)
(* lock is asyncio's: first come, first served, and a newcomer only takes  *)
(* a free lock when nobody is queued for it.                               *)
(***************************************************************************)
EXTENDS Naturals, SequencesExt

CONSTANTS
    Controls,    \* the keys: one per entity and control
    MaxRequests  \* bound: requests that ever arrive

ASSUME MaxRequestsAssumption == MaxRequests \in Nat

Requests == 1..MaxRequests

VARIABLES
    arrivals,  \* how many requests have arrived
    controlOf, \* the control that each of them is for
    latest,    \* _latest: the token stored for a control, 0 for none
    queue,     \* the requests waiting for the lock
    running,   \* the request that holds it, 0 for none
    status     \* where each request stands

requestVars == <<arrivals, controlOf, latest, queue, running, status>>

Arrived == 1..arrivals

IsIn(r, seq) == \E i \in DOMAIN seq : seq[i] = r

QueueInit ==
    /\ arrivals = 0
    /\ controlOf \in [Requests -> Controls]
    /\ latest = [c \in Controls |-> 0]
    /\ queue = <<>>
    /\ running = 0
    /\ status = [r \in Requests |-> "new"]

LockFreeForNewcomer == running = 0 /\ queue = <<>>

\* run(key, operation) up to its first suspension.
Arrive ==
    /\ arrivals < MaxRequests
    /\ arrivals' = arrivals + 1
    /\ latest' = [latest EXCEPT ![controlOf[arrivals']] = arrivals']
    /\ IF LockFreeForNewcomer
         THEN /\ running' = arrivals'
              /\ status' = [status EXCEPT ![arrivals'] = "running"]
              /\ UNCHANGED queue
         ELSE /\ queue' = Append(queue, arrivals')
              /\ status' = [status EXCEPT ![arrivals'] = "queued"]
              /\ UNCHANGED running
    /\ UNCHANGED controlOf

\* Fault: the token of a newer request is removed as well.
ForgetAny(r) == latest' = [latest EXCEPT ![controlOf[r]] = 0]

\* "finally: if self._latest.get(key) is token: del self._latest[key]"
Forget(r) ==
    latest' = [latest EXCEPT ![controlOf[r]] = IF @ = r THEN 0 ELSE @]

IsLatest(r) == latest[controlOf[r]] = r

\* The lock reaches the first in the queue, which is still wanted.
HandOver ==
    /\ running = 0
    /\ queue # <<>>
    /\ IsLatest(Head(queue))
    /\ running' = Head(queue)
    /\ queue' = Tail(queue)
    /\ status' = [status EXCEPT ![Head(queue)] = "running"]
    /\ UNCHANGED <<arrivals, controlOf, latest>>

\* The lock reaches a request that was replaced: it gives it up at once.
Skip ==
    /\ running = 0
    /\ queue # <<>>
    /\ ~IsLatest(Head(queue))
    /\ queue' = Tail(queue)
    /\ status' = [status EXCEPT ![Head(queue)] = "skipped"]
    /\ Forget(Head(queue))
    /\ UNCHANGED <<arrivals, controlOf, running>>

\* The operation returns, raises or is cancelled.
Finish ==
    /\ running # 0
    /\ running' = 0
    /\ status' = [status EXCEPT ![running] = "finished"]
    /\ Forget(running)
    /\ UNCHANGED <<arrivals, controlOf, queue>>

\* A caller is cancelled while it waits for the lock.
CancelQueued(r) ==
    /\ \E i \in DOMAIN queue : queue[i] = r /\ queue' = RemoveAt(queue, i)
    /\ status' = [status EXCEPT ![r] = "cancelled"]
    /\ Forget(r)
    /\ UNCHANGED <<arrivals, controlOf, running>>

QueueNext ==
    \/ Arrive
    \/ HandOver
    \/ Skip
    \/ Finish
    \/ \E r \in Requests : CancelQueued(r)

QueueSpec == QueueInit /\ [][QueueNext]_requestVars

-----------------------------------------------------------------------------
(* Properties. *)

\* Types, and the status of a request says whether it waits or holds the lock.
QueueTypeOK ==
    /\ arrivals \in 0..MaxRequests
    /\ controlOf \in [Requests -> Controls]
    /\ latest \in [Controls -> 0..MaxRequests]
    /\ queue \in Seq(Requests)
    /\ running \in 0..MaxRequests
    /\ status \in [Requests -> {"new", "queued", "running", "finished",
                                "skipped", "cancelled"}]
    /\ \A r \in Requests :
         /\ status[r] = "queued" <=> IsIn(r, queue)
         /\ status[r] = "running" <=> running = r

Newer(r) == {n \in Arrived : n > r /\ controlOf[n] = controlOf[r]}

\* Nobody's last word is dropped: a request is skipped only if a newer one for
\* the same control had arrived, whoever ended or was cancelled in between.
SkippedWasReplaced ==
    \A r \in Arrived : status[r] = "skipped" => Newer(r) # {}

\* The token of a control is that of its newest request, and goes with it: a
\* request that was replaced finds another token and is not sent, and when the
\* requests for a control are over no token of theirs is left.
TokensAreNewest ==
    \A c \in Controls : latest[c] # 0 =>
        /\ latest[c] \in Arrived /\ controlOf[latest[c]] = c
        /\ status[latest[c]] \in {"queued", "running"}
        /\ Newer(latest[c]) = {}

\* Of the requests for a control the newest is sent and nothing else is, as
\* long as it is not given up: none is skipped for an older one, or started
\* after a newer one has arrived.
LastWordIsSent == SkippedWasReplaced /\ TokensAreNewest

=============================================================================
