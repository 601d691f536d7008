---------------------------- MODULE EffectPreview ----------------------------
(***************************************************************************)
(* EffectPreviewManager of effect_preview.py for one device: the sessions  *)
(* that ask for Live previews, the latest-only worker that transmits them, *)
(* the read-back that confirms the newest one, the health of the device,   *)
(* and the calls that cut in: cancelling or closing a session, a           *)
(* foreground command, unloading the device, stopping Home Assistant.      *)
(*                                                                         *)
(* No code of the manager awaits while it holds its lock, so the lock is   *)
(* always free and everything between two awaits of the worker, or of a    *)
(* call, is one step.  A request is named by its generation, the order in  *)
(* which it was accepted; 0 stands for None.                               *)
(***************************************************************************)
EXTENDS Naturals, Sequences

CONSTANTS
    Sessions,       \* the preview channels
    MaxRequests,    \* bound: how many requests are accepted
    MaxSequence,    \* bound: the sequence numbers a session uses
    Cuts            \* bound: the interruptions that happen

ASSUME BoundsAssumption ==
    /\ MaxRequests \in Nat /\ MaxSequence \in Nat
    /\ Cuts \subseteq {"foreground", "unload", "stop", "check"}

VARIABLES
    requests,       \* what each accepted generation asked for, and (history)
                    \* whether a cancelled copy of it was still at work then
    sessions,       \* _sessions: last sequence and latest status of each
    told,           \* history: the last phase listeners heard, by generation
    began,          \* history: the generations whose transmission began
    sent,           \* history: those whose last packet went out in time
    exists,         \* _devices has a worker record for the device
    pending, active,        \* _DeviceWorker.pending, .active
    step,           \* where the worker task is; "none": no task
    expected,       \* the active request has expectations to read back
    verifying,      \* _DeviceWorker.verification_request
    observing,      \* its verification task is past its delay
    cancelled,      \* _DeviceWorker.cancelled_generations
    newest,         \* _DeviceWorker.latest_accepted_generation
    closing,        \* _DeviceWorker.closing
    blocked,        \* the device is in _blocked_devices
    unloading,      \* async_unload_device waits for the tasks
    stopping,       \* "no", "hass" (hass.is_stopping), "manager" (_stopping)
    lapsed,         \* admissions up to this generation were withdrawn
    health,         \* phase of _health; absent reads as healthy
    target,         \* _health_targets has an entry for the device
    check           \* the async_check_health call in flight

worker == <<exists, pending, active, step, expected, verifying, observing,
            cancelled, newest, closing>>
entry == <<blocked, unloading, stopping>>
shown == <<health, target, check>>
said == <<sessions, told>>
history == <<began, sent>>
vars == <<requests, said, history, worker, entry, lapsed, shown>>

Generations == 1 .. MaxRequests
Steps == {"none", "ready", "controls", "preflight", "writing", "saving"}
Phases == {"queued", "writing", "written", "confirmed", "unconfirmed",
           "cancelled", "failed"}
HealthPhases == {"healthy", "checking", "degraded"}

NoStatus == [sequence |-> 0, phase |-> "none"]
NewSession(open) == [open |-> open, last |-> 0, status |-> NoStatus]
NoCheck == [generation |-> 0, phase |-> "none"]

Accepted == 1 .. Len(requests)
SessionOf(g) == requests[g].session
SequenceOf(g) == requests[g].sequence
Holds(g, s) == g # 0 /\ SessionOf(g) = s

Init ==
    /\ requests = <<>>
    /\ sessions = [s \in Sessions |-> NewSession(FALSE)]
    /\ told = [g \in Generations |-> "none"]
    /\ began = {} /\ sent = {}
    /\ exists = FALSE /\ pending = 0 /\ active = 0
    /\ step = "none" /\ expected = FALSE
    /\ verifying = 0 /\ observing = FALSE
    /\ cancelled = {} /\ newest = 0 /\ closing = FALSE
    /\ blocked = FALSE /\ unloading = FALSE /\ stopping = "no"
    /\ lapsed = 0
    /\ health = "healthy" /\ target = FALSE /\ check = NoCheck

-----------------------------------------------------------------------------
(* What the steps share.                                                   *)

\* A status replaces the latest one of its session; a session that is gone
\* hears nothing.
Stored(ss, g, phase) ==
    IF g # 0 /\ ss[SessionOf(g)].open
    THEN [ss EXCEPT ![SessionOf(g)].status =
                        [sequence |-> SequenceOf(g), phase |-> phase]]
    ELSE ss

Heard(tt, g, phase) ==
    IF g # 0 /\ sessions[SessionOf(g)].open
    THEN [tt EXCEPT ![g] = phase] ELSE tt

Publish(g, phase) ==
    /\ sessions' = Stored(sessions, g, phase)
    /\ told' = Heard(told, g, phase)

\* Two requests are told the same, h last.
PublishBoth(g, h, phase) ==
    /\ sessions' = Stored(Stored(sessions, g, phase), h, phase)
    /\ told' = Heard(Heard(told, g, phase), h, phase)

Degraded(phase) == IF phase = "checking" THEN "degraded" ELSE phase

\* Fault: only _stopping is looked at, and hass.is_stopping comes first.
StoppedItself == stopping = "manager"

Stopped == stopping # "no"

\* Fault: the admission of a request is taken to last.
AdmittedForGood(g) == TRUE

\* Every admission takes the place of the one before it.
Admitted(g) == g = Len(requests) /\ g > lapsed

\* Fault: _cancelled_generations is not consulted.
IsLiveUncancelled(g) == Admitted(g)

IsLive(g) == g \notin cancelled /\ Admitted(g)
IsCurrent(g) == exists /\ IsLive(g) /\ g = newest
VerificationIsCurrent(g) == IsCurrent(g) /\ ~closing

\* Fault: only what waits counts as live.
SequenceIsWaiting(s, q) == Holds(pending, s) /\ SequenceOf(pending) = q

SequenceIsLive(s, q) ==
    \E g \in {pending, active, verifying} : Holds(g, s) /\ SequenceOf(g) = q

NoVerification == verifying' = 0 /\ observing' = FALSE

\* The worker is done with the request and looks for the next one.
Release ==
    /\ active' = 0 /\ step' = "ready" /\ expected' = FALSE
    /\ cancelled' = cancelled \ {active}

-----------------------------------------------------------------------------
(* Sessions and requests.                                                  *)

OpenSession(s) ==
    /\ ~Stopped /\ ~sessions[s].open
    /\ sessions' = [sessions EXCEPT ![s] = NewSession(TRUE)]
    /\ UNCHANGED <<requests, told, history, worker, entry, lapsed, shown>>

\* The idle timer of a session that nobody listens to.  While a request of
\* the session is at work the timer is set again.
ExpireSession(s) ==
    /\ sessions[s].open
    /\ \A g \in {pending, active, verifying} : ~Holds(g, s)
    /\ sessions' = [sessions EXCEPT ![s] = NewSession(FALSE)]
    /\ UNCHANGED <<requests, told, history, worker, entry, lapsed, shown>>

\* The sequence is the session's latest one and was written already, or is
\* still on its way: the request is acknowledged and nothing is queued.
AlreadyTaken(s, q) ==
    LET latest == sessions[s].status IN
    /\ q = sessions[s].last
    /\ \/ latest.sequence = q /\ latest.phase \in {"written", "confirmed"}
       \/ /\ \/ latest.sequence # q
             \/ latest.phase \in {"queued", "writing"}
          /\ SequenceIsLive(s, q)

\* Fault: only the first request of a record starts a worker.
SpawnOnce ==
    IF step = "none" /\ ~exists
    THEN step' = "ready" /\ closing' = FALSE
    ELSE UNCHANGED <<step, closing>>

\* A worker that ended is started again.
Spawn ==
    IF step = "none"
    THEN step' = "ready" /\ closing' = FALSE
    ELSE UNCHANGED <<step, closing>>

\* What the worker has in hand asks for the same, and was cancelled or came
\* beside such a copy itself.
CutCopyAtWork(s, q) ==
    /\ Holds(active, s) /\ SequenceOf(active) = q
    /\ active \in cancelled \/ requests[active].again

Accept(s, q) ==
    LET g == Len(requests) + 1
        queued == [sequence |-> q, phase |-> "queued"]
    IN
    /\ g \in Generations
    /\ sessions[s].open /\ ~Stopped /\ ~blocked
    /\ q >= sessions[s].last /\ ~AlreadyTaken(s, q)
    /\ requests' = Append(requests, [session |-> s, sequence |-> q,
                                     again |-> CutCopyAtWork(s, q)])
    /\ sessions' = [Stored(sessions, pending, "cancelled")
                        EXCEPT ![s].last = q, ![s].status = queued]
    /\ told' = [Heard(told, pending, "cancelled") EXCEPT ![g] = "queued"]
    /\ exists' = TRUE /\ pending' = g /\ newest' = g
    /\ NoVerification
    /\ Spawn
    /\ health' = IF health = "degraded" THEN "checking" ELSE health
    /\ UNCHANGED <<history, active, expected, cancelled, entry, lapsed, target,
                   check>>

\* async_cancel: the pending and the active request of the session are told
\* (the active one goes on to the end of its packets), and a read-back of the
\* session's request is abandoned.
Mine(g, s) == IF Holds(g, s) THEN g ELSE 0

CancelWork(s) ==
    LET mine == {Mine(pending, s), Mine(active, s)} \ {0} IN
    /\ sessions[s].open
    /\ told' = Heard(Heard(told, Mine(pending, s), "cancelled"),
                     Mine(active, s), "cancelled")
    /\ cancelled' = cancelled \union mine
    /\ pending' = IF Holds(pending, s) THEN 0 ELSE pending
    /\ IF Holds(verifying, s)
       THEN NoVerification
       ELSE UNCHANGED <<verifying, observing>>
    /\ health' = IF mine # {} THEN Degraded(health) ELSE health
    /\ UNCHANGED <<requests, history, exists, active, step, expected, newest,
                   closing, entry, lapsed, target, check>>

CancelSession(s) ==
    /\ CancelWork(s)
    /\ sessions' = Stored(Stored(sessions, Mine(pending, s), "cancelled"),
                          Mine(active, s), "cancelled")

\* async_close_session cancels and then forgets the session.
CloseSession(s) ==
    /\ CancelWork(s)
    /\ sessions' = [sessions EXCEPT ![s] = NewSession(FALSE)]

-----------------------------------------------------------------------------
(* Foreground commands, unloading and stopping.                            *)

\* A foreground operation takes the device: no admission so far is current.
Overtake ==
    /\ "foreground" \in Cuts /\ lapsed < Len(requests)
    /\ lapsed' = Len(requests)
    /\ UNCHANGED <<requests, said, history, worker, entry, shown>>

\* async_supersede_device, the call that precedes a foreground command.
Supersede ==
    /\ "foreground" \in Cuts
    /\ lapsed' = Len(requests)
    /\ target' = FALSE
    /\ PublishBoth(pending, verifying, "cancelled")
    /\ cancelled' = cancelled \union ({pending, verifying, active} \ {0})
    /\ pending' = 0
    /\ NoVerification
    /\ UNCHANGED <<requests, history, exists, active, step, expected, newest,
                   closing, entry, health, check>>

\* async_unload_device up to its wait for the worker ...
BeginUnload ==
    /\ "unload" \in Cuts /\ ~unloading /\ ~blocked
    /\ blocked' = TRUE
    /\ IF exists
       THEN /\ closing' = TRUE /\ unloading' = TRUE
            /\ PublishBoth(pending, active, "cancelled")
            /\ cancelled' = cancelled \union ({pending, active} \ {0})
            /\ pending' = 0
            /\ NoVerification
            /\ UNCHANGED <<health, target>>
       ELSE /\ health' = "healthy" /\ target' = FALSE
            /\ UNCHANGED <<said, pending, verifying, observing, cancelled,
                           closing, unloading>>
    /\ UNCHANGED <<requests, history, exists, active, step, expected, newest,
                   stopping, lapsed, check>>

\* The record of the device goes.
RemoveRecord ==
    /\ exists' = FALSE /\ pending' = 0 /\ active' = 0 /\ expected' = FALSE
    /\ cancelled' = {} /\ newest' = 0 /\ closing' = FALSE
    /\ NoVerification
    /\ health' = "healthy" /\ target' = FALSE
    /\ UNCHANGED step

\* ... and from there.
EndUnload ==
    /\ unloading /\ step = "none"
    /\ unloading' = FALSE
    /\ RemoveRecord
    /\ UNCHANGED <<requests, said, history, blocked, stopping, lapsed, check>>

\* async_load_device, when the entry is set up again.
Load ==
    /\ blocked /\ ~unloading /\ ~Stopped
    /\ blocked' = FALSE
    /\ UNCHANGED <<requests, said, history, worker, unloading, stopping, lapsed,
                   shown>>

\* Home Assistant begins to stop; its event reaches the manager later.
HassStops ==
    /\ "stop" \in Cuts /\ stopping = "no"
    /\ stopping' = "hass"
    /\ UNCHANGED <<requests, said, history, worker, blocked, unloading, lapsed,
                   shown>>

\* async_shutdown up to its wait for the tasks ...
BeginShutdown ==
    /\ stopping = "hass"
    /\ stopping' = "manager"
    /\ closing' = exists
    /\ Publish(pending, "failed")
    /\ cancelled' = cancelled \union ({pending} \ {0})
    /\ pending' = 0
    /\ NoVerification
    /\ UNCHANGED <<requests, history, exists, active, step, expected, newest,
                   blocked, unloading, lapsed, shown>>

\* ... and from there.
EndShutdown ==
    /\ stopping = "manager" /\ step = "none"
    /\ \/ exists
       \/ health # "healthy" \/ target
       \/ \E s \in Sessions : sessions[s].open
    /\ sessions' = [s \in Sessions |-> NewSession(FALSE)]
    /\ RemoveRecord
    /\ UNCHANGED <<requests, told, history, entry, lapsed, check>>

-----------------------------------------------------------------------------
(* The worker task.                                                        *)

\* A request that is not current when the worker looks is dropped.
Superseded(g) == Publish(g, "cancelled") /\ UNCHANGED health

\* What the video controls or the compilation refuse.
CompilationFailed(g) == Publish(g, "failed") /\ health' = Degraded(health)

\* Expectations become the health target before the device is approached.
Approach ==
    \E e \in BOOLEAN :
        /\ expected' = e /\ target' = (e \/ target)
        /\ step' = "preflight"

\* The worker takes the pending request.
Take ==
    /\ step = "ready" /\ ~closing /\ pending # 0
    /\ pending' = 0
    /\ \/ /\ ~IsCurrent(pending)
          /\ Superseded(pending)
          /\ cancelled' = cancelled \ {pending}
          /\ UNCHANGED <<active, step, expected, target>>
       \/ /\ IsCurrent(pending)
          /\ CompilationFailed(pending)
          /\ UNCHANGED <<active, step, expected, cancelled, target>>
       \/ /\ IsCurrent(pending)
          /\ active' = pending
          /\ \/ step' = "controls" /\ UNCHANGED <<expected, target>>
             \/ Approach
          /\ UNCHANGED <<said, cancelled, health>>
    /\ UNCHANGED <<requests, history, exists, verifying, observing, newest,
                   closing, entry, lapsed, check>>

\* The controls a video profile needs have been read.
ReadControls ==
    /\ step = "controls"
    /\ \/ CompilationFailed(active) /\ Release /\ UNCHANGED target
       \/ ~IsCurrent(active) /\ Superseded(active) /\ Release
          /\ UNCHANGED target
       \/ IsCurrent(active) /\ Approach
          /\ UNCHANGED <<said, active, cancelled, health>>
    /\ UNCHANGED <<requests, history, exists, pending, verifying, observing,
                   newest, closing, entry, lapsed, check>>

\* The transmission ends with the outcome the except clauses give it.
EndSuperseded ==
    /\ Publish(active, "cancelled") /\ target' = FALSE
    /\ UNCHANGED health
    /\ Release

EndFailed ==
    /\ Publish(active, "failed") /\ health' = "degraded"
    /\ UNCHANGED target
    /\ Release

MayBegin(g) == VerificationIsCurrent(g)

\* Connecting, reading the control state and waiting for the device come
\* before the first packet: begin() then refuses or lets it out.
Begin ==
    /\ step = "preflight"
    /\ \/ EndFailed /\ UNCHANGED began
       \/ ~Stopped /\ ~MayBegin(active) /\ EndSuperseded /\ UNCHANGED began
       \/ /\ ~Stopped /\ MayBegin(active)
          /\ Publish(active, "writing")
          /\ step' = "writing"
          /\ began' = began \union {active}
          /\ UNCHANGED <<active, expected, cancelled, health, target>>
    /\ UNCHANGED <<requests, sent, exists, pending, verifying, observing, newest,
                   closing, entry, lapsed, check>>

\* What follows the last packet, and the default that was stored.
Complete ==
    /\ IF IsLive(active) /\ exists
       THEN Publish(active, "written") ELSE UNCHANGED said
    /\ IF exists /\ ~closing /\ active = newest /\ active \notin cancelled
       THEN IF expected
            THEN /\ verifying' = active /\ observing' = FALSE
                 /\ UNCHANGED health
            ELSE health' = Degraded(health)
                 /\ UNCHANGED <<verifying, observing>>
       ELSE UNCHANGED <<verifying, observing, health>>
    /\ UNCHANGED target
    /\ Release

\* The packets are out, or the transport failed on the way.
FinishWrite ==
    /\ step = "writing"
    /\ \/ EndFailed /\ UNCHANGED <<verifying, observing, sent>>
       \/ ~IsCurrent(active) /\ EndSuperseded
          /\ UNCHANGED <<verifying, observing, sent>>
       \/ /\ IsCurrent(active) /\ Stopped
          /\ EndFailed /\ UNCHANGED <<verifying, observing, sent>>
       \/ /\ IsCurrent(active) /\ ~Stopped
          /\ sent' = sent \union {active}
          /\ \/ Complete
             \/ /\ step' = "saving"
                /\ UNCHANGED <<said, active, expected, cancelled, verifying,
                               observing, health, target>>
    /\ UNCHANGED <<requests, began, exists, pending, newest, closing, entry,
                   lapsed, check>>

\* The built-in default was stored, or could not be.
FinishSave ==
    /\ step = "saving"
    /\ \/ Complete
       \/ /\ Publish(active, "failed") /\ health' = Degraded(health)
          /\ UNCHANGED <<verifying, observing, target>>
          /\ Release
    /\ UNCHANGED <<requests, history, exists, pending, newest, closing, entry,
                   lapsed, check>>

\* Nothing is pending or the record is closing: the task ends.
ExitWorker ==
    /\ step = "ready" /\ (closing \/ pending = 0)
    /\ step' = "none"
    /\ UNCHANGED <<requests, said, history, exists, pending, active, expected,
                   verifying, observing, cancelled, newest, closing, entry,
                   lapsed, shown>>

-----------------------------------------------------------------------------
(* Reading back.                                                           *)

\* The delay of the verification task is over.
Wake ==
    /\ verifying # 0 /\ ~observing
    /\ IF VerificationIsCurrent(verifying)
       THEN observing' = TRUE /\ UNCHANGED verifying
       ELSE NoVerification
    /\ UNCHANGED <<requests, said, history, exists, pending, active, step,
                   expected, cancelled, newest, closing, entry, lapsed,
                   shown>>

\* What the read-back says: the settings, other settings, or nothing in time.
Observe ==
    /\ observing
    /\ NoVerification
    /\ IF ~VerificationIsCurrent(verifying)
       THEN UNCHANGED <<said, health>>
       ELSE \/ Publish(verifying, "confirmed") /\ health' = "healthy"
            \/ Publish(verifying, "unconfirmed") /\ health' = "degraded"
            \/ UNCHANGED said /\ health' = Degraded(health)
    /\ UNCHANGED <<requests, history, exists, pending, active, step, expected,
                   cancelled, newest, closing, entry, lapsed, target, check>>

\* async_check_health asks once more for the settings of the last target.
\* An entry that is not loaded raises after the phase was set.
StartCheck ==
    /\ "check" \in Cuts /\ target /\ check = NoCheck
    /\ pending = 0 /\ active = 0
    /\ health' = "checking"
    /\ check' = IF blocked THEN NoCheck
                ELSE [generation |-> newest, phase |-> health]
    /\ UNCHANGED <<requests, said, history, worker, entry, lapsed, target>>

CheckIsCurrent ==
    ~exists \/ (newest = check.generation /\ pending = 0 /\ active = 0)

\* Settings read, other settings, silence, or a read that raises.
FinishCheck ==
    /\ check # NoCheck
    /\ check' = NoCheck
    /\ IF CheckIsCurrent
       THEN health' \in {"healthy", "degraded", check.phase, health}
       ELSE UNCHANGED health
    /\ UNCHANGED <<requests, said, history, worker, entry, lapsed, target>>

-----------------------------------------------------------------------------

Work == Take \/ ReadControls \/ Begin \/ FinishWrite \/ FinishSave
            \/ ExitWorker

Next ==
    \/ \E s \in Sessions :
          \/ OpenSession(s) \/ ExpireSession(s)
          \/ \E q \in 1 .. MaxSequence : Accept(s, q)
          \/ CancelSession(s) \/ CloseSession(s)
    \/ Overtake \/ Supersede
    \/ BeginUnload \/ EndUnload \/ Load
    \/ HassStops \/ BeginShutdown \/ EndShutdown
    \/ Work
    \/ Wake \/ Observe
    \/ StartCheck \/ FinishCheck

Spec == Init /\ [][Next]_vars

\* Connecting, writing and reading back run under timeouts, storing a default
\* is a local file, and the loop resumes every task that can go on.
FairSpec ==
    /\ Spec
    /\ WF_vars(Work) /\ WF_vars(Wake) /\ WF_vars(Observe)
    /\ WF_vars(EndUnload) /\ WF_vars(EndShutdown)

-----------------------------------------------------------------------------
(* Properties.                                                             *)

SameState(g, h) ==
    SessionOf(g) = SessionOf(h) /\ SequenceOf(g) = SequenceOf(h)

Requested == 0 .. Len(requests)
Statuses == [sequence : 0 .. MaxSequence, phase : Phases \union {"none"}]

\* Every variable holds a value the fields and locals of the code can hold; in
\* particular the worker is between two awaits of a request exactly when it
\* has an active one, and a record that is gone left nothing behind.
TypeOK ==
    /\ requests \in Seq([session : Sessions, sequence : 1 .. MaxSequence,
                       again : BOOLEAN])
    /\ sessions \in [Sessions -> [open : BOOLEAN, last : 0 .. MaxSequence,
                                  status : Statuses]]
    /\ told \in [Generations -> Phases \union {"none"}]
    /\ began \subseteq Accepted /\ cancelled \subseteq Accepted
    /\ {pending, active, verifying, newest, lapsed} \subseteq Requested
    /\ step \in Steps
    /\ {exists, expected, observing, closing, blocked, unloading, target}
           \subseteq BOOLEAN
    /\ stopping \in {"no", "hass", "manager"}
    /\ health \in HealthPhases
    /\ check \in {NoCheck} \union
                 [generation : Requested, phase : HealthPhases]
    /\ (active # 0) <=> (step \notin {"none", "ready"})
    /\ ~exists => /\ step = "none" /\ cancelled = {} /\ ~closing
                  /\ pending = 0 /\ verifying = 0 /\ newest = 0

\* A retry of a sequence (async_queue_*, _sequence_is_live_locked) does not put
\* the same desired state on its way twice: of the requests that are waiting,
\* being written or being read back, and were not cancelled, no two have the
\* session and the sequence in common.  The code makes one exception: when a
\* session is cancelled and retries its sequence while the worker still has the
\* cancelled copy in hand, the end of that copy replaces the status of the
\* retry, and the next retry is accepted beside it; and so on, as long as each
\* comes while the worker has the one before it in hand.
OneLiveCopy ==
    \A g, h \in {pending, active, verifying} \ ({0} \union cancelled) :
        g < h /\ SameState(g, h) => requests[g].again

\* A request that is nowhere in the record any more has its answer: while its
\* session is open its last phase is neither queued nor writing.  The one
\* exception is in the code: a foreground command or a newer request that comes
\* while the default is saved takes the WRITTEN of the request, which did reach
\* the device, and puts nothing in its place.
SettledIsAnswered ==
    \A g \in Accepted \ {pending, active} :
        /\ told[g] # "queued"
        /\ told[g] = "writing" =>
               \/ ~sessions[SessionOf(g)].open
               \/ g \in sent /\ (g <= lapsed \/ g # Len(requests))

\* What was accepted is on its way once, or it has its answer.
OnceOrAnswered == OneLiveCopy /\ SettledIsAnswered

\* Whoever was told that a request is cancelled is never told afterwards that
\* it is being written, was written or was confirmed
\* (test_session_cancel_finishes_active_sequence_without_replaying_pending_work).
CancelledIsFinal ==
    [][\A g \in Generations :
          told[g] = "cancelled" => told'[g] \in {"cancelled", "failed"}]_vars

\* Confirmed settings are the ones on the device: the request that is read
\* back as confirmed is the one whose transmission began last, and no newer
\* one is waiting to replace it, and no foreground command was let in since
\* (test_stale_in_progress_verification_finishes_but_cannot_publish).
ConfirmedIsOnDevice ==
    [][\A g \in Generations :
          (told'[g] = "confirmed" /\ told[g] # "confirmed") =>
              /\ \A h \in began : h <= g
              /\ pending = 0 /\ active = 0
              /\ g \in began /\ g > lapsed]_vars

\* Once the entry unloads or Home Assistant stops, no transmission begins:
\* the task that is being waited for finishes at most the one it is in.
NothingBeginsAfterStop ==
    [][(unloading \/ stopping # "no") => began' = began]_vars

\* Every accepted request comes to an end: it is written, replaced, cancelled
\* or failed, and the worker does not keep it.
RequestsSettle ==
    \A g \in Generations :
        (g \in {pending, active}) ~> (g \notin {pending, active})

\* Unloading the device and stopping Home Assistant wait for the tasks of the
\* device and do come to an end.
StopsFinish ==
    /\ unloading ~> ~unloading
    /\ (stopping = "manager") ~> ~exists

\* The worker, whatever cuts into it, settles what it was given and lets those
\* who wait for it go on.
WorkerSettles == RequestsSettle /\ StopsFinish

=============================================================================
