--------------------------- MODULE ControlArbiter ---------------------------
(***************************************************************************)
(* BLEControlArbiter (control_arbiter.py): the lock every BLE transaction  *)
(* of a device takes, and the preview generation that a foreground request *)
(* invalidates.                                                            *)
(*                                                                         *)
(* asyncio runs one task at a time and the condition's own lock is never   *)
(* held across a suspension, so the code between two awaits is one action. *)
(* The only await that suspends is the one inside Condition.wait_for:      *)
(* a task in "suspended" is parked there.  notify_all puts the parked tasks*)
(* in "woken"; each re-evaluates the predicate when the loop gets to it.   *)
(* Task.cancel() does not act at once either: the task is in "cancelling"  *)
(* until the loop resumes it, and CancelledError wins over a notification  *)
(* that is still undelivered.                                              *)
(***************************************************************************)
EXTENDS Integers, Sequences, FiniteSets

CONSTANTS
    Tasks,         \* the asyncio tasks that talk to one device
    NoTask,        \* Python's None, for "_owner"
    MaxDepth,      \* bound: nested holds of one task
    MaxSequence,   \* bound: waiters ever created
    MaxGeneration  \* bound: value of the preview generation

ASSUME NoTaskAssumption == NoTask \notin Tasks
ASSUME BoundsAssumption ==
    /\ MaxDepth \in Nat \ {0}
    /\ MaxSequence \in Nat
    /\ MaxGeneration \in Nat

BACKGROUND == 0
PREVIEW    == 1
APPLY      == 2
USER       == 3
Intents    == {BACKGROUND, PREVIEW, APPLY, USER}
NoIntent   == -1

VARIABLES
    owner,             \* _owner
    depth,             \* _depth
    activeIntent,      \* _active_intent
    intentStack,       \* _intent_stack
    waiters,           \* _waiters (a set: only min() over it is ever used)
    sequence,          \* _sequence
    previewGeneration, \* _preview_generation
    contexts,          \* the acquired hold() contexts each task is inside of
    suspended,         \* tasks parked in wait_for
    woken,             \* parked tasks whose notification is undelivered
    cancelling,        \* parked tasks whose cancellation is undelivered
    handedOut,         \* history: generations of the admissions handed out
    standing           \* history: the newest admission, 0 once a foreground
                       \* request or an invalidation followed it

lockVars    == <<owner, depth, activeIntent, intentStack, contexts>>
queueVars   == <<waiters, sequence, suspended, woken, cancelling>>
previewVars == <<previewGeneration, handedOut, standing>>
vars        == <<lockVars, queueVars, previewVars>>

Waiter == [task : Tasks, intent : Intents, sequence : 1..MaxSequence]

-----------------------------------------------------------------------------
(* Helpers of the class. *)

\* The key of min() in _next_waiter: (-intent, sequence).
Precedes(v, w) ==
    \/ v.intent > w.intent
    \/ v.intent = w.intent /\ v.sequence < w.sequence

\* Fault: first come, first served, whatever the intent.
IsNextByArrival(w, queue) == \A v \in queue : w.sequence <= v.sequence

IsNextWaiter(w, queue) == \A v \in queue : v = w \/ Precedes(w, v)

\* The predicate that _acquire waits for.
MayRun(w) == owner = NoTask /\ IsNextWaiter(w, waiters)

WaiterTasks(queue) == {w.task : w \in queue}

IsHighest(i, stack) ==
    /\ \E k \in DOMAIN stack : stack[k] = i
    /\ \A k \in DOMAIN stack : stack[k] <= i

\* current_task_intent: what a nested operation inherits as its own intent.
CurrentTaskIntent(t) == IF owner = t THEN activeIntent ELSE NoIntent

\* PreviewAdmission.is_current
IsCurrent(generation) == generation = previewGeneration

-----------------------------------------------------------------------------
Init ==
    /\ owner = NoTask
    /\ depth = 0
    /\ activeIntent = NoIntent
    /\ intentStack = <<>>
    /\ waiters = {}
    /\ sequence = 0
    /\ previewGeneration = 0
    /\ contexts = [t \in Tasks |-> 0]
    /\ suspended = {}
    /\ woken = {}
    /\ cancelling = {}
    /\ handedOut = {}
    /\ standing = 0

\* Fault: an Apply does not invalidate previews.
InvalidateIfAboveApply(i) ==
    IF i > APPLY
      THEN /\ previewGeneration < MaxGeneration
           /\ previewGeneration' = previewGeneration + 1
           /\ standing' = 0
           /\ UNCHANGED handedOut
      ELSE /\ standing' = IF i > PREVIEW THEN 0 ELSE standing
           /\ UNCHANGED <<previewGeneration, handedOut>>

\* "if intent > ControlIntent.PREVIEW: self.invalidate_previews()"
InvalidateIfForeground(i) ==
    IF i > PREVIEW
      THEN /\ previewGeneration < MaxGeneration
           /\ previewGeneration' = previewGeneration + 1
           /\ standing' = 0
           /\ UNCHANGED handedOut
      ELSE UNCHANGED previewVars

\* The device becomes t's, by the assignments that end _acquire.
Grant(t, i) ==
    /\ owner' = t
    /\ depth' = 1
    /\ activeIntent' = i
    /\ intentStack' = <<i>>
    /\ contexts' = [contexts EXCEPT ![t] = @ + 1]

\* Fault: notify() wakes one of the parked tasks.
NotifyOne ==
    IF waiters' = {}
      THEN woken' = {}
      ELSE \E t \in WaiterTasks(waiters') :
             woken' = (woken \cap WaiterTasks(waiters')) \cup {t}

NotifyAll == woken' = WaiterTasks(waiters')

\* A task that holds the device takes a nested hold: no queueing, no
\* invalidation of previews.
AcquireNested(t, i) ==
    /\ owner = t
    /\ depth < MaxDepth
    /\ depth' = depth + 1
    /\ intentStack' = Append(intentStack, i)
    /\ activeIntent' \in Intents
    /\ IsHighest(activeIntent', intentStack')
    /\ contexts' = [contexts EXCEPT ![t] = @ + 1]
    /\ UNCHANGED <<owner, queueVars, previewVars>>

NewWaiter(t, i) == [task |-> t, intent |-> i, sequence |-> sequence + 1]

\* The first evaluation of the predicate already succeeds: the waiter enters
\* and leaves the list without a suspension.
AcquireAtOnce(t, i) ==
    /\ owner # t
    /\ t \notin suspended
    /\ sequence < MaxSequence
    /\ InvalidateIfForeground(i)
    /\ MayRun(NewWaiter(t, i))
    /\ sequence' = sequence + 1
    /\ Grant(t, i)
    /\ UNCHANGED <<waiters, suspended, woken, cancelling>>

\* wait=True and somebody holds the device or goes first: the task parks.
AcquireQueued(t, i) ==
    /\ owner # t
    /\ t \notin suspended
    /\ sequence < MaxSequence
    /\ InvalidateIfForeground(i)
    /\ ~MayRun(NewWaiter(t, i))
    /\ sequence' = sequence + 1
    /\ waiters' = waiters \cup {NewWaiter(t, i)}
    /\ suspended' = suspended \cup {t}
    /\ UNCHANGED <<lockVars, woken, cancelling>>

\* wait=False on a device that is held or has waiters: the caller is told no,
\* after the previews have been invalidated.
AcquireRefused(t, i) ==
    /\ owner # t
    /\ t \notin suspended
    /\ InvalidateIfForeground(i)
    /\ owner # NoTask \/ waiters # {}
    /\ UNCHANGED <<lockVars, queueVars>>

\* A notified task is resumed and finds the predicate true.
ResumeGranted(w) ==
    /\ w.task \in woken \ cancelling
    /\ MayRun(w)
    /\ waiters' = waiters \ {w}
    /\ suspended' = suspended \ {w.task}
    /\ woken' = woken \ {w.task}
    /\ Grant(w.task, w.intent)
    /\ UNCHANGED <<sequence, cancelling, previewVars>>

\* A notified task is resumed, finds the predicate false and waits again.
ResumeWaits(w) ==
    /\ w.task \in woken \ cancelling
    /\ ~MayRun(w)
    /\ woken' = woken \ {w.task}
    /\ UNCHANGED <<lockVars, waiters, sequence, suspended, cancelling,
                   previewVars>>

\* Somebody calls Task.cancel() on a parked task.
Cancel(t) ==
    /\ t \in suspended \ cancelling
    /\ cancelling' = cancelling \cup {t}
    /\ UNCHANGED <<lockVars, waiters, sequence, suspended, woken, previewVars>>

\* The parked task is resumed with CancelledError: it takes its waiter out of
\* the list and notifies the rest, for it may have been the one that was due.
ResumeCancelled(w) ==
    /\ w.task \in cancelling
    /\ waiters' = waiters \ {w}
    /\ NotifyAll
    /\ suspended' = suspended \ {w.task}
    /\ cancelling' = cancelling \ {w.task}
    /\ UNCHANGED <<lockVars, sequence, previewVars>>

\* Fault: the intent of the inner hold stays.
ReleaseKeepingIntent(t) ==
    /\ contexts[t] > 0
    /\ depth > 1
    /\ depth' = depth - 1
    /\ intentStack' = SubSeq(intentStack, 1, Len(intentStack) - 1)
    /\ contexts' = [contexts EXCEPT ![t] = @ - 1]
    /\ UNCHANGED <<owner, activeIntent, queueVars, previewVars>>

\* A hold() context ends, normally or by an exception.  _release raises when
\* the task is not the owner: HolderAgreement says that it never is.
ReleaseNested(t) ==
    /\ contexts[t] > 0
    /\ depth > 1
    /\ depth' = depth - 1
    /\ intentStack' = SubSeq(intentStack, 1, Len(intentStack) - 1)
    /\ activeIntent' \in Intents
    /\ IsHighest(activeIntent', intentStack')
    /\ contexts' = [contexts EXCEPT ![t] = @ - 1]
    /\ UNCHANGED <<owner, queueVars, previewVars>>

ReleaseLast(t) ==
    /\ contexts[t] > 0
    /\ depth = 1
    /\ depth' = 0
    /\ owner' = NoTask
    /\ activeIntent' = NoIntent
    /\ intentStack' = <<>>
    /\ contexts' = [contexts EXCEPT ![t] = @ - 1]
    /\ UNCHANGED <<waiters, sequence, suspended, cancelling, previewVars>>
    /\ NotifyAll

\* admit_preview: the Effect Studio accepted a preview request.
AdmitPreview ==
    /\ previewGeneration < MaxGeneration
    /\ previewGeneration' = previewGeneration + 1
    /\ handedOut' = handedOut \cup {previewGeneration'}
    /\ standing' = previewGeneration'
    /\ UNCHANGED <<lockVars, queueVars>>

\* invalidate_previews, called from outside the class (a superseded device).
InvalidatePreviews ==
    /\ previewGeneration < MaxGeneration
    /\ previewGeneration' = previewGeneration + 1
    /\ standing' = 0
    /\ UNCHANGED <<lockVars, queueVars, handedOut>>

Acquire(t, i) ==
    \/ AcquireNested(t, i)
    \/ AcquireAtOnce(t, i)
    \/ AcquireQueued(t, i)
    \/ AcquireRefused(t, i)

Resume(w) == ResumeGranted(w) \/ ResumeWaits(w) \/ ResumeCancelled(w)

Next ==
    \/ \E t \in Tasks, i \in Intents : Acquire(t, i)
    \/ \E w \in waiters : Resume(w)
    \/ \E t \in Tasks : Cancel(t) \/ ReleaseNested(t) \/ ReleaseLast(t)
    \/ AdmitPreview
    \/ InvalidatePreviews

SafeSpec == Init /\ [][Next]_vars

(***************************************************************************)
(* The event loop resumes every task that is ready, and a transaction      *)
(* ends: the awaits inside one are bounded by timeouts, and it opens       *)
(* finitely many nested holds (hence strong fairness of its last release:  *)
(* the depth may go up and down on the way).  Nothing obliges a task to    *)
(* ask for the device, nor anybody to cancel it.                           *)
(***************************************************************************)
Spec ==
    /\ SafeSpec
    /\ \A t \in Tasks :
        /\ WF_vars(\E w \in waiters : w.task = t /\ Resume(w))
        /\ WF_vars(ReleaseNested(t))
        /\ SF_vars(ReleaseLast(t))

-----------------------------------------------------------------------------
(* Properties. *)

TypeOK ==
    /\ owner \in Tasks \cup {NoTask}
    /\ depth \in 0..MaxDepth
    /\ activeIntent \in Intents \cup {NoIntent}
    /\ intentStack \in Seq(Intents)
    /\ waiters \subseteq Waiter
    /\ sequence \in 0..MaxSequence
    /\ previewGeneration \in 0..MaxGeneration
    /\ contexts \in [Tasks -> 0..MaxDepth]
    /\ suspended \subseteq Tasks
    /\ woken \subseteq suspended
    /\ cancelling \subseteq suspended
    /\ handedOut \subseteq 1..MaxGeneration
    /\ standing \in 0..MaxGeneration

\* The tasks inside a hold() and the arbiter agree at every moment on who
\* holds the device and how deeply, so that no two tasks ever write to it at
\* once and _release never raises "released by a task that does not own it".
HolderAgreement ==
    \A t \in Tasks : contexts[t] = IF owner = t THEN depth ELSE 0

\* Every parked task has its one waiter in the list, and the list holds no
\* waiter of a task that has gone away: such a ghost, once first in line,
\* would shut the device for good.
QueueAgreement ==
    /\ WaiterTasks(waiters) = suspended
    /\ \A v, w \in waiters :
         v.task = w.task \/ v.sequence = w.sequence => v = w
    /\ owner \notin suspended

\* No lost wake-up: while the device is free, the waiter whose turn it is
\* has a notification or a cancellation on its way, whatever mixture of
\* releases, late arrivals, spurious resumptions and cancellations led here.
NoLostWakeup ==
    \A w \in waiters : MayRun(w) => w.task \in woken \cup cancelling

\* A nested operation of a lower intent never downgrades the transaction it
\* runs in: the foreground lease and the inherited intent follow the highest
\* of the holds that are open, and end with them.
ActiveIntentIsHighest ==
    /\ depth = Len(intentStack)
    /\ owner = NoTask <=> depth = 0
    /\ owner = NoTask => activeIntent = NoIntent
    /\ owner # NoTask => IsHighest(CurrentTaskIntent(owner), intentStack)

\* An admission is current exactly while it is the newest one and no
\* foreground request, refused ones included, came after it: a preview never
\* writes over what the user asked for later, and no background or preview
\* transaction drops a preview that is still wanted.
AdmissionExact ==
    \A g \in handedOut : IsCurrent(g) <=> g = standing

\* A task that asks for the device gets it or is cancelled.  Only finitely
\* many requests arrive (MaxSequence): a stream of USER requests that never
\* ends may starve a BACKGROUND one, by design.
WaitersServed ==
    \A t \in Tasks : t \in suspended ~> t \notin suspended

\* The arbiter is a priority lock: no grant overtakes a waiter of higher
\* intent, or an earlier one of the same intent, and notifications reach
\* whoever is due.
Abstract == INSTANCE PriorityLock
    WITH holder <- owner, requests <- waiters, tickets <- sequence

PriorityLockSafe == Abstract!SafeSpec
PriorityLockLive == Abstract!Spec

=============================================================================
