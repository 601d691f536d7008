---------------------------- MODULE ControlProofs ----------------------------
(***************************************************************************)
(* Who may talk to a device: the arbiter that all its users share          *)
(* (ControlArbiter), and before it the requests of the entities            *)
(* (LatestRequests, and LightRequests with its merge buffer).              *)
(*                                                                         *)
(* The arbiter, for any set of tasks and any bounds: IInv is inductive.    *)
(* The conjuncts beside the checked properties say that sequence numbers   *)
(* and generations only grow, without which neither "one waiter per        *)
(* sequence number" nor "an old admission never becomes current again"     *)
(* would survive the step that issues a new one.                           *)
(*                                                                         *)
(* The requests, for any number of requests and controls: who is skipped   *)
(* was replaced, and what a turn_on hands on is current.  The first rests  *)
(* on the order of the queue, in which nobody stands twice and the running *)
(* request has stood before everyone; the second on what is pending having *)
(* been asked for after every turn_off and handed on by nobody.            *)
(***************************************************************************)
EXTENDS ControlArbiter, LightRequests, SequenceTheorems, TLAPS

-----------------------------------------------------------------------------
(* ControlArbiter.                                                         *)

\* Every sequence number in use has been issued.
SequencesIssued == \A w \in waiters : w.sequence <= sequence

\* So has every preview generation that somebody holds.
GenerationsIssued ==
    /\ \A g \in handedOut : g <= previewGeneration
    /\ standing <= previewGeneration

IInv ==
    /\ TypeOK
    /\ HolderAgreement
    /\ QueueAgreement
    /\ SequencesIssued
    /\ NoLostWakeup
    /\ ActiveIntentIsHighest
    /\ AdmissionExact
    /\ GenerationsIssued

\* Popping the innermost hold leaves a stack of intents, one shorter.
LEMMA PoppedStack ==
    ASSUME NEW S, NEW s \in Seq(S), Len(s) > 1
    PROVE  /\ SubSeq(s, 1, Len(s) - 1) \in Seq(S)
           /\ Len(SubSeq(s, 1, Len(s) - 1)) = Len(s) - 1
BY SubSeqProperties

\* Every step keeps every variable in its type.
LEMMA TypeStep ==
    ASSUME IInv, [Next]_vars
    PROVE  TypeOK'
<1> USE NoTaskAssumption, BoundsAssumption
    DEF MayRun, IInv, TypeOK, HolderAgreement, QueueAgreement,
        WaiterTasks, Waiter, Intents, NoIntent, BACKGROUND, PREVIEW,
        APPLY, USER, lockVars, queueVars, previewVars
<1>1. ASSUME NEW t \in Tasks, NEW i \in Intents, AcquireNested(t, i)
      PROVE  TypeOK'
  BY <1>1 DEF AcquireNested
<1>2. ASSUME NEW t \in Tasks, NEW i \in Intents, AcquireAtOnce(t, i)
      PROVE  TypeOK'
  BY SMTT(60), <1>2 DEF AcquireAtOnce, Grant, InvalidateIfForeground
<1>3. ASSUME NEW t \in Tasks, NEW i \in Intents, AcquireQueued(t, i)
      PROVE  TypeOK'
  BY SMTT(60), <1>3 DEF AcquireQueued, InvalidateIfForeground, NewWaiter
<1>4. ASSUME NEW t \in Tasks, NEW i \in Intents, AcquireRefused(t, i)
      PROVE  TypeOK'
  BY <1>4 DEF AcquireRefused, InvalidateIfForeground
<1>5. ASSUME NEW w \in waiters, ResumeGranted(w)
      PROVE  TypeOK'
  BY <1>5 DEF ResumeGranted, Grant
<1>6. ASSUME NEW w \in waiters, ResumeWaits(w)
      PROVE  TypeOK'
  BY <1>6 DEF ResumeWaits
<1>7. ASSUME NEW w \in waiters, ResumeCancelled(w)
      PROVE  TypeOK'
  BY <1>7 DEF ResumeCancelled, NotifyAll, WaiterTasks
<1>8. ASSUME NEW t \in Tasks, Cancel(t)
      PROVE  TypeOK'
  BY <1>8 DEF Cancel
<1>9. ASSUME NEW t \in Tasks, ReleaseNested(t)
      PROVE  TypeOK'
  <2>1. intentStack' \in Seq(Intents)
    BY <1>9, PoppedStack DEF ReleaseNested, ActiveIntentIsHighest
  <2>2. contexts' \in [Tasks -> 0..MaxDepth]
    BY <1>9 DEF ReleaseNested
  <2>3. depth' \in 0..MaxDepth /\ activeIntent' \in Intents
    BY <1>9 DEF ReleaseNested
  <2>4. UNCHANGED <<owner, queueVars, previewVars>>
    BY <1>9 DEF ReleaseNested
  <2> QED
    BY <2>1, <2>2, <2>3, <2>4
<1>10. ASSUME NEW t \in Tasks, ReleaseLast(t)
      PROVE  TypeOK'
  BY <1>10 DEF ReleaseLast, NotifyAll, WaiterTasks
<1>11. ASSUME AdmitPreview
      PROVE  TypeOK'
  BY <1>11 DEF AdmitPreview
<1>12. ASSUME InvalidatePreviews
      PROVE  TypeOK'
  BY <1>12 DEF InvalidatePreviews
<1>13. CASE UNCHANGED vars
  BY <1>13 DEF vars
<1> QED
  BY <1>1, <1>2, <1>3, <1>4, <1>5, <1>6, <1>7, <1>8, <1>9, <1>10, <1>11, <1>12, <1>13 DEF Next, Acquire, Resume

\* Every step keeps tasks and arbiter agreed on the holder.
LEMMA HolderStep ==
    ASSUME IInv, [Next]_vars
    PROVE  HolderAgreement'
<1> USE NoTaskAssumption, BoundsAssumption
    DEF MayRun, IInv, TypeOK, HolderAgreement, QueueAgreement,
        ActiveIntentIsHighest, WaiterTasks, Waiter, lockVars,
        queueVars, previewVars
<1>1. ASSUME NEW t \in Tasks, NEW i \in Intents, AcquireNested(t, i)
      PROVE  HolderAgreement'
  BY <1>1 DEF AcquireNested
<1>2. ASSUME NEW t \in Tasks, NEW i \in Intents, AcquireAtOnce(t, i)
      PROVE  HolderAgreement'
  BY <1>2 DEF AcquireAtOnce, Grant, InvalidateIfForeground
<1>3. ASSUME NEW t \in Tasks, NEW i \in Intents, AcquireQueued(t, i)
      PROVE  HolderAgreement'
  BY <1>3 DEF AcquireQueued, InvalidateIfForeground, NewWaiter
<1>4. ASSUME NEW t \in Tasks, NEW i \in Intents, AcquireRefused(t, i)
      PROVE  HolderAgreement'
  BY <1>4 DEF AcquireRefused, InvalidateIfForeground
<1>5. ASSUME NEW w \in waiters, ResumeGranted(w)
      PROVE  HolderAgreement'
  BY <1>5 DEF ResumeGranted, Grant
<1>6. ASSUME NEW w \in waiters, ResumeWaits(w)
      PROVE  HolderAgreement'
  BY <1>6 DEF ResumeWaits
<1>7. ASSUME NEW w \in waiters, ResumeCancelled(w)
      PROVE  HolderAgreement'
  BY <1>7 DEF ResumeCancelled, NotifyAll, WaiterTasks
<1>8. ASSUME NEW t \in Tasks, Cancel(t)
      PROVE  HolderAgreement'
  BY <1>8 DEF Cancel
<1>9. ASSUME NEW t \in Tasks, ReleaseNested(t)
      PROVE  HolderAgreement'
  BY <1>9 DEF ReleaseNested
<1>10. ASSUME NEW t \in Tasks, ReleaseLast(t)
      PROVE  HolderAgreement'
  BY <1>10 DEF ReleaseLast, NotifyAll, WaiterTasks
<1>11. ASSUME AdmitPreview
      PROVE  HolderAgreement'
  BY <1>11 DEF AdmitPreview
<1>12. ASSUME InvalidatePreviews
      PROVE  HolderAgreement'
  BY <1>12 DEF InvalidatePreviews
<1>13. CASE UNCHANGED vars
  BY <1>13 DEF vars
<1> QED
  BY <1>1, <1>2, <1>3, <1>4, <1>5, <1>6, <1>7, <1>8, <1>9, <1>10, <1>11, <1>12, <1>13 DEF Next, Acquire, Resume

\* Every step keeps one waiter per parked task and per sequence number.
LEMMA QueueStep ==
    ASSUME IInv, [Next]_vars
    PROVE  (QueueAgreement /\ SequencesIssued)'
<1> USE NoTaskAssumption, BoundsAssumption
    DEF MayRun, IInv, TypeOK, QueueAgreement, SequencesIssued,
        WaiterTasks, Waiter, lockVars, queueVars, previewVars
<1>1. ASSUME NEW t \in Tasks, NEW i \in Intents, AcquireNested(t, i)
      PROVE  (QueueAgreement /\ SequencesIssued)'
  BY <1>1 DEF AcquireNested
<1>2. ASSUME NEW t \in Tasks, NEW i \in Intents, AcquireAtOnce(t, i)
      PROVE  (QueueAgreement /\ SequencesIssued)'
  BY SMTT(60), <1>2 DEF AcquireAtOnce, Grant, InvalidateIfForeground
<1>3. ASSUME NEW t \in Tasks, NEW i \in Intents, AcquireQueued(t, i)
      PROVE  (QueueAgreement /\ SequencesIssued)'
  BY <1>3 DEF AcquireQueued, InvalidateIfForeground, NewWaiter
<1>4. ASSUME NEW t \in Tasks, NEW i \in Intents, AcquireRefused(t, i)
      PROVE  (QueueAgreement /\ SequencesIssued)'
  BY <1>4 DEF AcquireRefused, InvalidateIfForeground
<1>5. ASSUME NEW w \in waiters, ResumeGranted(w)
      PROVE  (QueueAgreement /\ SequencesIssued)'
  BY <1>5 DEF ResumeGranted, Grant
<1>6. ASSUME NEW w \in waiters, ResumeWaits(w)
      PROVE  (QueueAgreement /\ SequencesIssued)'
  BY <1>6 DEF ResumeWaits
<1>7. ASSUME NEW w \in waiters, ResumeCancelled(w)
      PROVE  (QueueAgreement /\ SequencesIssued)'
  BY <1>7 DEF ResumeCancelled, NotifyAll, WaiterTasks
<1>8. ASSUME NEW t \in Tasks, Cancel(t)
      PROVE  (QueueAgreement /\ SequencesIssued)'
  BY <1>8 DEF Cancel
<1>9. ASSUME NEW t \in Tasks, ReleaseNested(t)
      PROVE  (QueueAgreement /\ SequencesIssued)'
  BY <1>9 DEF ReleaseNested
<1>10. ASSUME NEW t \in Tasks, ReleaseLast(t)
      PROVE  (QueueAgreement /\ SequencesIssued)'
  BY <1>10 DEF ReleaseLast, NotifyAll, WaiterTasks
<1>11. ASSUME AdmitPreview
      PROVE  (QueueAgreement /\ SequencesIssued)'
  BY <1>11 DEF AdmitPreview
<1>12. ASSUME InvalidatePreviews
      PROVE  (QueueAgreement /\ SequencesIssued)'
  BY <1>12 DEF InvalidatePreviews
<1>13. CASE UNCHANGED vars
  BY <1>13 DEF vars
<1> QED
  BY <1>1, <1>2, <1>3, <1>4, <1>5, <1>6, <1>7, <1>8, <1>9, <1>10, <1>11, <1>12, <1>13 DEF Next, Acquire, Resume

\* No step loses the wake-up of the waiter whose turn it is.
LEMMA WakeupStep ==
    ASSUME IInv, [Next]_vars
    PROVE  NoLostWakeup'
<1> USE NoTaskAssumption, BoundsAssumption
    DEF MayRun, IInv, TypeOK, QueueAgreement, NoLostWakeup,
        IsNextWaiter, Precedes, WaiterTasks, Waiter, lockVars,
        queueVars, previewVars
<1>1. ASSUME NEW t \in Tasks, NEW i \in Intents, AcquireNested(t, i)
      PROVE  NoLostWakeup'
  BY <1>1 DEF AcquireNested
<1>2. ASSUME NEW t \in Tasks, NEW i \in Intents, AcquireAtOnce(t, i)
      PROVE  NoLostWakeup'
  BY <1>2 DEF AcquireAtOnce, Grant, InvalidateIfForeground
<1>3. ASSUME NEW t \in Tasks, NEW i \in Intents, AcquireQueued(t, i)
      PROVE  NoLostWakeup'
  BY <1>3 DEF AcquireQueued, InvalidateIfForeground, NewWaiter
<1>4. ASSUME NEW t \in Tasks, NEW i \in Intents, AcquireRefused(t, i)
      PROVE  NoLostWakeup'
  BY <1>4 DEF AcquireRefused, InvalidateIfForeground
<1>5. ASSUME NEW w \in waiters, ResumeGranted(w)
      PROVE  NoLostWakeup'
  BY <1>5 DEF ResumeGranted, Grant
<1>6. ASSUME NEW w \in waiters, ResumeWaits(w)
      PROVE  NoLostWakeup'
  BY <1>6 DEF ResumeWaits
<1>7. ASSUME NEW w \in waiters, ResumeCancelled(w)
      PROVE  NoLostWakeup'
  BY <1>7 DEF ResumeCancelled, NotifyAll, WaiterTasks
<1>8. ASSUME NEW t \in Tasks, Cancel(t)
      PROVE  NoLostWakeup'
  BY <1>8 DEF Cancel
<1>9. ASSUME NEW t \in Tasks, ReleaseNested(t)
      PROVE  NoLostWakeup'
  BY <1>9 DEF ReleaseNested
<1>10. ASSUME NEW t \in Tasks, ReleaseLast(t)
      PROVE  NoLostWakeup'
  BY <1>10 DEF ReleaseLast, NotifyAll, WaiterTasks
<1>11. ASSUME AdmitPreview
      PROVE  NoLostWakeup'
  BY <1>11 DEF AdmitPreview
<1>12. ASSUME InvalidatePreviews
      PROVE  NoLostWakeup'
  BY <1>12 DEF InvalidatePreviews
<1>13. CASE UNCHANGED vars
  BY <1>13 DEF vars
<1> QED
  BY <1>1, <1>2, <1>3, <1>4, <1>5, <1>6, <1>7, <1>8, <1>9, <1>10, <1>11, <1>12, <1>13 DEF Next, Acquire, Resume

\* Every step keeps the active intent the highest of the open holds.
LEMMA IntentStep ==
    ASSUME IInv, [Next]_vars
    PROVE  ActiveIntentIsHighest'
<1> USE NoTaskAssumption, BoundsAssumption
    DEF MayRun, CurrentTaskIntent, IInv, TypeOK, HolderAgreement, ActiveIntentIsHighest,
        IsHighest, NoIntent, Intents, BACKGROUND, PREVIEW, APPLY,
        USER, lockVars, queueVars, previewVars
<1>1. ASSUME NEW t \in Tasks, NEW i \in Intents, AcquireNested(t, i)
      PROVE  ActiveIntentIsHighest'
  BY <1>1 DEF AcquireNested
<1>2. ASSUME NEW t \in Tasks, NEW i \in Intents, AcquireAtOnce(t, i)
      PROVE  ActiveIntentIsHighest'
  BY <1>2 DEF AcquireAtOnce, Grant, InvalidateIfForeground
<1>3. ASSUME NEW t \in Tasks, NEW i \in Intents, AcquireQueued(t, i)
      PROVE  ActiveIntentIsHighest'
  BY <1>3 DEF AcquireQueued, InvalidateIfForeground, NewWaiter
<1>4. ASSUME NEW t \in Tasks, NEW i \in Intents, AcquireRefused(t, i)
      PROVE  ActiveIntentIsHighest'
  BY <1>4 DEF AcquireRefused, InvalidateIfForeground
<1>5. ASSUME NEW w \in waiters, ResumeGranted(w)
      PROVE  ActiveIntentIsHighest'
  <2>1. w.intent \in Intents /\ w.task \in Tasks
    BY DEF Waiter
  <2> QED
    BY <1>5, <2>1 DEF ResumeGranted, Grant
<1>6. ASSUME NEW w \in waiters, ResumeWaits(w)
      PROVE  ActiveIntentIsHighest'
  BY <1>6 DEF ResumeWaits
<1>7. ASSUME NEW w \in waiters, ResumeCancelled(w)
      PROVE  ActiveIntentIsHighest'
  BY <1>7 DEF ResumeCancelled, NotifyAll, WaiterTasks
<1>8. ASSUME NEW t \in Tasks, Cancel(t)
      PROVE  ActiveIntentIsHighest'
  BY <1>8 DEF Cancel
<1>9. ASSUME NEW t \in Tasks, ReleaseNested(t)
      PROVE  ActiveIntentIsHighest'
  BY <1>9, PoppedStack DEF ReleaseNested
<1>10. ASSUME NEW t \in Tasks, ReleaseLast(t)
      PROVE  ActiveIntentIsHighest'
  BY <1>10 DEF ReleaseLast, NotifyAll, WaiterTasks
<1>11. ASSUME AdmitPreview
      PROVE  ActiveIntentIsHighest'
  BY <1>11 DEF AdmitPreview
<1>12. ASSUME InvalidatePreviews
      PROVE  ActiveIntentIsHighest'
  BY <1>12 DEF InvalidatePreviews
<1>13. CASE UNCHANGED vars
  BY <1>13 DEF vars
<1> QED
  BY <1>1, <1>2, <1>3, <1>4, <1>5, <1>6, <1>7, <1>8, <1>9, <1>10, <1>11, <1>12, <1>13 DEF Next, Acquire, Resume

\* Whether or not it invalidates them, an arriving request keeps admissions
\* exact.
LEMMA ForegroundArrival ==
    ASSUME IInv, NEW i \in Intents, InvalidateIfForeground(i)
    PROVE  (AdmissionExact /\ GenerationsIssued)'
<1> USE BoundsAssumption
    DEF IInv, TypeOK, AdmissionExact, GenerationsIssued, IsCurrent,
        InvalidateIfForeground, previewVars
<1>1. CASE i > PREVIEW
  <2>1. /\ previewGeneration' = previewGeneration + 1
        /\ standing' = 0
        /\ handedOut' = handedOut
    BY <1>1
  <2>2. \A g \in handedOut :
          g \in Nat /\ 0 < g /\ g < previewGeneration + 1
    OBVIOUS
  <2> QED
    BY <2>1, <2>2
<1>2. CASE ~(i > PREVIEW)
  BY <1>2
<1> QED
  BY <1>1, <1>2

\* Every step keeps admissions exact.
LEMMA AdmissionStep ==
    ASSUME IInv, [Next]_vars
    PROVE  (AdmissionExact /\ GenerationsIssued)'
<1> USE NoTaskAssumption, BoundsAssumption
    DEF MayRun, IInv, TypeOK, AdmissionExact, GenerationsIssued,
        IsCurrent, Intents, BACKGROUND, PREVIEW, APPLY, USER,
        lockVars, queueVars, previewVars
<1>1. ASSUME NEW t \in Tasks, NEW i \in Intents, AcquireNested(t, i)
      PROVE  (AdmissionExact /\ GenerationsIssued)'
  BY <1>1 DEF AcquireNested
<1>2. ASSUME NEW t \in Tasks, NEW i \in Intents, AcquireAtOnce(t, i)
      PROVE  (AdmissionExact /\ GenerationsIssued)'
  BY <1>2, ForegroundArrival DEF AcquireAtOnce
<1>3. ASSUME NEW t \in Tasks, NEW i \in Intents, AcquireQueued(t, i)
      PROVE  (AdmissionExact /\ GenerationsIssued)'
  BY <1>3, ForegroundArrival DEF AcquireQueued
<1>4. ASSUME NEW t \in Tasks, NEW i \in Intents, AcquireRefused(t, i)
      PROVE  (AdmissionExact /\ GenerationsIssued)'
  BY <1>4, ForegroundArrival DEF AcquireRefused
<1>5. ASSUME NEW w \in waiters, ResumeGranted(w)
      PROVE  (AdmissionExact /\ GenerationsIssued)'
  BY <1>5 DEF ResumeGranted, Grant
<1>6. ASSUME NEW w \in waiters, ResumeWaits(w)
      PROVE  (AdmissionExact /\ GenerationsIssued)'
  BY <1>6 DEF ResumeWaits
<1>7. ASSUME NEW w \in waiters, ResumeCancelled(w)
      PROVE  (AdmissionExact /\ GenerationsIssued)'
  BY <1>7 DEF ResumeCancelled, NotifyAll, WaiterTasks
<1>8. ASSUME NEW t \in Tasks, Cancel(t)
      PROVE  (AdmissionExact /\ GenerationsIssued)'
  BY <1>8 DEF Cancel
<1>9. ASSUME NEW t \in Tasks, ReleaseNested(t)
      PROVE  (AdmissionExact /\ GenerationsIssued)'
  BY <1>9 DEF ReleaseNested
<1>10. ASSUME NEW t \in Tasks, ReleaseLast(t)
      PROVE  (AdmissionExact /\ GenerationsIssued)'
  BY <1>10 DEF ReleaseLast, NotifyAll, WaiterTasks
<1>11. ASSUME AdmitPreview
      PROVE  (AdmissionExact /\ GenerationsIssued)'
  BY <1>11 DEF AdmitPreview
<1>12. ASSUME InvalidatePreviews
      PROVE  (AdmissionExact /\ GenerationsIssued)'
  BY <1>12 DEF InvalidatePreviews
<1>13. CASE UNCHANGED vars
  BY <1>13 DEF vars
<1> QED
  BY <1>1, <1>2, <1>3, <1>4, <1>5, <1>6, <1>7, <1>8, <1>9, <1>10, <1>11, <1>12, <1>13 DEF Next, Acquire, Resume

-----------------------------------------------------------------------------
LEMMA InitIInv == Init => IInv
BY NoTaskAssumption, BoundsAssumption
   DEF Init, IInv, TypeOK, HolderAgreement, QueueAgreement, SequencesIssued,
       NoLostWakeup, MayRun, ActiveIntentIsHighest, AdmissionExact,
       GenerationsIssued, WaiterTasks

LEMMA NextIInv == IInv /\ [Next]_vars => IInv'
BY TypeStep, HolderStep, QueueStep, WakeupStep, IntentStep, AdmissionStep
   DEF IInv

\* The inductive invariant holds in every reachable state, for any number of
\* tasks, any nesting depth and any length of run.
THEOREM Inductive == SafeSpec => []IInv
BY InitIInv, NextIInv, PTL DEF SafeSpec

\* Type correctness of the arbiter.
THEOREM TypeCorrect == SafeSpec => []TypeOK
<1>1. IInv => TypeOK
  BY DEF IInv
<1> QED
  BY <1>1, Inductive, PTL

\* Mutual exclusion of BLE transactions: tasks and arbiter always agree on the
\* one holder, so a release never comes from a task that does not own it.
THEOREM HolderAgrees == SafeSpec => []HolderAgreement
<1>1. IInv => HolderAgreement
  BY DEF IInv
<1> QED
  BY <1>1, Inductive, PTL

\* The waiter list holds exactly the parked tasks, once each.
THEOREM QueueAgrees == SafeSpec => []QueueAgreement
<1>1. IInv => QueueAgreement
  BY DEF IInv
<1> QED
  BY <1>1, Inductive, PTL

\* A free device never sits idle with its next waiter asleep.
THEOREM WakeupsKept == SafeSpec => []NoLostWakeup
<1>1. IInv => NoLostWakeup
  BY DEF IInv
<1> QED
  BY <1>1, Inductive, PTL

\* The intent a nested operation inherits is the highest of the open holds.
THEOREM IntentFollowsHolds == SafeSpec => []ActiveIntentIsHighest
<1>1. IInv => ActiveIntentIsHighest
  BY DEF IInv
<1> QED
  BY <1>1, Inductive, PTL

\* A preview admission is current exactly until something supersedes it.
THEOREM AdmissionsExact == SafeSpec => []AdmissionExact
<1>1. IInv => AdmissionExact
  BY DEF IInv
<1> QED
  BY <1>1, Inductive, PTL

-----------------------------------------------------------------------------
LEMMA InitRefines == Init => Abstract!Init
BY DEF Init, Abstract!Init

\* The waiter that _next_waiter returns is one that no other waiter beats.
LEMMA NextIsUnbeaten ==
    ASSUME TypeOK, NEW w \in Waiter, IsNextWaiter(w, waiters)
    PROVE  Abstract!Unbeaten(w)
<1>1. \A v \in waiters \cup {w} : v.intent \in Int /\ v.sequence \in Int
  BY BoundsAssumption
  DEF TypeOK, Waiter, Intents, BACKGROUND, PREVIEW, APPLY, USER
<1> QED
  BY <1>1 DEF IsNextWaiter, Precedes, Abstract!Unbeaten, Abstract!Beats

\* Every step of the arbiter is a step of the priority lock, or one that the
\* lock's clients cannot see.
LEMMA NextRefines ==
    ASSUME IInv, [Next]_vars
    PROVE  [Abstract!Next]_(Abstract!vars)
<1> USE DEF IInv, TypeOK, HolderAgreement, QueueAgreement, WaiterTasks, Waiter,
            MayRun, lockVars, queueVars, previewVars,
            Abstract!vars, Abstract!Involved, Abstract!NewRequest
<1> Intents = Abstract!Intents
  BY DEF Intents, BACKGROUND, PREVIEW, APPLY, USER, Abstract!Intents,
         Abstract!BACKGROUND, Abstract!PREVIEW, Abstract!APPLY, Abstract!USER
<1>1. ASSUME NEW t \in Tasks, NEW i \in Intents, AcquireNested(t, i)
      PROVE  UNCHANGED Abstract!vars
  BY <1>1 DEF AcquireNested
<1>2. ASSUME NEW t \in Tasks, NEW i \in Intents, AcquireAtOnce(t, i)
      PROVE  Abstract!AskAndTake(t, i)
  <2>1. NewWaiter(t, i) \in Waiter
    BY <1>2, BoundsAssumption DEF AcquireAtOnce, NewWaiter
  <2>2. Abstract!Unbeaten(NewWaiter(t, i))
    BY <1>2, <2>1, NextIsUnbeaten DEF AcquireAtOnce
  <2> QED
    BY <1>2, <2>2 DEF AcquireAtOnce, Grant, NewWaiter, Abstract!AskAndTake
<1>3. ASSUME NEW t \in Tasks, NEW i \in Intents, AcquireQueued(t, i)
      PROVE  Abstract!Ask(t, i)
  BY <1>3 DEF AcquireQueued, NewWaiter, Abstract!Ask
<1>4. ASSUME NEW t \in Tasks, NEW i \in Intents, AcquireRefused(t, i)
      PROVE  UNCHANGED Abstract!vars
  BY <1>4 DEF AcquireRefused
<1>5. ASSUME NEW w \in waiters, ResumeGranted(w)
      PROVE  Abstract!Take(w)
  <2>1. Abstract!Unbeaten(w)
    BY <1>5, NextIsUnbeaten DEF ResumeGranted
  <2> QED
    BY <1>5, <2>1 DEF ResumeGranted, Grant, Abstract!Take
<1>6. ASSUME NEW w \in waiters, ResumeWaits(w)
      PROVE  UNCHANGED Abstract!vars
  BY <1>6 DEF ResumeWaits
<1>7. ASSUME NEW w \in waiters, ResumeCancelled(w)
      PROVE  Abstract!Withdraw(w)
  BY <1>7 DEF ResumeCancelled, Abstract!Withdraw
<1>8. ASSUME NEW t \in Tasks, Cancel(t)
      PROVE  UNCHANGED Abstract!vars
  BY <1>8 DEF Cancel
<1>9. ASSUME NEW t \in Tasks, ReleaseNested(t)
      PROVE  UNCHANGED Abstract!vars
  BY <1>9 DEF ReleaseNested
<1>10. ASSUME NEW t \in Tasks, ReleaseLast(t)
       PROVE  Abstract!Leave(t)
  BY <1>10 DEF ReleaseLast, Abstract!Leave
<1>11. CASE AdmitPreview \/ InvalidatePreviews \/ UNCHANGED vars
  BY <1>11 DEF AdmitPreview, InvalidatePreviews, vars
<1> QED
  BY <1>1, <1>2, <1>3, <1>4, <1>5, <1>6, <1>7, <1>8, <1>9, <1>10, <1>11
  DEF Next, Acquire, Resume, Abstract!Next

\* The arbiter implements the priority lock: one holder, and no grant that
\* overtakes a waiter of higher intent or an earlier one of the same intent.
THEOREM Refines == SafeSpec => PriorityLockSafe
<1>1. SafeSpec => []IInv
  BY Inductive
<1> QED
  BY <1>1, InitRefines, NextRefines, PTL
  DEF SafeSpec, PriorityLockSafe, Abstract!SafeSpec

-----------------------------------------------------------------------------
(* LatestRequests. *)

\* Requests wait in the order in which they have arrived, behind the one that
\* runs.
Ordered ==
    /\ running <= arrivals
    /\ \A i \in DOMAIN queue : queue[i] \in Arrived /\ running < queue[i]
    /\ \A i, j \in DOMAIN queue : i < j => queue[i] < queue[j]

\* A request that waits is the newest of its control, or a newer one came.
WaitingOrReplaced ==
    \A i \in DOMAIN queue : IsLatest(queue[i]) \/ Newer(queue[i]) # {}

QueueTypes ==
    /\ arrivals \in 0..MaxRequests
    /\ controlOf \in [Requests -> Controls]
    /\ latest \in [Controls -> 0..MaxRequests]
    /\ queue \in Seq(Requests)
    /\ running \in 0..MaxRequests
    /\ status \in [Requests -> {"new", "queued", "running", "finished",
                                "skipped", "cancelled"}]

QueueInv ==
    /\ QueueTypes
    /\ Ordered
    /\ WaitingOrReplaced
    /\ SkippedWasReplaced

LEMMA InitQueueInv == QueueInit => QueueInv
BY MaxRequestsAssumption
   DEF QueueInit, QueueInv, QueueTypes, Ordered, WaitingOrReplaced, Requests,
       SkippedWasReplaced, Arrived

\* Without one of its elements a sequence is as it was otherwise.
LEMMA Removal ==
    ASSUME NEW S, NEW s \in Seq(S), NEW i \in DOMAIN s
    PROVE  /\ RemoveAt(s, i) \in Seq(S)
           /\ DOMAIN RemoveAt(s, i) = 1..(Len(s) - 1)
           /\ \A j \in DOMAIN RemoveAt(s, i) :
                 RemoveAt(s, i)[j] = IF j < i THEN s[j] ELSE s[j + 1]
<1> DEFINE front == SubSeq(s, 1, i - 1)
           back == SubSeq(s, i + 1, Len(s))
<1>1. Len(s) \in Nat /\ i \in 1..Len(s)
  OBVIOUS
<1>2. /\ front \in Seq(S) /\ Len(front) = i - 1
      /\ \A j \in 1..(i - 1) : front[j] = s[j]
  BY <1>1
<1>3. /\ back \in Seq(S) /\ Len(back) = Len(s) - i
      /\ \A j \in 1..(Len(s) - i) : back[j] = s[i + j]
  BY <1>1
<1> HIDE DEF front, back
<1>4. /\ front \o back \in Seq(S)
      /\ Len(front \o back) = Len(s) - 1
      /\ \A j \in 1..(Len(s) - 1) :
            (front \o back)[j] = IF j <= i - 1 THEN front[j]
                                ELSE back[j - (i - 1)]
  <2>1. /\ front \o back \in Seq(S)
        /\ Len(front \o back) = Len(front) + Len(back)
        /\ \A j \in 1 .. Len(front) + Len(back) :
              (front \o back)[j] = IF j <= Len(front) THEN front[j]
                                   ELSE back[j - Len(front)]
    BY <1>2, <1>3, ConcatProperties
  <2>2. Len(front) + Len(back) = Len(s) - 1
    BY <1>1, <1>2, <1>3
  <2> QED  BY <1>2, <2>1, <2>2
<1>5. \A j \in 1..(Len(s) - 1) :
         (front \o back)[j] = IF j < i THEN s[j] ELSE s[j + 1]
  <2> SUFFICES ASSUME NEW j \in 1..(Len(s) - 1)
               PROVE  (front \o back)[j] = IF j < i THEN s[j] ELSE s[j + 1]
    OBVIOUS
  <2>1. j \in Int /\ i \in Int /\ 1 <= j /\ 1 <= i /\ i <= Len(s)
        /\ j <= Len(s) - 1
    BY <1>1
  <2>2. ASSUME j < i
        PROVE  (front \o back)[j] = s[j]
    BY <2>1, <2>2, <1>2, <1>4
  <2>3. ASSUME ~(j < i)
        PROVE  (front \o back)[j] = s[j + 1]
    <3>1. j - (i - 1) \in 1..(Len(s) - i) /\ i + (j - (i - 1)) = j + 1
      BY <2>1, <2>3, <1>1
    <3>2. back[j - (i - 1)] = s[j + 1]
      BY <3>1, <1>3
    <3>3. (front \o back)[j] = back[j - (i - 1)]
      <4>1. ~(j <= i - 1)
        BY <2>1, <2>3
      <4>2. (front \o back)[j] = IF j <= i - 1 THEN front[j] ELSE back[j - (i - 1)]
        BY <1>4
      <4> QED  BY <4>1, <4>2
    <3> QED
      BY <3>2, <3>3
  <2> QED
    BY <2>2, <2>3
<1>6. RemoveAt(s, i) = front \o back
  BY DEF RemoveAt, front, back
<1>7. DOMAIN (front \o back) = 1..(Len(s) - 1)
  BY <1>1, <1>4
<1> QED
  BY <1>4, <1>5, <1>6, <1>7

\* Forgetting a request's own token takes nothing from any other request.
LEMMA ForgetKeeps ==
    ASSUME QueueTypes, NEW r \in Requests, Forget(r), UNCHANGED <<arrivals, controlOf>>
    PROVE  /\ latest' \in [Controls -> 0..MaxRequests]
           /\ \A q \in Requests \ {r} :
                 IsLatest(q) \/ Newer(q) # {} => (IsLatest(q) \/ Newer(q) # {})'
<1>1. latest' \in [Controls -> 0..MaxRequests]
  BY MaxRequestsAssumption DEF QueueTypes, Forget
<1>2. ASSUME NEW q \in Requests \ {r}, IsLatest(q)
      PROVE  IsLatest(q)'
  BY <1>2 DEF QueueTypes, Forget, IsLatest
<1>3. ASSUME NEW q \in Requests
      PROVE  Newer(q)' = Newer(q)
  BY DEF Newer, Arrived
<1> QED
  BY <1>1, <1>2, <1>3

\* What has been replaced stays replaced.
LEMMA NewerStays ==
    ASSUME QueueTypes, QueueTypes', UNCHANGED controlOf, arrivals <= arrivals'
    PROVE  \A r \in Requests : Newer(r) \subseteq Newer(r)'
BY DEF QueueTypes, Newer, Arrived

LEMMA ArriveKeeps ==
    ASSUME QueueInv, Arrive
    PROVE  QueueInv'
<1> USE MaxRequestsAssumption DEF QueueInv
<1> PICK a \in Requests : a = arrivals + 1
  BY DEF Arrive, QueueTypes, Requests
<1>1. /\ a \in Requests /\ arrivals \in Nat
      /\ arrivals' = a /\ controlOf' = controlOf
      /\ \A r \in Arrived : r \in Requests /\ r < a
      /\ Arrived' = Arrived \cup {a}
  BY DEF Arrive, QueueTypes, Requests, Arrived
<1>2. latest' = [latest EXCEPT ![controlOf[a]] = a]
  BY <1>1 DEF Arrive
<1>3. \/ queue = <<>> /\ queue' = <<>> /\ running' = a
      \/ queue' = Append(queue, a) /\ running' = running
  BY <1>1 DEF Arrive, LockFreeForNewcomer
<1>4. \E st \in {"running", "queued"} : status' = [status EXCEPT ![a] = st]
  BY <1>1 DEF Arrive
<1>5. QueueTypes'
  <2>1. arrivals' \in 0..MaxRequests /\ controlOf' \in [Requests -> Controls]
    BY <1>1 DEF QueueTypes, Requests
  <2>2. latest' \in [Controls -> 0..MaxRequests]
    BY <1>1, <1>2 DEF QueueTypes, Requests
  <2>3. queue' \in Seq(Requests)
    <3>1. queue \in Seq(Requests) /\ Append(queue, a) \in Seq(Requests)
      BY AppendProperties DEF QueueTypes
    <3> QED
      BY <1>3, <3>1
  <2>4. running' \in 0..MaxRequests
    BY SMTT(60), <1>1, <1>3 DEF QueueTypes, Requests
  <2>5. status' \in [Requests -> {"new", "queued", "running", "finished",
                                 "skipped", "cancelled"}]
    BY <1>1, <1>4 DEF QueueTypes
  <2> QED
    BY <2>1, <2>2, <2>3, <2>4, <2>5 DEF QueueTypes
<1>6. \A r \in Requests : Newer(r) \subseteq Newer(r)'
  BY <1>1 DEF Newer
<1>7. SkippedWasReplaced'
  <2>1. ASSUME NEW r \in Arrived', status'[r] = "skipped"
        PROVE  r \in Arrived /\ r \in Requests /\ status[r] = "skipped"
    BY <2>1, <1>1, <1>4 DEF QueueTypes
  <2> QED
    BY <2>1, <1>6 DEF SkippedWasReplaced
<1>8. CASE queue = <<>> /\ queue' = <<>> /\ running' = a
  <2>1. DOMAIN queue' = {}
    BY <1>8
  <2>2. Ordered' /\ WaitingOrReplaced'
    BY <2>1, <1>8, <1>1 DEF Ordered, WaitingOrReplaced
  <2> QED
    BY <2>2, <1>5, <1>7
<1>9. CASE queue' = Append(queue, a) /\ running' = running
  <2>1. /\ DOMAIN queue = 1..Len(queue) /\ Len(queue) \in Nat
        /\ DOMAIN queue' = 1..(Len(queue) + 1)
        /\ queue'[Len(queue) + 1] = a
        /\ \A i \in 1..Len(queue) : queue'[i] = queue[i] /\ queue[i] \in Arrived
    BY <1>1, <1>9, AppendProperties DEF QueueTypes, Ordered
  <2>2. Ordered'
    <3>1. running < a
      BY <1>1 DEF QueueTypes, Ordered
    <3>2. \A i \in 1..Len(queue) : running < queue[i] /\ queue[i] < a
      BY <2>1, <1>1 DEF Ordered
    <3>3. \A i \in DOMAIN queue' : queue'[i] \in Arrived' /\ running' < queue'[i]
      BY <2>1, <3>1, <3>2, <1>1, <1>9
    <3>4. ASSUME NEW i \in DOMAIN queue', NEW j \in DOMAIN queue', i < j
          PROVE  queue'[i] < queue'[j]
      <4>1. i \in 1..Len(queue)
        BY <3>4, <2>1
      <4>2. CASE j \in 1..Len(queue)
        BY <3>4, <4>1, <4>2, <2>1 DEF Ordered
      <4>3. CASE j = Len(queue) + 1
        BY <4>1, <4>3, <2>1, <3>2
      <4> QED
        BY <4>2, <4>3, <2>1
    <3>5. running' <= arrivals'
      BY <3>1, <1>1, <1>9 DEF QueueTypes
    <3> QED
      BY <3>3, <3>4, <3>5 DEF Ordered
  <2>3. ASSUME NEW i \in 1..Len(queue)
        PROVE  (IsLatest(queue[i]) \/ Newer(queue[i]) # {})'
    <3> PICK q \in Requests : q = queue[i]
      BY <1>1, <2>1
    <3>1. q \in Requests /\ q < a /\ queue'[i] = q
      BY <1>1, <2>1
    <3>2. CASE controlOf[q] = controlOf[a]
      <4>1. a \in Newer(q)'
        BY <1>1, <3>1, <3>2 DEF Newer
      <4> QED
        BY <4>1, <3>1
    <3>3. CASE controlOf[q] # controlOf[a]
      <4>1. IsLatest(q) => IsLatest(q)'
        BY <1>1, <1>2, <3>1, <3>3 DEF IsLatest, QueueTypes
      <4>2. IsLatest(q) \/ Newer(q) # {}
        BY <2>1 DEF WaitingOrReplaced
      <4>3. (IsLatest(q) \/ Newer(q) # {})'
        BY <4>1, <4>2, <3>1, <1>6
      <4> QED
        BY <4>3, <3>1
    <3> QED
      BY <3>2, <3>3
  <2>4. IsLatest(a)'
    BY <1>1, <1>2 DEF IsLatest, QueueTypes
  <2>5. WaitingOrReplaced'
    BY <2>1, <2>3, <2>4 DEF WaitingOrReplaced
  <2> QED
    BY <2>2, <2>5, <1>5, <1>7
<1> QED
  BY <1>3, <1>8, <1>9

\* The request at place i leaves the queue, the others keep their order.
Departs(i) ==
    /\ queue' \in Seq(Requests)
    /\ DOMAIN queue' = 1..(Len(queue) - 1)
    /\ \A j \in DOMAIN queue' :
          queue'[j] = IF j < i THEN queue[j] ELSE queue[j + 1]
    /\ UNCHANGED <<arrivals, controlOf>>
    /\ (running' = running \/ (i = 1 /\ running' = queue[i]))
    /\ \A q \in Requests \ {queue[i]} :
          latest[controlOf[q]] = q => latest'[controlOf[q]] = q

LEMMA DepartureKeeps ==
    ASSUME QueueInv, NEW i \in DOMAIN queue, Departs(i)
    PROVE  Ordered' /\ WaitingOrReplaced'
<1> USE DEF QueueInv, Departs
<1>1. /\ DOMAIN queue = 1..Len(queue) /\ Len(queue) \in Nat /\ i \in 1..Len(queue)
      /\ queue[i] \in Requests
  BY DEF QueueTypes
<1>0. arrivals \in Nat /\ running \in Nat /\ Requests \subseteq Nat /\ Arrived' = Arrived
  BY MaxRequestsAssumption DEF QueueTypes, Requests, Arrived
<1>2. ASSUME NEW j \in DOMAIN queue'
      PROVE  \E k \in DOMAIN queue : /\ k # i /\ queue'[j] = queue[k]
                                   /\ k = IF j < i THEN j ELSE j + 1
  BY <1>0, <1>1
<1>3. \A k \in DOMAIN queue : queue[k] \in Requests /\ queue[k] \in Nat
  <2>1. queue \in [1..Len(queue) -> Requests]
    BY DEF QueueTypes
  <2> QED
    BY <1>0, <2>1
<1>4. \A k \in DOMAIN queue : k # i => queue[k] # queue[i]
  BY <1>0, <1>1, <1>3 DEF Ordered
<1>5. Ordered'
  <2>1. running' <= arrivals'
    BY <1>0, <1>1, <1>3 DEF Ordered, Arrived
  <2>2. ASSUME NEW j \in DOMAIN queue'
        PROVE  queue'[j] \in Arrived' /\ running' < queue'[j]
    <3> PICK k \in DOMAIN queue : /\ k # i /\ queue'[j] = queue[k]
                                /\ k = IF j < i THEN j ELSE j + 1
      BY <1>2
    <3>1. i = 1 => i < k
      BY <1>0, <1>1
    <3>2. i = 1 => queue[i] < queue[k]
      BY <3>1 DEF Ordered
    <3>3. queue[k] \in Arrived /\ running < queue[k] /\ 0 < queue[k]
      BY <1>0, <1>1, <1>3 DEF Ordered, Requests
    <3>4. running' < queue[k]
      BY <1>0, <1>1, <1>3, <3>2, <3>3
    <3> QED
      BY <1>0, <3>3, <3>4
  <2>3. ASSUME NEW j \in DOMAIN queue', NEW l \in DOMAIN queue', j < l
        PROVE  queue'[j] < queue'[l]
    <3> PICK k \in DOMAIN queue : /\ k # i /\ queue'[j] = queue[k]
                                /\ k = IF j < i THEN j ELSE j + 1
      BY <1>2
    <3> PICK m \in DOMAIN queue : /\ m # i /\ queue'[l] = queue[m]
                                /\ m = IF l < i THEN l ELSE l + 1
      BY <1>2
    <3>1. k < m
      BY <2>3, <1>0, <1>1
    <3> QED
      BY <3>1 DEF Ordered
  <2> QED
    BY <2>1, <2>2, <2>3 DEF Ordered
<1>6. WaitingOrReplaced'
  <2> SUFFICES ASSUME NEW j \in DOMAIN queue'
               PROVE  (IsLatest(queue[j]) \/ Newer(queue[j]) # {})'
    BY DEF WaitingOrReplaced
  <2> PICK k \in DOMAIN queue : k # i /\ queue'[j] = queue[k]
    BY <1>2
  <2> PICK q \in Requests : q = queue[k]
    BY <1>3
  <2>1. IsLatest(q) \/ Newer(q) # {}
    BY DEF WaitingOrReplaced
  <2>2. Newer(q)' = Newer(q)
    BY <1>0, <1>1 DEF Newer
  <2>3. IsLatest(q) => IsLatest(q)'
    BY <1>0, <1>1, <1>4 DEF IsLatest, QueueTypes
  <2> QED
    BY <2>1, <2>2, <2>3
<1> QED
  BY <1>5, <1>6

LEMMA TailIsDeparture ==
    ASSUME QueueInv, queue # <<>>, queue' = Tail(queue)
    PROVE  /\ 1 \in DOMAIN queue /\ Head(queue) = queue[1]
           /\ queue[1] \in Requests
           /\ queue' \in Seq(Requests)
           /\ DOMAIN queue' = 1..(Len(queue) - 1)
           /\ \A j \in DOMAIN queue' :
                 queue'[j] = IF j < 1 THEN queue[j] ELSE queue[j + 1]
BY HeadTailProperties, EmptySeq DEF QueueInv, QueueTypes

\* A status other than "skipped" says nothing of who was replaced.
LEMMA StatusKeeps ==
    ASSUME QueueInv, NEW r \in Requests,
           NEW st \in {"running", "finished", "cancelled", "skipped"},
           status' = [status EXCEPT ![r] = st],
           UNCHANGED <<arrivals, controlOf>>,
           st = "skipped" => Newer(r) # {}
    PROVE  /\ SkippedWasReplaced'
           /\ status' \in [Requests -> {"new", "queued", "running", "finished",
                                        "skipped", "cancelled"}]
<1>1. \A q \in Requests : Newer(q)' = Newer(q)
  BY DEF Newer, Arrived
<1>2. Arrived' = Arrived /\ Arrived \subseteq Requests
  BY MaxRequestsAssumption DEF Arrived, QueueInv, QueueTypes, Requests
<1> QED
  BY <1>1, <1>2 DEF QueueInv, QueueTypes, SkippedWasReplaced

LEMMA QueueInvStep ==
    ASSUME QueueInv, [QueueNext]_requestVars
    PROVE  QueueInv'
<1>1. CASE Arrive
  BY <1>1, ArriveKeeps
<1>2. CASE HandOver
  <2>1. /\ 1 \in DOMAIN queue /\ Head(queue) = queue[1] /\ queue[1] \in Requests
        /\ queue' \in Seq(Requests)
    BY <1>2, TailIsDeparture DEF HandOver
  <2>2. Departs(1)
    BY <1>2, <2>1, TailIsDeparture DEF HandOver, Departs
  <2>3. Ordered' /\ WaitingOrReplaced'
    BY <2>1, <2>2, DepartureKeeps
  <2>4. /\ SkippedWasReplaced'
        /\ status' \in [Requests -> {"new", "queued", "running", "finished",
                                     "skipped", "cancelled"}]
    BY <1>2, <2>1, StatusKeeps DEF HandOver
  <2>5. running' \in 0..MaxRequests
    BY <1>2, <2>1, MaxRequestsAssumption DEF HandOver, Requests
  <2> QED
    BY <1>2, <2>1, <2>3, <2>4, <2>5 DEF HandOver, QueueInv, QueueTypes
<1>3. CASE Skip
  <2>1. /\ 1 \in DOMAIN queue /\ Head(queue) = queue[1] /\ queue[1] \in Requests
        /\ queue' \in Seq(Requests)
    BY <1>3, TailIsDeparture DEF Skip
  <2>2. Ordered' /\ WaitingOrReplaced'
    <3>1. \A q \in Requests \ {queue[1]} :
             latest[controlOf[q]] = q => latest'[controlOf[q]] = q
      BY <1>3, <2>1 DEF Skip, Forget, QueueInv, QueueTypes
    <3>2. Departs(1)
      BY <1>3, <2>1, <3>1, TailIsDeparture DEF Skip, Departs
    <3> QED
      BY <2>1, <3>2, DepartureKeeps
  <2>3. Newer(queue[1]) # {}
    BY <1>3, <2>1 DEF Skip, QueueInv, WaitingOrReplaced
  <2>4. /\ SkippedWasReplaced'
        /\ status' \in [Requests -> {"new", "queued", "running", "finished",
                                     "skipped", "cancelled"}]
    BY <1>3, <2>1, <2>3, StatusKeeps DEF Skip
  <2>5. latest' \in [Controls -> 0..MaxRequests]
    BY <1>3, <2>1, ForgetKeeps DEF Skip, QueueInv
  <2> QED
    BY <1>3, <2>1, <2>2, <2>4, <2>5 DEF Skip, QueueInv, QueueTypes
<1>4. CASE Finish
  <2>1. running \in Requests
    BY <1>4, MaxRequestsAssumption DEF Finish, QueueInv, QueueTypes, Requests
  <2>2. WaitingOrReplaced'
    <3> SUFFICES ASSUME NEW i \in DOMAIN queue
                 PROVE  (IsLatest(queue[i]) \/ Newer(queue[i]) # {})'
      BY <1>4 DEF Finish, WaitingOrReplaced
    <3> PICK q \in Requests : q = queue[i]
      BY DEF QueueInv, QueueTypes
    <3>1. q # running
      BY <2>1, MaxRequestsAssumption DEF QueueInv, Ordered, QueueTypes, Requests
    <3>2. (IsLatest(q) \/ Newer(q) # {})'
      BY <1>4, <2>1, <3>1, ForgetKeeps DEF Finish, QueueInv, WaitingOrReplaced
    <3> QED
      BY <1>4, <3>2 DEF Finish
  <2>3. Ordered'
    BY <1>4, <2>1, MaxRequestsAssumption
       DEF Finish, QueueInv, QueueTypes, Ordered, Arrived, Requests
  <2>4. /\ SkippedWasReplaced'
        /\ status' \in [Requests -> {"new", "queued", "running", "finished",
                                     "skipped", "cancelled"}]
    BY <1>4, <2>1, StatusKeeps DEF Finish
  <2>5. latest' \in [Controls -> 0..MaxRequests]
    BY <1>4, <2>1, ForgetKeeps DEF Finish, QueueInv
  <2> QED
    BY <1>4, <2>2, <2>3, <2>4, <2>5, MaxRequestsAssumption
       DEF Finish, QueueInv, QueueTypes
<1>5. ASSUME NEW r \in Requests, CancelQueued(r)
      PROVE  QueueInv'
  <2>1. PICK i \in DOMAIN queue : queue[i] = r /\ queue' = RemoveAt(queue, i)
    BY <1>5 DEF CancelQueued
  <2>2. queue \in Seq(Requests)
    BY DEF QueueInv, QueueTypes
  <2>3. /\ queue' \in Seq(Requests)
        /\ DOMAIN queue' = 1..(Len(queue) - 1)
        /\ \A j \in DOMAIN queue' :
              queue'[j] = IF j < i THEN queue[j] ELSE queue[j + 1]
    BY <2>1, <2>2, Removal
  <2>4. Ordered' /\ WaitingOrReplaced'
    <3>1. \A q \in Requests \ {queue[i]} :
             latest[controlOf[q]] = q => latest'[controlOf[q]] = q
      BY <1>5, <2>1 DEF CancelQueued, Forget, QueueInv, QueueTypes
    <3>2. Departs(i)
      BY <1>5, <2>3, <3>1 DEF CancelQueued, Departs
    <3> QED
      BY <3>2, DepartureKeeps
  <2>5. /\ SkippedWasReplaced'
        /\ status' \in [Requests -> {"new", "queued", "running", "finished",
                                     "skipped", "cancelled"}]
    BY <1>5, StatusKeeps DEF CancelQueued
  <2>6. latest' \in [Controls -> 0..MaxRequests]
    BY <1>5, ForgetKeeps DEF CancelQueued, QueueInv
  <2> QED
    BY <1>5, <2>3, <2>4, <2>5, <2>6 DEF CancelQueued, QueueInv, QueueTypes
<1>6. CASE UNCHANGED requestVars
  BY <1>6 DEF requestVars, QueueInv, QueueTypes, Ordered, WaitingOrReplaced, IsLatest,
              Newer, Arrived, SkippedWasReplaced
<1> QED
  BY <1>1, <1>2, <1>3, <1>4, <1>5, <1>6 DEF QueueNext

\* The status of a request says whether it waits or holds the lock.
StatusAgrees ==
    \A r \in Requests :
        /\ status[r] = "queued" <=> IsIn(r, queue)
        /\ status[r] = "running" <=> running = r

\* Nobody stands in the queue twice: who leaves it is in it no more, and the
\* others still are.
LEMMA DepartedOnly ==
    ASSUME QueueInv, NEW i \in DOMAIN queue, Departs(i)
    PROVE  /\ queue[i] \in Requests
           /\ \A r \in Requests : IsIn(r, queue') <=> IsIn(r, queue) /\ r # queue[i]
<1>1. /\ DOMAIN queue = 1..Len(queue) /\ Len(queue) \in Nat /\ i \in 1..Len(queue)
      /\ DOMAIN queue' = 1..(Len(queue) - 1)
      /\ \A j \in DOMAIN queue : queue[j] \in Requests /\ queue[j] \in Nat
  <2>1. queue \in Seq(Requests) /\ Requests \subseteq Nat
    BY DEF QueueInv, QueueTypes, Requests
  <2>2. DOMAIN queue = 1..Len(queue) /\ Len(queue) \in Nat
    BY <2>1, LenProperties
  <2>3. \A j \in 1..Len(queue) : queue[j] \in Requests
    BY <2>1, ElementOfSeq
  <2> QED  BY <2>1, <2>2, <2>3 DEF Departs
<1>2. \A j \in DOMAIN queue : j # i => queue[j] # queue[i]
  BY <1>1 DEF QueueInv, Ordered
<1>3. ASSUME NEW r \in Requests, IsIn(r, queue')
      PROVE  IsIn(r, queue) /\ r # queue[i]
  <2>1. PICK j \in DOMAIN queue' : queue'[j] = r
    BY <1>3 DEF IsIn
  <2>2. \E k \in DOMAIN queue : k # i /\ queue'[j] = queue[k]
    BY <1>1 DEF Departs
  <2> QED  BY <1>2, <2>1, <2>2 DEF IsIn
<1>4. ASSUME NEW r \in Requests, IsIn(r, queue), r # queue[i]
      PROVE  IsIn(r, queue')
  <2>1. PICK k \in DOMAIN queue : queue[k] = r
    BY <1>4 DEF IsIn
  <2>2. k # i
    BY <1>4, <2>1
  <2>3. CASE k < i
    <3>1. k \in DOMAIN queue' /\ queue'[k] = queue[k]
      BY <1>1, <2>3 DEF Departs
    <3> QED  BY <2>1, <3>1 DEF IsIn
  <2>4. CASE ~(k < i)
    <3>1. /\ k - 1 \in DOMAIN queue' /\ ~(k - 1 < i) /\ (k - 1) + 1 = k
      BY <1>1, <2>2, <2>4
    <3>2. queue'[k - 1] = queue[k]
      BY <3>1 DEF Departs
    <3> QED  BY <2>1, <3>1, <3>2 DEF IsIn
  <2> QED  BY <2>3, <2>4
<1> QED  BY <1>1, <1>3, <1>4

LEMMA StatusStep ==
    ASSUME QueueInv, StatusAgrees, [QueueNext]_requestVars
    PROVE  StatusAgrees'
<1>0. /\ status \in [Requests -> {"new", "queued", "running", "finished",
                                 "skipped", "cancelled"}]
      /\ Requests \subseteq Nat /\ 0 \notin Requests
  BY MaxRequestsAssumption DEF QueueInv, QueueTypes, Requests
<1>1. CASE Arrive
  <2> PICK a \in Requests : a = arrivals'
    BY <1>1, MaxRequestsAssumption DEF Arrive, QueueInv, QueueTypes, Requests
  <2>1. CASE LockFreeForNewcomer
    <3>1. /\ running = 0 /\ queue = <<>> /\ running' = a /\ queue' = queue
          /\ status' = [status EXCEPT ![a] = "running"]
      BY <1>1, <2>1 DEF Arrive, LockFreeForNewcomer
    <3> QED  BY <1>0, <3>1 DEF StatusAgrees, IsIn
  <2>2. CASE ~LockFreeForNewcomer
    <3>1. /\ queue' = Append(queue, a) /\ running' = running
          /\ status' = [status EXCEPT ![a] = "queued"]
      BY <1>1, <2>2 DEF Arrive
    <3>2. running # a
      BY <1>1, MaxRequestsAssumption
         DEF Arrive, QueueInv, QueueTypes, Ordered
    <3>3. \A r \in Requests : IsIn(r, queue') <=> IsIn(r, queue) \/ r = a
      <4>1. /\ DOMAIN queue = 1..Len(queue) /\ Len(queue) \in Nat
            /\ DOMAIN queue' = 1..(Len(queue) + 1)
            /\ queue'[Len(queue) + 1] = a
            /\ \A i \in 1..Len(queue) : queue'[i] = queue[i]
        BY <3>1, AppendProperties DEF QueueInv, QueueTypes
      <4>2. \A i \in DOMAIN queue' : i \in DOMAIN queue \/ i = Len(queue) + 1
        BY <4>1
      <4>3. DOMAIN queue \subseteq DOMAIN queue' /\ Len(queue) + 1 \in DOMAIN queue'
        BY <4>1
      <4> QED  BY <4>1, <4>2, <4>3 DEF IsIn
    <3> QED  BY <1>0, <3>1, <3>2, <3>3 DEF StatusAgrees
  <2> QED  BY <2>1, <2>2
\* The first of the queue gets the lock, or gives it up at once.
<1>2. ASSUME HandOver \/ Skip
      PROVE  StatusAgrees'
  <2>1. /\ 1 \in DOMAIN queue /\ Head(queue) = queue[1] /\ queue[1] \in Requests
    BY <1>2, TailIsDeparture DEF HandOver, Skip
  <2>2. Departs(1)
    <3>1. CASE HandOver
      BY <3>1, <2>1, TailIsDeparture DEF HandOver, Departs
    <3>2. CASE Skip
      <4>1. \A q \in Requests \ {queue[1]} :
               latest[controlOf[q]] = q => latest'[controlOf[q]] = q
        BY <3>2, <2>1 DEF Skip, Forget, QueueInv, QueueTypes
      <4> QED  BY <3>2, <2>1, <4>1, TailIsDeparture DEF Skip, Departs
    <3> QED  BY <1>2, <3>1, <3>2
  <2>3. \A r \in Requests : IsIn(r, queue') <=> IsIn(r, queue) /\ r # queue[1]
    BY <2>1, <2>2, DepartedOnly
  <2>4. running = 0
    BY <1>2 DEF HandOver, Skip
  <2>5. CASE HandOver
    <3>1. running' = queue[1] /\ status' = [status EXCEPT ![queue[1]] = "running"]
      BY <2>1, <2>5 DEF HandOver
    <3> QED  BY <1>0, <2>1, <2>3, <2>4, <3>1 DEF StatusAgrees
  <2>6. CASE Skip
    <3>1. running' = running /\ status' = [status EXCEPT ![queue[1]] = "skipped"]
      BY <2>1, <2>6 DEF Skip
    <3> QED  BY <1>0, <2>1, <2>3, <2>4, <3>1 DEF StatusAgrees
  <2> QED  BY <1>2, <2>5, <2>6
<1>3. CASE Finish
  <2>1. running \in Requests
    BY <1>3, MaxRequestsAssumption DEF Finish, QueueInv, QueueTypes, Requests
  <2>2. ~IsIn(running, queue)
    BY <1>0, <2>1 DEF StatusAgrees
  <2> QED  BY <1>0, <1>3, <2>1, <2>2 DEF Finish, StatusAgrees
<1>4. ASSUME NEW r \in Requests, CancelQueued(r)
      PROVE  StatusAgrees'
  <2>1. PICK i \in DOMAIN queue : queue[i] = r /\ queue' = RemoveAt(queue, i)
    BY <1>4 DEF CancelQueued
  <2>2. Departs(i)
    <3>1. queue \in Seq(Requests)
      BY DEF QueueInv, QueueTypes
    <3>2. /\ queue' \in Seq(Requests)
          /\ DOMAIN queue' = 1..(Len(queue) - 1)
          /\ \A j \in DOMAIN queue' :
                queue'[j] = IF j < i THEN queue[j] ELSE queue[j + 1]
      BY <2>1, <3>1, Removal
    <3>3. \A q \in Requests \ {queue[i]} :
             latest[controlOf[q]] = q => latest'[controlOf[q]] = q
      BY <1>4, <2>1 DEF CancelQueued, Forget, QueueInv, QueueTypes
    <3> QED  BY <1>4, <3>2, <3>3 DEF CancelQueued, Departs
  <2>3. \A q \in Requests : IsIn(q, queue') <=> IsIn(q, queue) /\ q # r
    BY <2>1, <2>2, DepartedOnly
  <2>4. IsIn(r, queue) /\ running' = running
        /\ status' = [status EXCEPT ![r] = "cancelled"]
    BY <1>4, <2>1 DEF CancelQueued, IsIn
  <2>5. running # r
    BY <1>0, <2>4 DEF StatusAgrees
  <2> QED  BY <1>0, <2>3, <2>4, <2>5 DEF StatusAgrees
<1>5. CASE UNCHANGED requestVars
  BY <1>5 DEF requestVars, StatusAgrees
<1> QED
  BY <1>1, <1>2, <1>3, <1>4, <1>5 DEF QueueNext

\* LatestRequests.run, for any number of requests: one of them at most holds the
\* lock, and each stands in the queue exactly while it waits for it.
THEOREM QueueAgreesWithStatus == QueueSpec => []QueueTypeOK
<1>1. QueueInit => StatusAgrees
  BY MaxRequestsAssumption DEF QueueInit, StatusAgrees, IsIn, Requests
<1>2. QueueInv /\ StatusAgrees => QueueTypeOK
  BY DEF QueueInv, QueueTypes, StatusAgrees, QueueTypeOK
<1> QED
  BY <1>1, <1>2, InitQueueInv, QueueInvStep, StatusStep, PTL DEF QueueSpec

LEMMA TokensStep ==
    ASSUME QueueInv, TokensAreNewest, [QueueNext]_requestVars
    PROVE  TokensAreNewest'
<1>0. /\ status \in [Requests -> {"new", "queued", "running", "finished",
                                 "skipped", "cancelled"}]
      /\ controlOf \in [Requests -> Controls] /\ latest \in [Controls -> 0..MaxRequests]
      /\ arrivals \in Nat /\ arrivals <= MaxRequests
      /\ Requests \subseteq Nat /\ 0 \notin Requests
      /\ \A q : q \in Arrived => q \in Requests
      /\ \A i \in DOMAIN queue : queue[i] \in Requests
  <2>1. \A i \in DOMAIN queue : queue[i] \in Requests
    BY ElementOfSeq, LenProperties DEF QueueInv, QueueTypes
  <2> QED
    BY <2>1, MaxRequestsAssumption DEF QueueInv, QueueTypes, Requests, Arrived
<1>1. CASE Arrive
  <2> PICK n \in Requests : n = arrivals'
    BY <1>0, <1>1, MaxRequestsAssumption DEF Arrive, Requests
  <2>1. /\ n = arrivals + 1 /\ controlOf' = controlOf
        /\ latest' = [latest EXCEPT ![controlOf[n]] = n]
    BY <1>1 DEF Arrive
  <2>2. \E st \in {"queued", "running"} : status' = [status EXCEPT ![n] = st]
    BY <1>1 DEF Arrive
  <2> SUFFICES ASSUME NEW c \in Controls, latest'[c] # 0
               PROVE  /\ latest'[c] \in 1..n /\ controlOf[latest'[c]] = c
                      /\ status'[latest'[c]] \in {"queued", "running"}
                      /\ \A q \in 1..n : q > latest'[c] => controlOf[q] # c
    BY <2>1 DEF TokensAreNewest, Newer, Arrived
  <2>3. CASE c = controlOf[n]
    BY <1>0, <2>1, <2>2, <2>3
  <2>4. CASE c # controlOf[n]
    <3>1. /\ latest'[c] = latest[c] /\ latest[c] \in 1..arrivals
          /\ controlOf[latest[c]] = c /\ status[latest[c]] \in {"queued", "running"}
          /\ \A q \in 1..arrivals : q > latest[c] => controlOf[q] # c
      BY <1>0, <2>1, <2>4 DEF TokensAreNewest, Newer, Arrived
    <3> QED
      BY <1>0, <2>1, <2>2, <2>4, <3>1
  <2> QED
    BY <2>3, <2>4
\* What a request that is done leaves of the tokens.
<1>2. ASSUME NEW r \in Requests, UNCHANGED <<arrivals, controlOf>>,
             NEW st, status' = [status EXCEPT ![r] = st],
             \/ Forget(r)
             \/ latest' = latest /\ st \in {"queued", "running"}
      PROVE  TokensAreNewest'
  <2>1. ASSUME NEW c \in Controls, latest'[c] # 0
        PROVE  /\ latest'[c] = latest[c]
               /\ latest[c] = r => st \in {"queued", "running"}
    BY <1>0, <1>2, <2>1 DEF Forget, TokensAreNewest
  <2>2. \A c \in Controls : latest[c] # 0 =>
           status'[latest[c]] = IF latest[c] = r THEN st ELSE status[latest[c]]
    BY <1>0, <1>2 DEF TokensAreNewest
  <2> QED
    BY <1>0, <1>2, <2>1, <2>2 DEF TokensAreNewest, Newer, Arrived
<1>3. CASE HandOver \/ Skip
  <2>1. /\ 1 \in DOMAIN queue /\ Head(queue) = queue[1]
        /\ queue[1] \in Requests
    <3>1. queue \in Seq(Requests) /\ queue # <<>>
      BY <1>3 DEF HandOver, Skip, QueueInv, QueueTypes
    <3> QED  BY <1>0, <3>1, LenProperties, EmptySeq
  <2> QED
    BY <1>2, <1>3, <2>1 DEF HandOver, Skip
<1>4. CASE Finish
  <2>1. running \in Requests
    BY <1>4, MaxRequestsAssumption DEF Finish, QueueInv, QueueTypes, Requests
  <2> QED
    BY <1>2, <1>4, <2>1 DEF Finish
<1>5. ASSUME NEW r \in Requests, CancelQueued(r)
      PROVE  TokensAreNewest'
  BY <1>2, <1>5 DEF CancelQueued
<1>6. CASE UNCHANGED requestVars
  BY <1>6 DEF requestVars, TokensAreNewest, Newer, Arrived
<1> QED
  BY <1>1, <1>3, <1>4, <1>5, <1>6 DEF QueueNext

\* LatestRequests.run sends the last word for a control, for any number of
\* requests and whoever ended or was cancelled in between: a request is skipped
\* only if a newer one had arrived, the token that decides it is that of the
\* newest, and none is left when the requests are over.
THEOREM LastWordIsKept == QueueSpec => []LastWordIsSent
<1>1. QueueInit => TokensAreNewest
  BY DEF QueueInit, TokensAreNewest
<1>2. QueueInv /\ TokensAreNewest => LastWordIsSent
  BY DEF QueueInv, LastWordIsSent
<1> QED
  BY <1>1, <1>2, InitQueueInv, QueueInvStep, TokensStep, PTL DEF QueueSpec

-----------------------------------------------------------------------------
(* LightRequests. *)

LightTypes ==
    /\ pendingTurnOn \in [Attrs -> Nat]
    /\ asked \in [Requests -> SUBSET Attrs]
    /\ call \in [Requests -> {"on", "off", "-"}]
    /\ written \in [Requests -> [Attrs -> Nat]]

\* Nothing is written, withdrawn or pending for a request that is still to come.
OfArrived ==
    /\ \A r \in Requests : call[r] = "off" => r <= arrivals
    /\ \A r \in Requests : asked[r] # {} => r <= arrivals
    /\ \A r \in Requests : \A a \in Attrs :
          written[r][a] # 0 => r <= arrivals /\ written[r][a] <= arrivals
    /\ \A a \in Attrs : pendingTurnOn[a] <= arrivals

\* A buffer holds the whole mode of the last call that asked for one.
LastMode(buffer, args) ==
    \A a, b \in ModeAttrs :
        buffer[a] # 0 =>
            /\ a \in args[buffer[a]]
            /\ buffer[b] = IF b \in args[buffer[a]] THEN buffer[a] ELSE 0
            /\ \A q \in Requests : b \in args[q] => q <= buffer[a]

\* What is pending was asked for after every turn_off, holds the mode that was
\* asked for last, and has been written by nobody.
PendingIsCurrent ==
    /\ LastMode(pendingTurnOn, asked)
    /\ \A a \in Attrs : pendingTurnOn[a] # 0 =>
          /\ \A off \in Requests : call[off] = "off" => off < pendingTurnOn[a]
          /\ \A r \in Requests : written[r][a] # pendingTurnOn[a]

LightInv ==
    /\ QueueInv
    /\ LightTypes
    /\ OfArrived
    /\ PendingIsCurrent
    /\ MergedIsCurrent

LEMMA InitLightInv == LightInit => LightInv
<1> SUFFICES ASSUME LightInit
             PROVE  LightInv
  OBVIOUS
<1>1. QueueInv
  BY InitQueueInv DEF LightInit
<1>2. /\ pendingTurnOn = Nothing /\ Nothing \in [Attrs -> Nat]
      /\ \A a \in Attrs : pendingTurnOn[a] = 0
      /\ \A r \in Requests : \A a \in Attrs : written[r][a] = 0
      /\ \A r \in Requests : call[r] = "-" /\ asked[r] = {}
  BY DEF LightInit, Nothing
<1>3. LightTypes /\ OfArrived /\ PendingIsCurrent
  BY <1>2 DEF LightInit, QueueInit, LightTypes, OfArrived, PendingIsCurrent,
              LastMode, Attrs
<1>4. MergedIsCurrent
  BY <1>2 DEF MergedIsCurrent, ModeOfOneCall, OffWithdraws, WrittenOnce, Attrs
<1> QED
  BY <1>1, <1>3, <1>4 DEF LightInv

\* What is handed on or left pending is current, if what there was to take is.
LEMMA HandedOn ==
    ASSUME LightInv, NEW pend \in [Attrs -> Nat],
           NEW ask \in [Requests -> SUBSET Attrs], asked' = ask,
           \A r \in Requests : r <= arrivals => ask[r] = asked[r],
           \A r \in Requests : ask[r] # {} => r <= arrivals',
           arrivals \in Nat, arrivals' \in Nat, arrivals <= arrivals',
           call' \in [Requests -> {"on", "off", "-"}],
           \A r \in Requests : call'[r] = "off" => call[r] = "off",
           \A a \in Attrs : pend[a] <= arrivals',
           LastMode(pend, ask),
           \A a \in Attrs : pend[a] # 0 =>
               /\ \A off \in Requests : call[off] = "off" => off < pend[a]
               /\ \A r \in Requests : written[r][a] # pend[a],
           \/ /\ pendingTurnOn' = pend /\ written' = written
           \/ /\ pendingTurnOn' = Nothing
              /\ \E r \in Requests : r <= arrivals' /\ written' = [written EXCEPT ![r] = pend]
    PROVE  LightTypes' /\ OfArrived' /\ PendingIsCurrent' /\ MergedIsCurrent'
<1> USE DEF LightInv, LightTypes, MergedIsCurrent
<1>1. Requests \subseteq Nat /\ ModeAttrs \subseteq Attrs
  BY DEF Requests, Attrs
<1>2. Nothing \in [Attrs -> Nat] /\ \A a \in Attrs : Nothing[a] = 0
  BY DEF Nothing
\* What was written before stands as it was.
<1>0. \A r \in Requests : written'[r] = written[r] =>
         \A a, b \in ModeAttrs : written'[r][a] # 0 =>
             /\ a \in ask[written'[r][a]]
             /\ written'[r][b] =
                    IF b \in ask[written'[r][a]] THEN written'[r][a] ELSE 0
             /\ \A q \in Requests : q <= r /\ b \in ask[q] => q <= written'[r][a]
  <2> SUFFICES ASSUME NEW r \in Requests, written'[r] = written[r],
                      NEW a \in ModeAttrs, NEW b \in ModeAttrs, written[r][a] # 0
               PROVE  /\ a \in ask[written[r][a]]
                      /\ written[r][b] =
                             IF b \in ask[written[r][a]] THEN written[r][a] ELSE 0
                      /\ \A q \in Requests :
                            q <= r /\ b \in ask[q] => q <= written[r][a]
    OBVIOUS
  <2>1. /\ written[r][a] \in Nat /\ written[r][a] <= arrivals /\ r <= arrivals
        /\ arrivals \in Nat /\ arrivals <= MaxRequests /\ r \in Nat
    BY <1>1, MaxRequestsAssumption DEF OfArrived, QueueInv, QueueTypes
  <2>2. written[r][a] \in Requests
    BY <2>1, MaxRequestsAssumption DEF Requests
  <2>3. ask[written[r][a]] = asked[written[r][a]]
    BY <2>1, <2>2
  <2>4. \A q \in Requests : q <= r => ask[q] = asked[q]
    BY <1>1, <2>1
  <2> QED
    BY <2>3, <2>4 DEF ModeOfOneCall
<1>3. CASE pendingTurnOn' = pend /\ written' = written
  <2>1. LightTypes' /\ OfArrived'
    BY <1>1, <1>3 DEF OfArrived
  <2>2. PendingIsCurrent'
    BY <1>3 DEF PendingIsCurrent
  <2>3. OffWithdraws' /\ WrittenOnce'
    BY <1>3 DEF OffWithdraws, WrittenOnce
  <2>4. ModeOfOneCall'
    BY <1>0, <1>3 DEF ModeOfOneCall
  <2> QED
    BY <2>1, <2>2, <2>3, <2>4
<1>4. ASSUME pendingTurnOn' = Nothing, NEW s \in Requests, s <= arrivals',
             written' = [written EXCEPT ![s] = pend]
      PROVE  LightTypes' /\ OfArrived' /\ PendingIsCurrent' /\ MergedIsCurrent'
  <2>1. \A r \in Requests : written'[r] = IF r = s THEN pend ELSE written[r]
    BY <1>4
  <2>2. LightTypes'
    BY <1>2, <1>4
  <2>3. OfArrived'
    BY <1>1, <1>2, <1>4, <2>1 DEF OfArrived
  <2>4. PendingIsCurrent'
    BY <1>1, <1>2, <1>4 DEF PendingIsCurrent, LastMode
  <2>5. ModeOfOneCall'
    <3> SUFFICES ASSUME NEW r \in Requests
                 PROVE  \A a, b \in ModeAttrs : written'[r][a] # 0 =>
                          /\ a \in ask[written'[r][a]]
                          /\ written'[r][b] =
                                 IF b \in ask[written'[r][a]] THEN written'[r][a] ELSE 0
                          /\ \A q \in Requests :
                                q <= r /\ b \in ask[q] => q <= written'[r][a]
      BY DEF ModeOfOneCall
    <3>1. CASE r = s
      <4>1. written'[r] = pend
        BY <2>1, <3>1
      <4> QED
        BY <4>1 DEF LastMode
    <3>2. CASE r # s
      BY <1>0, <2>1, <3>2
    <3> QED
      BY <3>1, <3>2
  <2>6. OffWithdraws'
    BY <1>1, <2>1 DEF OffWithdraws
  <2>7. WrittenOnce'
    BY <2>1 DEF WrittenOnce
  <2> QED
    BY <2>2, <2>3, <2>4, <2>5, <2>6, <2>7
<1> QED
  BY <1>3, <1>4

LEMMA LightIsLatest == [LightNext]_allVars => [QueueNext]_requestVars
BY DEF LightNext, AskOn, AskOff, AskOther, LightHandOver, LightSkip, LightFinish,
       LightCancel, QueueNext, allVars, requestVars

LEMMA LightStep ==
    ASSUME LightInv, [LightNext]_allVars
    PROVE  LightInv'
<1> USE DEF LightInv
<1>1. QueueInv'
  BY LightIsLatest, QueueInvStep
<1>2. /\ arrivals \in Nat /\ arrivals' \in Nat /\ arrivals <= arrivals'
      /\ Requests \subseteq Nat /\ ModeAttrs \subseteq Attrs
  <2>1. arrivals \in Nat /\ arrivals' \in Nat
    BY <1>1, MaxRequestsAssumption DEF QueueInv, QueueTypes
  <2>2. arrivals' = arrivals \/ arrivals' = arrivals + 1
    BY LightIsLatest
       DEF QueueNext, Arrive, HandOver, Skip, Finish, CancelQueued, requestVars
  <2> QED
    BY <2>1, <2>2 DEF Requests, Attrs
\* Steps that leave what is pending and what is written alone.
<1>3. ASSUME UNCHANGED lightVars
      PROVE  LightInv'
  <2>1. LightTypes' /\ PendingIsCurrent' /\ MergedIsCurrent'
    BY <1>3 DEF lightVars, LightTypes, PendingIsCurrent, MergedIsCurrent,
                LastMode, ModeOfOneCall, OffWithdraws, WrittenOnce
  <2>2. OfArrived'
    BY <1>2, <1>3 DEF lightVars, OfArrived, LightTypes
  <2> QED
    BY <1>1, <2>1, <2>2
<1>4. ASSUME NEW args \in SUBSET Attrs, AskOn(args)
      PROVE  LightInv'
  <2> PICK n \in Requests : n = arrivals'
    BY <1>4, <1>2, MaxRequestsAssumption DEF AskOn, Arrive, Requests
  <2>1. n = arrivals + 1 /\ call' = [call EXCEPT ![n] = "on"]
    BY <1>4 DEF AskOn, Arrive
  <2> PICK ask \in [Requests -> SUBSET Attrs] :
            /\ asked' = ask /\ ask[n] = args
            /\ \A r \in Requests : r # n => ask[r] = asked[r]
    BY <1>4 DEF AskOn, LightTypes
  <2> DEFINE pend == Merged(n, args)
  <2>2. TakePending(pend)
    BY <1>4 DEF AskOn, TakePending, Merged
  <2>3. ASSUME NEW a \in Attrs
        PROVE  /\ pend[a] \in {0, n, pendingTurnOn[a]}
               /\ pend[a] = n \/ pend[a] = pendingTurnOn[a] \/ pend[a] = 0
               /\ a \in ModeAttrs /\ args \cap ModeAttrs # {} /\ pend[a] # 0 => a \in args
               /\ a \in ModeAttrs /\ args \cap ModeAttrs = {} => pend[a] = pendingTurnOn[a]
    BY DEF Merged
  <2>4. pend \in [Attrs -> Nat]
    BY <1>2 DEF Merged, LightTypes
  <2>5. \A a \in Attrs : pend[a] <= arrivals'
    BY <1>2, <2>1, <2>3, <2>4 DEF OfArrived, LightTypes
  <2>6. LastMode(pend, ask)
    <3>1. CASE args \cap ModeAttrs # {}
      <4>1. \A a \in ModeAttrs : pend[a] = IF a \in args THEN n ELSE 0
        BY <1>2, <3>1 DEF Merged
      <4>2. \A q \in Requests : q # n => ask[q] = {} \/ q <= n
        BY <1>2, <2>1 DEF OfArrived
      <4>3. \A q \in Requests : \A b : b \in ask[q] => q <= n
        BY <1>2, <4>2
      <4> QED
        BY <1>2, <4>1, <4>3 DEF LastMode
    <3>2. CASE args \cap ModeAttrs = {}
      <4>1. \A a \in ModeAttrs : pend[a] = pendingTurnOn[a]
        BY <1>2, <2>3, <3>2
      <4>2. \A a \in ModeAttrs : pend[a] # 0 =>
               pendingTurnOn[a] \in Requests /\ pendingTurnOn[a] # n
        <5>1. /\ arrivals <= MaxRequests
              /\ \A a \in ModeAttrs : pendingTurnOn[a] \in Nat /\ pendingTurnOn[a] <= arrivals
          BY <1>2 DEF OfArrived, LightTypes, QueueInv, QueueTypes
        <5> HIDE DEF pend
        <5> QED
          BY <1>2, <2>1, <4>1, <5>1, MaxRequestsAssumption DEF Requests
      <4>3. \A a \in ModeAttrs : a \notin ask[n]
        BY <3>2
      <4> QED
        <5> HIDE DEF pend
        <5>1. LastMode(pendingTurnOn, asked)
          BY DEF PendingIsCurrent
        <5> SUFFICES ASSUME NEW a \in ModeAttrs, NEW b \in ModeAttrs, pend[a] # 0
                     PROVE  /\ a \in ask[pend[a]]
                            /\ pend[b] = IF b \in ask[pend[a]] THEN pend[a] ELSE 0
                            /\ \A q \in Requests : b \in ask[q] => q <= pend[a]
          BY DEF LastMode
        <5>2. ask[pend[a]] = asked[pend[a]] /\ pend[a] = pendingTurnOn[a]
          BY <4>1, <4>2
        <5>3. \A q \in Requests : b \in ask[q] => b \in asked[q]
          BY <4>3
        <5> QED
          BY <4>1, <5>1, <5>2, <5>3 DEF LastMode
    <3> QED
      BY <3>1, <3>2
  <2>7. ASSUME NEW a \in Attrs, pend[a] # 0
        PROVE  /\ \A off \in Requests : call[off] = "off" => off < pend[a]
               /\ \A r \in Requests : written[r][a] # pend[a]
    <3>1. CASE pend[a] = n
      BY <1>2, <2>1, <3>1 DEF OfArrived, LightTypes
    <3>2. CASE pend[a] = pendingTurnOn[a]
      BY <2>7, <3>2 DEF PendingIsCurrent
    <3> QED
      BY <2>3, <2>7, <3>1, <3>2
  <2>8. /\ call' \in [Requests -> {"on", "off", "-"}]
        /\ \A r \in Requests : call'[r] = "off" => call[r] = "off"
    BY <2>1 DEF LightTypes
  <2>9. \/ pendingTurnOn' = pend /\ written' = written
        \/ /\ pendingTurnOn' = Nothing
           /\ \E r \in Requests : r <= arrivals' /\ written' = [written EXCEPT ![r] = pend]
    <3> HIDE DEF pend
    <3> QED
      BY <1>1, <1>2, <2>2 DEF TakePending, QueueInv, QueueTypes, Ordered, Requests
  <2>10. /\ \A r \in Requests : r <= arrivals => ask[r] = asked[r]
         /\ \A r \in Requests : ask[r] # {} => r <= arrivals'
    BY <1>2, <2>1 DEF OfArrived
  <2> HIDE DEF pend
  <2> QED
    BY <1>1, <1>2, <2>10, <2>4, <2>5, <2>6, <2>7, <2>8, <2>9, HandedOn
<1>5. CASE AskOff
  <2> PICK n \in Requests : n = arrivals'
    BY <1>5, <1>2, MaxRequestsAssumption DEF AskOff, Arrive, Requests
  <2>1. n = arrivals + 1 /\ call' = [call EXCEPT ![n] = "off"]
        /\ pendingTurnOn' = Nothing /\ written' = written
    BY <1>5 DEF AskOff, Arrive
  <2>2. Nothing \in [Attrs -> Nat] /\ \A a \in Attrs : Nothing[a] = 0
    BY DEF Nothing
  <2>3. LightTypes' /\ asked' = asked
    BY <1>5, <2>1, <2>2 DEF AskOff, LightTypes
  <2>4. OfArrived'
    BY <1>2, <2>1, <2>2, <2>3 DEF OfArrived, LightTypes
  <2>5. PendingIsCurrent'
    BY <1>2, <2>1, <2>2 DEF PendingIsCurrent, LastMode
  <2>6. ModeOfOneCall' /\ WrittenOnce'
    BY <2>1, <2>3 DEF MergedIsCurrent, ModeOfOneCall, WrittenOnce
  <2>7. OffWithdraws'
    BY <1>2, <2>1 DEF MergedIsCurrent, OffWithdraws, OfArrived, LightTypes
  <2> QED
    BY <1>1, <2>3, <2>4, <2>5, <2>6, <2>7 DEF MergedIsCurrent
<1>6. CASE LightHandOver
  <2>1. call' = call /\ asked' = asked /\ TakePending(pendingTurnOn)
    BY <1>6 DEF LightHandOver
  <2>2. \/ pendingTurnOn' = pendingTurnOn /\ written' = written
        \/ /\ pendingTurnOn' = Nothing
           /\ \E r \in Requests : /\ r <= arrivals'
                                /\ written' = [written EXCEPT ![r] = pendingTurnOn]
    BY <1>1, <1>2, <2>1 DEF TakePending, QueueInv, QueueTypes, Ordered, Requests
  <2> PICK pend \in [Attrs -> Nat] : pend = pendingTurnOn
    BY DEF LightTypes
  <2> PICK ask \in [Requests -> SUBSET Attrs] : ask = asked
    BY DEF LightTypes
  <2>3. /\ \A a \in Attrs : pend[a] <= arrivals'
        /\ LastMode(pend, ask)
        /\ \A r \in Requests : ask[r] # {} => r <= arrivals'
        /\ \A a \in Attrs : pend[a] # 0 =>
              /\ \A off \in Requests : call[off] = "off" => off < pend[a]
              /\ \A r \in Requests : written[r][a] # pend[a]
    BY <1>2 DEF OfArrived, PendingIsCurrent, LightTypes
  <2> QED
    BY <1>1, <1>2, <2>1, <2>2, <2>3, HandedOn DEF LightTypes
<1>7. CASE AskOther \/ LightSkip \/ LightFinish \/ \E r \in Requests : LightCancel(r)
  BY <1>3, <1>7 DEF AskOther, LightSkip, LightFinish, LightCancel
<1>8. CASE UNCHANGED allVars
  BY <1>3, <1>8 DEF allVars
<1> QED
  BY <1>4, <1>5, <1>6, <1>7, <1>8 DEF LightNext

\* The light entity only adds a buffer: its requests run, are skipped and are
\* cancelled as LatestRequests says.
THEOREM LightImplements == LightSpec => QueueSpec
BY LightIsLatest, PTL DEF LightSpec, LightInit, QueueSpec

\* async_turn_on and async_turn_off: what is written asks for the whole mode of
\* the call that asked for one last, for nothing from before a turn_off, and for
\* nothing that has been written before, for any number of calls with any
\* attributes.
THEOREM WrittenIsCurrent == LightSpec => []MergedIsCurrent
<1>1. LightInv => MergedIsCurrent
  BY DEF LightInv
<1> QED
  BY <1>1, InitLightInv, LightStep, PTL DEF LightSpec

\* Only what a turn_on asked for is pending.
PendingIsOfTurnOn ==
    \A a \in Attrs : pendingTurnOn[a] # 0 => call[pendingTurnOn[a]] = "on"

LEMMA PendingStaysOfTurnOn ==
    ASSUME LightInv, PendingIsOfTurnOn, [LightNext]_allVars
    PROVE  PendingIsOfTurnOn'
<1> USE DEF PendingIsOfTurnOn
<1>0. \A a \in Attrs : Nothing[a] = 0
  BY DEF Nothing
<1>1. ASSUME NEW args \in SUBSET Attrs, AskOn(args)
      PROVE  PendingIsOfTurnOn'
  <2> PICK n \in Requests : n = arrivals'
    BY <1>1, MaxRequestsAssumption
       DEF AskOn, Arrive, Requests, LightInv, QueueInv, QueueTypes
  <2>1. n = arrivals + 1 /\ call' = [call EXCEPT ![n] = "on"]
    BY <1>1 DEF AskOn, Arrive
  <2>2. \/ pendingTurnOn' = Nothing
        \/ pendingTurnOn' = Merged(n, args)
    BY <1>1 DEF AskOn, TakePending, Merged
  <2>3. \A a \in Attrs : Merged(n, args)[a] \in {0, n, pendingTurnOn[a]}
    BY DEF Merged
  <2>4. \A r : call[r] = "on" /\ r \in Requests => call'[r] = "on"
    BY <2>1 DEF LightInv, LightTypes
  <2>5. call'[n] = "on"
    BY <2>1 DEF LightInv, LightTypes
  <2>6. \A a \in Attrs : pendingTurnOn[a] # 0 => pendingTurnOn[a] \in Requests
    <3>1. \A a \in Attrs : pendingTurnOn[a] \in Nat /\ pendingTurnOn[a] <= arrivals
      BY DEF LightInv, LightTypes, OfArrived
    <3>2. arrivals \in Nat /\ arrivals <= MaxRequests
      BY MaxRequestsAssumption DEF LightInv, QueueInv, QueueTypes
    <3> QED  BY <3>1, <3>2, MaxRequestsAssumption DEF Requests
  <2> QED  BY <1>0, <2>2, <2>3, <2>4, <2>5, <2>6
<1>2. CASE AskOff
  BY <1>0, <1>2 DEF AskOff
<1>3. CASE LightHandOver
  BY <1>0, <1>3 DEF LightHandOver, TakePending
<1>4. CASE UNCHANGED lightVars
  BY <1>4 DEF lightVars
<1>5. CASE AskOther \/ LightSkip \/ LightFinish \/ \E r \in Requests : LightCancel(r)
  BY <1>4, <1>5 DEF AskOther, LightSkip, LightFinish, LightCancel
<1>6. CASE UNCHANGED allVars
  BY <1>4, <1>6 DEF allVars
<1> QED
  BY <1>1, <1>2, <1>3, <1>5, <1>6 DEF LightNext

\* The merge buffer of the light entity holds attributes of turn_on calls that
\* have arrived, whichever of them were replaced or cancelled meanwhile.
THEOREM LightTypeCorrect == LightSpec => []LightTypeOK
<1>1. LightInit => PendingIsOfTurnOn
  BY DEF LightInit, PendingIsOfTurnOn, Nothing
<1>2. LightInv /\ PendingIsOfTurnOn /\ QueueTypeOK => LightTypeOK
  <2> SUFFICES ASSUME LightInv, PendingIsOfTurnOn, QueueTypeOK
               PROVE  LightTypeOK
    OBVIOUS
  <2>1. \A n \in Nat : n <= arrivals => n \in 0..MaxRequests
    BY MaxRequestsAssumption DEF QueueTypeOK
  <2>2. pendingTurnOn \in [Attrs -> 0..MaxRequests]
    BY <2>1 DEF LightInv, LightTypes, OfArrived
  <2>3. written \in [Requests -> [Attrs -> 0..MaxRequests]]
    <3>1. \A r \in Requests : \A a \in Attrs : written[r][a] \in 0..MaxRequests
      BY <2>1, MaxRequestsAssumption DEF LightInv, LightTypes, OfArrived
    <3>2. \A r \in Requests : written[r] \in [Attrs -> 0..MaxRequests]
      BY <3>1 DEF LightInv, LightTypes
    <3> QED  BY <3>2 DEF LightInv, LightTypes
  <2> QED
    BY <2>2, <2>3 DEF LightInv, LightTypes, PendingIsOfTurnOn, LightTypeOK
<1>3. LightSpec => []QueueTypeOK
  BY LightImplements, QueueAgreesWithStatus
<1> QED
  BY <1>1, <1>2, <1>3, InitLightInv, LightStep, PendingStaysOfTurnOn, PTL DEF LightSpec

=============================================================================
