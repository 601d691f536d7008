------------------------ MODULE EffectPreviewProofs -------------------------
(***************************************************************************)
(* What the previews of a device promise, for any sessions, any number of  *)
(* requests and any interruptions: what is under way is there once, who is *)
(* gone has its answer, a cancellation is final, a confirmation is true of *)
(* the device, and nothing begins once the entry unloads or Home Assistant *)
(* stops.                                                                  *)
(*                                                                         *)
(* A record holds at most three generations, and they are ordered: what    *)
(* waits is the newest, and what is read back is so only while nothing     *)
(* waits or is written (RecordInv).  The rest compares what the worker     *)
(* still has with what its session was told last.                          *)
(***************************************************************************)
EXTENDS EffectPreview, SequenceTheorems, TLAPS

Request == [session : Sessions, sequence : 1 .. MaxSequence, again : BOOLEAN]
Session == [open : BOOLEAN, last : 0 .. MaxSequence, status : Statuses]
SessionMap == [Sessions -> Session]
Telling == [Generations -> Phases \union {"none"}]

Types == TypeOK /\ Len(requests) <= MaxRequests

Open(g) == sessions[SessionOf(g)].open

\* Its admission was withdrawn, or a newer one took its place.
Outdated(g) == g <= lapsed \/ g # Len(requests)

\* What the record of the device holds, and in which order it was accepted.
RecordInv ==
    /\ exists => newest = Len(requests)
    /\ pending # 0 => pending = Len(requests) /\ active < pending
    /\ verifying # 0 => verifying = Len(requests) /\ pending = 0 /\ active = 0
    /\ pending \notin cancelled
    /\ step \in {"writing", "saving"} => active \in began
    /\ verifying # 0 => verifying \in began
    /\ step = "saving" => active \in sent

\* Who waits for the worker to end has seen to it that it gets nothing more.
StopInv ==
    /\ unloading => blocked /\ pending = 0 /\ (exists => closing)
    /\ stopping = "manager" => pending = 0

\* SettledIsAnswered without the exception of closed sessions, and what it
\* rests on: the worker can still tell the session of its request, unless that
\* heard of an end already.
AnswerInv ==
    /\ \A g \in Generations \ Accepted : told[g] = "none"
    /\ \A g \in Accepted \ {pending, active} :
          /\ told[g] # "queued"
          /\ told[g] = "writing" => g \in sent /\ Outdated(g)
    /\ active # 0 /\ told[active] \in {"queued", "writing"} =>
          /\ Open(active)
          /\ active \in cancelled => Outdated(active)
    /\ step \in {"writing", "saving"} => told[active] # "queued"

\* Nobody goes on to tell of a request that was called cancelled: it is among
\* the cancelled ones or its admission does not hold.
FinalInv ==
    \A g \in {pending, active, verifying} \ {0} :
        told[g] = "cancelled" => g \in cancelled \/ Outdated(g)

\* A retry of what this request asks for is acknowledged while the request is
\* under way, or comes out of the exception of OneLiveCopy.
RetryIsKnown(g) ==
    LET own == sessions[SessionOf(g)] IN
    /\ own.open
    /\ SequenceOf(g) <= own.last
    /\ \/ SequenceOf(g) < own.last
       \/ own.status.sequence # SequenceOf(g)
       \/ own.status.phase \in {"queued", "writing", "written", "confirmed"}
       \/ requests[g].again

CopyInv ==
    /\ \A g \in {pending, active} \ ({0} \union cancelled) : RetryIsKnown(g)
    /\ pending # 0 /\ active # 0 /\ SameState(active, pending)
          => requests[pending].again /\ (active \notin cancelled => requests[active].again)

IInv ==
    /\ Types /\ RecordInv /\ StopInv /\ AnswerInv /\ FinalInv /\ CopyInv

-----------------------------------------------------------------------------
(* What publishing does.                                                   *)

LEMMA StoredFacts ==
    ASSUME NEW ss \in SessionMap, NEW g \in Requested, NEW phase \in Phases,
           requests \in Seq(Request)
    PROVE  /\ Stored(ss, g, phase) \in SessionMap
           /\ \A s \in Sessions :
                 /\ Stored(ss, g, phase)[s].open = ss[s].open
                 /\ Stored(ss, g, phase)[s].last = ss[s].last
                 /\ (g = 0 \/ SessionOf(g) # s)
                       => Stored(ss, g, phase)[s] = ss[s]
                 /\ (g # 0 /\ SessionOf(g) = s /\ ss[s].open)
                       => Stored(ss, g, phase)[s].status
                              = [sequence |-> SequenceOf(g), phase |-> phase]
<1>1. CASE g # 0
  <2>1. SessionOf(g) \in Sessions /\ SequenceOf(g) \in 0 .. MaxSequence
    <3>1. requests[g] \in Request
      BY <1>1 DEF Requested
    <3> QED  BY <3>1, BoundsAssumption DEF SessionOf, SequenceOf, Request
  <2>2. [sequence |-> SequenceOf(g), phase |-> phase] \in Statuses
    BY <2>1 DEF Statuses
  <2> QED  BY <1>1, <2>1, <2>2 DEF Stored, SessionMap, Session
<1>2. CASE g = 0
  BY <1>2 DEF Stored
<1> QED  BY <1>1, <1>2

LEMMA StoredKeepsOpen ==
    ASSUME NEW ss \in SessionMap, NEW g \in Requested, NEW phase \in Phases,
           requests \in Seq(Request)
    PROVE  \A s \in Sessions : Stored(ss, g, phase)[s].open = ss[s].open
<1> TAKE s \in Sessions
<1> QED  BY StoredFacts

LEMMA HeardFacts ==
    ASSUME NEW tt \in Telling, NEW g \in Requested, NEW phase \in Phases,
           Len(requests) <= MaxRequests, requests \in Seq(Request)
    PROVE  /\ Heard(tt, g, phase) \in Telling
           /\ \A h \in Generations :
                 Heard(tt, g, phase)[h] =
                     IF h = g /\ Open(g) THEN phase ELSE tt[h]
<1>1. CASE g # 0
  <2>1. g \in Generations
    BY <1>1, BoundsAssumption DEF Requested, Generations
  <2> QED  BY <1>1, <2>1 DEF Heard, Telling, Open
<1>2. CASE g = 0
  BY <1>2 DEF Heard, Generations
<1> QED  BY <1>1, <1>2

\* A new request leaves the earlier ones as they are.
LEMMA AppendFacts ==
    ASSUME NEW r \in Request, requests \in Seq(Request),
           requests' = Append(requests, r)
    PROVE  /\ requests' \in Seq(Request)
           /\ Len(requests') = Len(requests) + 1
           /\ Len(requests) \in Nat
           /\ \A g \in Accepted : requests'[g] = requests[g]
           /\ requests'[Len(requests) + 1] = r
BY AppendProperties DEF Accepted

LEMMA RequestFacts ==
    ASSUME Types
    PROVE  /\ requests \in Seq(Request) /\ Len(requests) \in 0 .. MaxRequests
           /\ sessions \in SessionMap /\ told \in Telling
           /\ Accepted \subseteq Generations
           /\ Requested \subseteq Nat
           /\ \A g \in Accepted : /\ SessionOf(g) \in Sessions
                                /\ SequenceOf(g) \in 1 .. MaxSequence
<1>1. requests \in Seq(Request) /\ Len(requests) \in 0 .. MaxRequests
  BY BoundsAssumption DEF Types, TypeOK, Request
<1>2. sessions \in SessionMap /\ told \in Telling
  BY DEF Types, TypeOK, SessionMap, Session, Telling
<1>3. Accepted \subseteq Generations /\ Requested \subseteq Nat
  BY <1>1, BoundsAssumption DEF Accepted, Requested, Generations
<1>4. \A g \in Accepted : requests[g] \in Request
  BY <1>1 DEF Accepted
<1> QED
  BY <1>1, <1>2, <1>3, <1>4 DEF SessionOf, SequenceOf, Request

-----------------------------------------------------------------------------
(* Types.                                                                  *)

\* TypeOK without requests, sessions and told.
RecordTypes ==
    /\ began \subseteq Accepted /\ cancelled \subseteq Accepted
    /\ pending \in Requested /\ active \in Requested
    /\ verifying \in Requested /\ newest \in Requested
    /\ lapsed \in Requested
    /\ step \in Steps
    /\ exists \in BOOLEAN /\ expected \in BOOLEAN /\ observing \in BOOLEAN
    /\ closing \in BOOLEAN /\ blocked \in BOOLEAN /\ unloading \in BOOLEAN
    /\ target \in BOOLEAN
    /\ stopping \in {"no", "hass", "manager"}
    /\ (active # 0) <=> (step \notin {"none", "ready"})
    /\ ~exists => /\ step = "none" /\ cancelled = {} /\ ~closing
                  /\ pending = 0 /\ verifying = 0 /\ newest = 0

HealthTypes ==
    /\ health \in HealthPhases
    /\ check \in {NoCheck} \union
                 [generation : Requested, phase : HealthPhases]

LEMMA TypesSplit ==
    Types <=> /\ requests \in Seq(Request) /\ Len(requests) <= MaxRequests
              /\ sessions \in SessionMap /\ told \in Telling
              /\ RecordTypes /\ HealthTypes
BY DEF Types, TypeOK, SessionMap, Session, Telling, Request, RecordTypes,
       HealthTypes

LEMMA TypesSplitNext ==
    (/\ requests' \in Seq(Request) /\ Len(requests') <= MaxRequests
     /\ sessions' \in SessionMap /\ told' \in Telling
     /\ RecordTypes' /\ HealthTypes') => Types'
BY DEF Types, TypeOK, SessionMap, Session, Telling, Request, RecordTypes,
       HealthTypes

LEMMA NewSessionType ==
    ASSUME NEW o \in BOOLEAN
    PROVE  NewSession(o) \in Session
<1>1. NoStatus \in Statuses
  BY BoundsAssumption DEF NoStatus, Statuses
<1> QED  BY <1>1, BoundsAssumption DEF NewSession, Session

LEMMA TypeInit == Init => Types
<1> SUFFICES ASSUME Init PROVE Types
  OBVIOUS
<1>1. sessions \in SessionMap
  BY NewSessionType DEF Init, SessionMap
<1>2. requests \in Seq(Request) /\ Len(requests) = 0
  BY DEF Init
<1>3. told \in Telling
  BY DEF Init, Telling
<1>4. RecordTypes
  <2>1. 0 \in Requested
    BY <1>2 DEF Requested
  <2> QED  BY <2>1 DEF Init, RecordTypes, Steps
<1>5. HealthTypes
  BY DEF Init, HealthTypes, HealthPhases
<1> QED
  BY <1>1, <1>2, <1>3, <1>4, <1>5, BoundsAssumption, TypesSplit

\* Every step but Accept leaves the requests alone.
LEMMA RequestsStay ==
    ASSUME [Next]_vars, ~(\E s \in Sessions : \E q \in 1 .. MaxSequence : Accept(s, q))
    PROVE  requests' = requests
BY DEF Next, vars, Work, OpenSession, ExpireSession, CancelSession, CloseSession,
       CancelWork, Overtake, Supersede, BeginUnload, EndUnload, Load, HassStops,
       BeginShutdown, EndShutdown, Take, ReadControls, Begin, FinishWrite,
       FinishSave, ExitWorker, Wake, Observe, StartCheck, FinishCheck

\* What listeners and sessions may be told, whatever the step.
LEMMA PublishTypes ==
    ASSUME Types, NEW g \in Requested, NEW phase \in Phases, Publish(g, phase)
    PROVE  sessions' \in SessionMap /\ told' \in Telling
BY RequestFacts, StoredFacts, HeardFacts DEF Publish, Types

LEMMA PublishBothTypes ==
    ASSUME Types, NEW g \in Requested, NEW h \in Requested, NEW phase \in Phases,
           PublishBoth(g, h, phase)
    PROVE  sessions' \in SessionMap /\ told' \in Telling
BY RequestFacts, StoredFacts, HeardFacts DEF PublishBoth, Types

\* The types of the statuses.
LEMMA SaidStep ==
    ASSUME Types, [Next]_vars
    PROVE  sessions' \in SessionMap /\ told' \in Telling
<1> USE RequestFacts, NewSessionType, PublishTypes, PublishBothTypes
<1> DEFINE Goal == sessions' \in SessionMap /\ told' \in Telling
<1>0. "cancelled" \in Phases /\ "failed" \in Phases /\ "writing" \in Phases
      /\ "written" \in Phases /\ "confirmed" \in Phases
      /\ "unconfirmed" \in Phases /\ "queued" \in Phases
  BY DEF Phases
<1>1. pending \in Requested /\ active \in Requested /\ verifying \in Requested
  BY TypesSplit DEF RecordTypes
<1>2. ASSUME NEW s \in Sessions, OpenSession(s) \/ ExpireSession(s)
      PROVE  Goal
  BY <1>2 DEF OpenSession, ExpireSession, SessionMap
<1>3. ASSUME NEW s \in Sessions, NEW q \in 1 .. MaxSequence, Accept(s, q)
      PROVE  Goal
  <2>1. Stored(sessions, pending, "cancelled") \in SessionMap
    BY <1>0, <1>1, StoredFacts
  <2>2. Heard(told, pending, "cancelled") \in Telling
    BY <1>0, <1>1, HeardFacts
  <2>3. [sequence |-> q, phase |-> "queued"] \in Statuses /\ q \in 0 .. MaxSequence
    BY <1>0, BoundsAssumption DEF Statuses
  <2>4. sessions' \in SessionMap
    BY <1>3, <2>1, <2>3 DEF Accept, SessionMap, Session
  <2>5. told' \in Telling
    BY <1>0, <1>3, <2>2 DEF Accept, Telling
  <2> QED  BY <2>4, <2>5
<1>4. ASSUME NEW s \in Sessions, CancelWork(s)
      PROVE  /\ told' \in Telling
             /\ Stored(Stored(sessions, Mine(pending, s), "cancelled"),
                       Mine(active, s), "cancelled") \in SessionMap
  <2>1. Mine(pending, s) \in Requested /\ Mine(active, s) \in Requested
    BY <1>1 DEF Mine, Requested
  <2>2. told' \in Telling
    BY <1>0, <1>4, <2>1, HeardFacts DEF CancelWork
  <2> QED  BY <1>0, <2>1, <2>2, StoredFacts
<1>5. ASSUME NEW s \in Sessions, CancelSession(s) \/ CloseSession(s)
      PROVE  Goal
  BY <1>4, <1>5 DEF CancelSession, CloseSession, SessionMap
<1>6. ASSUME Overtake \/ EndUnload \/ Load \/ HassStops \/ ExitWorker \/ Wake
             \/ StartCheck \/ FinishCheck \/ UNCHANGED vars
      PROVE  Goal
  BY <1>6 DEF Overtake, EndUnload, Load, HassStops, ExitWorker, Wake, StartCheck,
              FinishCheck, vars, said
<1>7. ASSUME Supersede \/ BeginUnload \/ BeginShutdown
      PROVE  Goal
  BY <1>0, <1>1, <1>7 DEF Supersede, BeginUnload, BeginShutdown, said
<1>8. ASSUME EndShutdown PROVE Goal
  BY <1>8 DEF EndShutdown, SessionMap
<1>9. ASSUME Take \/ ReadControls \/ Begin PROVE Goal
  BY <1>0, <1>1, <1>9
     DEF Take, ReadControls, Begin, Superseded, CompilationFailed, EndSuperseded,
         EndFailed, said
<1>10. ASSUME FinishWrite \/ FinishSave PROVE Goal
  BY <1>0, <1>1, <1>10
     DEF FinishWrite, FinishSave, Complete, EndSuperseded, EndFailed, said
<1>11. ASSUME Observe PROVE Goal
  BY <1>0, <1>1, <1>11 DEF Observe, said
<1> QED
  BY <1>2, <1>3, <1>5, <1>6, <1>7, <1>8, <1>9, <1>10, <1>11 DEF Next, Work

\* Requests are only added.
LEMMA RequestsGrow ==
    ASSUME Types, [Next]_vars
    PROVE  /\ requests' \in Seq(Request) /\ Len(requests') \in Nat
           /\ Len(requests) <= Len(requests')
           /\ Len(requests') <= MaxRequests
           /\ Accepted \subseteq Accepted' /\ Requested \subseteq Requested'
           /\ \A g \in Accepted : requests'[g] = requests[g]
<1>1. ASSUME NEW s \in Sessions, NEW q \in 1 .. MaxSequence, Accept(s, q)
      PROVE  \E again \in BOOLEAN :
                /\ requests' = Append(requests, [session |-> s, sequence |-> q,
                                                 again |-> again])
                /\ Len(requests) + 1 <= MaxRequests
  <2>1. CutCopyAtWork(s, q) \in BOOLEAN
    BY DEF CutCopyAtWork, Holds
  <2>2. Len(requests) + 1 <= MaxRequests
    BY <1>1, BoundsAssumption DEF Accept, Generations
  <2>3. requests' = Append(requests, [session |-> s, sequence |-> q,
                                      again |-> CutCopyAtWork(s, q)])
    BY <1>1 DEF Accept
  <2> QED  BY <2>1, <2>2, <2>3
<1>2. CASE \E s \in Sessions : \E q \in 1 .. MaxSequence : Accept(s, q)
  <2>1. PICK s \in Sessions, q \in 1 .. MaxSequence : Accept(s, q)
    BY <1>2
  <2>0. PICK again \in BOOLEAN :
           /\ requests' = Append(requests, [session |-> s, sequence |-> q,
                                            again |-> again])
           /\ Len(requests) + 1 <= MaxRequests
    BY <1>1, <2>1
  <2> DEFINE r == [session |-> s, sequence |-> q, again |-> again]
  <2>2. r \in Request /\ requests' = Append(requests, r)
        /\ Len(requests) + 1 <= MaxRequests
    BY <2>0 DEF Request
  <2> HIDE DEF r
  <2>3. /\ requests' \in Seq(Request) /\ Len(requests') = Len(requests) + 1
        /\ Len(requests) \in Nat /\ \A g \in Accepted : requests'[g] = requests[g]
    BY <2>2, RequestFacts, AppendFacts
  <2> QED
    BY <2>2, <2>3 DEF Accepted, Requested
<1>3. CASE requests' = requests
  BY <1>3, RequestFacts DEF Accepted, Requested, Types
<1> QED  BY <1>2, <1>3, RequestsStay

LEMMA RecordStep ==
    ASSUME Types, [Next]_vars
    PROVE  RecordTypes'
<1> USE RequestFacts, RequestsGrow
<1> USE DEF RecordTypes
<1>1. RecordTypes
  BY TypesSplit
<1>2. 0 \in Requested /\ Len(requests) \in Requested /\ Len(requests') \in Requested'
  BY DEF Requested
<1>3. \A g \in Requested \ {0} : g \in Accepted
  BY DEF Requested, Accepted
<1>4. ASSUME NEW s \in Sessions, NEW q \in 1 .. MaxSequence, Accept(s, q)
      PROVE  RecordTypes'
  <2>1. Len(requests) + 1 = Len(requests')
    BY <1>4, BoundsAssumption, AppendFacts DEF Accept, Request
  <2>2. Len(requests') # 0
    BY <2>1
  <2> QED
    BY <1>1, <1>2, <1>4, <2>1, <2>2
       DEF Accept, Spawn, NoVerification, history, entry, Steps
<1>5. ASSUME NEW s \in Sessions, CancelSession(s) \/ CloseSession(s)
      PROVE  RecordTypes'
  <2>1. CancelWork(s)
    BY <1>5 DEF CancelSession, CloseSession
  <2>2. cancelled' \subseteq Accepted /\ (~exists => cancelled' = {})
    BY <1>1, <1>3, <2>1 DEF CancelWork, Mine, Holds
  <2>3. /\ pending' \in {0, pending} /\ verifying' \in {0, verifying}
        /\ observing' \in BOOLEAN
        /\ UNCHANGED <<began, exists, active, step, expected, newest, closing,
                       blocked, unloading, stopping, lapsed, target>>
    BY <1>1, <2>1 DEF CancelWork, NoVerification, history, entry
  <2> QED
    BY <1>1, <1>2, <2>2, <2>3
<1>6. ASSUME \/ \E s \in Sessions : OpenSession(s) \/ ExpireSession(s)
             \/ Overtake \/ Load \/ HassStops \/ StartCheck \/ FinishCheck
             \/ UNCHANGED vars
      PROVE  RecordTypes'
  <2>1. UNCHANGED <<began, exists, pending, active, step, expected, verifying,
                    observing, cancelled, newest, closing, unloading, target>>
    BY <1>6
       DEF OpenSession, ExpireSession, Overtake, Load, HassStops, StartCheck,
           FinishCheck, vars, said, history, worker, entry, shown
  <2>2. /\ blocked' \in BOOLEAN /\ stopping' \in {"no", "hass", "manager"}
        /\ lapsed' \in Requested
    BY <1>1, <1>2, <1>6
       DEF OpenSession, ExpireSession, Overtake, Load, HassStops, StartCheck,
           FinishCheck, vars, said, history, worker, entry, shown
  <2> QED  BY <1>1, <2>1, <2>2
<1>7. ASSUME Supersede \/ BeginUnload \/ BeginShutdown
      PROVE  RecordTypes'
  <2>1. UNCHANGED <<began, exists, active, step, expected, newest>>
    BY <1>7 DEF Supersede, BeginUnload, BeginShutdown, history
  <2>2. /\ pending' \in {0, pending} /\ verifying' \in {0, verifying}
        /\ lapsed' \in Requested
        /\ stopping' \in {"no", "hass", "manager"}
        /\ observing' \in BOOLEAN /\ closing' \in BOOLEAN /\ target' \in BOOLEAN
        /\ blocked' \in BOOLEAN /\ unloading' \in BOOLEAN
    <3>1. CASE Supersede
      BY <1>1, <1>2, <3>1 DEF Supersede, NoVerification, entry
    <3>2. CASE BeginUnload
      BY <1>1, <1>2, <3>2 DEF BeginUnload, NoVerification
    <3>3. CASE BeginShutdown
      BY <1>1, <1>2, <3>3 DEF BeginShutdown, NoVerification, shown
    <3> QED  BY <1>7, <3>1, <3>2, <3>3
  <2>3. cancelled' \subseteq cancelled \union ({pending, verifying, active} \ {0})
    BY <1>7 DEF Supersede, BeginUnload, BeginShutdown
  <2>4. ~exists => ~closing'
    BY <1>1, <1>7 DEF Supersede, BeginUnload, BeginShutdown
  <2>5. cancelled' \subseteq Accepted /\ (~exists => cancelled' = {})
    BY <1>1, <1>3, <2>3
  <2> QED  BY <1>1, <1>2, <2>1, <2>2, <2>4, <2>5
<1>8. ASSUME EndUnload \/ EndShutdown PROVE RecordTypes'
  BY <1>1, <1>2, <1>8 DEF EndUnload, EndShutdown, RemoveRecord, NoVerification,
     history, entry, said
<1>9. ASSUME Take \/ ReadControls \/ Begin PROVE RecordTypes'
  <2>1. CASE Take
    BY <1>1, <1>2, <1>3, <2>1
       DEF Take, Superseded, CompilationFailed, Approach, Steps, history, entry
  <2>2. CASE ReadControls
    BY <1>1, <1>2, <1>3, <2>2
       DEF ReadControls, Superseded, CompilationFailed, Approach, Release, Steps,
           history, entry
  <2>3. CASE Begin
    BY <1>1, <1>2, <1>3, <2>3
       DEF Begin, EndSuperseded, EndFailed, Release, Steps, history, entry
  <2> QED  BY <1>9, <2>1, <2>2, <2>3
<1>10. ASSUME FinishWrite \/ FinishSave PROVE RecordTypes'
  <2>1. UNCHANGED <<began, exists, pending, newest, closing, blocked, unloading,
                    stopping, lapsed>>
        /\ active # 0 /\ exists
    BY <1>1, <1>10 DEF FinishWrite, FinishSave, history, entry
  <2>2. \/ active' = 0 /\ step' = "ready"
        \/ active' = active /\ step' = "saving"
    BY <1>10
       DEF FinishWrite, FinishSave, Complete, EndSuperseded, EndFailed, Release
  <2>3. /\ cancelled' \subseteq cancelled /\ verifying' \in {verifying, active}
        /\ expected' \in BOOLEAN /\ observing' \in BOOLEAN /\ target' \in BOOLEAN
    BY <1>1, <1>10
       DEF FinishWrite, FinishSave, Complete, EndSuperseded, EndFailed, Release
  <2> QED  BY <1>1, <1>2, <2>1, <2>2, <2>3 DEF Steps
<1>11. ASSUME Observe \/ Wake \/ ExitWorker PROVE RecordTypes'
  <2>1. UNCHANGED <<began, exists, pending, active, expected, cancelled, newest,
                    closing, blocked, unloading, stopping, lapsed, target>>
    BY <1>11 DEF Observe, Wake, ExitWorker, history, entry, shown
  <2>2. /\ step' = step \/ (step = "ready" /\ step' = "none")
        /\ verifying' \in {0, verifying} /\ observing' \in BOOLEAN
    BY <1>1, <1>11 DEF Observe, Wake, ExitWorker, NoVerification
  <2> QED  BY <1>1, <1>2, <2>1, <2>2 DEF Steps
<1> QED
  BY <1>4, <1>5, <1>6, <1>7, <1>8, <1>9, <1>10, <1>11 DEF Next, Work

LEMMA HealthStep ==
    ASSUME Types, [Next]_vars
    PROVE  HealthTypes'
<1> USE DEF HealthTypes
<1>1. HealthTypes /\ newest \in Requested /\ Requested \subseteq Requested'
  BY TypesSplit, RequestsGrow DEF RecordTypes
<1>2. \A h \in HealthPhases : Degraded(h) \in HealthPhases
  BY DEF Degraded, HealthPhases
<1>3. check' = check \/ check' = NoCheck
      \/ check' = [generation |-> newest, phase |-> health]
  BY DEF Next, Work, vars, shown, OpenSession, ExpireSession, Accept, CancelSession,
         CloseSession, CancelWork, Overtake, Supersede, BeginUnload, EndUnload,
         Load, HassStops, BeginShutdown, EndShutdown, Take, ReadControls, Begin,
         FinishWrite, FinishSave, ExitWorker, Wake, Observe, StartCheck,
         FinishCheck
<1>4. check' \in {NoCheck} \union [generation : Requested', phase : HealthPhases]
  BY <1>1, <1>3
<1>5. health' \in HealthPhases
  <2>1. ASSUME \E s \in Sessions :
                  \/ OpenSession(s) \/ ExpireSession(s)
                  \/ CancelSession(s) \/ CloseSession(s)
                  \/ \E q \in 1 .. MaxSequence : Accept(s, q)
        PROVE  health' \in HealthPhases
    BY <1>1, <1>2, <2>1
       DEF OpenSession, ExpireSession, CancelSession, CloseSession, CancelWork,
           Accept, shown, HealthPhases
  <2>2. ASSUME \/ Overtake \/ Supersede \/ BeginUnload \/ EndUnload \/ Load
               \/ HassStops \/ BeginShutdown \/ EndShutdown \/ UNCHANGED vars
        PROVE  health' \in HealthPhases
    BY <1>1, <2>2
       DEF Overtake, Supersede, BeginUnload, EndUnload, RemoveRecord, Load,
           HassStops, BeginShutdown, EndShutdown, vars, shown, HealthPhases
  <2>3. ASSUME Work
        PROVE  health' \in HealthPhases
    BY <1>1, <1>2, <2>3
       DEF Work, Take, ReadControls, Begin, FinishWrite, FinishSave, ExitWorker,
           Complete, Superseded, CompilationFailed, EndSuperseded, EndFailed,
           shown, HealthPhases
  <2>4. ASSUME Wake \/ Observe \/ StartCheck
        PROVE  health' \in HealthPhases
    BY <1>1, <1>2, <2>4 DEF Wake, Observe, StartCheck, shown, HealthPhases
  <2>5. ASSUME FinishCheck
        PROVE  health' \in HealthPhases
    BY <1>1, <2>5 DEF FinishCheck, NoCheck, HealthPhases
  <2> QED  BY <2>1, <2>2, <2>3, <2>4, <2>5 DEF Next
<1> QED  BY <1>4, <1>5

LEMMA TypeStep == Types /\ [Next]_vars => Types'
BY SaidStep, RecordStep, HealthStep, RequestsGrow, TypesSplitNext

-----------------------------------------------------------------------------
(* The record of the device.                                               *)

\* The generations of a record are numbers up to the newest request.
LEMMA RecordFacts ==
    ASSUME Types
    PROVE  /\ \A g \in {pending, active, verifying, newest, lapsed} :
                 g \in Nat /\ g <= Len(requests)
           /\ \A g \in {pending, active, verifying} : g # 0 => g \in Accepted
           /\ 0 \notin cancelled
           /\ Len(requests) \in Nat
BY TypesSplit, RequestFacts DEF RecordTypes, Requested, Accepted

\* Steps that touch neither the record nor the requests nor what was begun.
Aside ==
    \/ \E s \in Sessions : OpenSession(s) \/ ExpireSession(s)
    \/ Overtake \/ Load \/ HassStops \/ StartCheck \/ FinishCheck
    \/ UNCHANGED vars

LEMMA AsideKeeps ==
    ASSUME Aside
    PROVE  UNCHANGED <<requests, began, sent, exists, pending, active, step,
                       expected, verifying, observing, cancelled, newest, closing>>
BY DEF Aside, OpenSession, ExpireSession, Overtake, Load, HassStops, StartCheck,
       FinishCheck, vars, history, worker

\* Every step is one of these.
LEMMA StepCases ==
    ASSUME [Next]_vars
    PROVE  \/ Aside
           \/ \E s \in Sessions : \E q \in 1 .. MaxSequence : Accept(s, q)
           \/ \E s \in Sessions : CancelSession(s) \/ CloseSession(s)
           \/ Supersede \/ BeginUnload \/ BeginShutdown
           \/ EndUnload \/ EndShutdown
           \/ Take \/ ReadControls \/ Begin \/ FinishWrite \/ FinishSave
           \/ ExitWorker \/ Wake \/ Observe
BY DEF Next, Work, Aside

LEMMA RecordInvStep ==
    ASSUME Types, RecordInv, [Next]_vars
    PROVE  RecordInv'
<1> USE DEF RecordInv
<1> USE RecordFacts
<1>1. CASE Aside
  BY <1>1, AsideKeeps
<1>2. ASSUME NEW s \in Sessions, NEW q \in 1 .. MaxSequence, Accept(s, q)
      PROVE  RecordInv'
  <2>1. Len(requests') = Len(requests) + 1
    BY <1>2, RequestFacts, AppendFacts DEF Accept, Request
  <2>2. /\ pending' = Len(requests') /\ newest' = Len(requests') /\ verifying' = 0
        /\ UNCHANGED <<active, began, sent, cancelled>>
    BY <1>2, <2>1 DEF Accept, NoVerification, history
  <2>3. step' \in {"writing", "saving"} => step' = step
    BY <1>2 DEF Accept, Spawn
  <2>4. pending' \notin cancelled
    BY <2>1, <2>2, TypesSplit DEF RecordTypes, Accepted
  <2> QED
    BY <2>1, <2>2, <2>3, <2>4
<1>3. ASSUME NEW s \in Sessions, CancelSession(s) \/ CloseSession(s)
      PROVE  RecordInv'
  <2>1. CancelWork(s)
    BY <1>3 DEF CancelSession, CloseSession
  <2>2. /\ UNCHANGED <<requests, exists, active, began, sent, step, newest>>
        /\ pending' \in {0, pending} /\ verifying' \in {0, verifying}
    BY <2>1 DEF CancelWork, NoVerification, history
  <2>3. pending' \notin cancelled'
    BY <2>1 DEF CancelWork, Mine, Holds
  <2> QED  BY <2>2, <2>3
<1>4. CASE Supersede \/ BeginUnload \/ BeginShutdown
  BY <1>4, TypesSplit DEF Supersede, BeginUnload, BeginShutdown, NoVerification, history,
     RecordTypes
<1>5. CASE EndUnload \/ EndShutdown
  BY <1>5, TypesSplit DEF EndUnload, EndShutdown, RemoveRecord, NoVerification,
     RecordTypes
<1>6. CASE Take \/ ReadControls \/ Begin
  BY <1>6, TypesSplit
     DEF Take, ReadControls, Begin, Approach, Release, EndSuperseded, EndFailed,
         history, RecordTypes
<1>7. CASE FinishWrite \/ FinishSave
  BY <1>7, TypesSplit
     DEF FinishWrite, FinishSave, Complete, Release, EndSuperseded, EndFailed,
         history, RecordTypes
<1>8. CASE ExitWorker \/ Wake \/ Observe
  BY <1>8 DEF ExitWorker, Wake, Observe, NoVerification, history
<1> QED
  BY <1>1, <1>2, <1>3, <1>4, <1>5, <1>6, <1>7, <1>8, StepCases

LEMMA StopInvStep ==
    ASSUME Types, StopInv, [Next]_vars
    PROVE  StopInv'
<1> USE DEF StopInv
<1>1. CASE Aside
  <2>1. UNCHANGED <<exists, pending, closing>>
    BY <1>1, AsideKeeps
  <2>2. /\ unloading' = unloading
        /\ (unloading => blocked' = blocked)
        /\ (stopping' = "manager" => stopping = "manager")
    BY <1>1
       DEF Aside, OpenSession, ExpireSession, Overtake, Load, HassStops, StartCheck,
           FinishCheck, vars, entry
  <2> QED  BY <2>1, <2>2
<1>2. ASSUME NEW s \in Sessions, NEW q \in 1 .. MaxSequence, Accept(s, q)
      PROVE  StopInv'
  BY <1>2 DEF Accept, Stopped, entry
<1>3. ASSUME NEW s \in Sessions, CancelSession(s) \/ CloseSession(s)
      PROVE  StopInv'
  <2>1. /\ pending' \in {0, pending}
        /\ UNCHANGED <<exists, closing, blocked, unloading, stopping>>
    BY <1>3 DEF CancelSession, CloseSession, CancelWork, entry
  <2> QED  BY <2>1
<1>4. CASE Supersede
  BY <1>4 DEF Supersede, entry
<1>5. CASE BeginUnload
  BY <1>5 DEF BeginUnload
<1>6. CASE BeginShutdown
  BY <1>6 DEF BeginShutdown
<1>7. CASE EndUnload \/ EndShutdown
  <2>1. exists' = FALSE /\ pending' = 0
    BY <1>7 DEF EndUnload, EndShutdown, RemoveRecord
  <2>2. unloading' = FALSE \/ (unloading' = unloading /\ blocked' = blocked)
    BY <1>7 DEF EndUnload, EndShutdown, entry
  <2> QED  BY <2>1, <2>2
<1>8. CASE Take \/ ReadControls \/ Begin
  BY <1>8 DEF Take, ReadControls, Begin, entry
<1>9. CASE FinishWrite \/ FinishSave
  BY <1>9 DEF FinishWrite, FinishSave, entry
<1>10. CASE ExitWorker \/ Wake \/ Observe
  BY <1>10 DEF ExitWorker, Wake, Observe, entry
<1> QED
  BY <1>1, <1>2, <1>3, <1>4, <1>5, <1>6, <1>7, <1>8, <1>9, <1>10, StepCases

-----------------------------------------------------------------------------
(* What the sessions are told.                                             *)

LEMMA PublishTells ==
    ASSUME Types, NEW g \in Requested, NEW phase \in Phases, Publish(g, phase)
    PROVE  /\ \A h \in Generations :
                 told'[h] = IF h = g /\ Open(g) THEN phase ELSE told[h]
           /\ \A s \in Sessions : sessions'[s].open = sessions[s].open
<1>1. \A h \in Generations :
         told'[h] = IF h = g /\ Open(g) THEN phase ELSE told[h]
  BY RequestFacts, HeardFacts DEF Publish, Types
<1>2. \A s \in Sessions : sessions'[s].open = sessions[s].open
  BY RequestFacts, StoredKeepsOpen DEF Publish
<1> QED  BY <1>1, <1>2

LEMMA PublishBothTells ==
    ASSUME Types, NEW g \in Requested, NEW h \in Requested, NEW phase \in Phases,
           PublishBoth(g, h, phase)
    PROVE  /\ \A k \in Generations :
                 told'[k] = IF (k = g \/ k = h) /\ Open(k) THEN phase ELSE told[k]
           /\ \A s \in Sessions : sessions'[s].open = sessions[s].open
<1>1. Stored(sessions, g, phase) \in SessionMap /\ Heard(told, g, phase) \in Telling
  BY RequestFacts, StoredFacts, HeardFacts DEF Types
<1>2. told' = Heard(Heard(told, g, phase), h, phase)
      /\ sessions' = Stored(Stored(sessions, g, phase), h, phase)
  BY DEF PublishBoth
<1>3. \A k \in Generations :
         /\ Heard(told, g, phase)[k] = IF k = g /\ Open(g) THEN phase ELSE told[k]
         /\ told'[k] = IF k = h /\ Open(h) THEN phase
                       ELSE Heard(told, g, phase)[k]
  BY <1>1, <1>2, RequestFacts, HeardFacts DEF Types
<1>4. \A s \in Sessions :
         /\ Stored(sessions, g, phase)[s].open = sessions[s].open
         /\ sessions'[s].open = Stored(sessions, g, phase)[s].open
  BY <1>1, <1>2, RequestFacts, StoredKeepsOpen
<1> QED  BY <1>3, <1>4

\* What a request that is waiting or written is told, whoever stops it.
LEMMA CancelTells ==
    ASSUME Types, NEW s \in Sessions, CancelWork(s)
    PROVE  /\ \A k \in Generations :
                 told'[k] = IF Holds(k, s) /\ k \in {pending, active}
                            THEN "cancelled" ELSE told[k]
           /\ CancelSession(s) \/ CloseSession(s) =>
                 \A x \in Sessions \ {s} : sessions'[x] = sessions[x]
<1>1. /\ pending \in Requested /\ active \in Requested
      /\ Mine(pending, s) \in Requested /\ Mine(active, s) \in Requested
      /\ "cancelled" \in Phases
  BY TypesSplit DEF RecordTypes, Mine, Requested, Phases
<1> DEFINE p == Mine(pending, s)
           a == Mine(active, s)
<1>2. told' = Heard(Heard(told, p, "cancelled"), a, "cancelled")
  BY DEF CancelWork
<1>3. Heard(told, p, "cancelled") \in Telling
      /\ Stored(sessions, p, "cancelled") \in SessionMap
  BY <1>1, RequestFacts, StoredFacts, HeardFacts DEF Types
<1>4. \A k \in Generations :
         /\ Heard(told, p, "cancelled")[k]
               = IF k = p /\ Open(p) THEN "cancelled" ELSE told[k]
         /\ told'[k] = IF k = a /\ Open(a) THEN "cancelled"
                       ELSE Heard(told, p, "cancelled")[k]
  BY <1>1, <1>2, <1>3, RequestFacts, HeardFacts DEF Types
<1>5. \A k \in Generations :
         /\ (k = p => k # 0 /\ Holds(k, s) /\ k = pending /\ Open(k))
         /\ (k = a => k # 0 /\ Holds(k, s) /\ k = active /\ Open(k))
         /\ (Holds(k, s) /\ k = pending => k = p)
         /\ (Holds(k, s) /\ k = active => k = a)
  BY DEF CancelWork, Mine, Holds, Open, Generations
<1>6. \A k \in Generations :
         told'[k] = IF Holds(k, s) /\ k \in {pending, active}
                    THEN "cancelled" ELSE told[k]
  BY <1>4, <1>5
<1>7. \A x \in Sessions \ {s} :
         Stored(Stored(sessions, p, "cancelled"), a, "cancelled")[x] = sessions[x]
  <2>1. (p = 0 \/ SessionOf(p) = s) /\ (a = 0 \/ SessionOf(a) = s)
    BY DEF Mine, Holds
  <2>2. ASSUME NEW x \in Sessions \ {s}
        PROVE  /\ Stored(sessions, p, "cancelled")[x] = sessions[x]
               /\ Stored(Stored(sessions, p, "cancelled"), a, "cancelled")[x]
                      = Stored(sessions, p, "cancelled")[x]
    <3>1. (p = 0 \/ SessionOf(p) # x) /\ (a = 0 \/ SessionOf(a) # x)
      BY <2>1
    <3>2. p \in Requested /\ a \in Requested /\ "cancelled" \in Phases
      BY <1>1
    <3>3. Stored(sessions, p, "cancelled") \in SessionMap
      BY <1>3
    <3> HIDE DEF p, a
    <3>4. ASSUME NEW ss \in SessionMap, NEW g \in Requested,
                 g = 0 \/ SessionOf(g) # x
          PROVE  Stored(ss, g, "cancelled")[x] = ss[x]
      BY <3>2, <3>4 DEF Stored, SessionMap
    <3> QED  BY <3>1, <3>2, <3>3, <3>4, RequestFacts
  <2> QED  BY <2>2
<1>8. CancelSession(s) \/ CloseSession(s) =>
         \A x \in Sessions \ {s} : sessions'[x] = sessions[x]
  BY <1>7, RequestFacts DEF CancelSession, CloseSession, SessionMap
<1> QED  BY <1>6, <1>8

LEMMA PendingIsOpen ==
    ASSUME RecordInv, CopyInv
    PROVE  pending # 0 => Open(pending)
BY DEF RecordInv, CopyInv, RetryIsKnown, Open

\* What AnswerInv comes down to in a step that accepts nothing.
LEMMA AnswerKept ==
    ASSUME Types, Types', RecordInv, AnswerInv, UNCHANGED requests,
           lapsed <= lapsed', sent \subseteq sent',
           \A h \in Generations :
              \/ told'[h] = told[h]
              \/ told'[h] \notin {"queued", "writing"} /\ h \in Accepted
              \/ h = active /\ active' = active /\ told'[h] # "queued" /\ active # 0,
           pending' \in {0, pending},
           \A h \in {pending, active} \ {0, pending', active'} :
              /\ told'[h] # "queued"
              /\ told'[h] = "writing" =>
                    h \in sent' /\ (h <= lapsed' \/ h # Len(requests)),
           active' # 0 /\ told'[active'] \in {"queued", "writing"} =>
              /\ sessions'[SessionOf(active')].open
              /\ active' \in cancelled' => active' <= lapsed' \/ active' # Len(requests),
           step' \in {"writing", "saving"} => told'[active'] # "queued"
    PROVE  AnswerInv'
<1>1. Accepted \subseteq Generations /\ 0 \notin Accepted /\ Accepted \subseteq Nat
  BY RequestFacts DEF Accepted
<1>2. \A g \in Generations \ Accepted' : told'[g] = "none"
  BY RecordFacts DEF AnswerInv, Accepted
<1>3. ASSUME NEW g \in Accepted, g \notin {pending', active'}
      PROVE  /\ told'[g] # "queued"
             /\ told'[g] = "writing" =>
                   g \in sent' /\ (g <= lapsed' \/ g # Len(requests'))
  <2>1. CASE g \in {pending, active}
    BY <1>1, <1>3, <2>1
  <2>2. CASE g \notin {pending, active}
    BY <1>1, <1>3, <2>2, RecordFacts DEF AnswerInv, Outdated
  <2> QED  BY <2>1, <2>2
<1> QED
  BY <1>2, <1>3 DEF AnswerInv, Outdated, Open, SessionOf, Accepted

LEMMA AnswerInvStep ==
    ASSUME Types, RecordInv, StopInv, AnswerInv, CopyInv, [Next]_vars
    PROVE  AnswerInv'
<1> USE RequestFacts, RecordFacts, PendingIsOpen
<1>0. /\ "cancelled" \in Phases /\ "failed" \in Phases /\ "writing" \in Phases
      /\ "written" \in Phases /\ "confirmed" \in Phases /\ "unconfirmed" \in Phases
  BY DEF Phases
<1>t. Types'
  BY TypeStep
<1>r. /\ pending \in Requested /\ active \in Requested /\ verifying \in Requested
      /\ Accepted \subseteq Generations /\ 0 \notin Generations
      /\ (active # 0) <=> (step \notin {"none", "ready"})
      /\ ~exists => step = "none" /\ pending = 0
      /\ \A g \in Requested \ {0} : g \in Accepted
  BY TypesSplit DEF RecordTypes, Generations, Requested, Accepted
<1>o. /\ pending # 0 => Open(pending)
      /\ active # 0 /\ told[active] \in {"queued", "writing"} =>
            /\ Open(active)
            /\ active \in cancelled => Outdated(active)
      /\ step \in {"writing", "saving"} => told[active] # "queued"
      /\ pending # 0 => active # pending
      /\ pending \notin cancelled
      /\ verifying # 0 => pending = 0 /\ active = 0
  BY DEF AnswerInv, RecordInv
<1>1. CASE Aside
  <2>1. UNCHANGED <<requests, sent, pending, active, step, cancelled>>
        /\ UNCHANGED told
    BY <1>1, AsideKeeps
       DEF Aside, OpenSession, ExpireSession, Overtake, Load, HassStops, StartCheck,
           FinishCheck, vars, said
  <2>2. lapsed <= lapsed'
    <3>1. lapsed' = lapsed \/ Overtake
      BY <1>1 DEF Aside, OpenSession, ExpireSession, Load, HassStops, StartCheck,
         FinishCheck, vars
    <3> QED  BY <3>1 DEF Overtake
  <2>3. active # 0 /\ Open(active) => sessions'[SessionOf(active)].open
    <3>1. CASE \E s \in Sessions : OpenSession(s) \/ ExpireSession(s)
      BY <1>r, <3>1 DEF OpenSession, ExpireSession, NewSession, Open, Holds, SessionMap
    <3>2. CASE UNCHANGED sessions
      BY <3>2 DEF Open
    <3> QED
      BY <1>1, <3>1, <3>2
         DEF Aside, Overtake, Load, HassStops, StartCheck, FinishCheck, vars, said
  <2> QED
    BY <1>t, <1>r, <1>o, <2>1, <2>2, <2>3, AnswerKept DEF Outdated
<1>2. ASSUME NEW s \in Sessions, NEW q \in 1 .. MaxSequence, Accept(s, q)
      PROVE  AnswerInv'
  <2> DEFINE g == Len(requests) + 1
  <2> DEFINE again == CutCopyAtWork(s, q)
  <2>0. again \in BOOLEAN
    BY DEF CutCopyAtWork, Holds
  <2>1. /\ requests' = Append(requests, [session |-> s, sequence |-> q,
                                         again |-> again])
        /\ g \in Generations /\ pending' = g
        /\ told' = [Heard(told, pending, "cancelled") EXCEPT ![g] = "queued"]
        /\ UNCHANGED <<active, sent, cancelled, lapsed>>
        /\ step' \in {"writing", "saving"} => step' = step
    BY <1>2 DEF Accept, Spawn, history
  <2>2. Len(requests') = g /\ \A h \in Accepted : requests'[h] = requests[h]
    BY <2>0, <2>1, AppendFacts DEF Request
  <2>3. Heard(told, pending, "cancelled") \in Telling
        /\ \A h \in Generations : Heard(told, pending, "cancelled")[h] =
                 IF h = pending /\ Open(pending) THEN "cancelled" ELSE told[h]
    BY <1>0, <1>r, HeardFacts DEF Types
  <2>4. \A h \in Generations :
           told'[h] = IF h = g THEN "queued"
                      ELSE IF h = pending THEN "cancelled" ELSE told[h]
    BY <1>r, <1>o, <2>1, <2>3 DEF Telling
  <2>5. \A x \in Sessions : sessions'[x].open = sessions[x].open
    <3>1. Stored(sessions, pending, "cancelled") \in SessionMap
          /\ \A x \in Sessions :
                Stored(sessions, pending, "cancelled")[x].open = sessions[x].open
      <4>1. sessions \in SessionMap /\ requests \in Seq(Request)
            /\ pending \in Requested /\ "cancelled" \in Phases
        BY <1>0, <1>r
      <4>2. Stored(sessions, pending, "cancelled") \in SessionMap
        BY ONLY <4>1, StoredFacts
      <4> QED  BY ONLY <4>1, <4>2, StoredKeepsOpen
    <3>2. \A x \in Sessions : sessions'[x].open =
             Stored(sessions, pending, "cancelled")[x].open
      BY <1>2, <3>1 DEF Accept, SessionMap, Session
    <3> QED  BY <3>1, <3>2
  <2>6. /\ g \notin Accepted /\ g # active /\ g # 0
        /\ \A h \in Accepted : h # g
        /\ Accepted' = Accepted \union {g}
    BY <2>1, <2>2 DEF Accepted
  <2> HIDE DEF g
  <2>7. \A h \in Generations \ Accepted' : told'[h] = "none"
    BY <1>r, <2>4, <2>6 DEF AnswerInv
  <2>8. ASSUME NEW h \in Accepted', h \notin {pending', active'}
        PROVE  /\ told'[h] # "queued"
               /\ told'[h] = "writing" =>
                     h \in sent' /\ (h <= lapsed' \/ h # Len(requests'))
    BY <1>r, <2>1, <2>2, <2>4, <2>6, <2>8 DEF AnswerInv
  <2>9. active # 0 => /\ requests'[active] = requests[active]
                      /\ SessionOf(active) \in Sessions
                      /\ told'[active] = told[active]
    BY <1>r, <1>o, <2>2, <2>4, <2>6
  <2> QED
    BY <1>r, <1>o, <2>1, <2>2, <2>5, <2>6, <2>7, <2>8, <2>9
       DEF AnswerInv, Open, Outdated, SessionOf
<1>3. ASSUME NEW s \in Sessions, CancelSession(s) \/ CloseSession(s)
      PROVE  AnswerInv'
  <2>1. CancelWork(s)
    BY <1>3 DEF CancelSession, CloseSession
  <2>2. /\ UNCHANGED <<requests, active, sent, step, lapsed>>
        /\ pending' = IF Holds(pending, s) THEN 0 ELSE pending
        /\ cancelled' = cancelled \union ({Mine(pending, s), Mine(active, s)} \ {0})
    BY <2>1 DEF CancelWork, history
  <2>3. /\ \A k \in Generations :
              told'[k] = IF Holds(k, s) /\ k \in {pending, active}
                         THEN "cancelled" ELSE told[k]
        /\ \A x \in Sessions \ {s} : sessions'[x] = sessions[x]
    BY <1>3, <2>1, CancelTells
  <2>4. ~Holds(active, s) /\ active # 0 =>
           /\ sessions'[SessionOf(active)] = sessions[SessionOf(active)]
           /\ active \in cancelled' => active \in cancelled
    BY <1>r, <1>o, <2>2, <2>3 DEF Holds, Mine
  <2>5. Holds(active, s) /\ active # 0 => told'[active] = "cancelled"
    BY <1>r, <2>3
  <2> QED
    BY <1>t, <1>r, <1>o, <2>2, <2>3, <2>4, <2>5, AnswerKept DEF Outdated, Open
<1>4. CASE Supersede
  <2>1. /\ UNCHANGED <<requests, active, sent, step>>
        /\ lapsed' = Len(requests) /\ pending' = 0
    BY <1>4 DEF Supersede, history
  <2>2. /\ \A k \in Generations :
              told'[k] = IF (k = pending \/ k = verifying) /\ Open(k)
                         THEN "cancelled" ELSE told[k]
        /\ \A x \in Sessions : sessions'[x].open = sessions[x].open
    BY <1>0, <1>4, <1>r, PublishBothTells DEF Supersede
  <2>3. active # 0 => told'[active] = told[active]
    BY <1>r, <1>o, <2>2
  <2> QED
    BY <1>t, <1>r, <1>o, <2>1, <2>2, <2>3, AnswerKept DEF Outdated, Open
<1>5. CASE BeginUnload
  <2>1. /\ UNCHANGED <<requests, active, sent, step, lapsed>>
        /\ pending' = 0
    BY <1>5, <1>r DEF BeginUnload, history
  <2>2. /\ \A k \in Generations :
              told'[k] = IF (k = pending \/ k = active) /\ Open(k)
                         THEN "cancelled" ELSE told[k]
        /\ \A x \in Sessions : sessions'[x].open = sessions[x].open
    <3>1. CASE exists
      BY <1>0, <1>5, <1>r, <3>1, PublishBothTells DEF BeginUnload
    <3>2. CASE ~exists
      BY <1>5, <1>r, <3>2 DEF BeginUnload, said
    <3> QED  BY <3>1, <3>2
  <2>3. active # 0 => told'[active] \notin {"queued", "writing"}
    BY <1>r, <1>o, <2>2
  <2> QED
    BY <1>t, <1>r, <1>o, <2>1, <2>2, <2>3, AnswerKept DEF Outdated, Open
<1>6. CASE BeginShutdown
  <2>1. /\ UNCHANGED <<requests, active, sent, step, lapsed>>
        /\ pending' = 0 /\ cancelled' = cancelled \union ({pending} \ {0})
    BY <1>6 DEF BeginShutdown, history
  <2>2. /\ \A k \in Generations :
              told'[k] = IF k = pending /\ Open(k) THEN "failed" ELSE told[k]
        /\ \A x \in Sessions : sessions'[x].open = sessions[x].open
    BY <1>0, <1>6, <1>r, PublishTells DEF BeginShutdown
  <2>3. active # 0 => /\ told'[active] = told[active]
                      /\ active \in cancelled' => active \in cancelled
    BY <1>r, <1>o, <2>1, <2>2
  <2> QED
    BY <1>t, <1>r, <1>o, <2>1, <2>2, <2>3, AnswerKept DEF Outdated, Open
<1>7. CASE EndUnload \/ EndShutdown
  <2>1. /\ UNCHANGED <<requests, told, sent, step, lapsed>>
        /\ pending' = 0 /\ active' = 0 /\ pending = 0 /\ active = 0
    BY <1>7, <1>r DEF EndUnload, EndShutdown, RemoveRecord, history, said, StopInv
  <2> QED
    BY <1>t, <1>r, <1>o, <2>1, AnswerKept
<1>8. ASSUME \/ EndFailed \/ EndSuperseded
             \/ Superseded(active) /\ Release
             \/ CompilationFailed(active) /\ Release,
             UNCHANGED <<requests, sent, pending, lapsed>>, active # 0
      PROVE  AnswerInv'
  <2>1. PICK phase \in {"cancelled", "failed"} : Publish(active, phase)
    BY <1>8 DEF EndFailed, EndSuperseded, Superseded, CompilationFailed
  <2>2. active' = 0 /\ step' = "ready"
    BY <1>8 DEF EndFailed, EndSuperseded, Release
  <2>3. \A k \in Generations :
           told'[k] = IF k = active /\ Open(k) THEN phase ELSE told[k]
    BY <1>0, <1>r, <2>1, PublishTells
  <2>4. told'[active] \notin {"queued", "writing"}
    BY <1>r, <1>o, <1>8, <2>3
  <2> QED
    BY <1>t, <1>r, <1>o, <1>8, <2>2, <2>3, <2>4, AnswerKept
<1>9. CASE Take
  <2>1. /\ UNCHANGED <<requests, sent, lapsed>>
        /\ pending' = 0 /\ active = 0 /\ pending # 0
        /\ active' \in {0, pending}
        /\ step' \notin {"writing", "saving"}
    BY <1>9, <1>r DEF Take, history, Approach, Superseded, CompilationFailed
  <2>2. CASE active' = 0
    <3>1. PICK phase \in {"cancelled", "failed"} : Publish(pending, phase)
      BY <1>9, <2>1, <2>2 DEF Take, Superseded, CompilationFailed
    <3>2. \A k \in Generations :
             told'[k] = IF k = pending /\ Open(k) THEN phase ELSE told[k]
      BY <1>0, <1>r, <3>1, PublishTells
    <3> QED
      BY <1>t, <1>r, <1>o, <2>1, <2>2, <3>2, AnswerKept
  <2>3. CASE active' # 0
    <3>1. active' = pending /\ UNCHANGED <<told, sessions, cancelled>>
      BY <1>9, <1>r, <2>1, <2>3 DEF Take, said
    <3> QED
      BY <1>t, <1>r, <1>o, <2>1, <2>3, <3>1, AnswerKept DEF Open
  <2> QED  BY <2>2, <2>3
<1>10. CASE ReadControls
  <2>1. UNCHANGED <<requests, sent, pending, lapsed>> /\ active # 0
    BY <1>10, <1>r DEF ReadControls, history
  <2>2. CASE Approach /\ UNCHANGED <<said, active, cancelled>>
    <3>1. UNCHANGED <<sessions, told, active, cancelled>> /\ step' = "preflight"
      BY <2>2 DEF Approach, said
    <3> QED
      BY <1>t, <1>r, <1>o, <2>1, <3>1, AnswerKept DEF Open, Outdated
  <2> QED
    BY <1>8, <1>10, <2>1, <2>2 DEF ReadControls
<1>11. CASE Begin
  <2>1. UNCHANGED <<requests, sent, pending, lapsed>> /\ active # 0
    BY <1>11, <1>r DEF Begin
  <2>2. CASE MayBegin(active) /\ Publish(active, "writing")
             /\ step' = "writing" /\ UNCHANGED <<active, cancelled>>
    <3>1. active \notin cancelled
      BY <2>2 DEF MayBegin, VerificationIsCurrent, IsCurrent, IsLive
    <3>2. /\ \A k \in Generations :
                told'[k] = IF k = active /\ Open(k) THEN "writing" ELSE told[k]
          /\ \A x \in Sessions : sessions'[x].open = sessions[x].open
      BY <1>0, <1>r, <2>2, PublishTells
    <3>3. told'[active] # "queued" /\ (told'[active] = "writing" => Open(active))
      BY <1>r, <1>o, <2>1, <3>2
    <3> QED
      BY <1>t, <1>r, <1>o, <2>1, <2>2, <3>1, <3>2, <3>3, AnswerKept DEF Open
  <2> QED
    BY <1>8, <1>11, <2>1, <2>2 DEF Begin
<1>12. ASSUME Complete, UNCHANGED <<requests, pending, lapsed, exists>>,
              active \in sent', sent \subseteq sent', step \in {"writing", "saving"}
       PROVE  AnswerInv'
  <2>1. active' = 0 /\ step' = "ready" /\ active # 0 /\ exists
    BY <1>12, <1>r DEF Complete, Release
  <2>2. CASE IsLive(active)
    <3>1. \A k \in Generations :
             told'[k] = IF k = active /\ Open(k) THEN "written" ELSE told[k]
      BY <1>0, <1>r, <1>12, <2>1, <2>2, PublishTells DEF Complete
    <3>2. told'[active] \notin {"queued", "writing"}
      BY <1>r, <1>o, <2>1, <3>1
    <3> QED
      BY <1>t, <1>r, <1>o, <1>12, <2>1, <3>1, <3>2, AnswerKept
  <2>3. CASE ~IsLive(active)
    <3>1. told' = told
      BY <1>12, <2>3 DEF Complete, said
    <3>2. told[active] = "writing" => active <= lapsed \/ active # Len(requests)
      BY <1>o, <2>1, <2>3 DEF IsLive, Admitted, Outdated
    <3> QED
      BY <1>t, <1>r, <1>o, <1>12, <2>1, <3>1, <3>2, AnswerKept
  <2> QED  BY <2>2, <2>3
<1>13. CASE FinishWrite
  <2>1. UNCHANGED <<requests, pending, lapsed, exists>> /\ active # 0
    BY <1>13, <1>r DEF FinishWrite
  <2>2. CASE (EndFailed \/ EndSuperseded) /\ UNCHANGED sent
    BY <1>8, <2>1, <2>2
  <2>3. CASE Complete /\ sent' = sent \union {active}
    BY <1>12, <1>13, <2>1, <2>3 DEF FinishWrite
  <2>4. CASE /\ sent' = sent \union {active} /\ step' = "saving"
             /\ UNCHANGED <<said, active, cancelled>>
    <3>1. UNCHANGED <<sessions, told, active, cancelled>>
      BY <2>4 DEF said
    <3>2. step = "writing"
      BY <1>13 DEF FinishWrite
    <3> QED
      BY <1>t, <1>r, <1>o, <2>1, <2>4, <3>1, <3>2, AnswerKept DEF Open, Outdated
  <2> QED
    BY <1>13, <2>2, <2>3, <2>4 DEF FinishWrite
<1>14. CASE FinishSave
  <2>1. UNCHANGED <<requests, pending, lapsed, exists, sent>> /\ active # 0
        /\ step = "saving"
    BY <1>14, <1>r DEF FinishSave, history
  <2>2. active \in sent
    BY <2>1 DEF RecordInv
  <2>3. CASE Complete
    BY <1>12, <2>1, <2>2, <2>3
  <2>4. CASE Publish(active, "failed") /\ health' = Degraded(health) /\ Release
    BY <1>8, <2>1, <2>4 DEF CompilationFailed
  <2> QED
    BY <1>14, <2>3, <2>4 DEF FinishSave
<1>15. CASE ExitWorker \/ Wake \/ Observe
  <2>1. /\ UNCHANGED <<requests, pending, active, cancelled, sent, lapsed>>
        /\ step' \in {"writing", "saving"} => step \in {"writing", "saving"}
    BY <1>15 DEF ExitWorker, Wake, Observe, history
  <2>2. CASE UNCHANGED <<sessions, told>>
    BY <1>t, <1>r, <1>o, <2>1, <2>2, AnswerKept DEF Open, Outdated
  <2>3. ASSUME NEW phase \in {"confirmed", "unconfirmed"},
               Publish(verifying, phase), VerificationIsCurrent(verifying)
        PROVE  AnswerInv'
    <3>1. verifying # 0
      BY <2>3 DEF VerificationIsCurrent, IsCurrent, IsLive, Admitted
    <3>2. pending = 0 /\ active = 0
      BY <1>o, <3>1
    <3>3. \A k \in Generations :
             told'[k] = IF k = verifying /\ Open(k) THEN phase ELSE told[k]
      BY <1>0, <1>r, <2>3, PublishTells
    <3> QED
      BY <1>t, <1>r, <2>1, <3>1, <3>2, <3>3, AnswerKept
  <2> QED
    BY <1>15, <2>2, <2>3 DEF ExitWorker, Wake, Observe, said
<1> QED
  BY <1>1, <1>2, <1>3, <1>4, <1>5, <1>6, <1>7, <1>9, <1>10, <1>11, <1>13, <1>14,
     <1>15, StepCases

\* What FinalInv comes down to in a step that accepts nothing.
LEMMA FinalKept ==
    ASSUME FinalInv, UNCHANGED requests,
           \A g \in {pending', active', verifying'} \ {0} :
              /\ g \in {pending, active, verifying}
              /\ told'[g] = "cancelled" =>
                    \/ g \in cancelled' \/ g <= lapsed'
                    \/ /\ told[g] = "cancelled"
                       /\ g \in cancelled => g \in cancelled'
                       /\ g <= lapsed => g <= lapsed'
    PROVE  FinalInv'
BY DEF FinalInv, Outdated

LEMMA FinalInvStep ==
    ASSUME Types, RecordInv, FinalInv, [Next]_vars
    PROVE  FinalInv'
<1> USE RequestFacts, RecordFacts
<1>0. /\ "cancelled" \in Phases /\ "failed" \in Phases /\ "writing" \in Phases
      /\ "written" \in Phases /\ "confirmed" \in Phases /\ "unconfirmed" \in Phases
  BY DEF Phases
<1>r. /\ pending \in Requested /\ active \in Requested /\ verifying \in Requested
      /\ Accepted \subseteq Generations /\ 0 \notin Generations
      /\ (active # 0) <=> (step \notin {"none", "ready"})
      /\ ~exists => step = "none" /\ pending = 0 /\ verifying = 0
      /\ \A g \in Requested \ {0} : g \in Accepted
  BY TypesSplit DEF RecordTypes, Generations, Requested, Accepted
<1>o. /\ pending # 0 => active # pending
      /\ verifying # 0 => pending = 0 /\ active = 0
  BY DEF RecordInv
<1>1. CASE Aside
  <2>1. UNCHANGED <<requests, pending, active, verifying, cancelled, told>>
    BY <1>1, AsideKeeps
       DEF Aside, OpenSession, ExpireSession, Overtake, Load, HassStops, StartCheck,
           FinishCheck, vars, said
  <2>2. lapsed <= lapsed'
    <3>1. lapsed' = lapsed \/ Overtake
      BY <1>1 DEF Aside, OpenSession, ExpireSession, Load, HassStops, StartCheck,
         FinishCheck, vars
    <3> QED  BY <3>1 DEF Overtake
  <2> QED
    BY <1>r, <2>1, <2>2 DEF FinalInv, Outdated
<1>2. ASSUME NEW s \in Sessions, NEW q \in 1 .. MaxSequence, Accept(s, q)
      PROVE  FinalInv'
  <2> DEFINE g == Len(requests) + 1
  <2> DEFINE again == CutCopyAtWork(s, q)
  <2>0. again \in BOOLEAN
    BY DEF CutCopyAtWork, Holds
  <2>1. /\ requests' = Append(requests, [session |-> s, sequence |-> q,
                                         again |-> again])
        /\ g \in Generations /\ pending' = g /\ verifying' = 0
        /\ told' = [Heard(told, pending, "cancelled") EXCEPT ![g] = "queued"]
        /\ UNCHANGED active
    BY <1>2 DEF Accept, NoVerification
  <2>2. Len(requests') = g
    BY <2>0, <2>1, AppendFacts DEF Request
  <2>3. Heard(told, pending, "cancelled") \in Telling
    BY <1>0, <1>r, HeardFacts DEF Types
  <2>4. told'[g] = "queued"
    BY <2>1, <2>3 DEF Telling
  <2>5. active # g
    OBVIOUS
  <2> QED  BY <2>1, <2>2, <2>4, <2>5 DEF FinalInv, Outdated
<1>3. ASSUME NEW s \in Sessions, CancelSession(s) \/ CloseSession(s)
      PROVE  FinalInv'
  <2>1. CancelWork(s)
    BY <1>3 DEF CancelSession, CloseSession
  <2>2. /\ UNCHANGED <<requests, active, lapsed>>
        /\ pending' \in {0, pending} /\ verifying' \in {0, verifying}
        /\ cancelled' = cancelled \union ({Mine(pending, s), Mine(active, s)} \ {0})
    BY <2>1 DEF CancelWork, NoVerification
  <2>3. \A k \in Generations :
           told'[k] = IF Holds(k, s) /\ k \in {pending, active}
                      THEN "cancelled" ELSE told[k]
    BY <2>1, CancelTells
  <2>4. \A k \in Generations :
           Holds(k, s) /\ k \in {pending, active} => k \in cancelled'
    BY <1>r, <2>2 DEF Mine, Holds
  <2> QED
    BY <1>r, <2>2, <2>3, <2>4, FinalKept
<1>4. CASE Supersede
  BY <1>4, <1>r, FinalKept DEF Supersede, NoVerification
<1>5. CASE BeginUnload
  BY <1>5, <1>r, FinalKept DEF BeginUnload, NoVerification
<1>6. CASE BeginShutdown
  <2>1. /\ UNCHANGED <<requests, active, lapsed>> /\ pending' = 0 /\ verifying' = 0
        /\ cancelled \subseteq cancelled'
    BY <1>6 DEF BeginShutdown, NoVerification
  <2>2. active # 0 => told'[active] = told[active]
    BY <1>0, <1>6, <1>r, <1>o, PublishTells DEF BeginShutdown
  <2> QED
    BY <1>r, <2>1, <2>2, FinalKept
<1>7. CASE EndUnload \/ EndShutdown
  BY <1>7, FinalKept DEF EndUnload, EndShutdown, RemoveRecord, NoVerification
<1>8. ASSUME \/ EndFailed \/ EndSuperseded
             \/ Superseded(active) /\ Release
             \/ CompilationFailed(active) /\ Release,
             UNCHANGED <<requests, pending, lapsed, verifying>>, active # 0
      PROVE  FinalInv'
  <2>1. PICK phase \in {"cancelled", "failed"} : Publish(active, phase)
    BY <1>8 DEF EndFailed, EndSuperseded, Superseded, CompilationFailed
  <2>2. active' = 0 /\ cancelled' = cancelled \ {active}
    BY <1>8 DEF EndFailed, EndSuperseded, Release
  <2>3. \A k \in Generations :
           told'[k] = IF k = active /\ Open(k) THEN phase ELSE told[k]
    BY <1>0, <1>r, <2>1, PublishTells
  <2> QED
    BY <1>r, <1>o, <1>8, <2>2, <2>3, FinalKept
<1>9. CASE Take
  <2>1. /\ UNCHANGED <<requests, lapsed, verifying>>
        /\ pending' = 0 /\ verifying = 0
        /\ \/ active' = 0
           \/ active' = pending /\ UNCHANGED <<told, cancelled>>
    BY <1>9, <1>r, <1>o DEF Take, Superseded, CompilationFailed, said
  <2> QED
    BY <1>r, <2>1, FinalKept
<1>10. CASE ReadControls
  <2>1. UNCHANGED <<requests, pending, lapsed, verifying>> /\ active # 0
    BY <1>10, <1>r DEF ReadControls
  <2>2. CASE Approach /\ UNCHANGED <<said, active, cancelled>>
    BY <1>r, <2>1, <2>2, FinalKept DEF said
  <2> QED
    BY <1>8, <1>10, <2>1, <2>2 DEF ReadControls
<1>11. CASE Begin
  <2>1. UNCHANGED <<requests, pending, lapsed, verifying>> /\ active # 0
    BY <1>11, <1>r DEF Begin
  <2>2. CASE Publish(active, "writing") /\ UNCHANGED <<active, cancelled>>
    <3>1. \A k \in Generations :
             told'[k] = IF k = active /\ Open(k) THEN "writing" ELSE told[k]
      BY <1>0, <1>r, <2>2, PublishTells
    <3> QED
      BY <1>r, <2>1, <2>2, <3>1, FinalKept
  <2> QED
    BY <1>8, <1>11, <2>1, <2>2 DEF Begin
<1>12. ASSUME Complete, UNCHANGED <<requests, pending, lapsed>>, active # 0
       PROVE  FinalInv'
  <2>1. /\ active' = 0 /\ cancelled' = cancelled \ {active}
        /\ \/ verifying' = verifying
           \/ verifying' = active /\ active \notin cancelled
    BY <1>12 DEF Complete, Release
  <2>2. \A k \in Generations :
           told'[k] = told[k] \/ (k = active /\ told'[k] = "written")
    <3>1. CASE Publish(active, "written")
      BY <1>0, <1>r, <3>1, PublishTells
    <3> QED  BY <1>12, <3>1 DEF Complete, said
  <2> QED
    BY <1>r, <1>o, <1>12, <2>1, <2>2, FinalKept
<1>13. CASE FinishWrite
  <2>1. UNCHANGED <<requests, pending, lapsed>> /\ active # 0
    BY <1>13, <1>r DEF FinishWrite
  <2>2. CASE UNCHANGED <<said, active, cancelled, verifying>>
    BY <1>r, <2>1, <2>2, FinalKept DEF said
  <2> QED
    BY <1>8, <1>12, <1>13, <2>1, <2>2 DEF FinishWrite
<1>14. CASE FinishSave
  <2>1. UNCHANGED <<requests, pending, lapsed>> /\ active # 0
    BY <1>14, <1>r DEF FinishSave
  <2> QED
    BY <1>8, <1>12, <1>14, <2>1 DEF FinishSave, CompilationFailed
<1>15. CASE ExitWorker \/ Wake \/ Observe
  <2>1. /\ UNCHANGED <<requests, pending, active, cancelled, lapsed>>
        /\ verifying' \in {0, verifying}
    BY <1>15 DEF ExitWorker, Wake, Observe, NoVerification
  <2>2. CASE UNCHANGED told
    BY <1>r, <2>1, <2>2, FinalKept
  <2>3. ASSUME NEW phase \in {"confirmed", "unconfirmed"},
               Publish(verifying, phase), verifying' = 0
        PROVE  FinalInv'
    <3>1. \A k \in Generations :
             told'[k] = IF k = verifying /\ Open(k) THEN phase ELSE told[k]
      BY <1>0, <1>r, <2>3, PublishTells
    <3> QED
      BY <1>r, <1>o, <2>1, <2>3, <3>1, FinalKept
  <2> QED
    BY <1>15, <2>2, <2>3 DEF ExitWorker, Wake, Observe, said, NoVerification
<1> QED
  BY <1>1, <1>2, <1>3, <1>4, <1>5, <1>6, <1>7, <1>9, <1>10, <1>11, <1>13, <1>14,
     <1>15, StepCases

-----------------------------------------------------------------------------
(* One copy.                                                               *)

LEMMA KnownKept ==
    ASSUME Types, NEW g \in Accepted, RetryIsKnown(g), UNCHANGED requests,
           sessions'[SessionOf(g)].open,
           sessions'[SessionOf(g)].last = sessions[SessionOf(g)].last,
           \/ sessions'[SessionOf(g)].status = sessions[SessionOf(g)].status
           \/ sessions'[SessionOf(g)].status.phase \in {"queued", "writing", "written"}
           \/ sessions'[SessionOf(g)].status.sequence # SequenceOf(g)
           \/ requests[g].again
    PROVE  RetryIsKnown(g)'
BY DEF RetryIsKnown, SessionOf, SequenceOf

\* Telling one request of a session does not make another one forgotten.
LEMMA PublishKnown ==
    ASSUME Types, NEW g \in Accepted, RetryIsKnown(g), UNCHANGED requests,
           NEW x \in Requested, NEW phase \in Phases,
           sessions' = Stored(sessions, x, phase),
           \/ x = g /\ phase \in {"writing", "written"}
           \/ x # g /\ (x # 0 /\ SameState(x, g) => requests[g].again)
    PROVE  RetryIsKnown(g)'
<1>1. /\ sessions \in SessionMap /\ requests \in Seq(Request)
      /\ SessionOf(g) \in Sessions
  BY RequestFacts
<1>2. /\ sessions'[SessionOf(g)].open = sessions[SessionOf(g)].open
      /\ sessions'[SessionOf(g)].last = sessions[SessionOf(g)].last
      /\ (x = 0 \/ SessionOf(x) # SessionOf(g))
            => sessions'[SessionOf(g)] = sessions[SessionOf(g)]
      /\ (x # 0 /\ SessionOf(x) = SessionOf(g) /\ sessions[SessionOf(g)].open)
            => sessions'[SessionOf(g)].status
                  = [sequence |-> SequenceOf(x), phase |-> phase]
  BY <1>1, StoredFacts
<1>3. sessions[SessionOf(g)].open
  BY DEF RetryIsKnown
<1>4. CASE x = 0 \/ SessionOf(x) # SessionOf(g)
  BY <1>2, <1>3, <1>4, KnownKept
<1>5. CASE x # 0 /\ SessionOf(x) = SessionOf(g)
  <2>1. sessions'[SessionOf(g)].status.sequence = SequenceOf(x)
        /\ sessions'[SessionOf(g)].status.phase = phase
    BY <1>2, <1>3, <1>5
  <2>2. \/ phase \in {"queued", "writing", "written"}
        \/ SequenceOf(x) # SequenceOf(g) \/ requests[g].again
    BY <1>5 DEF SameState
  <2> QED  BY <1>2, <1>3, <2>1, <2>2, KnownKept
<1> QED  BY <1>4, <1>5

\* What CopyInv comes down to in a step that accepts nothing.
LEMMA CopyKept ==
    ASSUME \A g \in {pending', active'} \ ({0} \union cancelled') : RetryIsKnown(g)',
           \/ pending' = 0 \/ active' = 0
           \/ /\ UNCHANGED <<requests, pending, active>> /\ CopyInv
              /\ active \in cancelled => active \in cancelled'
    PROVE  CopyInv'
BY DEF CopyInv, SameState, SessionOf, SequenceOf, Accepted

LEMMA CopyInvStep ==
    ASSUME Types, RecordInv, StopInv, CopyInv, [Next]_vars
    PROVE  CopyInv'
<1> USE RequestFacts, RecordFacts
<1>0. /\ "cancelled" \in Phases /\ "failed" \in Phases /\ "writing" \in Phases
      /\ "written" \in Phases /\ "confirmed" \in Phases /\ "unconfirmed" \in Phases
  BY DEF Phases
<1>r. /\ pending \in Requested /\ active \in Requested /\ verifying \in Requested
      /\ (active # 0) <=> (step \notin {"none", "ready"})
      /\ ~exists => step = "none" /\ pending = 0 /\ verifying = 0
      /\ pending # 0 => pending \in Accepted
      /\ active # 0 => active \in Accepted
  BY TypesSplit DEF RecordTypes
<1>o. /\ pending # 0 => active # pending /\ active < pending
      /\ verifying # 0 => pending = 0 /\ active = 0
      /\ pending # 0 => RetryIsKnown(pending)
      /\ active # 0 /\ active \notin cancelled => RetryIsKnown(active)
  BY DEF RecordInv, CopyInv
<1>p. /\ pending # 0 /\ active # 0 /\ SameState(active, pending) => requests[pending].again
      /\ pending # 0 /\ active # 0 /\ active \notin cancelled
            /\ SameState(pending, active) => requests[active].again
  BY <1>r, <1>o DEF CopyInv, SameState
<1>1. CASE Aside
  <2>1. UNCHANGED <<requests, pending, active, cancelled>>
    BY <1>1, AsideKeeps
  <2>2. ASSUME NEW g \in {pending, active} \ ({0} \union cancelled)
        PROVE  RetryIsKnown(g)'
    <3>1. RetryIsKnown(g) /\ g \in Accepted /\ sessions[SessionOf(g)].open
      BY <1>r, <1>o, <2>2 DEF RetryIsKnown
    <3>2. sessions'[SessionOf(g)] = sessions[SessionOf(g)]
      <4>1. CASE \E s \in Sessions : OpenSession(s) \/ ExpireSession(s)
        <5>1. PICK s \in Sessions : OpenSession(s) \/ ExpireSession(s)
          BY <4>1
        <5>2. SessionOf(g) # s
          <6>1. CASE OpenSession(s)
            BY <3>1, <6>1 DEF OpenSession
          <6>2. CASE ExpireSession(s)
            BY <2>2, <6>2 DEF ExpireSession, Holds
          <6> QED  BY <5>1, <6>1, <6>2
        <5>3. PICK o \in BOOLEAN :
                 sessions' = [sessions EXCEPT ![s] = NewSession(o)]
          BY <5>1 DEF OpenSession, ExpireSession
        <5> QED  BY <3>1, <5>2, <5>3 DEF SessionMap
      <4>2. CASE UNCHANGED sessions
        BY <4>2
      <4> QED
        BY <1>1, <4>1, <4>2
           DEF Aside, Overtake, Load, HassStops, StartCheck, FinishCheck, vars, said
    <3> QED  BY <2>1, <3>1, <3>2, KnownKept
  <2> QED  BY <2>1, <2>2, CopyKept
<1>2. ASSUME NEW s \in Sessions, NEW q \in 1 .. MaxSequence, Accept(s, q)
      PROVE  CopyInv'
  <2> DEFINE n == Len(requests) + 1
             ss == Stored(sessions, pending, "cancelled")
             queued == [sequence |-> q, phase |-> "queued"]
  <2> DEFINE again == CutCopyAtWork(s, q)
  <2>0. again \in BOOLEAN
    BY DEF CutCopyAtWork, Holds
  <2>1. /\ requests' = Append(requests, [session |-> s, sequence |-> q,
                                         again |-> again])
        /\ n \in Generations /\ pending' = n
        /\ sessions' = [ss EXCEPT ![s].last = q, ![s].status = queued]
        /\ sessions[s].open /\ q >= sessions[s].last /\ ~AlreadyTaken(s, q)
        /\ UNCHANGED <<active, cancelled>>
    BY <1>2 DEF Accept
  <2>2. /\ Len(requests') = n /\ \A h \in Accepted : requests'[h] = requests[h]
        /\ requests'[n] = [session |-> s, sequence |-> q, again |-> again]
    BY <2>0, <2>1, AppendFacts DEF Request
  <2>3. /\ ss \in SessionMap
        /\ \A x \in Sessions :
              /\ ss[x].open = sessions[x].open /\ ss[x].last = sessions[x].last
              /\ (pending = 0 \/ SessionOf(pending) # x) => ss[x] = sessions[x]
              /\ (pending # 0 /\ SessionOf(pending) = x /\ sessions[x].open)
                    => ss[x].status = [sequence |-> SequenceOf(pending),
                                       phase |-> "cancelled"]
    <3>1. sessions \in SessionMap /\ requests \in Seq(Request)
          /\ pending \in Requested /\ "cancelled" \in Phases
      BY <1>0, <1>r
    <3> QED  BY ONLY <3>1, StoredFacts
  <2>4. /\ sessions'[s].open /\ sessions'[s].last = q
        /\ sessions'[s].status = queued
        /\ \A x \in Sessions \ {s} : sessions'[x] = ss[x]
    BY <2>1, <2>3 DEF SessionMap, Session
  <2>5. Accepted' = Accepted \union {n} /\ n \notin Accepted /\ n # 0
    BY <2>2 DEF Accepted
  <2>6. queued.phase = "queued" /\ queued.sequence = q
    OBVIOUS
  <2>8. \A h \in Accepted : /\ requests'[h].session = SessionOf(h)
                            /\ requests'[h].sequence = SequenceOf(h)
                            /\ requests'[h].again = requests[h].again
    BY <2>2 DEF SessionOf, SequenceOf
  <2>15. again <=> /\ active # 0 /\ SessionOf(active) = s
                   /\ SequenceOf(active) = q
                   /\ active \in cancelled \/ requests[active].again
    BY DEF CutCopyAtWork, Holds
  <2> HIDE DEF n, ss, queued, again
  <2>10. /\ sessions'[requests'[n].session].open
         /\ requests'[n].sequence <= sessions'[requests'[n].session].last
         /\ sessions'[requests'[n].session].status.phase = "queued"
    BY <2>2, <2>4, <2>6
  <2>11. ASSUME active # 0, active \notin cancelled
         PROVE  LET own == sessions'[SessionOf(active)] IN
                /\ own.open
                /\ SequenceOf(active) <= own.last
                /\ \/ SequenceOf(active) < own.last
                   \/ own.status.sequence # SequenceOf(active)
                   \/ own.status.phase \in {"queued", "writing", "written",
                                            "confirmed"}
                   \/ requests[active].again
    <3>1. RetryIsKnown(active) /\ SessionOf(active) \in Sessions
          /\ SequenceOf(active) \in Nat /\ active \in Accepted
      BY <1>r, <1>o, <2>11, BoundsAssumption
    <3>2. CASE SessionOf(active) = s
      <4>1. SequenceOf(active) <= q
        BY <2>1, <3>1, <3>2, BoundsAssumption DEF RetryIsKnown, SessionMap, Session
      <4> QED  BY <2>4, <2>6, <3>2, <4>1
    <3>3. CASE SessionOf(active) # s
      <4>1. sessions'[SessionOf(active)] = ss[SessionOf(active)]
        BY <2>4, <3>1, <3>3
      <4>2. CASE pending = 0 \/ SessionOf(pending) # SessionOf(active)
        <5>1. sessions'[SessionOf(active)] = sessions[SessionOf(active)]
          BY <2>3, <3>1, <4>1, <4>2
        <5> QED  BY <3>1, <5>1 DEF RetryIsKnown
      <4>3. CASE pending # 0 /\ SessionOf(pending) = SessionOf(active)
        <5>1. /\ ss[SessionOf(active)].open
              /\ ss[SessionOf(active)].last = sessions[SessionOf(active)].last
              /\ ss[SessionOf(active)].status.sequence = SequenceOf(pending)
          BY <2>3, <3>1, <4>3 DEF RetryIsKnown
        <5>2. SequenceOf(pending) # SequenceOf(active) \/ requests[active].again
          BY <1>p, <2>11, <4>3 DEF SameState
        <5> QED  BY <3>1, <4>1, <5>1, <5>2 DEF RetryIsKnown
      <4> QED  BY <4>2, <4>3
    <3> QED  BY <3>2, <3>3
  <2>12. ASSUME NEW h \in {pending', active'} \ ({0} \union cancelled')
         PROVE  RetryIsKnown(h)'
    <3>1. CASE h = n
      BY <2>10, <3>1 DEF RetryIsKnown, SessionOf, SequenceOf
    <3>2. CASE h # n
      <4>1. h = active /\ active # 0 /\ active \notin cancelled /\ h \in Accepted
        BY <1>r, <2>1, <2>12, <3>2
      <4> QED
        BY <2>8, <2>11, <4>1
           DEF RetryIsKnown, SessionOf, SequenceOf, SameState
    <3> QED  BY <3>1, <3>2
  <2>13. ASSUME active # 0, active \notin cancelled,
                SessionOf(active) = s, SequenceOf(active) = q
         PROVE  requests[active].again
    <3>1. RetryIsKnown(active)
      BY <1>o, <2>13
    <3>2. SequenceIsLive(s, q)
      BY <2>13 DEF SequenceIsLive, Holds
    <3>3. q = sessions[s].last
      BY <2>1, <2>13, <3>1, BoundsAssumption DEF RetryIsKnown, SessionMap, Session
    <3> QED
      BY <2>1, <2>13, <3>1, <3>2, <3>3 DEF RetryIsKnown, AlreadyTaken
  <2>14. ASSUME active # 0,
                requests'[active].session = requests'[n].session,
                requests'[active].sequence = requests'[n].sequence
         PROVE  /\ requests'[n].again
                /\ active \notin cancelled => requests'[active].again
    <3>1. active \in Accepted
      BY <1>r, <2>14
    <3>2. SessionOf(active) = s /\ SequenceOf(active) = q
      BY <2>2, <2>8, <2>14, <3>1
    <3>4. CASE active \in cancelled
      BY <2>2, <2>14, <2>15, <3>2, <3>4
    <3>5. CASE active \notin cancelled
      BY <2>2, <2>8, <2>13, <2>14, <2>15, <3>1, <3>2, <3>5
    <3> QED  BY <3>4, <3>5
  <2> QED
    BY <2>1, <2>12, <2>14 DEF CopyInv, SameState, SessionOf, SequenceOf
<1>3. ASSUME NEW s \in Sessions, CancelSession(s) \/ CloseSession(s)
      PROVE  CopyInv'
  <2>1. CancelWork(s)
    BY <1>3 DEF CancelSession, CloseSession
  <2>2. /\ UNCHANGED <<requests, active>>
        /\ pending' = IF Holds(pending, s) THEN 0 ELSE pending
        /\ cancelled' = cancelled \union ({Mine(pending, s), Mine(active, s)} \ {0})
    BY <2>1 DEF CancelWork
  <2>3. \A x \in Sessions \ {s} : sessions'[x] = sessions[x]
    BY <1>3, <2>1, CancelTells
  <2>4. ASSUME NEW g \in {pending', active'} \ ({0} \union cancelled')
        PROVE  RetryIsKnown(g)'
    <3>1. RetryIsKnown(g) /\ g \in Accepted /\ ~Holds(g, s)
      BY <1>r, <1>o, <2>2, <2>4 DEF Mine
    <3>2. sessions'[SessionOf(g)] = sessions[SessionOf(g)]
      BY <2>3, <2>4, <3>1 DEF Holds
    <3> QED  BY <2>2, <3>1, <3>2, KnownKept DEF RetryIsKnown
  <2> QED  BY <2>2, <2>4, CopyKept
<1>4. CASE Supersede
  BY <1>4, CopyKept DEF Supersede
<1>5. CASE BeginUnload
  <2>1. pending' = 0 /\ (active' # 0 => active' \in cancelled')
    BY <1>5, <1>r DEF BeginUnload
  <2> QED  BY <2>1, CopyKept
<1>6. CASE BeginShutdown
  <2>1. /\ UNCHANGED <<requests, active>> /\ pending' = 0
        /\ cancelled \subseteq cancelled'
        /\ sessions' = Stored(sessions, pending, "failed")
    BY <1>6 DEF BeginShutdown, Publish
  <2>2. active # 0 /\ active \notin cancelled => RetryIsKnown(active)'
    <3> SUFFICES ASSUME active # 0, active \notin cancelled
                 PROVE  RetryIsKnown(active)'
      OBVIOUS
    <3>1. PICK g \in Accepted : g = active
      BY <1>r
    <3>2. RetryIsKnown(g)'
      BY <1>0, <1>r, <1>o, <1>p, <2>1, <3>1, PublishKnown
    <3> QED  BY <2>1, <3>1, <3>2
  <2>3. ASSUME NEW g \in {pending', active'} \ ({0} \union cancelled')
        PROVE  RetryIsKnown(g)'
    BY <2>1, <2>2, <2>3
  <2> QED  BY <2>1, <2>3, CopyKept
<1>7. CASE EndUnload \/ EndShutdown
  BY <1>7, CopyKept DEF EndUnload, EndShutdown, RemoveRecord
<1>8. ASSUME NEW phase \in Phases, Publish(active, phase),
             UNCHANGED <<requests, pending>>, active' = 0, active # 0,
             pending' \in cancelled' => pending' \in cancelled
      PROVE  CopyInv'
  <2>1. ASSUME pending # 0 PROVE RetryIsKnown(pending)'
    <3>1. PICK g \in Accepted : g = pending
      BY <1>r, <2>1
    <3>2. RetryIsKnown(g)'
      BY <1>r, <1>o, <1>p, <1>8, <2>1, <3>1, PublishKnown DEF Publish
    <3> QED  BY <1>8, <3>1, <3>2
  <2>2. ASSUME NEW g \in {pending', active'} \ ({0} \union cancelled')
        PROVE  RetryIsKnown(g)'
    BY <1>8, <2>1, <2>2
  <2> QED  BY <1>8, <2>2, CopyKept
<1>9. ASSUME \/ EndFailed \/ EndSuperseded
             \/ Superseded(active) /\ Release
             \/ CompilationFailed(active) /\ Release,
             UNCHANGED <<requests, pending>>, active # 0
      PROVE  CopyInv'
  <2>1. PICK phase \in {"cancelled", "failed"} : Publish(active, phase)
    BY <1>9 DEF EndFailed, EndSuperseded, Superseded, CompilationFailed
  <2>2. active' = 0 /\ cancelled' = cancelled \ {active}
    BY <1>9 DEF EndFailed, EndSuperseded, Release
  <2> QED
    BY <1>0, <1>8, <1>9, <2>1, <2>2
\* What is under way stays as it is, and so do the sessions.
<1>10. ASSUME UNCHANGED <<requests, said, cancelled>>,
              \/ UNCHANGED <<pending, active>>
              \/ active' = pending /\ pending' = 0
              \/ active' = 0 /\ pending' = pending
       PROVE  CopyInv'
  <2>1. ASSUME NEW g \in {pending', active'} \ ({0} \union cancelled')
        PROVE  RetryIsKnown(g)'
    <3>1. RetryIsKnown(g) /\ g \in Accepted
      BY <1>r, <1>o, <1>10, <2>1
    <3> QED
      BY <1>10, <3>1, KnownKept DEF said, RetryIsKnown
  <2> QED  BY <1>10, <2>1, CopyKept
<1>11. CASE Take
  <2>1. UNCHANGED requests /\ pending' = 0 /\ active = 0
    BY <1>11, <1>r DEF Take
  <2>2. CASE active' = pending /\ UNCHANGED <<said, cancelled>>
    BY <1>10, <2>1, <2>2
  <2>3. CASE UNCHANGED active
    BY <2>1, <2>3, CopyKept
  <2> QED  BY <1>11, <2>2, <2>3 DEF Take
<1>12. CASE ReadControls
  <2>1. UNCHANGED <<requests, pending>> /\ active # 0
    BY <1>12, <1>r DEF ReadControls
  <2>2. CASE UNCHANGED <<said, active, cancelled>>
    BY <1>10, <2>1, <2>2
  <2> QED
    BY <1>9, <1>12, <2>1, <2>2 DEF ReadControls
<1>13. CASE Begin
  <2>1. UNCHANGED <<requests, pending>> /\ active # 0
    BY <1>13, <1>r DEF Begin
  <2>2. CASE Publish(active, "writing") /\ UNCHANGED <<active, cancelled>>
    <3>1. ASSUME NEW g \in {pending', active'} \ ({0} \union cancelled')
          PROVE  RetryIsKnown(g)'
      <4>1. RetryIsKnown(g) /\ g \in Accepted
        BY <1>r, <1>o, <2>1, <2>2, <3>1
      <4>2. g = active \/ (g = pending /\ g # active /\ g # 0)
        BY <1>o, <2>1, <2>2, <3>1
      <4> QED
        BY <1>0, <1>r, <1>p, <2>1, <2>2, <4>1, <4>2, PublishKnown DEF Publish
    <3> QED  BY <2>1, <2>2, <3>1, CopyKept
  <2> QED
    BY <1>9, <1>13, <2>1, <2>2 DEF Begin
<1>14. ASSUME Complete, UNCHANGED <<requests, pending>>, active # 0
       PROVE  CopyInv'
  <2>1. active' = 0 /\ cancelled' = cancelled \ {active}
    BY <1>14 DEF Complete, Release
  <2>2. CASE Publish(active, "written")
    BY <1>0, <1>8, <1>14, <2>1, <2>2
  <2>3. CASE UNCHANGED said
    <3>1. ASSUME NEW g \in {pending', active'} \ ({0} \union cancelled')
          PROVE  RetryIsKnown(g)'
      <4>1. RetryIsKnown(g) /\ g \in Accepted
        BY <1>r, <1>o, <1>14, <2>1, <3>1
      <4> QED
        BY <1>14, <2>3, <4>1, KnownKept DEF said, RetryIsKnown
    <3> QED  BY <2>1, <3>1, CopyKept
  <2> QED  BY <1>14, <2>2, <2>3 DEF Complete
<1>15. CASE FinishWrite
  <2>1. UNCHANGED <<requests, pending>> /\ active # 0
    BY <1>15, <1>r DEF FinishWrite
  <2>2. CASE UNCHANGED <<said, active, cancelled>>
    BY <1>10, <2>1, <2>2
  <2> QED
    BY <1>9, <1>14, <1>15, <2>1, <2>2 DEF FinishWrite
<1>16. CASE FinishSave
  <2>1. UNCHANGED <<requests, pending>> /\ active # 0
    BY <1>16, <1>r DEF FinishSave
  <2> QED
    BY <1>9, <1>14, <1>16, <2>1 DEF FinishSave, CompilationFailed
<1>17. CASE ExitWorker \/ Wake \/ Observe
  <2>1. UNCHANGED <<requests, pending, active, cancelled>>
    BY <1>17 DEF ExitWorker, Wake, Observe
  <2>2. CASE UNCHANGED said
    BY <1>10, <2>1, <2>2
  <2>3. CASE VerificationIsCurrent(verifying)
    <3>1. verifying # 0
      BY <2>3 DEF VerificationIsCurrent, IsCurrent, IsLive, Admitted
    <3>2. pending' = 0 /\ active' = 0
      BY <1>o, <2>1, <3>1
    <3> QED  BY <3>2, CopyKept
  <2> QED  BY <1>17, <2>2, <2>3 DEF ExitWorker, Wake, Observe
<1> QED
  BY <1>1, <1>2, <1>3, <1>4, <1>5, <1>6, <1>7, <1>11, <1>12, <1>13, <1>15, <1>16,
     <1>17, StepCases

-----------------------------------------------------------------------------
(* The theorems.                                                           *)

LEMMA InitInv == Init => IInv
<1> SUFFICES ASSUME Init PROVE IInv
  OBVIOUS
<1>1. Types
  BY TypeInit
<1>2. Len(requests) = 0 /\ Accepted = {}
  BY DEF Init, Accepted
<1>3. /\ pending = 0 /\ active = 0 /\ verifying = 0 /\ newest = 0 /\ cancelled = {}
      /\ step = "none" /\ ~exists /\ ~unloading /\ stopping = "no"
      /\ \A g \in Generations : told[g] = "none"
  BY DEF Init
<1>4. RecordInv /\ StopInv /\ FinalInv /\ CopyInv
  BY <1>3 DEF RecordInv, StopInv, FinalInv, CopyInv
<1>5. AnswerInv
  BY <1>2, <1>3 DEF AnswerInv
<1> QED  BY <1>1, <1>4, <1>5 DEF IInv

LEMMA StepInv == IInv /\ [Next]_vars => IInv'
BY TypeStep, RecordInvStep, StopInvStep, AnswerInvStep, FinalInvStep, CopyInvStep
   DEF IInv

THEOREM PreviewInvariant == Spec => []IInv
<1>1. Init => IInv
  BY InitInv
<1>2. IInv /\ [Next]_vars => IInv'
  BY StepInv
<1> QED  BY <1>1, <1>2, PTL DEF Spec

\* TypeOK: every variable holds a value of its type, the worker is inside a
\* request exactly when it has an active one, and a record that is gone left
\* nothing behind.
THEOREM PreviewTypes == Spec => []TypeOK
<1>1. IInv => TypeOK
  BY DEF IInv, Types
<1> QED  BY <1>1, PreviewInvariant, PTL

\* OnceOrAnswered: a desired state is under way once, unless it was accepted
\* again while a cancelled copy of it was at work, and a request that is
\* nowhere any more has its answer.  Only what is written and what waits can
\* be two copies, since nothing is read back beside them; and the worker could
\* still tell the session of each request it ended.
THEOREM OnceOrAlwaysAnswered == Spec => []OnceOrAnswered
<1>1. ASSUME IInv PROVE OneLiveCopy
  <2>1. \A g, h \in {pending, active, verifying} \ ({0} \union cancelled) :
           g < h => g = active /\ h = pending /\ g # 0 /\ h # 0
    BY <1>1, RecordFacts DEF IInv, RecordInv
  <2> QED
    BY <1>1, <2>1 DEF IInv, CopyInv, OneLiveCopy
<1>2. ASSUME IInv PROVE SettledIsAnswered
  BY <1>2 DEF IInv, AnswerInv, Outdated, SettledIsAnswered
<1>3. IInv => OnceOrAnswered
  BY <1>1, <1>2 DEF OnceOrAnswered
<1> QED  BY <1>3, PreviewInvariant, PTL

\* What a step tells, seen from the request that it tells.
LEMMA WhoIsTold ==
    ASSUME IInv, [Next]_vars, NEW g \in Generations, told'[g] # told[g],
           told'[g] \notin {"cancelled", "failed"}
    PROVE  \/ g = Len(requests) + 1 /\ told'[g] = "queued"
           \/ g = active /\ Begin /\ VerificationIsCurrent(g)
                 /\ told'[g] = "writing"
           \/ g = active /\ IsLive(g) /\ told'[g] = "written"
           \/ g = verifying /\ Observe /\ VerificationIsCurrent(g)
                 /\ told'[g] \in {"confirmed", "unconfirmed"}
<1> USE RequestFacts, RecordFacts
<1>0. /\ "cancelled" \in Phases /\ "failed" \in Phases /\ "writing" \in Phases
      /\ "written" \in Phases /\ "confirmed" \in Phases /\ "unconfirmed" \in Phases
  BY DEF Phases
<1>t. Types /\ told \in Telling
  BY DEF IInv
<1>r. pending \in Requested /\ active \in Requested /\ verifying \in Requested
  BY <1>t, TypesSplit DEF RecordTypes
<1> DEFINE Goal ==
      \/ g = Len(requests) + 1 /\ told'[g] = "queued"
      \/ g = active /\ Begin /\ VerificationIsCurrent(g) /\ told'[g] = "writing"
      \/ g = active /\ IsLive(g) /\ told'[g] = "written"
      \/ g = verifying /\ Observe /\ VerificationIsCurrent(g)
            /\ told'[g] \in {"confirmed", "unconfirmed"}
\* Whoever ends a request tells it nothing else.
<1>e. ASSUME NEW x \in Requested, NEW phase \in {"cancelled", "failed"},
             Publish(x, phase)
      PROVE  FALSE
  BY <1>0, <1>t, <1>e, PublishTells
<1>b. ASSUME NEW x \in Requested, NEW y \in Requested, PublishBoth(x, y, "cancelled")
      PROVE  FALSE
  BY <1>0, <1>t, <1>b, PublishBothTells
<1>p. ASSUME NEW x \in Requested, NEW phase \in Phases, Publish(x, phase)
      PROVE  g = x /\ told'[g] = phase
  BY <1>t, <1>p, PublishTells
<1>1. ASSUME NEW s \in Sessions, NEW q \in 1 .. MaxSequence, Accept(s, q)
      PROVE  Goal
  <2>1. /\ Heard(told, pending, "cancelled") \in Telling
        /\ \A h \in Generations : Heard(told, pending, "cancelled")[h] =
                 IF h = pending /\ Open(pending) THEN "cancelled" ELSE told[h]
    BY <1>0, <1>t, <1>r, HeardFacts DEF Types
  <2>2. told' = [Heard(told, pending, "cancelled")
                     EXCEPT ![Len(requests) + 1] = "queued"]
    BY <1>1 DEF Accept
  <2>3. told'[g] = IF g = Len(requests) + 1 THEN "queued"
                   ELSE Heard(told, pending, "cancelled")[g]
    BY <2>1, <2>2 DEF Telling
  <2> QED  BY <2>1, <2>3
<1>2. ASSUME NEW s \in Sessions, CancelSession(s) \/ CloseSession(s)
      PROVE  Goal
  BY <1>2, <1>t, CancelTells DEF CancelSession, CloseSession
<1>3. CASE Aside \/ EndUnload \/ EndShutdown \/ ExitWorker \/ Wake
  <2>1. told' = told
    BY <1>3
       DEF Aside, OpenSession, ExpireSession, Overtake, Load, HassStops, StartCheck,
           FinishCheck, vars, EndUnload, EndShutdown, ExitWorker, Wake, said
  <2> QED  BY <2>1
<1>4. CASE Supersede \/ BeginUnload \/ BeginShutdown
  BY <1>4, <1>r, <1>e, <1>b DEF Supersede, BeginUnload, BeginShutdown, said
<1>5. CASE Take \/ ReadControls
  BY <1>5, <1>r, <1>e DEF Take, ReadControls, Superseded, CompilationFailed, said
<1>6. CASE Begin
  BY <1>0, <1>6, <1>r, <1>e, <1>p DEF Begin, EndFailed, EndSuperseded, MayBegin
<1>7. CASE FinishWrite \/ FinishSave
  <2>1. CASE Complete
    BY <1>0, <1>r, <1>p, <2>1 DEF Complete, said
  <2> QED
    BY <1>7, <1>r, <1>e, <2>1 DEF FinishWrite, FinishSave, EndFailed, EndSuperseded, said
<1>8. CASE Observe
  BY <1>0, <1>8, <1>r, <1>p DEF Observe, said
<1> QED
  BY <1>1, <1>2, <1>3, <1>4, <1>5, <1>6, <1>7, <1>8, StepCases, <1>t

\* CancelledIsFinal: who was told of a cancellation is told of nothing else
\* than a failure afterwards.  The worker speaks for a request only while it
\* is live, and a cancelled one is not.
THEOREM CancelledStaysFinal == Spec => CancelledIsFinal
<1> DEFINE Final == \A g \in Generations :
              told[g] = "cancelled" => told'[g] \in {"cancelled", "failed"}
<1>1. IInv /\ [Next]_vars => Final
  <2> SUFFICES ASSUME IInv, [Next]_vars, NEW g \in Generations,
                      told[g] = "cancelled", told'[g] \notin {"cancelled", "failed"}
               PROVE  FALSE
    OBVIOUS
  <2>1. \/ g = Len(requests) + 1
        \/ g = active /\ IsLive(g)
        \/ g = verifying /\ IsLive(g)
    BY WhoIsTold DEF VerificationIsCurrent, IsCurrent
  <2>2. g # Len(requests) + 1
    BY RecordFacts DEF IInv, AnswerInv, Accepted
  <2>3. g \in {active, verifying} \ {0}
    BY <2>1, <2>2 DEF Generations
  <2>4. g \in cancelled \/ Outdated(g)
    BY <2>3 DEF IInv, FinalInv
  <2> QED
    BY <2>1, <2>2, <2>4, RecordFacts DEF IInv, IsLive, Admitted, Outdated, Generations
<1>2. IInv /\ [Next]_vars => [Final]_vars
  BY <1>1
<1> QED  BY <1>2, PreviewInvariant, PTL DEF Spec, CancelledIsFinal

\* ConfirmedIsOnDevice: what is confirmed began last, is not about to be
\* replaced, and no foreground command came since.
THEOREM ConfirmedIsAlwaysOnDevice == Spec => ConfirmedIsOnDevice
<1> DEFINE True == \A g \in Generations :
              (told'[g] = "confirmed" /\ told[g] # "confirmed") =>
                  /\ \A h \in began : h <= g
                  /\ pending = 0 /\ active = 0
                  /\ g \in began /\ g > lapsed
<1>1. IInv /\ [Next]_vars => True
  <2> SUFFICES ASSUME IInv, [Next]_vars, NEW g \in Generations,
                      told[g] # "confirmed", told'[g] = "confirmed"
               PROVE  /\ \A h \in began : h <= g
                      /\ pending = 0 /\ active = 0
                      /\ g \in began /\ g > lapsed
    OBVIOUS
  <2>1. g = verifying /\ IsLive(g)
    BY WhoIsTold DEF VerificationIsCurrent, IsCurrent
  <2>2. g = Len(requests) /\ g > lapsed /\ g # 0
    BY <2>1 DEF IsLive, Admitted, Generations
  <2>3. pending = 0 /\ active = 0 /\ g \in began
    BY <2>1, <2>2 DEF IInv, RecordInv
  <2>4. \A h \in began : h <= g
    BY <2>2, TypesSplit DEF IInv, RecordTypes, Accepted
  <2> QED  BY <2>2, <2>3, <2>4
<1>2. IInv /\ [Next]_vars => [True]_vars
  BY <1>1
<1> QED  BY <1>2, PreviewInvariant, PTL DEF Spec, ConfirmedIsOnDevice

\* NothingBeginsAfterStop: once the entry unloads or Home Assistant stops, no
\* transmission begins.  The record of an entry that unloads is closing until
\* it is gone.
THEOREM NothingEverBeginsAfterStop == Spec => NothingBeginsAfterStop
<1> DEFINE Still == (unloading \/ stopping # "no") => began' = began
<1>1. IInv /\ [Next]_vars => Still
  <2> SUFFICES ASSUME IInv, [Next]_vars, unloading \/ stopping # "no"
               PROVE  began' = began
    OBVIOUS
  <2>1. CASE Begin
    <3>1. ~MayBegin(active) \/ Stopped
      BY DEF IInv, StopInv, MayBegin, VerificationIsCurrent, IsCurrent, Stopped
    <3> QED  BY <2>1, <3>1 DEF Begin
  <2>2. CASE Aside
    BY <2>2, AsideKeeps
  <2>3. ASSUME NEW s \in Sessions,
               \/ CancelSession(s) \/ CloseSession(s)
               \/ \E q \in 1 .. MaxSequence : Accept(s, q)
        PROVE  began' = began
    BY <2>3 DEF CancelSession, CloseSession, CancelWork, Accept, history
  <2>4. CASE \/ Supersede \/ BeginUnload \/ BeginShutdown \/ EndUnload \/ EndShutdown
             \/ Take \/ ReadControls \/ FinishWrite \/ FinishSave \/ ExitWorker
             \/ Wake \/ Observe
    BY <2>4 DEF Supersede, BeginUnload, BeginShutdown, EndUnload, EndShutdown, Take,
       ReadControls, FinishWrite, FinishSave, ExitWorker, Wake, Observe, history
  <2> QED  BY <2>1, <2>2, <2>3, <2>4, StepCases
<1>2. IInv /\ [Next]_vars => [Still]_vars
  BY <1>1
<1> QED  BY <1>2, PreviewInvariant, PTL DEF Spec, NothingBeginsAfterStop

=============================================================================
