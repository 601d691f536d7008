----------------------------- MODULE ReplyProofs -----------------------------
(***************************************************************************)
(* What replies are taken for, by the reply gate (ReplyGate) and by the    *)
(* transactions that ask for them (Readback), for any commands, pages and  *)
(* colours and any number of transactions, faults and links.               *)
(*                                                                         *)
(* The gate: that silence is earned and that a command that replied stays  *)
(* paced are not inductive.  They rest on where a reply that is still      *)
(* under way will find its command (ReplyFindsCommand), and on the         *)
(* deadline of a complete write.                                           *)
(*                                                                         *)
(* The transactions: what they say rests on what may still come on the     *)
(* link in use.  Pages may come only while a query is open, which no       *)
(* command changes the device under, and they are those it has not got;    *)
(* the bars come once, to the read that waits for them; a power that is no *)
(* longer true was asked for before the expectation that rejects it.       *)
(***************************************************************************)
EXTENDS ReplyGate, Readback, FiniteSetTheorems, TLAPS

-----------------------------------------------------------------------------
(* ReplyGate.                                                              *)

\* A command is armed only while it is not silent.
PendingNotSilent == pending \notin silent

\* Past the deadline of a complete write, a whole timeout has passed.
ExpiredIsRipe ==
    pending # NoKey /\ expired /\ writer # "writing" => pending \in ripe

\* A write that outlives its subscription has nothing pending.
StaleWriter == writer = "writing" /\ ~current => pending = NoKey

\* The reply to a write that did not fail finds its command pending, learned
\* as silent or already answered; once the next frame is being written, it
\* is no longer pending on the account of an earlier one.
ReplyFindsCommand ==
    \A r \in replies :
        /\ r.write # "failed" => r.key \in silent \cup answered \cup {pending}
        /\ r.write = "sent" /\ writer = "writing"
              => r.key \in silent \cup answered

HeardIsAnswered == heard \subseteq answered

PacingInv ==
    /\ PacingTypeOK
    /\ AnsweredStaysPaced
    /\ SilenceEarned
    /\ EventFaithful
    /\ PendingNotSilent
    /\ ExpiredIsRipe
    /\ StaleWriter
    /\ ReplyFindsCommand
    /\ HeardIsAnswered

LEMMA PacingInitInv == PacingInit => PacingInv
BY NoKeyAssumption
   DEF PacingInit, PacingInv, PacingTypeOK, AnsweredStaysPaced, SilenceEarned, EventFaithful,
       PendingNotSilent, ExpiredIsRipe, StaleWriter, ReplyFindsCommand,
       HeardIsAnswered

\* Going on after the gate keeps the types.
LEMMA ProceedTypes ==
    ASSUME PacingTypeOK, NEW k \in Keys \cup {NoKey}, Proceed(k),
           UNCHANGED <<heard, ripe>>
    PROVE  PacingTypeOK'
<1> USE NoKeyAssumption DEF PacingTypeOK
<1>1. Settled(silent) \subseteq Keys
  BY DEF Settled
<1>2. \A j \in {k} \ {NoKey} : [key |-> j, write |-> "running"] \in Reply
  BY DEF Reply
<1>3. replies' \subseteq Reply /\ writer' \in {"idle", "waiting", "writing"}
  BY <1>2 DEF Proceed
<1>4. pending' \in Keys \cup {NoKey} /\ expired' \in BOOLEAN
      /\ replied' \in BOOLEAN
  BY DEF Proceed, Arm
<1>5. silent' \subseteq Keys /\ answered' = answered
  BY <1>1 DEF Proceed, Arm
<1>6. frame' \in Keys \cup {NoKey} /\ current' \in BOOLEAN
  BY DEF Proceed
<1> QED
  BY <1>3, <1>4, <1>5, <1>6

\* Every step keeps every variable in its type.
LEMMA TypeStep ==
    ASSUME PacingInv, [PacingNext]_pacingVars
    PROVE  PacingTypeOK'
<1> USE NoKeyAssumption
    DEF PacingInv, PacingTypeOK, AnsweredStaysPaced, SilenceEarned, EventFaithful,
        PendingNotSilent, ExpiredIsRipe, StaleWriter, ReplyFindsCommand,
        HeardIsAnswered, Reply, gateVars, writerVars
<1>1. ASSUME NEW k \in Keys \cup {NoKey}, WriteAtOnce(k)
      PROVE  PacingTypeOK'
  BY <1>1, ProceedTypes DEF WriteAtOnce
<1>2. ASSUME NEW k \in Keys \cup {NoKey}, WriteWaits(k)
      PROVE  PacingTypeOK'
  BY <1>2 DEF WriteWaits
<1>3. CASE WaitEnds
  BY <1>3, ProceedTypes DEF WaitEnds
<1>4. CASE WaitCancelled
  BY <1>4 DEF WaitCancelled
<1>5. CASE WriteCompletes
  BY ZenonT(60), <1>5 DEF WriteCompletes, Sent, Fate
<1>6. CASE WriteFails
  BY ZenonT(60), <1>6 DEF WriteFails, Abort, Fate
<1>7. ASSUME NEW r \in replies, ReplyArrives(r)
      PROVE  PacingTypeOK'
  BY <1>7 DEF ReplyArrives, Observe
<1>8. ASSUME NEW r \in replies, ReplyLost(r)
      PROVE  PacingTypeOK'
  BY <1>8 DEF ReplyLost
<1>9. CASE DeadlinePasses
  BY <1>9 DEF DeadlinePasses
<1>10. CASE SubscriptionChanges
  BY <1>10 DEF SubscriptionChanges, Reset
<1>11. CASE UNCHANGED pacingVars
  BY <1>11 DEF pacingVars
<1> QED
  BY <1>1, <1>2, <1>3, <1>4, <1>5, <1>6, <1>7, <1>8, <1>9, <1>10, <1>11
  DEF PacingNext

\* Every step keeps what has replied out of the silent commands.
LEMMA PacedStep ==
    ASSUME PacingInv, [PacingNext]_pacingVars
    PROVE  (AnsweredStaysPaced /\ HeardIsAnswered)'
<1> USE NoKeyAssumption
    DEF PacingInv, PacingTypeOK, AnsweredStaysPaced, SilenceEarned, EventFaithful,
        PendingNotSilent, ExpiredIsRipe, StaleWriter, ReplyFindsCommand,
        HeardIsAnswered, Reply, gateVars, writerVars
<1>1. ASSUME NEW k \in Keys \cup {NoKey}, WriteAtOnce(k)
      PROVE  (AnsweredStaysPaced /\ HeardIsAnswered)'
  BY <1>1 DEF WriteAtOnce, Proceed, Settled, Arm
<1>2. ASSUME NEW k \in Keys \cup {NoKey}, WriteWaits(k)
      PROVE  (AnsweredStaysPaced /\ HeardIsAnswered)'
  BY <1>2 DEF WriteWaits
<1>3. CASE WaitEnds
  BY <1>3 DEF WaitEnds, Proceed, Settled, Arm
<1>4. CASE WaitCancelled
  BY <1>4 DEF WaitCancelled
<1>5. CASE WriteCompletes
  BY <1>5 DEF WriteCompletes, Sent, Fate
<1>6. CASE WriteFails
  BY <1>6 DEF WriteFails, Abort, Fate
<1>7. ASSUME NEW r \in replies, ReplyArrives(r)
      PROVE  (AnsweredStaysPaced /\ HeardIsAnswered)'
  BY <1>7 DEF ReplyArrives, Observe
<1>8. ASSUME NEW r \in replies, ReplyLost(r)
      PROVE  (AnsweredStaysPaced /\ HeardIsAnswered)'
  BY <1>8 DEF ReplyLost
<1>9. CASE DeadlinePasses
  BY <1>9 DEF DeadlinePasses
<1>10. CASE SubscriptionChanges
  BY <1>10 DEF SubscriptionChanges, Reset
<1>11. CASE UNCHANGED pacingVars
  BY <1>11 DEF pacingVars
<1> QED
  BY <1>1, <1>2, <1>3, <1>4, <1>5, <1>6, <1>7, <1>8, <1>9, <1>10, <1>11
  DEF PacingNext

\* Every step adds to the silent commands only what has earned it.
LEMMA SilenceStep ==
    ASSUME PacingInv, [PacingNext]_pacingVars
    PROVE  (SilenceEarned /\ ExpiredIsRipe /\ StaleWriter)'
<1> USE NoKeyAssumption
    DEF PacingInv, PacingTypeOK, AnsweredStaysPaced, SilenceEarned, EventFaithful,
        PendingNotSilent, ExpiredIsRipe, StaleWriter, ReplyFindsCommand,
        HeardIsAnswered, Reply, gateVars, writerVars
<1>1. ASSUME NEW k \in Keys \cup {NoKey}, WriteAtOnce(k)
      PROVE  (SilenceEarned /\ ExpiredIsRipe /\ StaleWriter)'
  BY <1>1 DEF WriteAtOnce, Proceed, Settled, Arm
<1>2. ASSUME NEW k \in Keys \cup {NoKey}, WriteWaits(k)
      PROVE  (SilenceEarned /\ ExpiredIsRipe /\ StaleWriter)'
  BY <1>2 DEF WriteWaits
<1>3. CASE WaitEnds
  BY <1>3 DEF WaitEnds, Proceed, Settled, Arm
<1>4. CASE WaitCancelled
  BY <1>4 DEF WaitCancelled
<1>5. CASE WriteCompletes
  BY <1>5 DEF WriteCompletes, Sent, Fate
<1>6. CASE WriteFails
  BY <1>6 DEF WriteFails, Abort, Fate
<1>7. ASSUME NEW r \in replies, ReplyArrives(r)
      PROVE  (SilenceEarned /\ ExpiredIsRipe /\ StaleWriter)'
  BY <1>7 DEF ReplyArrives, Observe
<1>8. ASSUME NEW r \in replies, ReplyLost(r)
      PROVE  (SilenceEarned /\ ExpiredIsRipe /\ StaleWriter)'
  BY <1>8 DEF ReplyLost
<1>9. CASE DeadlinePasses
  BY <1>9 DEF DeadlinePasses
<1>10. CASE SubscriptionChanges
  BY <1>10 DEF SubscriptionChanges, Reset
<1>11. CASE UNCHANGED pacingVars
  BY <1>11 DEF pacingVars
<1> QED
  BY <1>1, <1>2, <1>3, <1>4, <1>5, <1>6, <1>7, <1>8, <1>9, <1>10, <1>11
  DEF PacingNext

\* Every step keeps the event faithful to the pending reply.
LEMMA EventStep ==
    ASSUME PacingInv, [PacingNext]_pacingVars
    PROVE  (EventFaithful /\ PendingNotSilent)'
<1> USE NoKeyAssumption
    DEF PacingInv, PacingTypeOK, AnsweredStaysPaced, SilenceEarned, EventFaithful,
        PendingNotSilent, ExpiredIsRipe, StaleWriter, ReplyFindsCommand,
        HeardIsAnswered, Reply, gateVars, writerVars
<1>1. ASSUME NEW k \in Keys \cup {NoKey}, WriteAtOnce(k)
      PROVE  (EventFaithful /\ PendingNotSilent)'
  BY <1>1 DEF WriteAtOnce, Proceed, Settled, Arm
<1>2. ASSUME NEW k \in Keys \cup {NoKey}, WriteWaits(k)
      PROVE  (EventFaithful /\ PendingNotSilent)'
  BY <1>2 DEF WriteWaits
<1>3. CASE WaitEnds
  BY <1>3 DEF WaitEnds, Proceed, Settled, Arm
<1>4. CASE WaitCancelled
  BY <1>4 DEF WaitCancelled
<1>5. CASE WriteCompletes
  <2>1. pending' = pending /\ silent' = silent /\ replied' = replied
    BY <1>5 DEF WriteCompletes, Sent
  <2>2. writer' = "idle"
    BY <1>5 DEF WriteCompletes
  <2> QED
    BY <2>1, <2>2
<1>6. CASE WriteFails
  BY <1>6 DEF WriteFails, Abort
<1>7. ASSUME NEW r \in replies, ReplyArrives(r)
      PROVE  (EventFaithful /\ PendingNotSilent)'
  BY <1>7 DEF ReplyArrives, Observe
<1>8. ASSUME NEW r \in replies, ReplyLost(r)
      PROVE  (EventFaithful /\ PendingNotSilent)'
  BY <1>8 DEF ReplyLost
<1>9. CASE DeadlinePasses
  BY <1>9 DEF DeadlinePasses
<1>10. CASE SubscriptionChanges
  BY <1>10 DEF SubscriptionChanges, Reset
<1>11. CASE UNCHANGED pacingVars
  BY <1>11 DEF pacingVars
<1> QED
  BY <1>1, <1>2, <1>3, <1>4, <1>5, <1>6, <1>7, <1>8, <1>9, <1>10, <1>11
  DEF PacingNext

\* Every step keeps replies under way bound for their command.
LEMMA ReplyStep ==
    ASSUME PacingInv, [PacingNext]_pacingVars
    PROVE  ReplyFindsCommand'
<1> USE NoKeyAssumption
    DEF PacingInv, PacingTypeOK, AnsweredStaysPaced, SilenceEarned, EventFaithful,
        PendingNotSilent, ExpiredIsRipe, StaleWriter, ReplyFindsCommand,
        HeardIsAnswered, Reply, gateVars, writerVars
<1>1. ASSUME NEW k \in Keys \cup {NoKey}, WriteAtOnce(k)
      PROVE  ReplyFindsCommand'
  BY <1>1 DEF WriteAtOnce, Proceed, Settled, Arm
<1>2. ASSUME NEW k \in Keys \cup {NoKey}, WriteWaits(k)
      PROVE  ReplyFindsCommand'
  BY <1>2 DEF WriteWaits
<1>3. CASE WaitEnds
  BY <1>3 DEF WaitEnds, Proceed, Settled, Arm
<1>4. CASE WaitCancelled
  BY <1>4 DEF WaitCancelled
<1>5. CASE WriteCompletes
  <2>1. \A q \in replies' : \E r \in replies :
          q.key = r.key /\ (q.write # "failed" => r.write # "failed")
    BY <1>5 DEF WriteCompletes, Fate
  <2>2. writer' = "idle" /\ UNCHANGED <<silent, answered, pending>>
    BY <1>5 DEF WriteCompletes, Sent
  <2> QED
    BY <2>1, <2>2
<1>6. CASE WriteFails
  BY <1>6 DEF WriteFails, Abort, Fate
<1>7. ASSUME NEW r \in replies, ReplyArrives(r)
      PROVE  ReplyFindsCommand'
  BY <1>7 DEF ReplyArrives, Observe
<1>8. ASSUME NEW r \in replies, ReplyLost(r)
      PROVE  ReplyFindsCommand'
  BY <1>8 DEF ReplyLost
<1>9. CASE DeadlinePasses
  BY <1>9 DEF DeadlinePasses
<1>10. CASE SubscriptionChanges
  BY <1>10 DEF SubscriptionChanges, Reset
<1>11. CASE UNCHANGED pacingVars
  BY <1>11 DEF pacingVars
<1> QED
  BY <1>1, <1>2, <1>3, <1>4, <1>5, <1>6, <1>7, <1>8, <1>9, <1>10, <1>11
  DEF PacingNext

LEMMA PacingNextInv == PacingInv /\ [PacingNext]_pacingVars => PacingInv'
BY TypeStep, PacedStep, SilenceStep, EventStep, ReplyStep DEF PacingInv

\* The inductive invariant of the gate and its writer.
THEOREM PacingInvariant == PacingSpec => []PacingInv
BY PacingInitInv, PacingNextInv, PTL DEF PacingSpec

\* A command that has replied on this subscription is never learned as silent.
THEOREM AnsweredPaced == PacingSpec => []AnsweredStaysPaced
<1>1. PacingInv => AnsweredStaysPaced
  BY DEF PacingInv
<1> QED
  BY <1>1, PacingInvariant, PTL

\* Only a complete write that a whole timeout passed over teaches silence.
THEOREM SilenceIsEarned == PacingSpec => []SilenceEarned
<1>1. PacingInv => SilenceEarned
  BY DEF PacingInv
<1> QED
  BY <1>1, PacingInvariant, PTL

\* The event and the pending reply agree, and the types are right.
THEOREM EventAgrees == PacingSpec => [](PacingTypeOK /\ EventFaithful)
<1>1. PacingInv => PacingTypeOK /\ EventFaithful
  BY DEF PacingInv
<1> QED
  BY <1>1, PacingInvariant, PTL

-----------------------------------------------------------------------------
(* Readback.                                                               *)

Kinds == {"none", "power", "paint", "refresh", "bar", "observe", "poll"}

\* The steps of the transactions, and whose steps they are.
Steps == {"send", "refresh", "confirm", "reconcile", "reconciling", "bar", "sibling",
          "written", "echo", "observe", "poll", "pages", "bars", "collect", "polling",
          "done"}
StepsOf(kind) ==
    CASE kind = "power" -> {"send", "done"}
      [] kind = "paint" -> {"send", "refresh", "confirm", "reconcile", "reconciling",
                            "done"}
      [] kind = "refresh" -> {"refresh", "confirm", "done"}
      [] kind = "bar" -> {"bar", "sibling", "written", "echo", "done"}
      [] kind = "observe" -> {"observe", "done"}
      [] kind = "poll" -> {"poll", "pages", "bars", "collect", "polling", "done"}
      [] OTHER -> {"done"}

Results == {None, "ok", "raised", "unread"}

Device == [on : BOOLEAN, bars : [Bars -> BOOLEAN], pages : [Pages -> Colours]]
Shown == [on : BOOLEAN, bars : [Bars -> BOOLEAN] \cup {None}, pages : [Pages -> Colours]]
Book == [open : BOOLEAN, got : SUBSET Pages, buffer : SUBSET [Pages -> Colours]]
Paints == UNION {[ps -> Colours] : ps \in SUBSET Pages}
Ops(n) ==
    [kind : Kinds, step : Steps, bar : Bars \cup {None},
     want : BOOLEAN \cup {None, "power", "pages", "bars"} \cup Paints,
     sibling : BOOLEAN \cup {None}, todo : SUBSET (Pages \cup {"power"}),
     try : 1 .. SendTries, on : 0 .. n, fresh : SUBSET {"pages", "bars"},
     wrote : BOOLEAN, result : Results]
Watches == [step : {"none", "wait", "done"}, want : BOOLEAN \cup {None},
            fresh : BOOLEAN, alone : BOOLEAN,
            result : {None, "unread", "match", "mismatch"}]
Replies(n, a) ==
    [link : 1 .. n, of : 1 .. a, on : BOOLEAN]
       \cup [link : 1 .. n, of : 1 .. a, bars : [Bars -> BOOLEAN]]
       \cup [link : 1 .. n, of : 1 .. a, page : Pages, colour : Colours]

TypesInv ==
    /\ device \in Device /\ shown \in Shown /\ book \in Book
    /\ source \in {"initial", "optimistic", "observed"}
    /\ \A e \in armed : e \in [value : BOOLEAN, at : Nat]
    /\ links \in Nat \ {0} /\ link \in {0, links} /\ asked \in Nat
    /\ wire \subseteq Replies(links, asked)
    /\ op \in Ops(links) /\ watch \in Watches

\* What a transaction is about, while it goes on.
OpInv ==
    /\ op.step \in StepsOf(op.kind)
    /\ op.kind = "power" => op.want \in BOOLEAN /\ op.todo \subseteq {"power"}
    /\ op.kind = "paint" => op.want \in Paints /\ op.todo \subseteq DOMAIN op.want
    /\ op.kind = "bar" => op.bar \in Bars /\ op.want \in BOOLEAN
    /\ op.kind = "poll" => op.want \in {"power", "pages", "bars"}
    /\ op.kind = "observe" => op.want \in BOOLEAN

\* Replies that are on their way on the link in use and tell of it.
Coming(what) == {r \in wire : r.link = link /\ Tells(r, what)}

\* The steps that wait for the bars and for the pages.
Awaiting == {"sibling", "echo", "polling"}
Collecting == {"confirm", "reconciling", "collect"}

\* Pages that may still come are those an open query has not got, and they tell
\* the truth, as those do that it has.
PagesInv ==
    /\ \A r \in Coming("page") :
          /\ book.open /\ book.buffer # {} /\ r.page \notin book.got
          /\ r.colour = device.pages[r.page]
          /\ \A s \in Coming("page") : s.page = r.page => s = r
    /\ book.buffer # {} => book.open
    /\ \A b \in book.buffer : \A p \in book.got : b[p] = device.pages[p]
    /\ op.step \in Collecting => op.on # 0
    /\ op.step \in Collecting /\ AllCame =>
          source = "observed" /\ book.buffer = {}
    /\ PicturesAreWhole

\* The bars are asked for once, and the answer that may still come is true.
BarsInv ==
    /\ \A r \in Coming("bars") :
          /\ op.step \in Awaiting /\ op.on = link
          /\ "bars" \notin op.fresh /\ r.bars = device.bars
          /\ \A s \in Coming("bars") : s = r
    /\ op.step \in Awaiting => op.on # 0
    /\ op.step \in Awaiting /\ BarsRead => shown.bars = device.bars

\* A reply that no longer tells the truth is older than what is expected.
PowerInv ==
    /\ \A r \in Coming("on") : r.on = device.on \/ \E e \in armed : r.of <= e.at
    /\ op.step = "observe" => \A e \in armed : e.value = op.want
    /\ op.step = "send" /\ op.kind = "power" => ~watch.alone \/ watch.step = "none"
    /\ watch.step = "wait" /\ watch.alone =>
          /\ \A e \in armed : e.value = watch.want
          /\ watch.fresh /\ shown.on # watch.want => device.on # watch.want
    /\ watch.result = "mismatch" => watch.step = "done"
    /\ ContradictionIsReal

OkInv == OkIsTrue /\ (op.result = "ok" => op.step = "done")

IInv == TypesInv /\ OpInv /\ PagesInv /\ BarsInv /\ PowerInv /\ OkInv

-----------------------------------------------------------------------------
(* Transactions, as records.                                               *)

\* A transaction that has not begun.
LEMMA IdleGood ==
    ASSUME NEW n \in Nat
    PROVE  /\ Idle \in Ops(n) /\ Idle.kind = "none" /\ Idle.step = "done"
           /\ Idle.on = 0 /\ Idle.fresh = {} /\ Idle.todo = {} /\ Idle.result = None
<1> PICK z \in 0 .. n : z = 0
  OBVIOUS
<1> PICK t \in 1 .. SendTries : t = 1
  BY ReadbackAssumption
<1> PICK b \in BOOLEAN : ~b
  OBVIOUS
<1>1. Idle = [kind |-> "none", step |-> "done", bar |-> None, want |-> None,
              sibling |-> None, todo |-> {}, try |-> t, on |-> z, fresh |-> {},
              wrote |-> b, result |-> None]
  BY DEF Idle
<1> QED
  BY <1>1 DEF Ops, Kinds, Steps, Results, None

\* One that ends remembers what it was about.
LEMMA DoneGood ==
    ASSUME NEW n \in Nat, op \in Ops(n), NEW result \in Results, Done(result)
    PROVE  /\ op' \in Ops(n) /\ op'.kind = op.kind /\ op'.bar = op.bar
           /\ op'.want = op.want /\ op'.step = "done" /\ op'.result = result
           /\ op'.todo = {}
<1> PICK i : i = Idle
  OBVIOUS
<1>1. i \in Ops(n) /\ i.step = "done" /\ i.todo = {}
  BY IdleGood
<1>2. op' = [i EXCEPT !.kind = op.kind, !.bar = op.bar, !.want = op.want,
                      !.result = result]
  BY DEF Done
<1> QED
  BY <1>1, <1>2 DEF Ops

\* A try of send_command that failed.
LEMMA GiveUpGood ==
    ASSUME NEW n \in Nat, op \in Ops(n), NEW wrote \in BOOLEAN, GiveUp(wrote)
    PROVE  /\ op' \in Ops(n) /\ op'.kind = op.kind /\ op'.bar = op.bar
           /\ op'.want = op.want /\ op'.todo = op.todo
           /\ op'.step \in {"send", "reconcile", "done"}
           /\ op'.step = "reconcile" => op.kind = "paint"
           /\ op'.result \in {None, "raised"}
<1>1. PICK t \in 1 .. SendTries, r \in {None, "raised"}, s \in {"send", "reconcile", "done"} :
         /\ op' = [op EXCEPT !.try = t, !.wrote = wrote, !.result = r, !.step = s]
         /\ s = "reconcile" => op.kind = "paint"
  <2>1. PICK t : t = IF op.try = SendTries THEN op.try ELSE op.try + 1
    OBVIOUS
  <2>2. t \in 1 .. SendTries
    BY <2>1, ReadbackAssumption DEF Ops
  <2>3. PICK r : r = IF op.try = SendTries THEN "raised" ELSE None
    OBVIOUS
  <2>4. PICK s : s = IF ~(op.try = SendTries) THEN "send"
                     ELSE IF op.kind = "paint" /\ wrote THEN "reconcile" ELSE "done"
    OBVIOUS
  <2>5. op' = [op EXCEPT !.try = t, !.wrote = wrote, !.result = r, !.step = s]
    BY <2>1, <2>3, <2>4 DEF GiveUp
  <2> QED
    BY <2>2, <2>3, <2>4, <2>5
<1> QED
  BY ZenonT(60), <1>1 DEF Ops, Steps, Results

\* The other bar is one.
LEMMA SiblingIsOther ==
    ASSUME NEW bar \in Bars
    PROVE  Sibling(bar) \in Bars /\ Sibling(bar) # bar
<1>1. \E b \in Bars : b # bar
  <2>1. SUFFICES ASSUME Bars = {bar} PROVE FALSE
    OBVIOUS
  <2>2. Cardinality(Bars) = 1
    BY <2>1, FS_Singleton
  <2> QED
    BY <2>2, ReadbackAssumption
<1> QED
  BY <1>1 DEF Sibling

-----------------------------------------------------------------------------
(* Replies on their way.                                                   *)

LEMMA ReplyGood ==
    ASSUME TypesInv, NEW r \in wire
    PROVE  /\ r.link \in 1 .. links /\ r.of \in 1 .. asked
           /\ Tells(r, "on") => r.on \in BOOLEAN
           /\ Tells(r, "bars") => r.bars \in [Bars -> BOOLEAN]
           /\ Tells(r, "page") => r.page \in Pages /\ r.colour \in Colours
<1>1. r \in Replies(links, asked)
  BY DEF TypesInv
<1> QED
  BY <1>1 DEF Replies, Tells

\* Nothing comes without a link, or on one that was just made.
LEMMA NothingComes ==
    ASSUME TypesInv, wire' = wire, link' \notin 1 .. links
    PROVE  \A what : Coming(what)' = {}
BY ReplyGood DEF Coming

\* What is asked joins what was on its way.
LEMMA AskGood ==
    ASSUME TypesInv, UNCHANGED <<link, links>>, link # 0,
           NEW sent \in {PowerReply, BarsReply} \cup {PageReplies(ps) : ps \in SUBSET Pages},
           Ask(sent)
    PROVE  /\ asked' = asked + 1 /\ wire' \subseteq Replies(links, asked')
           /\ \A what : Coming(what)' =
                 Coming(what) \cup {r \in sent : Tells(r, what)}
           /\ sent = PowerReply =>
                 \A r \in sent : /\ ~Tells(r, "page") /\ ~Tells(r, "bars")
                                    /\ r.on = device.on
           /\ sent = BarsReply =>
                 /\ \A r \in sent : /\ ~Tells(r, "page") /\ ~Tells(r, "on")
                                       /\ r.bars = device.bars
                 /\ \A r, s \in sent : r = s
           /\ sent \notin {PowerReply, BarsReply} =>
                 /\ \A r \in sent : /\ ~Tells(r, "on") /\ ~Tells(r, "bars")
                                       /\ r.page \in Pages
                                       /\ r.colour = device.pages[r.page]
                 /\ \A r, s \in sent : r.page = s.page => r = s
<1>1. /\ links \in Nat /\ link \in 1 .. links /\ asked \in Nat
      /\ device \in Device /\ wire \subseteq Replies(links, asked)
  BY DEF TypesInv
<1>2. asked' = asked + 1 /\ wire' = wire \cup sent
  BY DEF Ask
<1>3. sent \subseteq Replies(links, asked + 1)
  BY <1>1 DEF PowerReply, BarsReply, PageReplies, Replies, Device
<1>4. Replies(links, asked) \subseteq Replies(links, asked + 1)
  <2>1. 1 .. asked \subseteq 1 .. (asked + 1)
    BY <1>1
  <2> QED
    BY <2>1 DEF Replies
<1>5. \A r \in sent : r.link = link
  BY DEF PowerReply, BarsReply, PageReplies
<1>6. sent = PowerReply =>
         \A r \in sent : ~Tells(r, "page") /\ ~Tells(r, "bars") /\ r.on = device.on
  BY DEF PowerReply, Tells
<1>7. sent = BarsReply =>
         /\ \A r \in sent : /\ ~Tells(r, "page") /\ ~Tells(r, "on")
                               /\ r.bars = device.bars
         /\ \A r, s \in sent : r = s
  BY DEF BarsReply, Tells
<1>8. sent \notin {PowerReply, BarsReply} =>
         /\ \A r \in sent : /\ ~Tells(r, "on") /\ ~Tells(r, "bars")
                               /\ r.page \in Pages
                               /\ r.colour = device.pages[r.page]
         /\ \A r, s \in sent : r.page = s.page => r = s
  BY DEF PageReplies, Tells
<1> QED
  BY <1>1, <1>2, <1>3, <1>4, <1>5, <1>6, <1>7, <1>8 DEF Coming

-----------------------------------------------------------------------------
(* What a step leaves alone stays good.                                    *)

\* What was on its way on a link that stays is; on one that goes nothing is.
LEMMA ClearedComes ==
    ASSUME TypesInv, UNCHANGED wire, link' = link \/ link' = 0
    PROVE  /\ \A what : Coming(what)' \subseteq Coming(what)
           /\ link' = 0 => \A what : Coming(what)' = {}
<1>1. CASE link' = link
  <2>1. \A what : Coming(what)' = Coming(what)
    BY <1>1 DEF Coming
  <2>2. link' = 0 => \A what : Coming(what)' = {}
    BY <2>1, NothingComes DEF TypesInv
  <2> QED
    BY <2>1, <2>2
<1>2. CASE link' = 0
  <2>1. link' \notin 1 .. links
    BY <1>2
  <2> QED
    BY <2>1, NothingComes
<1> QED
  BY <1>1, <1>2

\* The picture of the segments, where the device keeps what it shows.
LEMMA PagesFrame ==
    ASSUME PagesInv, device'.pages = device.pages, shown'.pages = shown.pages,
           source' = source, Coming("page")' \subseteq Coming("page"),
           \/ book' = book
           \/ book'.buffer = {} /\ Coming("page")' = {},
           op'.step \in Collecting =>
               /\ op'.step = op.step /\ op'.on = op.on /\ op'.fresh = op.fresh
               /\ link' \in {link, 0}
    PROVE  PagesInv'
<1>1. \A r \in Coming("page")' :
          /\ book'.open /\ book'.buffer # {} /\ r.page \notin book'.got
          /\ r.colour = device'.pages[r.page]
          /\ \A s \in Coming("page")' : s.page = r.page => s = r
  BY DEF PagesInv
<1>2. book'.buffer # {} => book'.open
  BY DEF PagesInv
<1>3. \A b \in book'.buffer : \A p \in book'.got : b[p] = device'.pages[p]
  BY DEF PagesInv
<1>4. op'.step \in Collecting => op'.on # 0
  BY DEF PagesInv
<1>5. op'.step \in Collecting /\ AllCame' => source' = "observed" /\ book'.buffer = {}
  <2>1. HAVE op'.step \in Collecting /\ AllCame'
  <2>2. op.step \in Collecting /\ AllCame
    BY <2>1, <1>4 DEF AllCame
  <2> QED
    BY <2>2 DEF PagesInv
<1>6. PicturesAreWhole'
  BY DEF PagesInv, PicturesAreWhole
<1> QED
  BY <1>1, <1>2, <1>3, <1>4, <1>5, <1>6 DEF PagesInv

\* What is read of the bars, while it is waited for.
LEMMA BarsFrame ==
    ASSUME BarsInv, device'.bars = device.bars, Coming("bars")' \subseteq Coming("bars"),
           op'.step = op.step /\ op'.on = op.on,
           "bars" \in op'.fresh => "bars" \in op.fresh,
           "bars" \in op.fresh => "bars" \in op'.fresh,
           \/ link' = link /\ shown'.bars = shown.bars
           \/ link' = 0 /\ Coming("bars")' = {}
    PROVE  BarsInv'
<1>1. \A r \in Coming("bars")' :
          /\ op'.step \in Awaiting /\ op'.on = link'
          /\ "bars" \notin op'.fresh /\ r.bars = device'.bars
          /\ \A s \in Coming("bars")' : s = r
  BY DEF BarsInv
<1>2. op'.step \in Awaiting => op'.on # 0
  BY DEF BarsInv
<1>3. op'.step \in Awaiting /\ BarsRead' => shown'.bars = device'.bars
  <2>1. HAVE op'.step \in Awaiting /\ BarsRead'
  <2>2. link' # 0
    BY <2>1, <1>2 DEF BarsRead
  <2> QED
    BY <2>1, <2>2 DEF BarsInv, BarsRead
<1> QED
  BY <1>1, <1>2, <1>3 DEF BarsInv

\* What is expected of the power, and what an observation goes by.
LEMMA PowerFrame ==
    ASSUME PowerInv, device'.on = device.on, shown'.on = shown.on, watch' = watch,
           Coming("on")' \subseteq Coming("on"),
           armed' = armed \/ (armed' = {} /\ Coming("on")' = {}),
           op'.step = "observe" => op.step = "observe" /\ op'.want = op.want,
           op'.step = "send" /\ op'.kind = "power" => op.step = "send" /\ op.kind = "power"
    PROVE  PowerInv'
<1>1. \A r \in Coming("on")' : r.on = device'.on \/ \E e \in armed' : r.of <= e.at
  BY DEF PowerInv
<1>2. op'.step = "observe" => \A e \in armed' : e.value = op'.want
  BY DEF PowerInv
<1>3. op'.step = "send" /\ op'.kind = "power" => ~watch'.alone \/ watch'.step = "none"
  BY DEF PowerInv
<1>4. watch'.step = "wait" /\ watch'.alone =>
          /\ \A e \in armed' : e.value = watch'.want
          /\ watch'.fresh /\ shown'.on # watch'.want => device'.on # watch'.want
  BY DEF PowerInv
<1>5. watch'.result = "mismatch" => watch'.step = "done"
  BY DEF PowerInv
<1>6. ContradictionIsReal'
  BY DEF PowerInv, ContradictionIsReal
<1> QED
  BY <1>1, <1>2, <1>3, <1>4, <1>5, <1>6 DEF PowerInv

\* A transaction goes on to a step that waits for nothing, or it ends.
LEMMA OpMoves ==
    ASSUME IInv, op' \in Ops(links), OpInv', op'.step \notin Awaiting \cup Collecting,
           watch' \in Watches, PowerInv', OkInv',
           device' \in Device, device'.pages = device.pages,
           UNCHANGED <<shown, source>>, UNCHANGED <<links, asked, wire>>,
           \/ /\ link' = link /\ armed' = armed /\ book' \in Book
              /\ Coming("bars") = {}
              /\ book' = book \/ (book'.buffer = {} /\ Coming("page") = {})
           \/ link' = 0 /\ armed' = {} /\ book' = Closed
    PROVE  IInv'
<1>1. TypesInv'
  <2>1. Closed \in Book
    BY DEF Closed, Book
  <2> QED
    BY <2>1 DEF IInv, TypesInv
<1>2. /\ \A what : Coming(what)' \subseteq Coming(what)
      /\ link' = 0 => \A what : Coming(what)' = {}
  BY ClearedComes DEF IInv
<1>3. PagesInv'
  <2>1. Closed.buffer = {}
    BY DEF Closed
  <2> QED
    BY <1>2, <2>1, PagesFrame DEF IInv
<1>4. BarsInv'
  <2>1. Coming("bars")' = {}
    BY <1>2
  <2> QED
    BY <2>1 DEF BarsInv
<1> QED
  BY <1>1, <1>3, <1>4 DEF IInv

\* A transaction that ends: it is true where it says so.
LEMMA DoneMoves ==
    ASSUME IInv, NEW result \in Results, Done(result),
           result = "ok" =>
               /\ op.kind = "bar" => device'.bars[op.bar] = op.want
               /\ op.kind = "paint" =>
                      \A p \in DOMAIN op.want : device'.pages[p] = op.want[p]
               /\ op.kind = "refresh" => shown.pages = device'.pages,
           device' \in Device, device'.on = device.on, device'.pages = device.pages,
           UNCHANGED <<shown, source, watch>>, UNCHANGED <<links, asked, wire>>,
           \/ /\ link' = link /\ armed' = armed /\ book' \in Book
              /\ Coming("bars") = {}
              /\ book' = book \/ (book'.buffer = {} /\ Coming("page") = {})
           \/ link' = 0 /\ armed' = {} /\ book' = Closed
    PROVE  IInv'
<1>1. /\ op' \in Ops(links) /\ op'.kind = op.kind /\ op'.bar = op.bar
      /\ op'.want = op.want /\ op'.step = "done" /\ op'.result = result
      /\ op'.todo = {}
  BY DoneGood DEF IInv, TypesInv
<1>2. OpInv'
  <2>1. op'.step \in StepsOf(op'.kind)
    BY <1>1 DEF StepsOf, Ops, Kinds
  <2> QED
    BY <1>1, <2>1 DEF OpInv, IInv
<1>3. PowerInv'
  <2>1. /\ Coming("on")' \subseteq Coming("on")
        /\ link' = 0 => Coming("on")' = {}
    BY ClearedComes DEF IInv
  <2>2. armed' = armed \/ (armed' = {} /\ Coming("on")' = {})
    BY <2>1
  <2>3. device'.on = device.on /\ shown'.on = shown.on /\ watch' = watch
    OBVIOUS
  <2>4. op'.step # "observe" /\ op'.step # "send"
    BY <1>1
  <2> QED
    BY <2>1, <2>2, <2>3, <2>4, PowerFrame DEF IInv
<1>4. OkInv'
  BY <1>1 DEF OkInv, OkIsTrue
<1>5. op'.step \notin Awaiting \cup Collecting /\ watch' \in Watches
  BY <1>1 DEF Awaiting, Collecting, IInv, TypesInv
<1> QED
  BY <1>1, <1>2, <1>3, <1>4, <1>5, OpMoves

LEMMA DoneKeeps ==
    ASSUME IInv, NEW result \in Results, Done(result),
           result = "ok" =>
               /\ op.kind = "bar" => device.bars[op.bar] = op.want
               /\ op.kind = "paint" =>
                      \A p \in DOMAIN op.want : device.pages[p] = op.want[p]
               /\ op.kind = "refresh" => shown.pages = device.pages,
           UNCHANGED <<device, shown, source, watch>>, UNCHANGED <<links, asked, wire>>,
           \/ /\ link' = link /\ armed' = armed /\ book' \in Book
              /\ Coming("bars") = {}
              /\ book' = book \/ (book'.buffer = {} /\ Coming("page") = {})
           \/ link' = 0 /\ armed' = {} /\ book' = Closed
    PROVE  IInv'
<1>1. device' \in Device /\ device' = device
  BY DEF IInv, TypesInv
<1> QED
  BY <1>1, DoneMoves

\* A try of send_command that fails, with nothing written or shown.
LEMMA SendingOp ==
    ASSUME OpInv, op.kind \in Kinds, At("send")
    PROVE  op.kind \in {"power", "paint"}
BY DEF OpInv, StepsOf, Kinds, At

LEMMA GiveUpOp ==
    ASSUME TypesInv, OpInv, At("send"), NEW wrote \in BOOLEAN, GiveUp(wrote)
    PROVE  /\ op' \in Ops(links) /\ OpInv' /\ OkInv'
           /\ op'.kind = op.kind /\ op'.step \notin Awaiting \cup Collecting
           /\ op'.step # "observe"
<1>1. op \in Ops(links)
  BY DEF TypesInv
<1>2. op.kind \in {"power", "paint"}
  BY <1>1, SendingOp DEF Ops
<1>3. /\ op' \in Ops(links) /\ op'.kind = op.kind /\ op'.bar = op.bar
      /\ op'.want = op.want /\ op'.todo = op.todo
      /\ op'.step \in {"send", "reconcile", "done"}
      /\ op'.step = "reconcile" => op.kind = "paint"
      /\ op'.result \in {None, "raised"}
  BY <1>1, GiveUpGood DEF TypesInv
<1>4. op'.step \in StepsOf(op'.kind)
  BY <1>2, <1>3 DEF StepsOf
<1>5. OpInv'
  BY <1>2, <1>3, <1>4 DEF OpInv
<1>6. OkInv'
  BY <1>3 DEF OkInv, OkIsTrue, None
<1> QED
  BY <1>3, <1>5, <1>6 DEF Awaiting, Collecting

LEMMA GiveUpKeeps ==
    ASSUME IInv, At("send"), NEW wrote \in BOOLEAN, GiveUp(wrote),
           UNCHANGED <<device, shown, source, watch>>, UNCHANGED <<links, asked, wire>>,
           \/ link' = link /\ armed' = armed /\ book' = book
           \/ link' = 0 /\ armed' = {} /\ book' = Closed
    PROVE  IInv'
<1>1. /\ op' \in Ops(links) /\ OpInv' /\ OkInv'
      /\ op'.kind = op.kind /\ op'.step \notin Awaiting \cup Collecting
      /\ op'.step # "observe"
  BY GiveUpOp DEF IInv
<1>2. PowerInv'
  <2>1. /\ Coming("on")' \subseteq Coming("on")
        /\ link' = 0 => Coming("on")' = {}
    BY ClearedComes DEF IInv
  <2>2. armed' = armed \/ (armed' = {} /\ Coming("on")' = {})
    BY <2>1
  <2>3. device'.on = device.on /\ shown'.on = shown.on /\ watch' = watch
    OBVIOUS
  <2> QED
    BY <1>1, <2>1, <2>2, <2>3, PowerFrame DEF IInv, At
<1>3. watch' \in Watches
  BY DEF IInv, TypesInv
<1>4. Coming("bars") = {} /\ book \in Book
  BY DEF IInv, BarsInv, TypesInv, At, Awaiting
<1>5. device' \in Device /\ device'.pages = device.pages
  BY DEF IInv, TypesInv
<1> QED
  BY <1>1, <1>2, <1>3, <1>4, <1>5, OpMoves

-----------------------------------------------------------------------------
(* The steps at which a transaction ends or a try fails.                   *)

\* Nothing comes where the coordinator has no link.
LEMMA NoLinkNothing ==
    ASSUME TypesInv, link = 0
    PROVE  \A what : Coming(what) = {}
BY ReplyGood DEF Coming, TypesInv

LEMMA ConnectFailsKeeps ==
    ASSUME IInv, ConnectFails
    PROVE  IInv'
<1>1. Coming("bars") = {}
  BY NoLinkNothing DEF ConnectFails, Linking, IInv
<1>2. /\ UNCHANGED <<device, shown, source, watch>>
      /\ UNCHANGED <<links, asked, wire>>
      /\ link' = link /\ armed' = armed /\ book' = book
  BY DEF ConnectFails, wires
<1>3. book' \in Book /\ op.wrote \in BOOLEAN
  BY <1>2 DEF IInv, TypesInv, Ops
<1>4. CASE At("send")
  <2>1. GiveUp(op.wrote)
    BY <1>4 DEF ConnectFails
  <2> QED
    BY <1>2, <1>3, <1>4, <2>1, GiveUpKeeps
<1>5. CASE ~At("send")
  <2>1. Done("raised") /\ "raised" \in Results
    BY <1>5 DEF ConnectFails, Results
  <2> QED
    BY <1>1, <1>2, <1>3, <2>1, DoneKeeps
<1> QED
  BY <1>4, <1>5

\* A read-back that is compared with what was painted.
LEMMA ConfirmKeeps ==
    ASSUME IInv, Confirm
    PROVE  IInv'
<1>1. PICK inTime \in BOOLEAN :
         /\ book' = [book EXCEPT !.open = ~inTime]
         /\ Done(IF At("confirm") /\ inTime /\ Painted THEN "ok" ELSE "raised")
  BY DEF Confirm
<1>2. PICK result : result = IF At("confirm") /\ inTime /\ Painted THEN "ok" ELSE "raised"
  OBVIOUS
<1>3. result \in Results /\ Done(result)
  BY <1>1, <1>2 DEF Results
<1>4. source = "observed" /\ book.buffer = {}
  BY DEF Confirm, Collecting, IInv, PagesInv
<1>5. shown.pages = device.pages
  BY <1>4 DEF IInv, PagesInv, PicturesAreWhole
<1>6. result = "ok" =>
         /\ op.kind = "bar" => device.bars[op.bar] = op.want
         /\ op.kind = "paint" =>
                \A p \in DOMAIN op.want : device.pages[p] = op.want[p]
         /\ op.kind = "refresh" => shown.pages = device.pages
  <2>1. HAVE result = "ok"
  <2>2. At("confirm") /\ Painted
    BY <1>2, <2>1
  <2>3. op.kind # "bar"
    BY <2>2 DEF At, IInv, OpInv, StepsOf
  <2> QED
    BY <1>5, <2>2, <2>3 DEF Painted
<1>7. book' \in Book /\ book'.buffer = {}
  BY <1>1, <1>4 DEF IInv, TypesInv, Book
<1>8. Coming("page") = {}
  BY <1>4 DEF IInv, PagesInv
<1>9. Coming("bars") = {}
  BY DEF Confirm, IInv, BarsInv, Awaiting
<1>10. /\ UNCHANGED <<device, shown, source, watch>>
       /\ UNCHANGED <<links, asked, wire>> /\ link' = link /\ armed' = armed
  BY DEF Confirm, wires
<1> QED
  BY <1>3, <1>6, <1>7, <1>8, <1>9, <1>10, DoneKeeps

LEMMA ConfirmTimesOutKeeps ==
    ASSUME IInv, ConfirmTimesOut
    PROVE  IInv'
<1>1. /\ Done("raised") /\ "raised" \in Results
      /\ UNCHANGED <<device, shown, source, watch>>
      /\ UNCHANGED <<links, asked, wire>>
      /\ link' = link /\ armed' = armed /\ book' = book
  BY DEF ConfirmTimesOut, wires, Results
<1>2. Coming("bars") = {} /\ book' \in Book
  BY <1>1 DEF ConfirmTimesOut, IInv, BarsInv, TypesInv, Awaiting
<1> QED
  BY <1>1, <1>2, DoneKeeps

\* A read that is given up: what could still answer it goes with its link.
LEMMA AbandonedKeeps ==
    ASSUME IInv, Abandoned, Done("raised"), UNCHANGED <<device, shown, source, watch>>
    PROVE  IInv'
<1>1. "raised" \in Results
  BY DEF Results
<1>2. CASE link = op.on
  <2>1. /\ UNCHANGED <<links, asked, wire>>
        /\ link' = 0 /\ armed' = {} /\ book' = Closed
    BY <1>2 DEF Abandoned, Cleared
  <2> QED
    BY <1>1, <2>1, DoneKeeps
<1>3. CASE link # op.on
  <2>1. /\ UNCHANGED <<links, asked, wire>>
        /\ link' = link /\ armed' = armed /\ book' = book
    BY <1>3 DEF Abandoned, wires
  <2>2. Coming("bars") = {} /\ book' \in Book
    BY <1>3, <2>1 DEF IInv, BarsInv, TypesInv
  <2> QED
    BY <1>1, <2>1, <2>2, DoneKeeps
<1> QED
  BY <1>2, <1>3

LEMMA BarEchoedKeeps ==
    ASSUME IInv, BarEchoed
    PROVE  IInv'
<1>1. PICK result : result = IF /\ shown.bars[op.bar] = op.want
                                /\ shown.bars[Sibling(op.bar)] = op.sibling
                             THEN "ok" ELSE "raised"
  OBVIOUS
<1>2. result \in Results /\ Done(result)
  BY <1>1 DEF BarEchoed, Results
<1>3. shown.bars = device.bars /\ Coming("bars") = {}
  BY DEF BarEchoed, At, Awaiting, BarsRead, IInv, BarsInv
<1>4. op.kind = "bar"
  <2>1. op.step = "echo" /\ op.kind \in Kinds
    BY DEF BarEchoed, At, IInv, TypesInv, Ops
  <2> QED
    BY <2>1 DEF IInv, OpInv, StepsOf, Kinds
<1>5. result = "ok" => device.bars[op.bar] = op.want
  BY <1>1, <1>3
<1>6. /\ UNCHANGED <<device, shown, source, watch>>
      /\ UNCHANGED <<links, asked, wire>>
      /\ link' = link /\ armed' = armed /\ book' = book
  BY DEF BarEchoed, wires
<1>7. book' \in Book
  BY <1>6 DEF IInv, TypesInv
<1> QED
  BY <1>2, <1>3, <1>4, <1>5, <1>6, <1>7, DoneKeeps

LEMMA ObserveNothingKeeps ==
    ASSUME IInv, ObserveNothing
    PROVE  IInv'
<1>1. /\ Done("unread") /\ "unread" \in Results
      /\ UNCHANGED <<device, shown, source, watch>>
      /\ UNCHANGED <<links, asked, wire>>
      /\ link' = link /\ armed' = armed /\ book' = book
  BY DEF ObserveNothing, wires, Results
<1>2. Coming("bars") = {} /\ book' \in Book
  BY <1>1 DEF ObserveNothing, At, IInv, BarsInv, TypesInv, Awaiting
<1> QED
  BY <1>1, <1>2, DoneKeeps

LEMMA PollEndsKeeps ==
    ASSUME IInv, PollEnds
    PROVE  IInv'
<1>1. /\ Done("ok") /\ "ok" \in Results
      /\ UNCHANGED <<device, shown, source, watch>>
      /\ UNCHANGED <<links, asked, wire>> /\ link' = link /\ armed' = armed
  BY DEF PollEnds, wires, Results
<1>2. op.kind = "poll"
  <2>1. op.step \in {"collect", "polling", "pages", "bars"} /\ op.kind \in Kinds
    BY DEF PollEnds, At, IInv, TypesInv, Ops
  <2> QED
    BY <2>1 DEF IInv, OpInv, StepsOf, Kinds
<1>3. Coming("bars") = {}
  <2>1. CASE op.step = "polling"
    BY <2>1 DEF PollEnds, At, BarsRead, IInv, BarsInv
  <2>2. CASE op.step # "polling"
    BY <2>2 DEF PollEnds, At, Awaiting, IInv, BarsInv
  <2> QED
    BY <2>1, <2>2
<1>4. book' \in Book /\ (book' = book \/ (book'.buffer = {} /\ Coming("page") = {}))
  <2>1. CASE book' = book
    BY <2>1 DEF IInv, TypesInv
  <2>2. CASE book' # book
    <3>1. At("collect") /\ AllCame /\ book' = [book EXCEPT !.open = FALSE]
      BY <2>2 DEF PollEnds
    <3>2. book.buffer = {}
      BY <3>1 DEF At, Collecting, IInv, PagesInv
    <3>3. Coming("page") = {}
      BY <3>2 DEF IInv, PagesInv
    <3> QED
      BY <3>1, <3>2, <3>3 DEF IInv, TypesInv, Book
  <2> QED
    BY <2>1, <2>2
<1> QED
  BY <1>1, <1>2, <1>3, <1>4, DoneKeeps

-----------------------------------------------------------------------------
(* A transaction begins.                                                   *)

Wants == BOOLEAN \cup {None, "power", "pages", "bars"} \cup Paints

LEMMA UnwatchedGood ==
    /\ Unwatched \in Watches /\ Unwatched.step = "none" /\ Unwatched.result = None
    /\ ~Unwatched.fresh /\ Unwatched.alone
<1> PICK b \in BOOLEAN, a \in BOOLEAN : ~b /\ a
  OBVIOUS
<1>1. Unwatched = [step |-> "none", want |-> None, fresh |-> b, alone |-> a, result |-> None]
  BY DEF Unwatched
<1> QED
  BY <1>1 DEF Watches

\* What an earlier observation goes by, once another command is begun.
LEMMA BeginWatch ==
    ASSUME watch \in Watches, watch.result = "mismatch" => watch.step = "done", NEW w,
           w = (IF watch.step = "wait" THEN [watch EXCEPT !.alone = FALSE] ELSE Unwatched)
    PROVE  /\ w \in Watches /\ (~w.alone \/ w.step = "none")
           /\ w.result # "mismatch"
<1>1. CASE watch.step = "wait"
  <2>1. PICK b \in BOOLEAN : ~b
    OBVIOUS
  <2>2. w = [watch EXCEPT !.alone = b]
    BY <1>1, <2>1
  <2> QED
    BY <1>1, <2>1, <2>2 DEF Watches
<1>2. CASE watch.step # "wait"
  <2>1. w = Unwatched
    BY <1>2
  <2> QED
    BY <2>1, UnwatchedGood DEF None
<1> QED
  BY <1>1, <1>2

LEMMA BeginKeeps ==
    ASSUME IInv,
           NEW kind \in Kinds, NEW step \in StepsOf(kind), NEW bar \in Bars \cup {None},
           NEW want \in Wants, NEW todo \in SUBSET (Pages \cup {"power"}),
           Begin(kind, step, bar, want, todo),
           step \notin Awaiting \cup Collecting,
           kind = "power" => want \in BOOLEAN /\ todo \subseteq {"power"},
           kind = "paint" => want \in Paints /\ todo \subseteq DOMAIN want,
           kind = "bar" => bar \in Bars /\ want \in BOOLEAN,
           kind = "poll" => want \in {"power", "pages", "bars"},
           kind = "observe" => want \in BOOLEAN,
           step = "observe" => \A e \in armed : e.value = want
    PROVE  IInv'
<1>1. step \in Steps
  BY DEF StepsOf, Steps
<1>2. link \in 0 .. links /\ links \in Nat
  BY DEF IInv, TypesInv
<1>3. /\ op' \in Ops(links) /\ op'.kind = kind /\ op'.step = step /\ op'.bar = bar
      /\ op'.want = want /\ op'.todo = todo /\ op'.on = link /\ op'.result = None
  <2>1. PICK i : i = Idle
    OBVIOUS
  <2>2. i \in Ops(links) /\ i.result = None
    BY <1>2, <2>1, IdleGood
  <2>3. op' = [i EXCEPT !.kind = kind, !.step = step, !.bar = bar,
                        !.want = want, !.todo = todo, !.on = link]
    BY <2>1 DEF Begin
  <2> QED
    BY ZenonT(60), <1>1, <1>2, <2>2, <2>3 DEF Ops, Wants
<1>4. OpInv'
  BY <1>3 DEF OpInv
<1>5. OkInv'
  BY <1>3 DEF OkInv, OkIsTrue, None
<1>6. /\ UNCHANGED <<device, shown, source>> /\ UNCHANGED <<links, asked, wire>>
      /\ link' = link /\ armed' = armed /\ book' = book /\ At("done")
  BY DEF Begin, wires
<1>7. Coming("bars") = {} /\ book' \in Book
  BY <1>6 DEF At, Awaiting, IInv, BarsInv, TypesInv
<1>8. Coming("on")' = Coming("on")
  BY <1>6 DEF Coming
<1>9. watch' \in Watches /\ PowerInv'
  <2>1. /\ \A r \in Coming("on")' : r.on = device'.on \/ \E e \in armed' : r.of <= e.at
    BY <1>6, <1>8 DEF IInv, PowerInv
  <2>2. op'.step = "observe" => \A e \in armed' : e.value = op'.want
    BY <1>3, <1>6
  <2>3. watch \in Watches
    BY DEF IInv, TypesInv
  <2>4. CASE kind \in {"observe", "poll", "refresh"}
    <3>1. watch' = watch
      BY <2>4 DEF Begin
    <3>2. /\ watch'.step = "wait" /\ watch'.alone =>
                 /\ \A e \in armed' : e.value = watch'.want
                 /\ watch'.fresh /\ shown'.on # watch'.want => device'.on # watch'.want
          /\ watch'.result = "mismatch" => watch'.step = "done"
          /\ ContradictionIsReal'
      BY <3>1, <1>6 DEF IInv, PowerInv, ContradictionIsReal
    <3>3. op'.kind # "power"
      BY <1>3, <2>4
    <3> QED
      BY <2>1, <2>2, <2>3, <3>1, <3>2, <3>3 DEF PowerInv
  <2>5. CASE kind \notin {"observe", "poll", "refresh"}
    <3>1. watch' = IF watch.step = "wait" THEN [watch EXCEPT !.alone = FALSE]
                   ELSE Unwatched
      BY <2>5 DEF Begin
    <3>2. /\ watch' \in Watches /\ (~watch'.alone \/ watch'.step = "none")
          /\ watch'.result # "mismatch"
      BY <2>3, <3>1, BeginWatch DEF IInv, PowerInv
    <3>3. ContradictionIsReal'
      BY <3>2 DEF ContradictionIsReal
    <3> QED
      BY <2>1, <2>2, <3>2, <3>3 DEF PowerInv
  <2> QED
    BY <2>4, <2>5
<1>10. device' \in Device /\ device'.pages = device.pages
  BY <1>6 DEF IInv, TypesInv
<1> QED
  BY <1>3, <1>4, <1>5, <1>6, <1>7, <1>9, <1>10, OpMoves

LEMMA TransactionsKeep ==
    ASSUME IInv, Transactions
    PROVE  IInv'
<1>1. ASSUME NEW on \in BOOLEAN, BeginPower(on)
      PROVE  IInv'
  <2>1. "send" \in StepsOf("power") /\ on \in Wants
    BY DEF StepsOf, Wants
  <2> QED
    BY <1>1, <2>1, BeginKeeps DEF BeginPower, Kinds, Awaiting, Collecting
<1>2. ASSUME NEW on \in BOOLEAN, BeginObserve(on)
      PROVE  IInv'
  <2>1. "observe" \in StepsOf("observe") /\ on \in Wants
    BY DEF StepsOf, Wants
  <2> QED
    BY <1>2, <2>1, BeginKeeps DEF BeginObserve, Kinds, Awaiting, Collecting
<1>3. ASSUME NEW ps \in SUBSET Pages \ {{}}, NEW want \in [ps -> Colours], BeginPaint(want)
      PROVE  IInv'
  <2>1. "send" \in StepsOf("paint") /\ want \in Paints /\ want \in Wants
    BY DEF StepsOf, Wants, Paints
  <2>2. DOMAIN want = ps
    OBVIOUS
  <2> QED
    BY <1>3, <2>1, <2>2, BeginKeeps DEF BeginPaint, Kinds, Awaiting, Collecting
<1>4. ASSUME BeginRefresh
      PROVE  IInv'
  <2>1. PICK want : want = [p \in {} |-> None]
    OBVIOUS
  <2>2. want \in [{} -> Colours]
    BY <2>1
  <2>3. "refresh" \in StepsOf("refresh") /\ want \in Wants
    BY <2>2 DEF StepsOf, Wants, Paints
  <2> QED
    BY <1>4, <2>1, <2>3, BeginKeeps DEF BeginRefresh, Kinds, Awaiting, Collecting
<1>5. ASSUME NEW bar \in Bars, NEW enabled \in BOOLEAN, BeginBar(bar, enabled)
      PROVE  IInv'
  <2>1. "bar" \in StepsOf("bar") /\ enabled \in Wants
    BY DEF StepsOf, Wants
  <2> QED
    BY <1>5, <2>1, BeginKeeps DEF BeginBar, Kinds, Awaiting, Collecting
<1>6. ASSUME NEW what \in {"power", "pages", "bars"}, BeginPoll(what)
      PROVE  IInv'
  <2>1. "poll" \in StepsOf("poll") /\ what \in Wants
    BY DEF StepsOf, Wants
  <2> QED
    BY <1>6, <2>1, BeginKeeps DEF BeginPoll, Kinds, Awaiting, Collecting
<1> QED
  BY <1>1, <1>2, <1>3, <1>4, <1>5, <1>6 DEF Transactions

-----------------------------------------------------------------------------
(* send_command.                                                           *)

\* A packet is of the command.
LEMMA PacketGood ==
    ASSUME IInv, At("send"), NEW p \in op.todo
    PROVE  \/ /\ p = "power" /\ op.kind = "power" /\ op.want \in BOOLEAN
              /\ op.todo = {"power"}
           \/ /\ p # "power" /\ op.kind = "paint" /\ p \in Pages
              /\ p \in DOMAIN op.want /\ op.want[p] \in Colours
<1>1. op.kind \in {"power", "paint"}
  BY SendingOp DEF IInv, TypesInv, Ops
<1>2. CASE op.kind = "power"
  BY <1>2 DEF IInv, OpInv
<1>3. CASE op.kind = "paint"
  <2>1. op.want \in Paints /\ p \in DOMAIN op.want
    BY <1>3 DEF IInv, OpInv
  <2>2. PICK ps \in SUBSET Pages : op.want \in [ps -> Colours]
    BY <2>1 DEF Paints
  <2>3. p \in Pages /\ op.want[p] \in Colours
    BY <2>1, <2>2
  <2> QED
    BY <1>3, <2>1, <2>3, ReadbackAssumption
<1> QED
  BY <1>1, <1>2, <1>3

\* What a packet changes of what is shown, and of the device that obeys it.
LEMMA SetPower ==
    ASSUME op.want \in BOOLEAN
    PROVE  /\ device \in Device =>
                 /\ Set(device, "power") \in Device
                 /\ Set(device, "power").pages = device.pages
           /\ shown \in Shown =>
                 /\ Set(shown, "power") \in Shown /\ Set(shown, "power").on = op.want
                 /\ Set(shown, "power").pages = shown.pages
<1>1. ASSUME device \in Device
      PROVE  /\ Set(device, "power") \in Device
             /\ Set(device, "power").pages = device.pages
  BY <1>1 DEF Set, Device
<1>2. ASSUME shown \in Shown
      PROVE  /\ Set(shown, "power") \in Shown /\ Set(shown, "power").on = op.want
             /\ Set(shown, "power").pages = shown.pages
  BY <1>2 DEF Set, Shown
<1> QED
  BY <1>1, <1>2

LEMMA SetPage ==
    ASSUME NEW p \in Pages, p # "power", op.want[p] \in Colours
    PROVE  /\ device \in Device =>
                 Set(device, p) \in Device /\ Set(device, p).on = device.on
           /\ shown \in Shown =>
                 Set(shown, p) \in Shown /\ Set(shown, p).on = shown.on
<1>0. PICK c \in Colours : c = op.want[p]
  OBVIOUS
<1>1. ASSUME device \in Device
      PROVE  Set(device, p) \in Device /\ Set(device, p).on = device.on
  <2>1. Set(device, p) = [device EXCEPT !.pages = [@ EXCEPT ![p] = c]]
    BY <1>0 DEF Set
  <2> QED
    BY <1>1, <2>1 DEF Device
<1>2. ASSUME shown \in Shown
      PROVE  Set(shown, p) \in Shown /\ Set(shown, p).on = shown.on
  <2>1. Set(shown, p) = [shown EXCEPT !.pages = [@ EXCEPT ![p] = c]]
    BY <1>0 DEF Set
  <2> QED
    BY <1>2, <2>1 DEF Shown
<1> QED
  BY <1>1, <1>2

\* The command, once a packet of it is written.
LEMMA SentOp ==
    ASSUME IInv, At("send"), NEW p \in op.todo,
           op' = [op EXCEPT !.todo = @ \ {p}, !.try = 1, !.wrote = p # "power",
                            !.step = IF op.todo # {p} THEN "send"
                                     ELSE IF p = "power" THEN "done" ELSE "refresh"]
    PROVE  /\ op' \in Ops(links) /\ OpInv' /\ OkInv' /\ op'.kind = op.kind
           /\ op'.step \in {"send", "done", "refresh"}
           /\ op.kind = "power" => op'.step = "done"
<1>1. PICK todo \in SUBSET op.todo, s \in {"send", "done", "refresh"},
           t \in 1 .. SendTries, w \in BOOLEAN :
         /\ todo = op.todo \ {p}
         /\ s = IF op.todo # {p} THEN "send"
                ELSE IF p = "power" THEN "done" ELSE "refresh"
         /\ op' = [op EXCEPT !.todo = todo, !.try = t, !.wrote = w, !.step = s]
  <2>1. PICK todo : todo = op.todo \ {p}
    OBVIOUS
  <2>2. PICK t \in 1 .. SendTries : t = 1
    BY ReadbackAssumption
  <2>3. PICK w : w = (p # "power")
    OBVIOUS
  <2>4. PICK s : s = IF op.todo # {p} THEN "send"
                     ELSE IF p = "power" THEN "done" ELSE "refresh"
    OBVIOUS
  <2>5. op' = [op EXCEPT !.todo = todo, !.try = t, !.wrote = w, !.step = s]
    BY <2>1, <2>2, <2>3, <2>4
  <2>6. /\ s \in {"send", "done", "refresh"} /\ todo \in SUBSET op.todo
        /\ w \in BOOLEAN
    BY <2>1, <2>3, <2>4
  <2> QED
    BY <2>1, <2>2, <2>4, <2>5, <2>6
<1>2. op \in Ops(links) /\ op.result # "ok"
  BY DEF IInv, TypesInv, OkInv, At
<1>3. /\ op' \in Ops(links) /\ op'.kind = op.kind /\ op'.step = s /\ op'.want = op.want
      /\ op'.bar = op.bar /\ op'.todo = todo /\ op'.result = op.result
  <2>1. s \in Steps /\ todo \in SUBSET (Pages \cup {"power"})
    BY <1>1, <1>2 DEF Ops, Steps
  <2>2. op' = [op EXCEPT !.todo = todo, !.try = t, !.wrote = w, !.step = s]
    BY <1>1
  <2> QED
    BY ZenonT(60), <1>2, <2>1, <2>2 DEF Ops
<1>4. CASE p = "power" /\ op.kind = "power" /\ op.want \in BOOLEAN /\ op.todo = {"power"}
  <2>1. s = "done"
    BY <1>1, <1>4
  <2>2. OpInv'
    BY <1>1, <1>3, <1>4, <2>1 DEF OpInv, StepsOf
  <2>3. OkInv'
    BY <1>2, <1>3 DEF OkInv, OkIsTrue
  <2> QED
    BY <1>3, <2>1, <2>2, <2>3
<1>5. CASE p # "power" /\ op.kind = "paint"
  <2>1. s \in {"send", "refresh"}
    BY <1>1, <1>5
  <2>2. OpInv'
    BY <1>1, <1>3, <1>5, <2>1 DEF OpInv, StepsOf, IInv
  <2>3. OkInv'
    BY <1>2, <1>3 DEF OkInv, OkIsTrue
  <2> QED
    BY <1>3, <1>5, <2>1, <2>2, <2>3
<1> QED
  BY <1>4, <1>5, PacketGood

LEMMA SendKeeps ==
    ASSUME IInv, NEW p \in op.todo, Send(p)
    PROVE  IInv'
<1>1. /\ At("send") /\ link # 0 /\ ~book.open /\ Installed(p)
      /\ armed' = IF p = "power" THEN {[value |-> op.want, at |-> asked]} ELSE armed
      /\ device' = device \/ device' = Set(device, p)
      /\ UNCHANGED <<book, watch>> /\ UNCHANGED <<link, links, asked, wire>>
  BY DEF Send, wires
<1>2. /\ op' \in Ops(links) /\ OpInv' /\ OkInv' /\ op'.kind = op.kind
      /\ op'.step \in {"send", "done", "refresh"}
      /\ op.kind = "power" => op'.step = "done"
  BY <1>1, SentOp DEF Send
<1>3. /\ op.step = "send" /\ device \in Device /\ shown \in Shown /\ asked \in Nat
  BY <1>1 DEF At, IInv, TypesInv
<1>4. \A what : Coming(what)' = Coming(what)
  BY <1>1 DEF Coming
<1>5. BarsInv'
  <2>1. Coming("bars")' = {}
    BY <1>3, <1>4 DEF IInv, BarsInv, Awaiting
  <2> QED
    BY <1>2, <2>1 DEF BarsInv, Awaiting
<1>6. op'.step \notin Collecting
  BY <1>2 DEF Collecting
<1>7. CASE p = "power" /\ op.kind = "power" /\ op.want \in BOOLEAN
  <2>1. /\ shown' \in Shown /\ shown'.on = op.want /\ shown'.pages = shown.pages
        /\ source' = source
    BY <1>1, <1>3, <1>7, SetPower DEF Installed
  <2>2. device' \in Device /\ device'.pages = device.pages
    BY <1>1, <1>3, <1>7, SetPower
  <2>3. PICK e : e = [value |-> op.want, at |-> asked]
    OBVIOUS
  <2>4. armed' = {e} /\ e \in [value : BOOLEAN, at : Nat] /\ e.at = asked
    BY <1>1, <1>3, <1>7, <2>3
  <2>5. TypesInv'
    BY <1>1, <1>2, <2>1, <2>2, <2>4 DEF IInv, TypesInv
  <2>6. PagesInv'
    BY <1>1, <1>4, <1>6, <2>1, <2>2, PagesFrame DEF IInv
  <2>7. ~watch'.alone \/ watch'.step = "none"
    BY <1>1, <1>3, <1>7 DEF IInv, PowerInv
  <2>8. PowerInv'
    <3>1. \A r \in Coming("on")' : r.on = device'.on \/ \E x \in armed' : r.of <= x.at
      <4>1. TAKE r \in Coming("on")'
      <4>2. r \in wire
        BY <1>4 DEF Coming
      <4>3. r.of <= asked
        BY <4>2, <1>3, ReplyGood DEF IInv
      <4> QED
        BY <2>4, <4>3
    <3>2. watch'.result = "mismatch" => watch'.step = "done"
      BY <1>1 DEF IInv, PowerInv
    <3>3. ContradictionIsReal'
      BY <2>7, <3>2 DEF ContradictionIsReal
    <3> QED
      BY <1>2, <2>7, <3>1, <3>2, <3>3 DEF PowerInv
  <2> QED
    BY <1>2, <1>5, <2>5, <2>6, <2>8 DEF IInv
<1>8. CASE p # "power" /\ op.kind = "paint" /\ p \in Pages /\ op.want[p] \in Colours
  <2>1. /\ shown' \in Shown /\ shown'.on = shown.on /\ source' = "optimistic"
    BY <1>1, <1>3, <1>8, SetPage DEF Installed
  <2>2. device' \in Device /\ device'.on = device.on
    BY <1>1, <1>3, <1>8, SetPage
  <2>3. armed' = armed
    BY <1>1, <1>8
  <2>4. TypesInv'
    BY <1>1, <1>2, <2>1, <2>2, <2>3 DEF IInv, TypesInv
  <2>5. PagesInv'
    <3>1. Coming("page")' = {} /\ book'.buffer = {}
      BY <1>1, <1>4 DEF IInv, PagesInv
    <3>2. PicturesAreWhole'
      BY <2>1 DEF PicturesAreWhole
    <3> QED
      BY <1>6, <3>1, <3>2 DEF PagesInv
  <2>6. PowerInv'
    BY <1>1, <1>2, <1>4, <1>8, <2>1, <2>2, <2>3, PowerFrame DEF IInv
  <2> QED
    BY <1>2, <1>5, <2>4, <2>5, <2>6 DEF IInv
<1> QED
  BY <1>1, <1>7, <1>8, PacketGood

LEMMA SendRaisesKeeps ==
    ASSUME IInv, NEW p \in op.todo, SendRaises(p)
    PROVE  IInv'
<1>1. /\ At("send") /\ Installed(p) /\ device' \in {device, Set(device, p)}
      /\ GiveUp(TRUE) /\ watch' = watch /\ UNCHANGED <<links, asked, wire>>
      /\ link' = 0 /\ armed' = {} /\ book' = Closed
  BY DEF SendRaises, Cleared
<1>2. /\ op' \in Ops(links) /\ OpInv' /\ OkInv'
      /\ op'.kind = op.kind /\ op'.step \notin Awaiting \cup Collecting
      /\ op'.step # "observe"
  BY <1>1, GiveUpOp DEF IInv
<1>3. /\ op.step = "send" /\ device \in Device /\ shown \in Shown
  BY <1>1 DEF At, IInv, TypesInv
<1>4. \A what : Coming(what)' = {}
  BY <1>1, ClearedComes DEF IInv
<1>5. BarsInv'
  BY <1>2, <1>4 DEF BarsInv
<1>6. Closed \in Book /\ Closed.buffer = {}
  BY DEF Closed, Book
<1>7. PicturesAreWhole' => PagesInv'
  <2>1. \A r \in Coming("page")' : FALSE
    BY <1>4
  <2> QED
    BY <1>1, <1>2, <1>6, <2>1 DEF PagesInv
<1>8. CASE p = "power" /\ op.kind = "power" /\ op.want \in BOOLEAN
  <2>1. /\ shown' \in Shown /\ shown'.pages = shown.pages /\ source' = source
    BY <1>1, <1>3, <1>8, SetPower DEF Installed
  <2>2. device' \in Device /\ device'.pages = device.pages
    BY <1>1, <1>3, <1>8, SetPower
  <2>3. TypesInv'
    BY <1>1, <1>2, <1>6, <2>1, <2>2 DEF IInv, TypesInv
  <2>4. PicturesAreWhole'
    BY <2>1, <2>2 DEF IInv, PagesInv, PicturesAreWhole
  <2>5. ~watch'.alone \/ watch'.step = "none"
    BY <1>1, <1>3, <1>8 DEF IInv, PowerInv
  <2>6. watch'.result = "mismatch" => watch'.step = "done"
    BY <1>1 DEF IInv, PowerInv
  <2>7. PowerInv'
    <3>1. \A r \in Coming("on")' : FALSE
      BY <1>4
    <3>2. ContradictionIsReal'
      BY <2>5, <2>6 DEF ContradictionIsReal
    <3> QED
      BY <1>2, <2>5, <2>6, <3>1, <3>2 DEF PowerInv
  <2> QED
    BY <1>2, <1>5, <1>7, <2>3, <2>4, <2>7 DEF IInv
<1>9. CASE p # "power" /\ op.kind = "paint" /\ p \in Pages /\ op.want[p] \in Colours
  <2>1. shown' \in Shown /\ shown'.on = shown.on /\ source' = "optimistic"
    BY <1>1, <1>3, <1>9, SetPage DEF Installed
  <2>2. device' \in Device /\ device'.on = device.on
    BY <1>1, <1>3, <1>9, SetPage
  <2>3. TypesInv'
    BY <1>1, <1>2, <1>6, <2>1, <2>2 DEF IInv, TypesInv
  <2>4. PicturesAreWhole'
    BY <2>1 DEF PicturesAreWhole
  <2>5. Coming("on")' = {}
    BY <1>4
  <2>6. PowerInv'
    BY <1>1, <1>2, <1>9, <2>1, <2>2, <2>5, PowerFrame DEF IInv
  <2> QED
    BY <1>2, <1>5, <1>7, <2>3, <2>4, <2>6 DEF IInv
<1> QED
  BY <1>1, <1>8, <1>9, PacketGood

-----------------------------------------------------------------------------
(* Queries are sent.                                                       *)

\* A transaction that goes on has no result yet.
LEMMA GoingOn ==
    ASSUME IInv, op.step # "done", op'.result = op.result
    PROVE  OkInv'
BY DEF IInv, OkInv, OkIsTrue

\* What a transaction is about does not change as it goes on.
LEMMA GoesOn ==
    ASSUME OpInv, op'.step \in StepsOf(op'.kind), op'.kind = op.kind, op'.want = op.want,
           op'.bar = op.bar, op'.todo = op.todo
    PROVE  OpInv'
BY DEF OpInv

\* It waits for what it asked for.
LEMMA AskingOp ==
    ASSUME NEW n \in Nat, op \in Ops(n), NEW l \in 1 .. n, NEW step \in Steps,
           op' = [op EXCEPT !.step = step, !.on = l, !.fresh = {}]
    PROVE  /\ op' \in Ops(n) /\ op'.kind = op.kind /\ op'.step = step /\ op'.on = l
           /\ op'.fresh = {} /\ op'.want = op.want /\ op'.bar = op.bar
           /\ op'.todo = op.todo /\ op'.result = op.result
<1>1. PICK f \in SUBSET {"pages", "bars"} : f = {}
  OBVIOUS
<1>2. l \in 0 .. n
  OBVIOUS
<1>3. op' = [op EXCEPT !.step = step, !.on = l, !.fresh = f]
  BY <1>1
<1> QED
  BY <1>1, <1>2, <1>3 DEF Ops

LEMMA AskPagesKeeps ==
    ASSUME IInv, NEW ps \in SUBSET Pages, NEW next \in Collecting,
           next \in StepsOf(op.kind), op.step # "done", op.step \notin Awaiting,
           AskPages(ps, next)
    PROVE  IInv'
<1>1. /\ link # 0 /\ ~book.open /\ Ask(PageReplies(ps)) /\ book' = AskedPages
      /\ op' = [op EXCEPT !.step = next, !.on = link, !.fresh = {}]
      /\ UNCHANGED <<device, shown, source, armed, watch>> /\ UNCHANGED <<link, links>>
  BY DEF AskPages
<1>2. /\ op \in Ops(links) /\ link \in 1 .. links /\ links \in Nat /\ asked \in Nat
      /\ shown \in Shown /\ next \in Steps
  BY <1>1 DEF IInv, TypesInv, Collecting, Steps
<1>3. /\ op' \in Ops(links) /\ op'.kind = op.kind /\ op'.step = next /\ op'.on = link
      /\ op'.fresh = {} /\ op'.want = op.want /\ op'.bar = op.bar
      /\ op'.todo = op.todo /\ op'.result = op.result
  BY <1>1, <1>2, AskingOp
<1>4. PICK sent : sent = PageReplies(ps)
  OBVIOUS
<1>5. sent \notin {PowerReply, BarsReply}
  <2>1. \A r \in sent : "page" \in DOMAIN r
    BY <1>4 DEF PageReplies
  <2>2. PowerReply # {} /\ \A r \in PowerReply : "page" \notin DOMAIN r
    BY DEF PowerReply
  <2>3. BarsReply # {} /\ \A r \in BarsReply : "page" \notin DOMAIN r
    BY DEF BarsReply
  <2> QED
    BY <2>1, <2>2, <2>3
<1>6. /\ asked' = asked + 1 /\ wire' \subseteq Replies(links, asked')
      /\ \A what : Coming(what)' = Coming(what) \cup {r \in sent : Tells(r, what)}
      /\ \A r \in sent : /\ ~Tells(r, "on") /\ ~Tells(r, "bars")
                            /\ r.page \in Pages
                            /\ r.colour = device.pages[r.page]
      /\ \A r, s \in sent : r.page = s.page => r = s
  <2>1. Ask(sent)
    BY <1>1, <1>4
  <2> QED
    BY <1>1, <1>4, <1>5, <2>1, AskGood DEF IInv
<1>7. /\ book' \in Book /\ book'.open /\ book'.got = {} /\ book'.buffer # {}
  <2>1. PICK b \in BOOLEAN : b
    OBVIOUS
  <2>2. book' = [open |-> b, got |-> {}, buffer |-> {shown.pages}]
    BY <1>1, <2>1 DEF AskedPages
  <2> QED
    BY <1>2, <2>1, <2>2 DEF Book, Shown
<1>8. TypesInv'
  BY <1>1, <1>2, <1>3, <1>6, <1>7 DEF IInv, TypesInv
<1>9. OpInv'
  BY <1>3, GoesOn DEF IInv
<1>10. PagesInv'
  <2>1. Coming("page") = {}
    BY <1>1 DEF IInv, PagesInv
  <2>2. \A r \in Coming("page")' : r \in sent
    BY <1>6, <2>1
  <2>3. PicturesAreWhole'
    BY <1>1 DEF IInv, PagesInv, PicturesAreWhole
  <2>4. \A r \in Coming("page")' :
          /\ book'.open /\ book'.buffer # {} /\ r.page \notin book'.got
          /\ r.colour = device'.pages[r.page]
          /\ \A s \in Coming("page")' : s.page = r.page => s = r
    BY <1>1, <1>6, <1>7, <2>2
  <2>5. ~AllCame' /\ op'.on # 0
    BY <1>1, <1>3 DEF AllCame
  <2> QED
    BY <1>7, <2>3, <2>4, <2>5 DEF PagesInv
<1>11. BarsInv'
  <2>1. Coming("bars")' = {}
    BY <1>6 DEF IInv, BarsInv
  <2> QED
    BY <1>3, <2>1 DEF BarsInv, Awaiting, Collecting
<1>12. PowerInv'
  <2>1. Coming("on")' = Coming("on")
    BY <1>6
  <2>2. op'.step # "observe" /\ op'.step # "send"
    BY <1>3 DEF Collecting
  <2>3. device'.on = device.on /\ shown'.on = shown.on /\ watch' = watch /\ armed' = armed
    BY <1>1
  <2> QED
    BY <2>1, <2>2, <2>3, PowerFrame DEF IInv
<1>13. OkInv'
  BY <1>3, GoingOn
<1> QED
  BY <1>8, <1>9, <1>10, <1>11, <1>12, <1>13 DEF IInv

LEMMA RefreshKeeps ==
    ASSUME IInv, NEW ps \in SUBSET Pages, Refresh(ps)
    PROVE  IInv'
<1>1. op.kind \in Kinds
  BY DEF IInv, TypesInv, Ops
<1>2. CASE At("refresh") /\ AskPages(ps, "confirm")
  <2>1. "confirm" \in StepsOf(op.kind)
    BY <1>1, <1>2 DEF At, IInv, OpInv, StepsOf, Kinds
  <2> QED
    BY <1>2, <2>1, AskPagesKeeps DEF At, Awaiting, Collecting
<1>3. CASE At("reconcile") /\ AskPages(ps, "reconciling")
  <2>1. "reconciling" \in StepsOf(op.kind)
    BY <1>1, <1>3 DEF At, IInv, OpInv, StepsOf, Kinds
  <2> QED
    BY <1>3, <2>1, AskPagesKeeps DEF At, Awaiting, Collecting
<1> QED
  BY <1>2, <1>3 DEF Refresh

LEMMA PollPagesKeeps ==
    ASSUME IInv, NEW ps \in SUBSET Pages, PollPages(ps)
    PROVE  IInv'
<1>1. op.kind \in Kinds /\ At("pages") /\ AskPages(ps, "collect")
  BY DEF PollPages, IInv, TypesInv, Ops
<1>2. "collect" \in StepsOf(op.kind)
  BY <1>1 DEF At, IInv, OpInv, StepsOf, Kinds
<1> QED
  BY <1>1, <1>2, AskPagesKeeps DEF At, Awaiting, Collecting

\* The bars are asked for.
LEMMA ReadBarsKeeps ==
    ASSUME IInv, NEW from \in {"bar", "written", "bars"}, NEW to \in Awaiting,
           to \in StepsOf(op.kind), ReadBars(from, to)
    PROVE  IInv'
<1>1. /\ op.step = from /\ link # 0 /\ Ask(BarsReply)
      /\ op' = [op EXCEPT !.step = to, !.on = link, !.fresh = {}]
      /\ UNCHANGED <<device, shown, source, armed, book, watch>>
      /\ UNCHANGED <<link, links>>
  BY DEF ReadBars, At
<1>2. /\ op \in Ops(links) /\ link \in 1 .. links /\ links \in Nat /\ asked \in Nat
      /\ to \in Steps
  BY <1>1 DEF IInv, TypesInv, Awaiting, Steps
<1>3. /\ op' \in Ops(links) /\ op'.kind = op.kind /\ op'.step = to /\ op'.on = link
      /\ op'.fresh = {} /\ op'.want = op.want /\ op'.bar = op.bar
      /\ op'.todo = op.todo /\ op'.result = op.result
  BY <1>1, <1>2, AskingOp
<1>4. PICK sent : sent = BarsReply
  OBVIOUS
<1>5. /\ asked' = asked + 1 /\ wire' \subseteq Replies(links, asked')
      /\ \A what : Coming(what)' = Coming(what) \cup {r \in sent : Tells(r, what)}
      /\ \A r \in sent : /\ ~Tells(r, "page") /\ ~Tells(r, "on")
                            /\ r.bars = device.bars
      /\ \A r, s \in sent : r = s
  <2>1. Ask(sent)
    BY <1>1, <1>4
  <2> QED
    BY <1>1, <1>4, <2>1, AskGood DEF IInv
<1>6. TypesInv'
  BY <1>1, <1>2, <1>3, <1>5 DEF IInv, TypesInv
<1>7. OpInv'
  BY <1>3, GoesOn DEF IInv
<1>8. PagesInv'
  <2>1. Coming("page")' = Coming("page")
    BY <1>5
  <2>2. op'.step \notin Collecting
    BY <1>3 DEF Awaiting, Collecting
  <2> QED
    BY <1>1, <2>1, <2>2, PagesFrame DEF IInv
<1>9. BarsInv'
  <2>1. Coming("bars") = {}
    BY <1>1 DEF IInv, BarsInv, Awaiting
  <2>2. \A r \in Coming("bars")' : r \in sent
    BY <1>5, <2>1
  <2>3. ~BarsRead'
    BY <1>3 DEF BarsRead
  <2>4. \A r \in Coming("bars")' :
          /\ op'.step \in Awaiting /\ op'.on = link'
          /\ "bars" \notin op'.fresh /\ r.bars = device'.bars
          /\ \A s \in Coming("bars")' : s = r
    BY <1>1, <1>3, <1>5, <2>2
  <2> QED
    BY <1>1, <1>3, <2>3, <2>4 DEF BarsInv
<1>10. PowerInv'
  <2>1. Coming("on")' = Coming("on")
    BY <1>5
  <2>2. op'.step # "observe" /\ op'.step # "send"
    BY <1>3 DEF Awaiting
  <2>3. device'.on = device.on /\ shown'.on = shown.on /\ watch' = watch /\ armed' = armed
    BY <1>1
  <2> QED
    BY <2>1, <2>2, <2>3, PowerFrame DEF IInv
<1>11. OkInv'
  BY <1>1, <1>3, GoingOn
<1> QED
  BY <1>6, <1>7, <1>8, <1>9, <1>10, <1>11 DEF IInv

LEMMA BarReadsKeeps ==
    ASSUME IInv, BarReads
    PROVE  IInv'
<1>1. op.kind \in Kinds
  BY DEF IInv, TypesInv, Ops
<1>2. CASE ReadBars("bar", "sibling")
  <2>1. "sibling" \in StepsOf(op.kind)
    BY <1>1, <1>2 DEF ReadBars, At, IInv, OpInv, StepsOf, Kinds
  <2> QED
    BY <1>2, <2>1, ReadBarsKeeps DEF Awaiting
<1>3. CASE ReadBars("written", "echo")
  <2>1. "echo" \in StepsOf(op.kind)
    BY <1>1, <1>3 DEF ReadBars, At, IInv, OpInv, StepsOf, Kinds
  <2> QED
    BY <1>3, <2>1, ReadBarsKeeps DEF Awaiting
<1> QED
  BY <1>2, <1>3 DEF BarReads

LEMMA PollBarsKeeps ==
    ASSUME IInv, PollBars
    PROVE  IInv'
<1>1. op.kind \in Kinds /\ ReadBars("bars", "polling")
  BY DEF PollBars, IInv, TypesInv, Ops
<1>2. "polling" \in StepsOf(op.kind)
  BY <1>1 DEF ReadBars, At, IInv, OpInv, StepsOf, Kinds
<1> QED
  BY <1>1, <1>2, ReadBarsKeeps DEF Awaiting

LEMMA BarsUnreadKeeps ==
    ASSUME IInv, BarsUnread
    PROVE  IInv'
BY AbandonedKeeps DEF BarsUnread

LEMMA PollRefusedKeeps ==
    ASSUME IInv, PollRefused
    PROVE  IInv'
BY AbandonedKeeps DEF PollRefused

-----------------------------------------------------------------------------
(* One bar is set.                                                         *)

\* What is written is the device's own register, but for the one bar.
LEMMA MaskGood ==
    ASSUME IInv, At("sibling"), BarsRead
    PROVE  /\ op.kind = "bar" /\ op.bar \in Bars /\ op.want \in BOOLEAN
           /\ shown.bars = device.bars /\ Coming("bars") = {}
           /\ Mask \in [Bars -> BOOLEAN] /\ shown.bars[Sibling(op.bar)] \in BOOLEAN
           /\ \A bar \in Bars : bar # op.bar => Mask[bar] = device.bars[bar]
<1>1. op.kind = "bar"
  <2>1. op.step = "sibling" /\ op.kind \in Kinds
    BY DEF At, IInv, TypesInv, Ops
  <2> QED
    BY <2>1 DEF IInv, OpInv, StepsOf, Kinds
<1>2. op.bar \in Bars /\ op.want \in BOOLEAN
  BY <1>1 DEF IInv, OpInv
<1>3. shown.bars = device.bars /\ Coming("bars") = {}
  BY DEF At, BarsRead, Awaiting, IInv, BarsInv
<1>4. device.bars \in [Bars -> BOOLEAN]
  BY DEF IInv, TypesInv, Device
<1>5. Sibling(op.bar) \in Bars
  BY <1>2, SiblingIsOther
<1> QED
  BY <1>1, <1>2, <1>3, <1>4, <1>5 DEF Mask

\* The device with that register.
LEMMA MaskedDevice ==
    ASSUME IInv, At("sibling"), BarsRead, device' = [device EXCEPT !.bars = Mask]
    PROVE  /\ device' \in Device /\ device'.on = device.on
           /\ device'.pages = device.pages /\ device'.bars = Mask
<1>1. PICK m \in [Bars -> BOOLEAN] : m = Mask
  BY MaskGood
<1>2. device' = [device EXCEPT !.bars = m] /\ device \in Device
  BY <1>1 DEF IInv, TypesInv
<1> QED
  BY <1>1, <1>2 DEF Device

LEMMA WriteBarKeeps ==
    ASSUME IInv, WriteBar
    PROVE  IInv'
<1>1. /\ At("sibling") /\ BarsRead /\ op.step = "sibling"
      /\ device' = device \/ device' = [device EXCEPT !.bars = Mask]
      /\ op' = [op EXCEPT !.step = "written", !.wrote = TRUE,
                          !.sibling = shown.bars[Sibling(op.bar)]]
      /\ UNCHANGED <<shown, source, armed, book, watch>>
      /\ UNCHANGED <<link, links, asked, wire>>
  BY DEF WriteBar, At, wires
<1>2. op.kind = "bar" /\ Coming("bars") = {} /\ shown.bars[Sibling(op.bar)] \in BOOLEAN
  BY <1>1, MaskGood
<1>3. device' \in Device /\ device'.on = device.on /\ device'.pages = device.pages
  <2>1. CASE device' = device
    BY <2>1 DEF IInv, TypesInv
  <2>2. CASE device' = [device EXCEPT !.bars = Mask]
    BY <1>1, <2>2, MaskedDevice
  <2> QED
    BY <1>1, <2>1, <2>2
<1>4. /\ op' \in Ops(links) /\ op'.kind = op.kind /\ op'.step = "written"
      /\ op'.want = op.want /\ op'.bar = op.bar
      /\ op'.todo = op.todo /\ op'.result = op.result
  <2>1. PICK w \in BOOLEAN, s \in BOOLEAN :
           op' = [op EXCEPT !.step = "written", !.wrote = w, !.sibling = s]
    BY <1>1, <1>2
  <2>2. op \in Ops(links) /\ "written" \in Steps
    BY DEF IInv, TypesInv, Steps
  <2> QED
    BY <2>1, <2>2 DEF Ops
<1>5. OpInv'
  <2>1. op'.step \in StepsOf(op'.kind)
    BY <1>2, <1>4 DEF StepsOf
  <2> QED
    BY <1>4, <2>1, GoesOn DEF IInv
<1>6. OkInv'
  BY <1>1, <1>4, GoingOn
<1>7. PowerInv'
  <2>1. Coming("on")' = Coming("on")
    BY <1>1 DEF Coming
  <2> QED
    BY <1>1, <1>3, <1>4, <2>1, PowerFrame DEF IInv
<1>8. op'.step \notin Awaiting \cup Collecting /\ watch' \in Watches /\ book' \in Book
  BY <1>1, <1>4 DEF Awaiting, Collecting, IInv, TypesInv
<1> QED
  BY <1>1, <1>2, <1>3, <1>4, <1>5, <1>6, <1>7, <1>8, OpMoves

LEMMA WriteBarFailsKeeps ==
    ASSUME IInv, WriteBarFails
    PROVE  IInv'
<1>1. /\ Done("raised") /\ "raised" \in Results
      /\ UNCHANGED <<shown, source, watch>> /\ UNCHANGED <<links, asked, wire>>
      /\ link' = link /\ armed' = armed /\ book' = book
  BY DEF WriteBarFails, wires, Results
<1>2. Coming("bars") = {}
  <2>1. CASE At("sibling") /\ BarsRead
    BY <2>1, MaskGood
  <2>2. CASE At("written")
    BY <2>2 DEF At, Awaiting, IInv, BarsInv
  <2> QED
    BY <2>1, <2>2 DEF WriteBarFails
<1>3. device' \in Device /\ device'.on = device.on /\ device'.pages = device.pages
  <2>1. CASE device' = device
    BY <2>1 DEF IInv, TypesInv
  <2>2. CASE At("sibling") /\ BarsRead /\ device' = [device EXCEPT !.bars = Mask]
    BY <2>2, MaskedDevice
  <2> QED
    BY <2>1, <2>2 DEF WriteBarFails
<1>4. book' \in Book
  BY <1>1 DEF IInv, TypesInv
<1> QED
  BY <1>1, <1>2, <1>3, <1>4, DoneMoves

-----------------------------------------------------------------------------
(* The power is asked for.                                                 *)

\* What the query of the power adds to what is on its way is true.
LEMMA PowerAsked ==
    ASSUME IInv, Ask(PowerReply), UNCHANGED <<link, links>>, link # 0,
           device' = device
    PROVE  /\ asked' = asked + 1 /\ wire' \subseteq Replies(links, asked')
           /\ Coming("page")' = Coming("page") /\ Coming("bars")' = Coming("bars")
           /\ \A r \in Coming("on")' : r \in Coming("on") \/ r.on = device'.on
<1>1. PICK sent : sent = PowerReply
  OBVIOUS
<1>2. /\ asked' = asked + 1 /\ wire' \subseteq Replies(links, asked')
      /\ \A what : Coming(what)' = Coming(what) \cup {r \in sent : Tells(r, what)}
      /\ \A r \in sent : /\ ~Tells(r, "page") /\ ~Tells(r, "bars")
                            /\ r.on = device.on
  <2>1. Ask(sent)
    BY <1>1
  <2> QED
    BY <1>1, <2>1, AskGood DEF IInv
<1> QED
  BY <1>2

LEMMA ObserveKeeps ==
    ASSUME IInv, ObserveAsks
    PROVE  IInv'
<1>1. /\ op.step = "observe" /\ link # 0 /\ Ask(PowerReply) /\ Done("ok")
      /\ watch' = [Unwatched EXCEPT !.step = "wait", !.want = op.want]
      /\ UNCHANGED <<device, shown, source, armed, book>> /\ UNCHANGED <<link, links>>
  BY DEF ObserveAsks, At
<1>2. /\ asked' = asked + 1 /\ wire' \subseteq Replies(links, asked')
      /\ Coming("page")' = Coming("page") /\ Coming("bars")' = Coming("bars")
      /\ \A r \in Coming("on")' : r \in Coming("on") \/ r.on = device'.on
  BY <1>1, PowerAsked
<1>3. op.kind = "observe" /\ op.want \in BOOLEAN
  <2>1. op.kind \in Kinds
    BY DEF IInv, TypesInv, Ops
  <2>2. op.kind = "observe"
    BY <1>1, <2>1 DEF IInv, OpInv, StepsOf, Kinds
  <2> QED
    BY <2>2 DEF IInv, OpInv
<1>4. /\ op' \in Ops(links) /\ op'.kind = op.kind /\ op'.bar = op.bar
      /\ op'.want = op.want /\ op'.step = "done" /\ op'.result = "ok" /\ op'.todo = {}
  BY <1>1, DoneGood DEF IInv, TypesInv, Results
<1>5. /\ watch' \in Watches /\ watch'.step = "wait" /\ watch'.want = op.want
      /\ ~watch'.fresh /\ watch'.result # "mismatch"
  <2>1. PICK u \in Watches : u = Unwatched
    BY UnwatchedGood
  <2>2. ~u.fresh /\ u.result = None
    BY <2>1, UnwatchedGood
  <2>3. watch' = [u EXCEPT !.step = "wait", !.want = op.want]
    BY <1>1, <2>1
  <2> QED
    BY <1>3, <2>1, <2>2, <2>3 DEF Watches, None
<1>6. TypesInv'
  BY <1>1, <1>2, <1>4, <1>5 DEF IInv, TypesInv
<1>7. OpInv'
  <2>1. op'.step \in StepsOf(op'.kind)
    BY <1>3, <1>4 DEF StepsOf
  <2> QED
    BY <1>3, <1>4, <2>1 DEF OpInv
<1>8. PagesInv'
  BY <1>1, <1>2, <1>4, PagesFrame DEF IInv, Collecting
<1>9. BarsInv'
  <2>1. Coming("bars")' = {}
    BY <1>1, <1>2 DEF IInv, BarsInv, Awaiting
  <2> QED
    BY <1>4, <2>1 DEF BarsInv, Awaiting
<1>10. PowerInv'
  <2>1. \A r \in Coming("on")' : r.on = device'.on \/ \E e \in armed' : r.of <= e.at
    BY <1>1, <1>2 DEF IInv, PowerInv
  <2>2. \A e \in armed' : e.value = watch'.want
    BY <1>1, <1>5 DEF IInv, PowerInv
  <2>3. ContradictionIsReal'
    BY <1>5 DEF ContradictionIsReal
  <2> QED
    BY <1>4, <1>5, <2>1, <2>2, <2>3 DEF PowerInv
<1>11. OkInv'
  BY <1>3, <1>4 DEF OkInv, OkIsTrue
<1> QED
  BY <1>6, <1>7, <1>8, <1>9, <1>10, <1>11 DEF IInv

LEMMA ObserveEndsKeeps ==
    ASSUME IInv, ObserveEnds
    PROVE  IInv'
<1>1. PICK v : v = Verdict
  OBVIOUS
<1>2. /\ watch.step = "wait" /\ watch' = [watch EXCEPT !.step = "done", !.result = v]
      /\ UNCHANGED <<device, shown, source, armed, book, op>>
      /\ UNCHANGED <<link, links, asked, wire>>
  BY <1>1 DEF ObserveEnds, wires
<1>3. /\ v \in {None, "unread", "match", "mismatch"}
      /\ v = "mismatch" => watch.fresh /\ shown.on # watch.want
  BY <1>1 DEF Verdict
<1>4. /\ watch' \in Watches /\ watch'.step = "done" /\ watch'.want = watch.want
      /\ watch'.alone = watch.alone /\ watch'.result = v
  BY <1>2, <1>3 DEF IInv, TypesInv, Watches
<1>5. \A what : Coming(what)' = Coming(what)
  BY <1>2 DEF Coming
<1>6. TypesInv'
  BY <1>2, <1>4 DEF IInv, TypesInv
<1>7. OpInv' /\ OkInv'
  BY <1>2 DEF IInv, OpInv, OkInv, OkIsTrue
<1>8. PagesInv'
  BY <1>2, <1>5, PagesFrame DEF IInv
<1>9. BarsInv'
  BY <1>2, <1>5, BarsFrame DEF IInv
<1>10. PowerInv'
  <2>1. \A r \in Coming("on")' : r.on = device'.on \/ \E e \in armed' : r.of <= e.at
    BY <1>2, <1>5 DEF IInv, PowerInv
  <2>2. /\ op'.step = "observe" => \A e \in armed' : e.value = op'.want
        /\ op'.step = "send" /\ op'.kind = "power" => ~watch'.alone
    BY <1>2, <1>4 DEF IInv, PowerInv
  <2>3. ContradictionIsReal'
    BY <1>2, <1>3, <1>4 DEF IInv, PowerInv, ContradictionIsReal
  <2> QED
    BY <1>4, <2>1, <2>2, <2>3 DEF PowerInv
<1> QED
  BY <1>6, <1>7, <1>8, <1>9, <1>10 DEF IInv

LEMMA PollKeeps ==
    ASSUME IInv, Poll
    PROVE  IInv'
<1>1. PICK s : s = IF op.want = "power" THEN "done" ELSE op.want
  OBVIOUS
<1>2. /\ op.step = "poll" /\ link # 0 /\ Ask(PowerReply)
      /\ op' = [op EXCEPT !.step = s]
      /\ UNCHANGED <<device, shown, source, armed, book, watch>>
      /\ UNCHANGED <<link, links>>
  BY <1>1 DEF Poll, At
<1>3. /\ asked' = asked + 1 /\ wire' \subseteq Replies(links, asked')
      /\ Coming("page")' = Coming("page") /\ Coming("bars")' = Coming("bars")
      /\ \A r \in Coming("on")' : r \in Coming("on") \/ r.on = device'.on
  BY <1>2, PowerAsked
<1>4. op.kind = "poll" /\ s \in {"done", "pages", "bars"}
  <2>1. op.kind \in Kinds
    BY DEF IInv, TypesInv, Ops
  <2>2. op.kind = "poll"
    BY <1>2, <2>1 DEF IInv, OpInv, StepsOf, Kinds
  <2> QED
    BY <1>1, <2>2 DEF IInv, OpInv
<1>5. /\ op' \in Ops(links) /\ op'.kind = op.kind /\ op'.bar = op.bar
      /\ op'.want = op.want /\ op'.step = s /\ op'.result = op.result
      /\ op'.todo = op.todo
  BY <1>2, <1>4 DEF IInv, TypesInv, Ops, Steps
<1>6. TypesInv'
  BY <1>2, <1>3, <1>5 DEF IInv, TypesInv
<1>7. OpInv'
  <2>1. op'.step \in StepsOf(op'.kind)
    BY <1>4, <1>5 DEF StepsOf
  <2> QED
    BY <1>5, <2>1, GoesOn DEF IInv
<1>8. PagesInv'
  BY <1>2, <1>3, <1>4, <1>5, PagesFrame DEF IInv, Collecting
<1>9. BarsInv'
  <2>1. Coming("bars")' = {}
    BY <1>2, <1>3 DEF IInv, BarsInv, Awaiting
  <2> QED
    BY <1>4, <1>5, <2>1 DEF BarsInv, Awaiting
<1>10. PowerInv'
  <2>1. \A r \in Coming("on")' : r.on = device'.on \/ \E e \in armed' : r.of <= e.at
    BY <1>2, <1>3 DEF IInv, PowerInv
  <2>2. /\ watch'.step = "wait" /\ watch'.alone =>
             /\ \A e \in armed' : e.value = watch'.want
             /\ watch'.fresh /\ shown'.on # watch'.want => device'.on # watch'.want
        /\ watch'.result = "mismatch" => watch'.step = "done"
        /\ ContradictionIsReal'
    BY <1>2 DEF IInv, PowerInv, ContradictionIsReal
  <2> QED
    BY <1>4, <1>5, <2>1, <2>2 DEF PowerInv
<1>11. OkInv'
  BY <1>2, <1>5, GoingOn
<1> QED
  BY <1>6, <1>7, <1>8, <1>9, <1>10, <1>11 DEF IInv

-----------------------------------------------------------------------------
(* Replies are heard.                                                      *)

\* A reply that is heard is no longer on its way.
LEMMA HeardComes ==
    ASSUME TypesInv, NEW r \in wire, Heard(r), wire' = wire \ {r},
           UNCHANGED <<link, links, asked>>
    PROVE  /\ wire' \subseteq Replies(links, asked)
           /\ \A what : Coming(what)' = Coming(what) \ {r}
           /\ \A what : Tells(r, what) => r \in Coming(what)
BY DEF TypesInv, Heard, Coming

LEMMA TakePowerKeeps ==
    ASSUME IInv, NEW r \in wire, Heard(r), wire' = wire \ {r},
           UNCHANGED <<link, links, asked>>, device' = device,
           Tells(r, "on"), TakePower(r)
    PROVE  IInv'
<1>1. /\ wire' \subseteq Replies(links, asked)
      /\ \A what : Coming(what)' \subseteq Coming(what)
      /\ r \in Coming("on")
  BY HeardComes DEF IInv
<1>2. r.on \in BOOLEAN
  BY ReplyGood DEF IInv
<1>3. UNCHANGED <<source, armed, book, op>>
  BY DEF TakePower
<1>4. \/ UNCHANGED <<shown, watch>>
      \/ /\ shown' = [shown EXCEPT !.on = r.on] /\ \A e \in armed : e.value = r.on
         /\ watch' = [watch EXCEPT !.fresh = watch.step = "wait"]
  BY DEF TakePower, Accepted
<1>5. /\ shown' \in Shown /\ shown'.pages = shown.pages /\ shown'.bars = shown.bars
      /\ watch' \in Watches /\ watch'.step = watch.step /\ watch'.want = watch.want
      /\ watch'.alone = watch.alone /\ watch'.result = watch.result
      /\ \/ shown'.on = shown.on /\ watch'.fresh = watch.fresh
         \/ shown'.on = r.on /\ \A e \in armed : e.value = r.on
  <2>1. shown \in Shown /\ watch \in Watches
    BY DEF IInv, TypesInv
  <2>2. CASE UNCHANGED <<shown, watch>>
    BY <2>1, <2>2
  <2>3. CASE /\ shown' = [shown EXCEPT !.on = r.on] /\ \A e \in armed : e.value = r.on
             /\ watch' = [watch EXCEPT !.fresh = watch.step = "wait"]
    <3>1. PICK f \in BOOLEAN : f = (watch.step = "wait")
      OBVIOUS
    <3>2. watch' = [watch EXCEPT !.fresh = f]
      BY <2>3, <3>1
    <3>3. /\ watch' \in Watches /\ watch'.step = watch.step /\ watch'.want = watch.want
          /\ watch'.alone = watch.alone /\ watch'.result = watch.result
      BY <2>1, <3>2 DEF Watches
    <3>4. /\ shown' \in Shown /\ shown'.on = r.on /\ shown'.pages = shown.pages
          /\ shown'.bars = shown.bars
      BY <1>2, <2>1, <2>3 DEF Shown
    <3> QED
      BY <2>3, <3>3, <3>4
  <2> QED
    BY <1>4, <2>2, <2>3
<1>6. TypesInv'
  BY <1>1, <1>3, <1>5 DEF IInv, TypesInv
<1>7. OpInv'
  BY <1>3 DEF IInv, OpInv
<1>8. PagesInv'
  BY <1>1, <1>3, <1>5, PagesFrame DEF IInv
<1>9. BarsInv'
  BY <1>1, <1>3, <1>5, BarsFrame DEF IInv
<1>10. PowerInv'
  <2>1. \A q \in Coming("on")' : q.on = device'.on \/ \E e \in armed' : q.of <= e.at
    BY <1>1, <1>3 DEF IInv, PowerInv
  <2>2. watch'.step = "wait" /\ watch'.alone =>
           /\ \A e \in armed' : e.value = watch'.want
           /\ watch'.fresh /\ shown'.on # watch'.want => device'.on # watch'.want
    <3>1. HAVE watch'.step = "wait" /\ watch'.alone
    <3>2. \A e \in armed : e.value = watch.want
      BY <1>5, <3>1 DEF IInv, PowerInv
    <3>3. CASE shown'.on = shown.on /\ watch'.fresh = watch.fresh
      BY <1>3, <1>5, <3>1, <3>2, <3>3 DEF IInv, PowerInv
    <3>4. CASE shown'.on = r.on /\ \A e \in armed : e.value = r.on
      <4>1. r.on = device.on \/ \E e \in armed : r.of <= e.at
        BY <1>1 DEF IInv, PowerInv
      <4>2. r.on # watch.want => r.on = device.on
        BY <3>2, <3>4, <4>1
      <4> QED
        BY <1>3, <1>5, <3>2, <3>4, <4>2
    <3> QED
      BY <1>5, <3>3, <3>4
  <2>3. ContradictionIsReal'
    BY <1>5 DEF IInv, PowerInv, ContradictionIsReal
  <2>4. /\ op'.step = "observe" => \A e \in armed' : e.value = op'.want
        /\ op'.step = "send" /\ op'.kind = "power" => ~watch'.alone \/ watch'.step = "none"
        /\ watch'.result = "mismatch" => watch'.step = "done"
    BY <1>3, <1>5 DEF IInv, PowerInv
  <2> QED
    BY <2>1, <2>2, <2>3, <2>4 DEF PowerInv
<1>11. OkInv'
  BY <1>3, <1>5 DEF IInv, OkInv, OkIsTrue
<1> QED
  BY <1>6, <1>7, <1>8, <1>9, <1>10, <1>11 DEF IInv

\* A field is revised for the transaction that goes on.
LEMMA RevisedOp ==
    ASSUME TypesInv, NEW field \in {"pages", "bars"}, Revised(field)
    PROVE  /\ op' \in Ops(links) /\ op'.kind = op.kind /\ op'.step = op.step
           /\ op'.on = op.on /\ op'.want = op.want /\ op'.bar = op.bar
           /\ op'.todo = op.todo /\ op'.result = op.result
           /\ \A f : f # field => (f \in op'.fresh <=> f \in op.fresh)
<1>1. op \in Ops(links)
  BY DEF TypesInv
<1>2. CASE At("done")
  BY <1>1, <1>2 DEF Revised
<1>3. CASE ~At("done")
  <2>1. PICK fresh \in SUBSET {"pages", "bars"} : fresh = op.fresh \cup {field}
    BY <1>1 DEF Ops
  <2>2. op' = [op EXCEPT !.fresh = fresh]
    BY <1>3, <2>1 DEF Revised
  <2> QED
    BY <1>1, <2>1, <2>2 DEF Ops
<1> QED
  BY <1>2, <1>3

LEMMA TakeBarsKeeps ==
    ASSUME IInv, NEW r \in wire, Heard(r), wire' = wire \ {r},
           UNCHANGED <<link, links, asked>>, device' = device,
           Tells(r, "bars"), TakeBars(r)
    PROVE  IInv'
<1>1. /\ wire' \subseteq Replies(links, asked)
      /\ \A what : Coming(what)' = Coming(what) \ {r}
      /\ r \in Coming("bars")
  BY HeardComes DEF IInv
<1>2. /\ op.step \in Awaiting /\ op.on = link /\ r.bars = device.bars
      /\ Coming("bars")' = {}
  BY <1>1 DEF IInv, BarsInv
<1>3. /\ shown' = [shown EXCEPT !.bars = r.bars] /\ Revised("bars")
      /\ UNCHANGED <<source, armed, book, watch>>
  BY DEF TakeBars
<1>4. /\ op' \in Ops(links) /\ op'.kind = op.kind /\ op'.step = op.step
      /\ op'.on = op.on /\ op'.want = op.want /\ op'.bar = op.bar
      /\ op'.todo = op.todo /\ op'.result = op.result
  BY <1>3, RevisedOp DEF IInv
<1>5. /\ shown' \in Shown /\ shown'.bars = device.bars /\ shown'.on = shown.on
      /\ shown'.pages = shown.pages
  <2>1. shown \in Shown /\ device.bars \in [Bars -> BOOLEAN]
    BY DEF IInv, TypesInv, Device
  <2> QED
    BY <1>2, <1>3, <2>1 DEF Shown
<1>6. op.step \notin Collecting /\ op.step \notin {"done", "observe", "send"}
  BY <1>2 DEF Awaiting, Collecting
<1>7. TypesInv'
  BY <1>1, <1>3, <1>4, <1>5 DEF IInv, TypesInv
<1>8. OpInv'
  BY <1>4, GoesOn DEF IInv, OpInv
<1>9. PagesInv'
  BY <1>1, <1>3, <1>4, <1>5, <1>6, PagesFrame DEF IInv
<1>10. BarsInv'
  BY <1>2, <1>4, <1>5 DEF IInv, BarsInv
<1>11. PowerInv'
  BY <1>1, <1>3, <1>4, <1>5, <1>6, PowerFrame DEF IInv
<1>12. OkInv'
  BY <1>4, <1>6, GoingOn
<1> QED
  BY <1>7, <1>8, <1>9, <1>10, <1>11, <1>12 DEF IInv

\* A page joins those that came; the last one completes the picture.
LEMMA TakePageKeeps ==
    ASSUME IInv, NEW r \in wire, Heard(r), wire' = wire \ {r},
           UNCHANGED <<link, links, asked>>, device' = device,
           Tells(r, "page"), TakePage(r)
    PROVE  IInv'
<1>1. /\ wire' \subseteq Replies(links, asked)
      /\ \A what : Coming(what)' = Coming(what) \ {r}
      /\ r \in Coming("page")
  BY HeardComes DEF IInv
<1>2. /\ book.open /\ book.buffer # {} /\ r.page \notin book.got
      /\ r.colour = device.pages[r.page]
      /\ \A s \in Coming("page") : s.page = r.page => s = r
  BY <1>1 DEF IInv, PagesInv
<1>3. r.page \in Pages /\ r.colour \in Colours
  BY ReplyGood DEF IInv
<1>4. PICK start \in book.buffer :
         start = IF book.buffer = {} THEN shown.pages
                 ELSE CHOOSE b \in book.buffer : TRUE
  BY <1>2
<1>5. PICK buffer : buffer = [start EXCEPT ![r.page] = r.colour]
  OBVIOUS
<1>6. PICK got : got = book.got \cup {r.page}
  OBVIOUS
<1>7. /\ book \in Book /\ shown \in Shown /\ device \in Device
      /\ start \in [Pages -> Colours]
  BY <1>4 DEF IInv, TypesInv, Book
<1>8. /\ buffer \in [Pages -> Colours] /\ got \in SUBSET Pages
      /\ \A p \in got : buffer[p] = device.pages[p]
  <2>1. got \in SUBSET Pages /\ buffer \in [Pages -> Colours]
    BY <1>3, <1>5, <1>6, <1>7 DEF Book
  <2>2. \A p \in book.got : start[p] = device.pages[p]
    BY <1>4 DEF IInv, PagesInv
  <2>3. \A p \in got : buffer[p] = device.pages[p]
    BY <1>2, <1>3, <1>5, <1>6, <1>7, <2>1, <2>2
  <2> QED
    BY <2>1, <2>3
<1>9. /\ UNCHANGED <<armed, watch>>
      /\ IF got # Pages
         THEN /\ book' = [book EXCEPT !.got = got, !.buffer = {buffer}]
              /\ UNCHANGED <<shown, source, op>>
         ELSE /\ book' = [book EXCEPT !.got = {}, !.buffer = {}]
              /\ shown' = [shown EXCEPT !.pages = buffer]
              /\ source' = "observed"
              /\ Revised("pages")
  BY <1>4, <1>5, <1>6 DEF TakePage
<1>10. /\ op' \in Ops(links) /\ op'.kind = op.kind /\ op'.step = op.step
       /\ op'.on = op.on /\ op'.want = op.want /\ op'.bar = op.bar
       /\ op'.todo = op.todo /\ op'.result = op.result
       /\ "bars" \in op'.fresh <=> "bars" \in op.fresh
  <2>1. CASE op' = op
    BY <2>1 DEF IInv, TypesInv
  <2>2. CASE Revised("pages")
    BY <2>2, RevisedOp DEF IInv
  <2> QED
    BY <1>9, <2>1, <2>2
<1>11. /\ shown' \in Shown /\ shown'.on = shown.on /\ shown'.bars = shown.bars
       /\ shown'.pages = shown.pages \/ shown'.pages = device.pages
  <2>1. CASE got # Pages
    BY <1>7, <1>9, <2>1
  <2>2. CASE got = Pages
    <3>1. buffer = device.pages
      BY <1>7, <1>8, <2>2 DEF Device
    <3> QED
      BY <1>7, <1>8, <1>9, <2>2, <3>1 DEF Shown
  <2> QED
    BY <2>1, <2>2
<1>12. /\ book' \in Book
       /\ source' \in {"initial", "optimistic", "observed"}
  <2>1. CASE got # Pages
    <3>1. PICK bs \in SUBSET [Pages -> Colours] : bs = {buffer}
      BY <1>8
    <3>2. book' = [book EXCEPT !.got = got, !.buffer = bs] /\ source' = source
      BY <1>9, <2>1, <3>1
    <3> QED
      BY <1>7, <1>8, <3>2 DEF Book, IInv, TypesInv
  <2>2. CASE got = Pages
    BY <1>7, <1>9, <2>2 DEF Book
  <2> QED
    BY <2>1, <2>2
<1>13. TypesInv'
  BY <1>1, <1>9, <1>10, <1>11, <1>12 DEF IInv, TypesInv
<1>14. OpInv'
  BY <1>10, GoesOn DEF IInv, OpInv
<1>15. PagesInv'
  <2>1. \A s \in Coming("page")' :
           /\ s \in Coming("page") /\ s.page # r.page /\ s.page \in Pages
           /\ s.page \notin book.got /\ s.colour = device.pages[s.page]
           /\ \A q \in Coming("page")' : q.page = s.page => q = s
    <3>1. TAKE s \in Coming("page")'
    <3>2. s \in Coming("page") /\ s # r /\ s \in wire /\ Tells(s, "page")
      BY <1>1 DEF Coming
    <3>3. s.page \in Pages
      BY <3>2, ReplyGood DEF IInv
    <3> QED
      BY <1>1, <1>2, <3>2, <3>3 DEF IInv, PagesInv
  <2>2. op'.step \in Collecting => op'.on # 0
    BY <1>10 DEF IInv, PagesInv
  <2>3. CASE got # Pages
    <3>1. /\ book'.open = book.open /\ book'.got = got /\ book'.buffer = {buffer}
          /\ UNCHANGED <<shown, source, op>>
      BY <1>7, <1>9, <2>3 DEF Book
    <3>2. \A s \in Coming("page")' :
            /\ book'.open /\ book'.buffer # {} /\ s.page \notin book'.got
            /\ s.colour = device'.pages[s.page]
            /\ \A q \in Coming("page")' : q.page = s.page => q = s
      BY <1>2, <1>6, <2>1, <3>1
    <3>3. \A b \in book'.buffer : \A p \in book'.got : b[p] = device'.pages[p]
      BY <1>8, <3>1
    <3>4. ~(op'.step \in Collecting /\ AllCame')
      BY <1>2, <3>1 DEF IInv, PagesInv, AllCame
    <3>5. PicturesAreWhole'
      BY <3>1 DEF IInv, PagesInv, PicturesAreWhole
    <3> QED
      BY <1>2, <2>2, <3>1, <3>2, <3>3, <3>4, <3>5 DEF PagesInv
  <2>4. CASE got = Pages
    <3>1. /\ book'.open = book.open /\ book'.buffer = {} /\ source' = "observed"
          /\ shown'.pages = buffer
      BY <1>7, <1>9, <2>4 DEF Book, Shown
    <3>2. Coming("page")' = {}
      BY <1>6, <2>1, <2>4
    <3>3. PicturesAreWhole'
      <4>1. buffer = device.pages
        BY <1>7, <1>8, <2>4 DEF Device
      <4> QED
        BY <3>1, <4>1 DEF PicturesAreWhole
    <3> QED
      BY <2>2, <3>1, <3>2, <3>3 DEF PagesInv
  <2> QED
    BY <2>3, <2>4
<1>16. BarsInv'
  BY <1>1, <1>10, <1>11, BarsFrame DEF IInv
<1>17. PowerInv'
  BY <1>1, <1>9, <1>10, <1>11, PowerFrame DEF IInv
<1>18. OkInv'
  BY <1>10, <1>11 DEF IInv, OkInv, OkIsTrue
<1> QED
  BY <1>13, <1>14, <1>15, <1>16, <1>17, <1>18 DEF IInv

LEMMA DeliverKeeps ==
    ASSUME IInv, NEW r \in wire, Deliver(r)
    PROVE  IInv'
<1>1. /\ Heard(r) /\ wire' = wire \ {r} /\ UNCHANGED <<link, links, asked>>
      /\ device' = device
  BY DEF Deliver
<1>2. CASE Tells(r, "on") /\ TakePower(r)
  BY <1>1, <1>2, TakePowerKeeps
<1>3. CASE Tells(r, "bars") /\ TakeBars(r)
  BY <1>1, <1>3, TakeBarsKeeps
<1>4. CASE Tells(r, "page") /\ TakePage(r)
  BY <1>1, <1>4, TakePageKeeps
<1> QED
  BY <1>2, <1>3, <1>4 DEF Deliver

-----------------------------------------------------------------------------
(* Links come and go, and expectations pass.                               *)

\* With nothing expected any more, all that may still come is younger.
LEMMA ExpireKeeps ==
    ASSUME IInv, Expire
    PROVE  IInv'
<1>1. /\ armed # {} /\ armed' = {} /\ UNCHANGED <<device, shown, source, book, op, watch>>
      /\ UNCHANGED <<link, links, asked, wire>>
  BY DEF Expire, wires
<1>2. \A what : Coming(what)' = Coming(what)
  BY <1>1 DEF Coming
<1>3. TypesInv'
  BY <1>1 DEF IInv, TypesInv
<1>4. OpInv' /\ OkInv'
  BY <1>1 DEF IInv, OpInv, OkInv, OkIsTrue
<1>5. PagesInv'
  BY <1>1, <1>2, PagesFrame DEF IInv
<1>6. BarsInv'
  BY <1>1, <1>2, BarsFrame DEF IInv
<1>7. PowerInv'
  <2>1. \A r \in Coming("on") : r.on = device.on
    <3>1. TAKE r \in Coming("on")
    <3>2. r \in wire /\ r.link = link /\ Tells(r, "on")
      BY DEF Coming
    <3>3. \A e \in armed : r.of > e.at /\ r.of \in Nat /\ e.at \in Nat
      BY <3>2, ReplyGood DEF Expire, IInv, TypesInv
    <3>4. \A e \in armed : ~(r.of <= e.at)
      BY <3>3
    <3> QED
      BY <3>4 DEF IInv, PowerInv
  <2>2. \A r \in Coming("on")' : r.on = device'.on
    BY <1>1, <1>2, <2>1
  <2>3. ContradictionIsReal'
    BY <1>1 DEF IInv, PowerInv, ContradictionIsReal
  <2>4. /\ op'.step = "send" /\ op'.kind = "power" => ~watch'.alone \/ watch'.step = "none"
        /\ watch'.step = "wait" /\ watch'.alone =>
             (watch'.fresh /\ shown'.on # watch'.want => device'.on # watch'.want)
        /\ watch'.result = "mismatch" => watch'.step = "done"
    BY <1>1 DEF IInv, PowerInv
  <2> QED
    BY <1>1, <2>2, <2>3, <2>4 DEF PowerInv
<1> QED
  BY <1>3, <1>4, <1>5, <1>6, <1>7 DEF IInv

LEMMA DropKeeps ==
    ASSUME IInv, Drop
    PROVE  IInv'
<1>1. /\ link' = 0 /\ armed' = {} /\ book' = Closed
      /\ shown' = [shown EXCEPT !.bars = None]
      /\ UNCHANGED <<device, source, op, watch>> /\ UNCHANGED <<links, asked, wire>>
  BY DEF Drop, Cleared
<1>2. \A what : Coming(what)' = {}
  BY <1>1, ClearedComes DEF IInv
<1>3. Closed \in Book /\ Closed.buffer = {}
  BY DEF Closed, Book
<1>4. shown' \in Shown /\ shown'.on = shown.on /\ shown'.pages = shown.pages
  BY <1>1 DEF IInv, TypesInv, Shown
<1>5. TypesInv'
  BY <1>1, <1>3, <1>4 DEF IInv, TypesInv
<1>6. OpInv'
  BY <1>1 DEF IInv, OpInv
<1>7. OkInv'
  BY <1>1, <1>4 DEF IInv, OkInv, OkIsTrue
<1>8. PagesInv'
  BY <1>1, <1>2, <1>3, <1>4, PagesFrame DEF IInv
<1>9. BarsInv'
  BY <1>1, <1>2, BarsFrame DEF IInv
<1>10. PowerInv'
  BY <1>1, <1>2, <1>4, PowerFrame DEF IInv
<1> QED
  BY <1>5, <1>6, <1>7, <1>8, <1>9, <1>10 DEF IInv

\* A link that is given up for another: nothing comes on it any more.
LEMMA RelinkKeeps ==
    ASSUME IInv, Relink
    PROVE  IInv'
<1>1. /\ link' = 0 /\ armed' = {} /\ book' = Closed
      /\ UNCHANGED <<device, shown, source, op, watch>>
      /\ UNCHANGED <<links, asked, wire>>
      /\ op.step \in {"send", "bar", "refresh", "reconcile"}
  BY DEF Relink, Linking, Cleared
<1>2. \A what : Coming(what)' = {}
  BY <1>1, ClearedComes DEF IInv
<1>3. Closed \in Book /\ Closed.buffer = {}
  BY DEF Closed, Book
<1>4. TypesInv'
  BY <1>1, <1>3 DEF IInv, TypesInv
<1>5. OpInv' /\ OkInv'
  BY <1>1 DEF IInv, OpInv, OkInv, OkIsTrue
<1>6. PagesInv'
  BY <1>1, <1>2, <1>3, PagesFrame DEF IInv
<1>7. BarsInv'
  BY <1>1, <1>2, BarsFrame DEF IInv
<1>8. PowerInv'
  BY <1>1, <1>2, PowerFrame DEF IInv
<1> QED
  BY <1>4, <1>5, <1>6, <1>7, <1>8 DEF IInv

LEMMA ConnectKeeps ==
    ASSUME IInv, Connect
    PROVE  IInv'
<1>1. /\ op.step \in {"send", "bar", "refresh", "reconcile"}
      /\ link' = links + 1 /\ links' = links + 1
      /\ UNCHANGED <<device, shown, source, armed, book, op, watch>>
      /\ UNCHANGED <<asked, wire>>
  BY DEF Connect, Linking
<1>2. links \in Nat /\ links' \in Nat \ {0} /\ link' \notin 1 .. links
  BY <1>1 DEF IInv, TypesInv
<1>3. \A what : Coming(what)' = {}
  BY <1>1, <1>2, NothingComes DEF IInv
<1>4. op \in Ops(links') /\ wire \subseteq Replies(links', asked)
  <2>1. 0 .. links \subseteq 0 .. links' /\ 1 .. links \subseteq 1 .. links'
    BY <1>1, <1>2
  <2>2. Ops(links) \subseteq Ops(links')
    BY <2>1 DEF Ops
  <2>3. Replies(links, asked) \subseteq Replies(links', asked)
    BY <2>1 DEF Replies
  <2> QED
    BY <2>2, <2>3 DEF IInv, TypesInv
<1>5. TypesInv'
  BY <1>1, <1>2, <1>4 DEF IInv, TypesInv
<1>6. OpInv' /\ OkInv'
  BY <1>1 DEF IInv, OpInv, OkInv, OkIsTrue
<1>7. PagesInv'
  BY <1>1, <1>3, PagesFrame DEF IInv, Collecting
<1>8. BarsInv'
  BY <1>1, <1>3 DEF BarsInv, Awaiting
<1>9. PowerInv'
  BY <1>1, <1>3, PowerFrame DEF IInv
<1> QED
  BY <1>5, <1>6, <1>7, <1>8, <1>9 DEF IInv

-----------------------------------------------------------------------------
LEMMA InitGood == Init => IInv
<1> SUFFICES ASSUME Init PROVE IInv
  OBVIOUS
<1>1. PICK on \in BOOLEAN, c \in Colours :
         /\ device = [on |-> on, bars |-> [b \in Bars |-> TRUE],
                      pages |-> [p \in Pages |-> c]]
         /\ shown = [on |-> FALSE, bars |-> None, pages |-> [p \in Pages |-> c]]
  BY DEF Init
<1>2. /\ source = "initial" /\ armed = {} /\ book = Closed /\ link = 1 /\ links = 1
      /\ asked = 0 /\ wire = {} /\ op = Idle /\ watch = Unwatched
  BY DEF Init
<1>3. device \in Device /\ shown \in Shown
  <2>1. PICK t \in BOOLEAN, f \in BOOLEAN : t /\ ~f
    OBVIOUS
  <2>2. device = [on |-> on, bars |-> [b \in Bars |-> t], pages |-> [p \in Pages |-> c]]
    BY <1>1, <2>1
  <2>3. shown = [on |-> f, bars |-> None, pages |-> [p \in Pages |-> c]]
    BY <1>1, <2>1
  <2> QED
    BY <2>2, <2>3 DEF Device, Shown
<1>4. Closed \in Book /\ Closed.buffer = {}
  BY DEF Closed, Book
<1>5. /\ op \in Ops(links) /\ op.kind = "none" /\ op.step = "done" /\ op.result = None
  BY <1>2, IdleGood
<1>6. watch \in Watches /\ watch.step = "none" /\ watch.result = None
  BY <1>2, UnwatchedGood
<1>7. \A what : Coming(what) = {}
  BY <1>2 DEF Coming
<1>8. TypesInv
  <2>1. wire \subseteq Replies(links, asked)
    BY <1>2
  <2> QED
    BY <1>2, <1>3, <1>4, <1>5, <1>6, <2>1 DEF TypesInv
<1>9. OpInv
  BY <1>5 DEF OpInv, StepsOf
<1>10. PagesInv
  <2>1. source # "observed" /\ book.buffer = {}
    BY <1>2, <1>4
  <2> QED
    BY <1>5, <1>7, <2>1 DEF PagesInv, Collecting, PicturesAreWhole
<1>11. BarsInv
  BY <1>5, <1>7 DEF BarsInv, Awaiting
<1>12. PowerInv
  BY <1>2, <1>5, <1>6, <1>7 DEF PowerInv, ContradictionIsReal, None
<1>13. OkInv
  BY <1>5 DEF OkInv, OkIsTrue, None
<1> QED
  BY <1>8, <1>9, <1>10, <1>11, <1>12, <1>13 DEF IInv

LEMMA CommandsKeep ==
    ASSUME IInv, Commands
    PROVE  IInv'
<1>1. ASSUME \E p \in op.todo : Send(p) \/ SendRaises(p)
      PROVE  IInv'
  BY <1>1, SendKeeps, SendRaisesKeeps
<1>2. ASSUME \E ps \in SUBSET Pages : Refresh(ps) \/ PollPages(ps)
      PROVE  IInv'
  BY <1>2, RefreshKeeps, PollPagesKeeps
<1> QED
  BY <1>1, <1>2, ConnectKeeps, ConnectFailsKeeps, RelinkKeeps,
     ConfirmKeeps, ConfirmTimesOutKeeps, BarReadsKeeps,
     BarsUnreadKeeps, WriteBarKeeps, WriteBarFailsKeeps, BarEchoedKeeps
  DEF Commands

\* Nothing has happened.
LEMMA StutterKeeps ==
    ASSUME IInv, UNCHANGED vars
    PROVE  IInv'
<1>1. /\ UNCHANGED <<device, shown, source, armed, book, op, watch>>
      /\ UNCHANGED <<link, links, asked, wire>>
  BY DEF vars, wires
<1>2. \A what : Coming(what)' = Coming(what)
  BY <1>1 DEF Coming
<1>3. TypesInv' /\ OpInv' /\ OkInv'
  BY <1>1 DEF IInv, TypesInv, OpInv, OkInv, OkIsTrue
<1>4. PagesInv'
  BY <1>1, <1>2, PagesFrame DEF IInv
<1>5. BarsInv'
  BY <1>1, <1>2, BarsFrame DEF IInv
<1>6. PowerInv'
  BY <1>1, <1>2, PowerFrame DEF IInv
<1> QED
  BY <1>3, <1>4, <1>5, <1>6 DEF IInv

LEMMA StepKeeps == IInv /\ [Next]_vars => IInv'
<1> SUFFICES ASSUME IInv, [Next]_vars PROVE IInv'
  OBVIOUS
<1>1. CASE Transactions
  BY <1>1, TransactionsKeep
<1>2. CASE Commands
  BY <1>2, CommandsKeep
<1>3. CASE Reads
  BY <1>3, ObserveNothingKeeps, ObserveKeeps, ObserveEndsKeeps, PollRefusedKeeps,
     PollKeeps, PollBarsKeeps, PollEndsKeeps DEF Reads
<1>4. CASE World
  BY <1>4, DropKeeps, ExpireKeeps, DeliverKeeps DEF World
<1>5. CASE UNCHANGED vars
  BY <1>5, StutterKeeps
<1> QED
  BY <1>1, <1>2, <1>3, <1>4, <1>5 DEF Next

THEOREM Invariant == Spec => []IInv
BY InitGood, StepKeeps, PTL DEF Spec

THEOREM OkIsAlwaysTrue == Spec => []OkIsTrue
<1>1. IInv => OkIsTrue
  BY DEF IInv, OkInv
<1> QED
  BY <1>1, Invariant, PTL

THEOREM PicturesAreAlwaysWhole == Spec => []PicturesAreWhole
<1>1. IInv => PicturesAreWhole
  BY DEF IInv, PagesInv
<1> QED
  BY <1>1, Invariant, PTL

THEOREM ContradictionIsAlwaysReal == Spec => []ContradictionIsReal
<1>1. IInv => ContradictionIsReal
  BY DEF IInv, PowerInv
<1> QED
  BY <1>1, Invariant, PTL

SiblingStep == \A bar \in Bars : device'.bars[bar] # device.bars[bar] => bar = op.bar

LEMMA SiblingStepKept == IInv /\ [Next]_vars => [SiblingStep]_vars
<1> SUFFICES ASSUME IInv, [Next]_vars PROVE SiblingStep
  OBVIOUS
<1>1. CASE device'.bars = device.bars
  BY <1>1 DEF SiblingStep
<1>2. CASE At("sibling") /\ BarsRead /\ device' = [device EXCEPT !.bars = Mask]
  <2>1. \A bar \in Bars : bar # op.bar => Mask[bar] = device.bars[bar]
    BY <1>2, MaskGood
  <2>2. device'.bars = Mask
    BY <1>2, MaskedDevice
  <2> QED
    BY <2>1, <2>2 DEF SiblingStep
<1>3. ASSUME NEW p \in op.todo, Send(p) \/ SendRaises(p)
      PROVE  device'.bars = device.bars
  <2>1. device' \in {device, Set(device, p)} /\ At("send")
    BY <1>3 DEF Send, SendRaises
  <2>2. device \in Device
    BY DEF IInv, TypesInv
  <2>3. Set(device, p).bars = device.bars
    BY <2>2 DEF Set, Device
  <2> QED
    BY <2>1, <2>3
<1>4. WriteBar \/ WriteBarFails =>
         \/ device' = device
         \/ At("sibling") /\ BarsRead /\ device' = [device EXCEPT !.bars = Mask]
  BY DEF WriteBar, WriteBarFails
<1>5. Transactions => device' = device
  BY DEF Transactions, BeginPower, BeginPaint, BeginRefresh, BeginBar, BeginObserve,
         BeginPoll, Begin
<1>6. Reads => device' = device
  BY DEF Reads, ObserveNothing, ObserveAsks, ObserveEnds, PollRefused, Poll, PollBars,
         ReadBars, PollEnds
<1>7. World => device' = device
  BY DEF World, Drop, Expire, Deliver
<1>8. Commands =>
         \/ device' = device
         \/ WriteBar \/ WriteBarFails
         \/ \E p \in op.todo : Send(p) \/ SendRaises(p)
  BY DEF Commands, Connect, ConnectFails, Relink, Refresh, PollPages, AskPages,
         Confirm, ConfirmTimesOut, BarReads, ReadBars, BarsUnread,
         BarEchoed
<1>9. CASE UNCHANGED vars
  BY <1>1, <1>9 DEF vars
<1> QED
  BY <1>1, <1>2, <1>3, <1>4, <1>5, <1>6, <1>7, <1>8, <1>9 DEF Next

THEOREM SiblingIsKept == Spec => SiblingKept
<1>1. [SiblingStep]_vars <=>
      [\A bar \in Bars : device'.bars[bar] # device.bars[bar] => bar = op.bar]_vars
  BY DEF SiblingStep
<1> QED
  BY <1>1, Invariant, SiblingStepKept, PTL DEF Spec, SiblingKept

(***************************************************************************)
(* The transactions of the coordinator, for any bars, pages and colours:   *)
(* whatever is lost, fails or comes late, what it shows and what it still  *)
(* collects have the shape of what the device has, an expectation is a     *)
(* power with the question it was armed at, and a reply on its way is of a *)
(* subscription that was made and of a question that was asked.            *)
(***************************************************************************)
THEOREM ReadbackTypes == Spec => []TypeOK
<1>1. TypesInv => TypeOK
  <2> SUFFICES ASSUME TypesInv PROVE TypeOK
    OBVIOUS
  <2>1. device \in Device /\ shown \in Shown /\ book \in Book
    BY DEF TypesInv
  <2>2. \A r \in wire : r.link \in 1 .. links /\ r.of \in 1 .. asked
    BY DEF TypesInv, Replies
  <2>3. op.try \in 1 .. SendTries
    BY DEF TypesInv, Ops
  <2> QED
    BY <2>1, <2>2, <2>3 DEF TypesInv, Device, Shown, Book, TypeOK
<1> QED
  BY <1>1, Invariant, PTL DEF IInv

=============================================================================
