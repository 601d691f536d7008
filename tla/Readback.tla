------------------------------- MODULE Readback -------------------------------
(***************************************************************************)
(* The control transactions of GoveeBLECoordinator and what replies make   *)
(* of its picture of the device: commands with the window in which they    *)
(* are expected to be echoed, the paged query of the segments, the setting *)
(* of one bar next to its sibling, read-backs, and the keep-alive poll.    *)
(*                                                                         *)
(* Replies carry no query id: one that is late is told from an answer only *)
(* by the subscription it came on, by the expectation it contradicts, and  *)
(* by links that are given up once a query on them was abandoned.  One     *)
(* transaction runs at a time (ControlArbiter); links are made and lost as *)
(* in Connection.  A revision of a field beyond a baseline is its presence *)
(* in a set of fresh fields.  Only these transactions change the device.   *)
(***************************************************************************)
EXTENDS Naturals, FiniteSets

CONSTANTS
    Bars,            \* the two bars that are enabled by one register
    Pages, Colours,  \* the pages a segment query reads, and what they show
    SendTries,       \* tries of send_command
    MaxOps,          \* bound: transactions
    MaxFaults,       \* bound: writes that fail or that the device ignores
    MaxDrops         \* bound: links lost

ASSUME ReadbackAssumption ==
    /\ Cardinality(Bars) = 2 /\ SendTries \in Nat \ {0}
    /\ "power" \notin Pages
    /\ MaxOps \in Nat /\ MaxFaults \in Nat /\ MaxDrops \in Nat

VARIABLES
    device,   \* the truth: [on, bars, pages]
    link,     \* the subscription in use, 0 for none
    links,    \* how many there have been
    asked,    \* how many queries have been sent
    wire,     \* replies on their way
    shown,    \* what the coordinator takes the device to be
    source,   \* segment_state_source
    armed,    \* _expected_state of is_on
    book,     \* the segment query: _segment_query_incomplete, pages so far
    op,       \* the transaction
    watch,    \* an observation, whose wait is outside every transaction
    ops, faults, drops     \* counted against the bounds

bounds == <<ops, faults, drops>>
wires == <<link, links, asked, wire>>
vars == <<device, wires, shown, source, armed, book, op, watch, bounds>>

None == "none"

Closed == [open |-> FALSE, got |-> {}, buffer |-> {}]

Idle == [kind |-> "none", step |-> "done", bar |-> None, want |-> None,
         sibling |-> None, todo |-> {}, try |-> 1, on |-> 0, fresh |-> {},
         wrote |-> FALSE, result |-> None]

Unwatched == [step |-> "none", want |-> None, fresh |-> FALSE,
              alone |-> TRUE, result |-> None]

\* The device is linked, as set-up leaves it, with both bars on and of one colour.
Init ==
    /\ \E on \in BOOLEAN, c \in Colours :
          /\ device = [on |-> on, bars |-> [b \in Bars |-> TRUE],
                       pages |-> [p \in Pages |-> c]]
          /\ shown = [on |-> FALSE, bars |-> None,
                      pages |-> [p \in Pages |-> c]]
    /\ source = "initial" /\ armed = {} /\ book = Closed
    /\ link = 1 /\ links = 1 /\ asked = 0 /\ wire = {}
    /\ op = Idle /\ watch = Unwatched /\ ops = 0 /\ faults = 0 /\ drops = 0

Sibling(bar) == CHOOSE b \in Bars : b # bar

At(step) == op.step = step

\* A transaction ends.
Done(result) ==
    op' = [Idle EXCEPT !.kind = op.kind, !.bar = op.bar, !.want = op.want,
                       !.result = result]

Fault == faults < MaxFaults /\ faults' = faults + 1

-----------------------------------------------------------------------------
(* Links.                                                                  *)

\* _clear_client_state: nothing that was expected or asked on this link counts.
Cleared ==
    /\ link' = 0
    /\ armed' = {}
    /\ book' = Closed
    /\ UNCHANGED <<links, asked, wire>>

\* A link is lost; one that is given up keeps the settings that were read.
Drop ==
    /\ link # 0 /\ drops < MaxDrops /\ drops' = drops + 1
    /\ Cleared
    /\ shown' = [shown EXCEPT !.bars = None]
    /\ UNCHANGED <<device, source, op, watch, ops, faults>>

\* The steps that begin with _ensure_connected: a packet, the first read of the
\* bars, the pages that confirm or reconcile.
Linking == op.step \in {"send", "bar", "refresh", "reconcile"}

\* A link whose query of the segments was abandoned, or one that has said
\* nothing for too long, is given up for another; the transaction goes on there
\* (test_abandoned_batch_requires_new_connection).
Relink ==
    /\ Linking /\ link # 0
    /\ \/ book.open /\ UNCHANGED drops
       \/ ~book.open /\ drops < MaxDrops /\ drops' = drops + 1
    /\ Cleared
    /\ UNCHANGED <<device, shown, source, op, watch, ops, faults>>

Connect ==
    /\ Linking /\ link = 0
    /\ link' = links + 1 /\ links' = links + 1
    /\ UNCHANGED <<device, asked, wire, shown, source, armed, book, op, watch,
                   bounds>>

-----------------------------------------------------------------------------
(* Transactions begin when the control is free.                            *)

Begin(kind, step, bar, want, todo) ==
    /\ At("done") /\ ops < MaxOps /\ ops' = ops + 1
    /\ op' = [Idle EXCEPT !.kind = kind, !.step = step, !.bar = bar,
                          !.want = want, !.todo = todo, !.on = link]
    /\ watch' = IF kind \in {"observe", "poll", "refresh"} THEN watch
                ELSE IF watch.step = "wait" THEN [watch EXCEPT !.alone = FALSE]
                ELSE Unwatched
    /\ UNCHANGED <<device, wires, shown, source, armed, book, faults, drops>>

\* async_turn_on, async_turn_off and every other control of one packet.
BeginPower(on) == Begin("power", "send", None, on, {"power"})

\* async_paint_segments, a group of segments being what one page shows.
BeginPaint(want) == Begin("paint", "send", None, want, DOMAIN want)

\* async_refresh_segments by itself, before a snapshot of the device is taken.
BeginRefresh == Begin("refresh", "refresh", None, [p \in {} |-> None], {})

BeginBar(bar, enabled) == Begin("bar", "bar", bar, enabled, {})

\* async_observe_effect; its callers observe what they have written.
BeginObserve(on) ==
    /\ watch.step # "wait"
    /\ \A e \in armed : e.value = on
    /\ Begin("observe", "observe", None, on, {})

\* _keep_alive_loop; what it reads besides the power is optional.
BeginPoll(what) == link # 0 /\ Begin("poll", "poll", None, what, {})

-----------------------------------------------------------------------------
(* Queries and their replies.                                              *)

PowerReply == {[link |-> link, of |-> asked + 1, on |-> device.on]}
BarsReply == {[link |-> link, of |-> asked + 1, bars |-> device.bars]}
PageReplies(ps) ==
    {[link |-> link, of |-> asked + 1, page |-> p, colour |-> device.pages[p]] :
        p \in ps}

Tells(r, what) == what \in DOMAIN r

\* A revision of a field, for the transaction that waits for one.
Revised(field) ==
    op' = IF At("done") THEN op ELSE [op EXCEPT !.fresh = @ \cup {field}]

\* What was asked is answered sometime, or never.
Ask(replies) == asked' = asked + 1 /\ wire' = wire \cup replies

\* _accept_expected: within its window an expectation outranks a reply.
Accepted(value) == \A e \in armed : e.value = value

TakePower(r) ==
    /\ IF Accepted(r.on)
       THEN /\ shown' = [shown EXCEPT !.on = r.on]
            /\ watch' = [watch EXCEPT !.fresh = watch.step = "wait"]
       ELSE UNCHANGED <<shown, watch>>
    /\ UNCHANGED <<source, armed, book, op>>

\* parse_boolean_control: nothing is expected of the bars in this way.
TakeBars(r) ==
    /\ shown' = [shown EXCEPT !.bars = r.bars]
    /\ Revised("bars")
    /\ UNCHANGED <<source, armed, book, watch>>

\* _apply_segment_group: the picture changes once every page is there.
TakePage(r) ==
    LET start == IF book.buffer = {} THEN shown.pages
                 ELSE CHOOSE b \in book.buffer : TRUE
        buffer == [start EXCEPT ![r.page] = r.colour]
        got == book.got \cup {r.page}
    IN  /\ IF got # Pages
           THEN /\ book' = [book EXCEPT !.got = got, !.buffer = {buffer}]
                /\ UNCHANGED <<shown, source, op>>
           ELSE /\ book' = [book EXCEPT !.got = {}, !.buffer = {}]
                /\ shown' = [shown EXCEPT !.pages = buffer]
                /\ source' = "observed"
                /\ Revised("pages")
        /\ UNCHANGED <<armed, watch>>

\* Fault: any subscription is listened to.
HeardAny(r) == link # 0 /\ r.link > 0

\* receive, the closure of _start_notify, hears its own subscription only.
Heard(r) == link # 0 /\ r.link = link

Deliver(r) ==
    /\ r \in wire /\ Heard(r)
    /\ wire' = wire \ {r}
    /\ \/ Tells(r, "on") /\ TakePower(r)
       \/ Tells(r, "bars") /\ TakeBars(r)
       \/ Tells(r, "page") /\ TakePage(r)
    /\ UNCHANGED <<device, link, links, asked, bounds>>

\* EXPECTED_STATE_TTL has passed.  A reply that arrives at all is younger.
Expire ==
    /\ armed # {}
    /\ \A r \in wire, e \in armed :
          r.link = link /\ Tells(r, "on") => r.of > e.at
    /\ armed' = {}
    /\ UNCHANGED <<device, wires, shown, source, book, op, watch, bounds>>

-----------------------------------------------------------------------------
(* send_command: a packet, on as many links as it takes.                   *)

\* A try has failed.  After the last one a paint that wrote anything reads back.
GiveUp(wrote) ==
    LET last == op.try = SendTries
    IN  op' = [op EXCEPT
                 !.try = IF last THEN @ ELSE @ + 1,
                 !.wrote = wrote,
                 !.result = IF last THEN "raised" ELSE None,
                 !.step = IF ~last THEN "send"
                          ELSE IF op.kind = "paint" /\ wrote THEN "reconcile"
                          ELSE "done"]

\* The packet, as it is shown and as the device obeys it.
Set(state, p) ==
    IF p = "power" THEN [state EXCEPT !.on = op.want]
    ELSE [state EXCEPT !.pages[p] = op.want[p]]

\* What is shown is changed, and the echo expected, before the packet is sent.
Installed(p) ==
    /\ shown' = Set(shown, p)
    /\ source' = IF p = "power" THEN source ELSE "optimistic"

\* The packet reaches the device, or the device does nothing with it.
Send(p) ==
    /\ At("send") /\ link # 0 /\ ~book.open /\ p \in op.todo
    /\ Installed(p)
    /\ armed' = IF p = "power" THEN {[value |-> op.want, at |-> asked]} ELSE armed
    /\ \/ device' = Set(device, p) /\ UNCHANGED faults
       \/ Fault /\ UNCHANGED device
    /\ op' = [op EXCEPT !.todo = @ \ {p}, !.try = 1, !.wrote = p # "power",
                        !.step = IF op.todo # {p} THEN "send"
                                 ELSE IF p = "power" THEN "done" ELSE "refresh"]
    /\ UNCHANGED <<wires, book, watch, ops, drops>>

\* The write raises, with the packet on the device or not; the link goes.
SendRaises(p) ==
    /\ At("send") /\ link # 0 /\ ~book.open /\ p \in op.todo
    /\ Fault
    /\ Installed(p) /\ device' \in {device, Set(device, p)}
    /\ Cleared /\ GiveUp(TRUE)
    /\ UNCHANGED <<watch, ops, drops>>

\* No link is made, or it goes before it is used: a try for send_command, the
\* end of anything else.
ConnectFails ==
    /\ Linking /\ link = 0
    /\ \/ Fault /\ UNCHANGED drops
       \/ drops < MaxDrops /\ drops' = drops + 1 /\ UNCHANGED faults
    /\ IF At("send") THEN GiveUp(op.wrote) ELSE Done("raised")
    /\ UNCHANGED <<device, wires, shown, source, armed, book, watch, ops>>

-----------------------------------------------------------------------------
(* _send_state_queries with the pages of the segments.                     *)

\* Fault: a link on which pages were asked for is used on, whatever came.
AskedForgotten == [open |-> FALSE, got |-> {}, buffer |-> {shown.pages}]

\* From the first page on the link is unusable for control, until all came.
AskedPages == [open |-> TRUE, got |-> {}, buffer |-> {shown.pages}]

\* The pages are asked for; a fault or the deadline may cut that short.
AskPages(ps, next) ==
    /\ link # 0 /\ ~book.open /\ ps # {}
    /\ IF ps = Pages THEN UNCHANGED faults ELSE Fault
    /\ Ask(PageReplies(ps))
    /\ book' = AskedPages
    /\ op' = [op EXCEPT !.step = next, !.on = link, !.fresh = {}]
    /\ UNCHANGED <<device, link, links, shown, source, armed, watch, ops, drops>>

\* async_refresh_segments, to confirm a paint or to reconcile a failed one.
Refresh(ps) ==
    \/ At("refresh") /\ AskPages(ps, "confirm")
    \/ At("reconcile") /\ AskPages(ps, "reconciling")

\* Fault: what is shown is compared, whether it was read back or not.
NoneAwaited == link = op.on

AllCame == link = op.on /\ "pages" \in op.fresh

\* _async_paint_segments compares what it read with what it wrote.
Painted == AllCame /\ \A p \in DOMAIN op.want : shown.pages[p] = op.want[p]

\* The deadline may pass as the last page comes.
Confirm ==
    /\ op.step \in {"confirm", "reconciling"} /\ AllCame
    /\ \E inTime \in BOOLEAN :
          /\ book' = [book EXCEPT !.open = ~inTime]
          /\ Done(IF At("confirm") /\ inTime /\ Painted THEN "ok" ELSE "raised")
    /\ UNCHANGED <<device, wires, shown, source, armed, watch, bounds>>

\* The deadline passes, or the link went: what came so far may yet complete.
ConfirmTimesOut ==
    /\ op.step \in {"confirm", "reconciling"} /\ ~AllCame
    /\ Done("raised")
    /\ UNCHANGED <<device, wires, shown, source, armed, book, watch, bounds>>

-----------------------------------------------------------------------------
(* _async_set_bar_control: one bar, its sibling written as it was read.    *)

\* _async_read_setting_fields of both bars.
ReadBars(from, to) ==
    /\ At(from) /\ link # 0
    /\ Ask(BarsReply)
    /\ op' = [op EXCEPT !.step = to, !.on = link, !.fresh = {}]
    /\ UNCHANGED <<device, link, links, shown, source, armed, book, watch, bounds>>

BarsRead == "bars" \in op.fresh /\ link = op.on

\* Fault: a read of the bars that got no answer keeps its link.
AbandonedKept == UNCHANGED <<wires, armed, book>>

\* A late reply cannot qualify another read: the link is given up.
Abandoned == IF link = op.on THEN Cleared ELSE UNCHANGED <<wires, armed, book>>

\* What was asked did not come in time.
BarsUnread ==
    /\ op.step \in {"sibling", "echo", "polling"} /\ ~BarsRead
    /\ Abandoned
    /\ Done("raised")
    /\ UNCHANGED <<device, shown, source, watch, bounds>>

BarReads ==
    \/ ~book.open /\ ReadBars("bar", "sibling")
    \/ ReadBars("written", "echo")

\* The register as it is written: the bar as wanted, the sibling as shown.
Mask == [shown.bars EXCEPT ![op.bar] = op.want]

WriteBar ==
    /\ At("sibling") /\ BarsRead /\ ~book.open
    /\ \/ device' = [device EXCEPT !.bars = Mask] /\ UNCHANGED faults
       \/ Fault /\ UNCHANGED device
    /\ op' = [op EXCEPT !.step = "written", !.wrote = TRUE,
                        !.sibling = shown.bars[Sibling(op.bar)]]
    /\ UNCHANGED <<wires, shown, source, armed, book, watch, ops, drops>>

\* The write raises, or the link is another; it is not repeated.
WriteBarFails ==
    /\ \/ /\ At("sibling") /\ BarsRead /\ ~book.open /\ Fault
          /\ device' \in {device, [device EXCEPT !.bars = Mask]}
       \/ At("written") /\ link # op.on /\ UNCHANGED <<device, faults>>
    /\ Done("raised")
    /\ UNCHANGED <<wires, shown, source, armed, book, watch, ops, drops>>

\* Both bars are compared with what was asked for and what the sibling was.
BarEchoed ==
    /\ At("echo") /\ BarsRead
    /\ Done(IF /\ shown.bars[op.bar] = op.want
               /\ shown.bars[Sibling(op.bar)] = op.sibling
            THEN "ok" ELSE "raised")
    /\ UNCHANGED <<device, wires, shown, source, armed, book, watch, bounds>>

-----------------------------------------------------------------------------
(* async_observe_effect.                                                   *)

\* No link, or one with an open query, is no observation.
ObserveNothing ==
    /\ At("observe") /\ (link = 0 \/ book.open)
    /\ Done("unread")
    /\ UNCHANGED <<device, wires, shown, source, armed, book, watch, bounds>>

\* The power is asked for; the wait that follows holds no control.
ObserveAsks ==
    /\ At("observe") /\ link # 0 /\ ~book.open
    /\ Ask(PowerReply)
    /\ watch' = [Unwatched EXCEPT !.step = "wait", !.want = op.want]
    /\ Done("ok")
    /\ UNCHANGED <<device, link, links, shown, source, armed, book, bounds>>

\* A fresh value that differs is a mismatch; a value that never came is not.
Verdict == IF ~watch.fresh THEN "unread"
           ELSE IF shown.on = watch.want THEN "match" ELSE "mismatch"

ObserveEnds ==
    /\ watch.step = "wait"
    /\ watch' = [watch EXCEPT !.step = "done", !.result = Verdict]
    /\ UNCHANGED <<device, wires, shown, source, armed, book, op, bounds>>

-----------------------------------------------------------------------------
(* _keep_alive_loop.                                                       *)

\* A query that fails costs the link, one left open by an abandoned query too.
PollRefused ==
    /\ At("poll") /\ (link # op.on \/ book.open)
    /\ Abandoned
    /\ Done("raised")
    /\ UNCHANGED <<device, shown, source, watch, bounds>>

\* The power is asked for and not waited for.
Poll ==
    /\ At("poll") /\ link # 0 /\ link = op.on /\ ~book.open
    /\ Ask(PowerReply)
    /\ op' = [op EXCEPT !.step = IF op.want = "power" THEN "done"
                                 ELSE op.want]
    /\ UNCHANGED <<device, link, links, shown, source, armed, book, watch, bounds>>

PollPages(ps) == At("pages") /\ link = op.on /\ AskPages(ps, "collect")

PollBars == link = op.on /\ ReadBars("bars", "polling")

\* The pages are optional here: a batch that stays incomplete is no failure,
\* and leaves the link open for queries of the next one who looks.
PollEnds ==
    /\ \/ At("collect") /\ AllCame /\ book' = [book EXCEPT !.open = FALSE]
       \/ At("collect") /\ UNCHANGED book
       \/ At("polling") /\ BarsRead /\ UNCHANGED book
       \/ op.step \in {"pages", "bars"} /\ link # op.on /\ UNCHANGED book
    /\ Done("ok")
    /\ UNCHANGED <<device, wires, shown, source, armed, watch, bounds>>

-----------------------------------------------------------------------------
Transactions ==
    \/ \E on \in BOOLEAN : BeginPower(on) \/ BeginObserve(on)
    \/ \E ps \in SUBSET Pages \ {{}} : \E want \in [ps -> Colours] : BeginPaint(want)
    \/ BeginRefresh
    \/ \E bar \in Bars, enabled \in BOOLEAN : BeginBar(bar, enabled)
    \/ \E what \in {"power", "pages", "bars"} : BeginPoll(what)

Commands ==
    \/ Relink \/ Connect \/ ConnectFails
    \/ \E p \in op.todo : Send(p) \/ SendRaises(p)
    \/ \E ps \in SUBSET Pages : Refresh(ps) \/ PollPages(ps)
    \/ Confirm \/ ConfirmTimesOut
    \/ BarReads \/ BarsUnread \/ WriteBar \/ WriteBarFails \/ BarEchoed

Reads ==
    \/ ObserveNothing \/ ObserveAsks \/ ObserveEnds
    \/ PollRefused \/ Poll \/ PollBars \/ PollEnds

World == Drop \/ Expire \/ \E r \in wire : Deliver(r)

\* Everything may be over, the bound on transactions being reached.
Next == Transactions \/ Commands \/ Reads \/ World

Spec == Init /\ [][Next]_vars

-----------------------------------------------------------------------------
(* Properties.                                                             *)

\* The state is of its type.
TypeOK ==
    /\ device \in [on : BOOLEAN, bars : [Bars -> BOOLEAN],
                   pages : [Pages -> Colours]]
    /\ shown \in [on : BOOLEAN, bars : [Bars -> BOOLEAN] \cup {None},
                  pages : [Pages -> Colours]]
    /\ source \in {"initial", "optimistic", "observed"}
    /\ \A e \in armed : e \in [value : BOOLEAN, at : Nat]
    /\ book \in [open : BOOLEAN, got : SUBSET Pages,
                 buffer : SUBSET [Pages -> Colours]]
    /\ link \in {0, links} /\ links \in Nat /\ asked \in Nat
    /\ \A r \in wire : r.link \in 1..links /\ r.of \in 1..asked
    /\ op.try \in 1..SendTries

\* A control with a read-back that returns without raising has happened, also
\* where the device ignores writes: _async_set_bar_control, _async_paint_segments;
\* and a refresh that reports success has read what there is.
OkIsTrue ==
    op.result = "ok" =>
        /\ op.kind = "bar" => device.bars[op.bar] = op.want
        /\ op.kind = "paint" =>
               \A p \in DOMAIN op.want : device.pages[p] = op.want[p]
        /\ op.kind = "refresh" => shown.pages = device.pages

\* A picture of the segments that counts as observed is the device's, and not
\* put together from pages of different queries: segment_state_source.
PicturesAreWhole == source = "observed" => shown.pages = device.pages

\* Setting one bar never changes the other, though one register holds both and
\* replies to earlier queries may still be on their way: _async_set_bar_control.
SiblingKept ==
    [][\A bar \in Bars : device'.bars[bar] # device.bars[bar] => bar = op.bar]_vars

\* An observation contradicts a command only where the device really differs, as
\* long as no other command came between: async_observe_effect returning False.
ContradictionIsReal ==
    watch.result = "mismatch" /\ watch.alone => device.on # watch.want

=============================================================================
