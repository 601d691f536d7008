------------------------------ MODULE Connection ------------------------------
(***************************************************************************)
(* The Bluetooth connection of GoveeBLECoordinator (coordinator.py): it is *)
(* made on demand by a command or a poll, kept for a while by an idle      *)
(* timer, watched by a keep-alive task, dropped by the device at any time, *)
(* and closed by the idle timer, by failures, by unloading the entry and   *)
(* by a DreamView group that takes the device over.                        *)
(*                                                                         *)
(* ControlArbiter shows that one task at a time holds control of a device, *)
(* so here one job runs at a time and the others wait or give up.  A job   *)
(* runs without interruption from one await to the next: `job.at' names    *)
(* the await it is suspended at, or, in Running, the point of its          *)
(* synchronous code that comes next, during which nothing else happens.    *)
(*                                                                         *)
(* Modelled: a profile that reads its state over notifications.  Links are *)
(* numbered in the order they are made and 0 stands for None.              *)
(***************************************************************************)
EXTENDS Naturals, FiniteSets

CONSTANTS
    MaxLinks,       \* bound: how many connections are established
    MaxCalls,       \* bound: how many commands, polls and preflights start
    Modes,          \* the connection modes of the entry that are considered
    Disturbances    \* bound: what may interfere

ASSUME ConnectionAssumption ==
    /\ MaxLinks \in Nat /\ MaxCalls \in Nat
    /\ Modes \subseteq {"release", "hold"}
    /\ Disturbances \subseteq
           {"cancel", "quiet", "unload", "handover", "stop"}

VARIABLES
    mode,       \* connection_mode of the coordinator
    calls,      \* how many commands, polls and preflights have started
    links,      \* how many links have been made
    up,         \* the links that are physically connected
    owed,       \* dropped links whose disconnected_callback is still to run
    lost,       \* links whose disconnect() failed and that were given up
    cleaning,   \* links that the clean-up task of a preflight disconnects
    spilt,      \* history: links that a preflight dropped under a claim
    co,         \* the coordinator's own fields
    job,        \* the task that holds control
    alive,      \* keep-alive tasks that have not ended, named by their link
    cut,        \* keep-alive tasks that have been cancelled
    retire,     \* links with a pending _disconnect_if_current task
    stopping,   \* hass.is_stopping
    shut,       \* how far async_shutdown is
    hand,       \* how far a DreamView centre is that takes the device over
    seen        \* the link the centre found before it disabled the entry

world == <<links, up, owed, lost, cleaning, spilt>>
ends == <<stopping, shut, hand, seen>>
tasks == <<alive, cut, retire>>
vars == <<mode, calls, world, co, job, tasks, ends>>

Links == 1 .. MaxLinks
Stages == {"select", "subscribe", "negotiate", "identify"}
Awaits == {"idle", "establish", "pace", "write", "reply", "backoff", "down"}
             \cup Stages
Running == {"ensure", "connect", "failed", "handler", "next", "pollend",
            "spill", "close", "end"}
Kinds == {"none", "command", "poll", "preflight", "expire", "retire", "loop",
          "shutdown", "handover"}
Errors == {"bleak", "crypto", "claimed", "cancelled"}
Lasting == {"establish", "write", "down"} \cup Stages

Rest == [client |-> 0, token |-> 0, session |-> 0, closing |-> 0,
         initializing |-> FALSE, quiet |-> FALSE,
         armed |-> FALSE, firing |-> {}, loop |-> 0]
NoJob == [kind |-> "none", at |-> "idle", link |-> 0, before |-> 0,
          self |-> 0, tries |-> 0, ok |-> FALSE, then |-> "end",
          err |-> "bleak"]

Init ==
    /\ mode \in Modes
    /\ calls = 0
    /\ links = 0 /\ up = {} /\ owed = {} /\ lost = {}
    /\ cleaning = {} /\ spilt = {}
    /\ co = Rest /\ job = NoJob
    /\ alive = {} /\ cut = {} /\ retire = {}
    /\ stopping = FALSE /\ shut = "no" /\ hand = "no" /\ seen = 0

Hold == mode = "hold"
Shutdown == shut # "no"
Claimed == hand \in {"claimed", "noted", "closing", "released", "refused"}
Idle == job.kind = "none"
Suspended == job.at \in Awaits
Present == co.client \in up
Usable == Present /\ co.session = co.client
Background == job.kind \in {"poll", "expire", "retire", "loop"}

-----------------------------------------------------------------------------
(* The coordinator's synchronous helpers, as functions of its fields.      *)

\* The generation of the idle timer only ever grows, so a firing that has
\* become a task is of the current generation or of an older one.
Outdated(firing) == {"outdated" : f \in firing}
\* Fault: the generation is not compared.
IsAnyFiring(f) == TRUE

IsCurrentFiring(f) == f = "current"

StartTimer(c) == [c EXCEPT !.armed = TRUE, !.firing = Outdated(@)]
ResetTimer(c) == IF Hold THEN [c EXCEPT !.armed = FALSE] ELSE StartTimer(c)
Renewed(c) == IF Hold \/ Background THEN c ELSE ResetTimer(c)

\* The keep-alive task is cancelled unless it is the one that is running.
Watchers(c, me) == IF c.loop \in {0, me} THEN {} ELSE {c.loop}
StopLoop(c) == [c EXCEPT !.loop = 0]

ClearState(c, link) ==
    IF c.client # link THEN c
    ELSE [StopLoop(c) EXCEPT !.client = 0, !.token = 0, !.session = 0,
                             !.quiet = FALSE, !.armed = FALSE,
                             !.firing = Outdated(@)]

\* _disconnect_locked up to its await; wipe is clear_cache.
BeginDown(c, wipe) ==
    LET d == [StopLoop(c) EXCEPT !.token = 0, !.session = 0,
                                 !.armed = FALSE, !.closing = c.client]
    IN  IF wipe THEN ClearState(d, c.client) ELSE d

\* A link that outlives its disconnect() is kept while the device is claimed.
Retained(link, remains) == link # 0 /\ link \in remains /\ Claimed

\* Its finally clause; remains is what is physically connected by then.
EndDown(c, link, remains) ==
    LET d == [ClearState(c, link) EXCEPT !.closing = IF @ = link THEN 0 ELSE @]
    IN  IF Retained(link, remains) THEN [d EXCEPT !.client = link] ELSE d

-----------------------------------------------------------------------------
(* How a job goes on.                                                      *)

At(point) == [job EXCEPT !.at = point]

\* Where an exception takes the job that meets it.
Raised(err) ==
    LET j == [job EXCEPT !.err = err] IN
    CASE job.kind = "poll" -> [j EXCEPT !.at = "pollend"]
      [] job.kind = "command" /\ err \in {"bleak", "claimed"}
           -> [j EXCEPT !.at = "handler"]
      [] job.kind = "preflight" /\ err # "crypto" -> [j EXCEPT !.at = "spill"]
      [] OTHER -> [j EXCEPT !.at = "end"]

\* After a teardown: reconnect, look at the attempts, raise, or end.
Continued(j, then) ==
    IF then = "raise" THEN LET r == Raised(j.err) IN [r EXCEPT !.link = 0]
    ELSE [j EXCEPT !.at = then, !.link = 0]

Finished(c) == [c EXCEPT !.initializing = FALSE]

\* _disconnect_locked: at once when nothing is connected, else with an await.
TearDown(then, err, wipe) ==
    /\ cut' = cut \cup Watchers(co, job.self)
    /\ IF Present
       THEN /\ co' = BeginDown(co, wipe)
            /\ job' = [job EXCEPT !.at = "down", !.link = co.client,
                                  !.then = then, !.err = err]
       ELSE /\ co' = Finished(EndDown(BeginDown(co, wipe), co.client, up))
            /\ job' = Continued([job EXCEPT !.err = err], then)
    /\ UNCHANGED <<alive, retire>>

\* What else an await of the job may raise: the task was cancelled.  A
\* cancelled keep-alive task meets it at the await it is suspended at, once; a
\* shutdown and a preflight have a timeout around them.
Struck == job.self \in cut /\ job.err # "cancelled"
MayBeCut == \/ Struck \/ job.kind \in {"shutdown", "preflight"}
            \/ "cancel" \in Disturbances

\* disconnect() returns or fails; the link may be gone either way.
DownEnds ==
    /\ job.at = "down"
    /\ \E remains \in {up, up \ {job.link}}, interrupted \in BOOLEAN :
         /\ interrupted => MayBeCut
         /\ Struck => interrupted
         /\ up' = remains
         /\ co' = Finished(EndDown(co, job.link, remains))
         /\ lost' = IF job.link \in remains /\ ~Claimed
                    THEN lost \cup {job.link} ELSE lost
         /\ LET cutOff == [job EXCEPT !.err = "cancelled"] IN
            job' = CASE ~interrupted -> Continued(job, job.then)
                     [] job.then = "end" -> Continued(cutOff, "end")
                     [] OTHER -> Continued(cutOff, "raise")
    /\ UNCHANGED <<mode, calls, links, owed, cleaning, spilt, tasks, ends>>

-----------------------------------------------------------------------------
(* _ensure_connected.                                                      *)

\* Fault: only the claim is looked at again after an await.
RefusedIfClaimed == Claimed

\* The checks around every await: the entry is gone, or a group has the device.
Refused == Shutdown \/ Claimed
Refusal == IF Shutdown THEN "bleak" ELSE "claimed"

\* What the caller does with a link: a preflight only asked for it.
Onward == IF job.kind = "preflight" THEN "end" ELSE "pace"

\* A usable link is handed out; any other one is torn down first.
Ensure ==
    /\ job.at = "ensure"
    /\ \/ /\ Shutdown
          /\ job' = Raised("bleak") /\ UNCHANGED <<co, tasks>>
       \/ /\ ~Shutdown /\ Claimed
          /\ IF Present THEN TearDown("raise", "claimed", FALSE)
             ELSE job' = Raised("claimed") /\ UNCHANGED <<co, tasks>>
       \/ /\ ~Refused /\ co.initializing
          /\ job' = Raised("crypto") /\ UNCHANGED <<co, tasks>>
       \/ /\ ~Refused /\ ~co.initializing
          /\ CASE Usable /\ ~co.quiet ->
                    /\ co' = Renewed(co)
                    /\ job' = [job EXCEPT !.at = Onward, !.link = co.client]
                    /\ UNCHANGED tasks
               [] co.client = 0 -> job' = At("connect") /\ UNCHANGED <<co, tasks>>
               [] OTHER -> TearDown("connect", "bleak", FALSE)
    /\ UNCHANGED <<mode, calls, world, ends>>

\* The checks after the teardown, and the reset before the first await.
Connect ==
    /\ job.at = "connect"
    /\ \/ Refused /\ job' = Raised(Refusal) /\ UNCHANGED co
       \/ /\ ~Refused
          /\ co' = [co EXCEPT !.initializing = TRUE, !.session = 0]
          /\ job' = At("establish")
    /\ UNCHANGED <<mode, calls, world, tasks, ends>>

\* The except clause of the set-up takes down whatever was connected.
SetupFails ==
    /\ job.at = "failed"
    /\ \E wipe \in BOOLEAN :
         /\ wipe => job.err \in {"bleak", "crypto"}
         /\ TearDown("raise", job.err, wipe)
    /\ UNCHANGED <<mode, calls, world, ends>>
Failed(err) == [job EXCEPT !.at = "failed", !.err = err]

\* A link comes back from the connector.  It may have dropped already: then
\* its callback came to nothing, or is still to come.
Establish ==
    /\ job.at = "establish" /\ links < MaxLinks
    /\ links' = links + 1
    /\ \/ up' = up \cup {links'} /\ UNCHANGED owed
       \/ UNCHANGED <<up, owed>>
       \/ owed' = owed \cup {links'} /\ UNCHANGED up
    /\ LET c == [co EXCEPT !.client = links'] IN
       IF Refused
       THEN co' = c /\ job' = Failed(Refusal)
       ELSE /\ co' = ResetTimer(c)
            /\ job' = [job EXCEPT !.at = "select", !.link = links']
    /\ UNCHANGED <<mode, calls, lost, cleaning, spilt, tasks, ends>>

\* The connector raises, a step of the set-up raises, or the task is cancelled.
SetupRaises ==
    /\ job.at \in {"establish"} \cup Stages
    /\ \E err \in {"bleak", "crypto"}
                     \cup (IF MayBeCut THEN {"cancelled"} ELSE {}) :
         job' = Failed(err)
    /\ UNCHANGED <<mode, calls, world, co, tasks, ends>>

\* Fault: the link is not asked whether it is still connected.
MineByName == job.link = co.client

\* The link whose set-up goes on is still the coordinator's.
Mine == job.link = co.client /\ job.link \in up
StageHolds == /\ ~Refused
              /\ job.at # "subscribe" => Mine
              /\ job.at = "subscribe" => co.token = job.link
              /\ job.at = "identify" => co.session = job.link

\* A check after an await of the set-up fails.
StageRefused ==
    /\ job.at \in Stages /\ ~StageHolds
    /\ job' = Failed(IF Refused THEN Refusal ELSE "crypto")
    /\ UNCHANGED <<mode, calls, world, co, tasks, ends>>

\* The marker selects plaintext, whose session is ready, or a negotiation;
\* then _start_notify subscribes with a token of its own.
Select ==
    /\ job.at = "select" /\ StageHolds
    /\ \E plaintext \in BOOLEAN :
         co' = [co EXCEPT !.session = IF plaintext THEN job.link ELSE 0,
                          !.token = job.link]
    /\ job' = At("subscribe")
    /\ UNCHANGED <<mode, calls, world, tasks, ends>>

Subscribe ==
    /\ job.at = "subscribe" /\ StageHolds
    /\ co' = [co EXCEPT !.quiet = FALSE]
    /\ job' = At("negotiate")
    /\ UNCHANGED <<mode, calls, world, tasks, ends>>

Negotiate ==
    /\ job.at = "negotiate" /\ StageHolds
    /\ co' = [co EXCEPT !.session = job.link]
    /\ job' = At("identify")
    /\ UNCHANGED <<mode, calls, world, tasks, ends>>

\* The identity was asked for; the keep-alive task starts and the link is ready.
Identify ==
    /\ job.at = "identify" /\ StageHolds
    /\ co' = Finished([co EXCEPT !.loop = job.link])
    /\ cut' = cut \cup Watchers(co, job.self)
    /\ alive' = alive \cup {job.link}
    /\ job' = At(Onward)
    /\ UNCHANGED <<mode, calls, world, retire, ends>>

-----------------------------------------------------------------------------
(* _async_write_packet and what its callers do with the result.            *)

\* The reply gate let the packet through: is the link still the caller's?
Pace ==
    /\ job.at = "pace" /\ ~Struck
    /\ \/ Refused /\ TearDown("raise", Refusal, FALSE)
       \/ /\ ~Refused
          /\ job' = IF Mine THEN At("write") ELSE Raised("crypto")
          /\ UNCHANGED <<co, tasks>>
    /\ UNCHANGED <<mode, calls, world, ends>>

\* A wait without a clean-up of its own is cancelled.
WaitCut ==
    /\ job.at \in {"pace", "reply", "backoff"} /\ MayBeCut
    /\ job' = Raised("cancelled")
    /\ UNCHANGED <<mode, calls, world, co, tasks, ends>>

\* The packet went out; a command renews the lease and is done.
WriteSent ==
    /\ job.at = "write" /\ ~Struck /\ ~Shutdown
    /\ IF job.kind = "command"
       THEN co' = Renewed(co) /\ job' = At("end")
       ELSE UNCHANGED co /\ job' = At("reply")
    /\ UNCHANGED <<mode, calls, world, tasks, ends>>

\* It failed, or was sent too late, or the task was cancelled meanwhile.
WriteFails ==
    /\ job.at = "write"
    /\ \/ /\ MayBeCut
          /\ TearDown("raise", "cancelled", FALSE)
       \/ /\ ~Struck
          /\ \E err \in {"bleak", "crypto"}, wipe, encrypted \in BOOLEAN :
               IF wipe \/ encrypted \/ Shutdown
               THEN TearDown("raise", err, wipe)
               ELSE job' = Raised(err) /\ UNCHANGED <<co, tasks>>
    /\ UNCHANGED <<mode, calls, world, ends>>

\* The replies of a poll or of the keep-alive came in time.
ReplyHeard ==
    /\ job.at = "reply" /\ ~Struck
    /\ job.link = co.client
    /\ co' = [co EXCEPT !.quiet = FALSE]
    /\ job' = IF job.kind = "poll" THEN [job EXCEPT !.at = "pollend", !.ok = TRUE]
              ELSE [job EXCEPT !.at = "end", !.ok = TRUE]
    /\ UNCHANGED <<mode, calls, world, tasks, ends>>

\* They did not, or the identity changed on the way: ask once more, or give
\* the link up.
ReplyMissed ==
    /\ job.at = "reply" /\ ~Struck
    /\ \/ /\ job.tries = 0 /\ job.kind = "poll"
          /\ job' = [job EXCEPT !.tries = 1, !.at = "ensure"]
          /\ UNCHANGED <<co, tasks>>
       \/ /\ job.kind = "loop"
          /\ job' = [job EXCEPT !.ok = TRUE, !.at = "end"]
          /\ UNCHANGED <<co, tasks>>
       \/ /\ job.kind = "poll" \/ job.link = co.client
          /\ TearDown("raise", "bleak", FALSE)
    /\ UNCHANGED <<mode, calls, world, ends>>

\* send_command after an error: tear down, then try again or give up.
Handle ==
    /\ job.at = "handler"
    /\ TearDown("next", job.err, FALSE)
    /\ UNCHANGED <<mode, calls, world, ends>>

Retry ==
    /\ job.at = "next"
    /\ job' \in IF job.err = "claimed" \/ job.tries = 2 THEN {At("end")}
                ELSE {[job EXCEPT !.at = a, !.tries = @ + 1]
                        : a \in {"ensure", "backoff"}}
    /\ UNCHANGED <<mode, calls, world, co, tasks, ends>>

BackedOff ==
    /\ job.at = "backoff"
    /\ job' = At("ensure")
    /\ UNCHANGED <<mode, calls, world, co, tasks, ends>>

\* The finally clause of a poll: in release mode, or when the read failed, a
\* link that the poll itself made does not outlive it.
PollEnds ==
    /\ job.at = "pollend"
    /\ IF co.client \notin {0, job.before} /\ (~job.ok \/ ~Hold)
       THEN TearDown("end", job.err, FALSE)
       ELSE job' = At("end") /\ UNCHANGED <<co, tasks>>
    /\ UNCHANGED <<mode, calls, world, ends>>

-----------------------------------------------------------------------------
(* Jobs begin and end.                                                     *)

NewJob(kind, at) == [NoJob EXCEPT !.kind = kind, !.at = at]

\* send_command, and the other operations that connect on demand.
StartCommand ==
    /\ Idle /\ calls < MaxCalls /\ ~stopping /\ ~Claimed
    /\ calls' = calls + 1
    /\ job' = NewJob("command", "ensure")
    /\ UNCHANGED <<mode, world, co, tasks, ends>>

\* A poll that does not hand out the last snapshot.
StartPoll ==
    /\ Idle /\ calls < MaxCalls /\ ~stopping /\ ~Claimed
    /\ ~(Hold /\ Usable /\ ~co.quiet)
    /\ calls' = calls + 1
    /\ job' = [NewJob("poll", "ensure") EXCEPT !.before = co.client]
    /\ UNCHANGED <<mode, world, co, tasks, ends>>

\* One attempt of async_preview_preflight: only the connection is made.  A claim
\* does not keep it from starting.
StartPreflight ==
    /\ Idle /\ calls < MaxCalls /\ ~stopping
    /\ calls' = calls + 1
    /\ job' = NewJob("preflight", "ensure")
    /\ UNCHANGED <<mode, world, co, tasks, ends>>

\* Its except clause forgets the client, whatever the teardown made of it, and
\* leaves a link that is still up to a task.
Spill ==
    /\ job.at = "spill"
    /\ LET left == {co.client} \cap up IN
       /\ cleaning' = cleaning \cup left
       /\ spilt' = IF Claimed THEN spilt \cup left ELSE spilt
    /\ co' = ClearState(co, co.client)
    /\ cut' = cut \cup Watchers(co, 0)
    /\ job' = At("end")
    /\ UNCHANGED <<mode, calls, links, up, owed, lost, alive, retire, ends>>

\* The body of the jobs that only disconnect.
Close ==
    /\ job.at = "close"
    /\ TearDown("end", "bleak", FALSE)
    /\ UNCHANGED <<mode, calls, world, ends>>

\* Did the links that the centre knows of let go of the device?
LetGo == job.err # "cancelled" /\ {seen, co.client} \cap up = {}

\* The job gives control back.  A keep-alive task goes on or returns.
EndJob ==
    /\ job.at = "end"
    /\ job' = NoJob
    /\ LET over == job.kind = "loop" /\ ~job.ok IN
       /\ alive' = IF over THEN alive \ {job.self} ELSE alive
       /\ cut' = IF over THEN cut \ {job.self} ELSE cut
       /\ co' = IF over /\ co.loop = job.self THEN StopLoop(co) ELSE co
    /\ shut' = IF job.kind = "shutdown" THEN "done" ELSE shut
    /\ hand' = IF job.kind # "handover" THEN hand
               ELSE IF LetGo THEN "released" ELSE "refused"
    /\ UNCHANGED <<mode, calls, world, retire, stopping, seen>>

-----------------------------------------------------------------------------
(* What runs beside the job, while it is suspended.                        *)

\* The idle timer fires and leaves a task.
TimerFires ==
    /\ co.armed
    /\ co' = [co EXCEPT !.armed = FALSE, !.firing = @ \cup {"current"}]
    /\ UNCHANGED <<mode, calls, world, job, tasks, ends>>

\* That task gets control of the idle coordinator and disconnects.
ExpiryRuns(f) ==
    /\ f \in co.firing /\ IsCurrentFiring(f) /\ Idle
    /\ co' = [co EXCEPT !.firing = @ \ {f}]
    /\ job' = NewJob("expire", "close")
    /\ UNCHANGED <<mode, calls, world, tasks, ends>>

\* Fault: a refused expiry does not start the timer anew.
ExpiryDropped(f) ==
    /\ f \in co.firing /\ (IsCurrentFiring(f) => ~Idle)
    /\ co' = [co EXCEPT !.firing = @ \ {f}]
    /\ UNCHANGED <<mode, calls, world, job, tasks, ends>>

\* It finds control taken and starts the timer anew, or the lease was renewed.
ExpirySkipped(f) ==
    /\ f \in co.firing
    /\ LET c == [co EXCEPT !.firing = @ \ {f}] IN
       \/ ~IsCurrentFiring(f) /\ co' = c
       \/ IsCurrentFiring(f) /\ ~Idle /\ co' = ResetTimer(c)
    /\ UNCHANGED <<mode, calls, world, job, tasks, ends>>

\* The device, or the radio, drops the link.
Drop ==
    /\ \E l \in up : up' = up \ {l} /\ owed' = owed \cup {l}
    /\ UNCHANGED <<mode, calls, links, lost, cleaning, spilt, co, job, tasks, ends>>

\* Fault: the callback is taken to be about the current link.
ConcernsAnyone(l) == co.client # 0 /\ co.closing # l

\* Whether a callback speaks of the link the coordinator relies on.
Concerns(l) == co.client = l /\ co.closing # l

\* _disconnected_callback, any time after the drop.
Callback ==
    /\ \E l \in owed :
         /\ owed' = owed \ {l}
         /\ IF Concerns(l)
            THEN /\ co' = ClearState(co, co.client)
                 /\ cut' = cut \cup Watchers(co, 0)
            ELSE UNCHANGED <<co, cut>>
    /\ UNCHANGED <<mode, calls, links, up, lost, cleaning, spilt, job, alive,
                   retire, ends>>

\* disconnect_failed_client of a preflight returns, fails or runs out of time.
CleanUpEnds(l) ==
    /\ l \in cleaning
    /\ cleaning' = cleaning \ {l}
    /\ up' \in {up, up \ {l}}
    /\ lost' = lost \cup ({l} \cap up')
    /\ UNCHANGED <<mode, calls, links, owed, spilt, co, job, tasks, ends>>

\* Nothing has been received for RX_STALE_TIMEOUT.
GoQuiet ==
    /\ "quiet" \in Disturbances
    /\ Present /\ co.token # 0 /\ ~co.quiet
    /\ co' = [co EXCEPT !.quiet = TRUE]
    /\ UNCHANGED <<mode, calls, world, job, tasks, ends>>

Sleeping == alive \ {job.self}

\* The keep-alive task wakes on an idle coordinator and asks for the state.
LoopAsks(l) ==
    /\ l \in Sleeping \ cut /\ Present /\ ~co.quiet /\ Idle
    /\ job' = [NewJob("loop", "pace") EXCEPT !.self = l, !.link = co.client]
    /\ UNCHANGED <<mode, calls, world, co, tasks, ends>>

\* It ends: cancelled, or the link is gone, or the link is silent, and then
\* another task is to close it.
LoopEnds(l) ==
    /\ l \in Sleeping
    /\ \/ (l \in cut \/ ~Present) /\ UNCHANGED retire
       \/ l \notin cut /\ Present /\ co.quiet /\ retire' = retire \cup {co.client}
    /\ alive' = alive \ {l} /\ cut' = cut \ {l}
    /\ co' = IF co.loop = l THEN StopLoop(co) ELSE co
    /\ UNCHANGED <<mode, calls, world, job, ends>>

\* _disconnect_if_current: skipped unless control is free and l is current.
Retire(l) ==
    /\ l \in retire
    /\ retire' = retire \ {l}
    /\ job' = IF Idle /\ co.client = l THEN NewJob("retire", "close") ELSE job
    /\ UNCHANGED <<mode, calls, world, co, alive, cut, ends>>

-----------------------------------------------------------------------------
(* The end of the coordinator.                                             *)

\* async_shutdown, when the entry is unloaded: no new work from here on.
BeginShutdown ==
    /\ shut = "no"
    /\ "unload" \in Disturbances \/ hand = "noted"
    /\ shut' = "waiting"
    /\ co' = [StopLoop(co) EXCEPT !.armed = FALSE]
    /\ cut' = cut \cup Watchers(co, 0)
    /\ UNCHANGED <<mode, calls, world, job, alive, retire, stopping, hand, seen>>

ShutdownCloses ==
    /\ shut = "waiting" /\ Idle
    /\ shut' = "closing"
    /\ job' = NewJob("shutdown", "close")
    /\ UNCHANGED <<mode, calls, world, co, tasks, stopping, hand, seen>>

\* Only these awaits of a job outlast the time that the shutdown waits.
ShutdownTimesOut ==
    /\ shut = "waiting" /\ job.at \in Lasting
    /\ shut' = "done"
    /\ UNCHANGED <<mode, calls, world, co, job, tasks, stopping, hand, seen>>

\* A DreamView centre claims the device ...
Claim ==
    /\ "handover" \in Disturbances /\ hand = "no" /\ shut = "no"
    /\ hand' = "claimed"
    /\ UNCHANGED <<mode, calls, world, co, job, tasks, stopping, shut, seen>>

\* ... notes the link it has, before it disables the entry, which unloads it ...
NoteLink ==
    /\ hand = "claimed"
    /\ hand' = "noted" /\ seen' = co.client
    /\ UNCHANGED <<mode, calls, world, co, job, tasks, stopping, shut>>

\* ... and disconnects it once more.
HandoverCloses ==
    /\ hand = "noted" /\ Shutdown /\ Idle
    /\ hand' = "closing"
    /\ job' = NewJob("handover", "close")
    /\ UNCHANGED <<mode, calls, world, co, tasks, stopping, shut, seen>>

\* A hand-over that did not come about gives the claim back.
Unclaim ==
    /\ hand \in {"claimed", "noted", "refused"}
    /\ hand' = "undone"
    /\ UNCHANGED <<mode, calls, world, co, job, tasks, stopping, shut, seen>>

HassStops ==
    /\ "stop" \in Disturbances /\ ~stopping
    /\ stopping' = TRUE
    /\ co' = [StopLoop(co) EXCEPT !.armed = FALSE]
    /\ cut' = cut \cup Watchers(co, 0)
    /\ UNCHANGED <<mode, calls, world, job, alive, retire, shut, hand, seen>>

-----------------------------------------------------------------------------

Synchronous ==
    \/ Ensure \/ Connect \/ SetupFails \/ Handle \/ Retry \/ PollEnds
    \/ Spill \/ Close \/ EndJob

Resume ==
    \/ DownEnds \/ Establish \/ SetupRaises \/ StageRefused
    \/ Select \/ Subscribe \/ Negotiate \/ Identify
    \/ Pace \/ WaitCut \/ WriteSent \/ WriteFails
    \/ ReplyHeard \/ ReplyMissed \/ BackedOff

JobSteps == Synchronous \/ Resume

Beside ==
    \/ TimerFires \/ \E f \in {"current", "outdated"} :
                        ExpiryRuns(f) \/ ExpirySkipped(f)
    \/ Drop \/ Callback \/ GoQuiet
    \/ \E l \in Links : LoopAsks(l) \/ LoopEnds(l) \/ Retire(l) \/ CleanUpEnds(l)
    \/ BeginShutdown \/ ShutdownCloses \/ ShutdownTimesOut
    \/ Claim \/ NoteLink \/ HandoverCloses \/ Unclaim \/ HassStops
    \/ StartCommand \/ StartPoll \/ StartPreflight

Next == JobSteps \/ (Suspended /\ Beside)

Spec == Init /\ [][Next]_vars

-----------------------------------------------------------------------------
(* Properties.                                                             *)

\* The fields have their types; no idle timer runs in hold mode, where nothing
\* would ever stop it; the current keep-alive task is one that has not ended;
\* and only a link that was made can be up.
TypeOK ==
    /\ mode \in Modes /\ calls \in 0 .. MaxCalls /\ links \in 0 .. MaxLinks
    /\ up \cup owed \cup lost \cup alive \cup retire \subseteq 1 .. links
    /\ cleaning \cup spilt \subseteq 1 .. links
    /\ cut \subseteq alive
    /\ co \in [client : 0 .. links, token : 0 .. links, session : 0 .. links,
               closing : 0 .. links, initializing : BOOLEAN, quiet : BOOLEAN,
               armed : BOOLEAN, firing : SUBSET {"current", "outdated"},
               loop : {0} \cup alive]
    /\ Hold => ~co.armed /\ co.firing = {}
    /\ job \in [kind : Kinds, at : Awaits \cup Running, link : 0 .. links,
                before : 0 .. links, self : 0 .. links, tries : 0 .. 2,
                ok : BOOLEAN,
                then : {"connect", "raise", "next", "end"}, err : Errors]
    /\ stopping \in BOOLEAN
    /\ shut \in {"no", "waiting", "closing", "done"}
    /\ hand \in {"no", "claimed", "noted", "closing", "released", "refused",
                "undone"}
    /\ seen \in 0 .. links

\* Whatever interleaves with a reconnect, a late callback or a failed set-up, a
\* link that is physically up is the coordinator's client, or is being torn
\* down, or its disconnect() failed: none is forgotten while it keeps the
\* device busy.
NoStrayLink ==
    Suspended =>
        up \subseteq lost \cup cleaning \cup {co.client}
                     \cup (IF job.at = "down" THEN {job.link} ELSE {})

\* At most one keep-alive task goes on watching the device, however often it
\* reconnects; a second one would double the traffic for good.
OneKeepAlive ==
    Suspended => Cardinality(alive \ cut) <= 1

\* However a set-up ends, by an error, a cancellation or a drop, it is undone as
\* a whole: the flag that refuses another one is down once control is free, and
\* a ready session or a subscription belongs to the client or is gone.
SetupIsUndone ==
    /\ Idle => ~co.initializing
    /\ Suspended => {co.session, co.token} \subseteq {0, co.client}

\* Whatever a link leaves behind it goes with it: itself, its keep-alive, its
\* session and its subscription, and the flag of a set-up that was cut short.
NothingIsLeft == NoStrayLink /\ OneKeepAlive /\ SetupIsUndone

\* A write begins only for a client that is current, connected, ready and
\* subscribed, and not for a shut down or claimed coordinator, whatever happened
\* while the packet waited for its turn.
WritesAreCurrent ==
    [][job'.at = "write" /\ job.at # "write" =>
           /\ {co.client, co.session, co.token} = {job.link}
           /\ job.link \in up /\ ~Shutdown /\ ~Claimed]_vars

\* The idle timer closes no link that a later command has leased again: when
\* its task takes control, no newer timer runs.
LeaseIsHonoured ==
    [][job.kind = "none" /\ job'.kind = "expire" => ~co.armed]_vars

\* Once the coordinator is shut down and its last job is over, it has no link,
\* even if the shutdown stopped waiting for that job; only a link that the
\* radio would not let go of is left, or that a preflight's task is about to
\* disconnect, and the coordinator admits to one only while a group claims the
\* device.
ShutdownLeavesNoLink ==
    shut = "done" /\ Idle => /\ co.client # 0 => Claimed \/ hand = "undone"
                             /\ up \subseteq lost \cup cleaning \cup {co.client}

\* A centre takes the device over only when the coordinator really let go of
\* it: the link it noted is gone, and no other one is up but those that were
\* given up before the claim.  The code makes one exception: a link that
\* _disconnect_locked retained, as its disconnect() failed under the claim, and
\* that the except clause of a preflight then forgot, unless the centre had
\* noted it by then.
HandoverIsReal ==
    hand = "released" => /\ up \subseteq lost \cup spilt
                         /\ seen \notin up

\* Who says that the device was let go of has let go of it: a shutdown that
\* stopped waiting for a job that goes on, and a hand-over whose disconnect()
\* failed or was cancelled.
LetGoIsReal == ShutdownLeavesNoLink /\ HandoverIsReal

-----------------------------------------------------------------------------
(* Fairness: the event loop runs whatever is due, and no await of a job    *)
(* lasts for ever: the connector, the handshake and the reads have         *)
(* timeouts of their own.  The task of the idle timer gives way to a job   *)
(* that has control, and then starts the timer anew.  It is not refused    *)
(* for ever, hence strong fairness: each keep-alive tick is later by the   *)
(* time its queries take, so it cannot keep pace with the timer.           *)

FairSpec ==
    /\ Spec
    /\ WF_vars(JobSteps)
    /\ SF_vars(Idle /\ TimerFires)
    /\ WF_vars(Suspended /\ ExpirySkipped("current"))
    /\ WF_vars(Suspended /\ ExpirySkipped("outdated"))
    /\ SF_vars(Suspended /\ ExpiryRuns("current"))
    /\ WF_vars(Suspended /\ Callback)
    /\ \A l \in Links : /\ WF_vars(Suspended /\ LoopEnds(l))
                       /\ WF_vars(Suspended /\ CleanUpEnds(l))
    /\ SF_vars(Suspended /\ ShutdownCloses)

\* In release mode no link outlives its use: unless Home Assistant stops, a
\* usable link is in the end given up.
IdleLinkCloses ==
    ~Hold /\ Usable ~> ~Usable \/ stopping

\* No job keeps control for ever: attempts are counted, and every failure on
\* the way leads on to the next attempt or out.
ControlIsGivenBack == ~Idle ~> Idle

\* Every use of the device comes to an end: the keep-alive, the retries and the
\* idle timer, which compete for control, do not keep the link up for ever.
UseComesToAnEnd == IdleLinkCloses /\ ControlIsGivenBack

=============================================================================
