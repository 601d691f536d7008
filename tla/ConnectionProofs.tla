---------------------------- MODULE ConnectionProofs ----------------------------
(***************************************************************************)
(* For any number of links, commands and polls, and whatever drops, late   *)
(* callbacks, timeouts and cancellations do meanwhile: no link that is up  *)
(* is forgotten, one keep-alive task at most goes on, a set-up that ends   *)
(* is undone as a whole, a write begins only for a link that is current    *)
(* and ready, the idle timer honours a lease, and who says that the device *)
(* was let go of has let go of it.  None of these is inductive: they rest  *)
(* on what the coordinator's fields are wherever its job stands, on who    *)
(* knows of a link that is up, and on why a keep-alive task that is not    *)
(* the current one cannot go on.                                           *)
(***************************************************************************)
EXTENDS Connection, FiniteSetTheorems, TLAPS

\* The fields of the coordinator when n links have been made.
Fields(n) ==
    [client : 0 .. n, token : 0 .. n, session : 0 .. n, closing : 0 .. n,
     initializing : BOOLEAN, quiet : BOOLEAN, armed : BOOLEAN,
     firing : SUBSET {"current", "outdated"}, loop : 0 .. n]

\* A subscription is the client's, a session that of the subscription, and a
\* keep-alive task watches a session.  An idle timer that has just fired is not
\* running.
Coherent(c) ==
    /\ c.token \in {0, c.client}
    /\ c.session \in {0, c.token}
    /\ c.loop \in {0, c.session}
    /\ "current" \in c.firing => ~c.armed

Good(c, n) == c \in Fields(n) /\ Coherent(c)

Job(n) == [kind : Kinds, at : Awaits \cup Running, link : 0 .. n, before : 0 .. n,
           self : 0 .. n, tries : 0 .. 2, ok : BOOLEAN,
           then : {"connect", "raise", "next", "end"}, err : Errors]

\* The points that a job of each kind comes by ...
Connectors == {"command", "poll", "preflight"}
USE DEF Connectors
Connecting == {"ensure", "connect", "establish", "failed", "down", "end"} \cup Stages
Points(kind) ==
    CASE kind = "none" -> {"idle"}
      [] kind = "command" -> Connecting \cup {"pace", "write", "handler", "next", "backoff"}
      [] kind = "poll" -> Connecting \cup {"pace", "write", "reply", "pollend"}
      [] kind = "preflight" -> Connecting \cup {"spill"}
      [] kind = "loop" -> {"pace", "write", "reply", "down", "end"}
      [] OTHER -> {"close", "down", "end"}

\* ... and where it goes on after a teardown.
Thens(kind) ==
    CASE kind = "command" -> {"connect", "raise", "next"}
      [] kind = "poll" -> {"connect", "raise", "end"}
      [] kind = "preflight" -> {"connect", "raise"}
      [] kind = "loop" -> {"raise"}
      [] OTHER -> {"end"}

OnItsWay(j) ==
    /\ j.at \in Points(j.kind)
    /\ j.at = "down" => j.then \in Thens(j.kind)
    /\ j.kind = "loop" <=> j.self # 0

TypesInv ==
    /\ links \in Nat
    /\ up \cup owed \cup lost \cup alive \cup retire \subseteq 1 .. links
    /\ cleaning \cup spilt \subseteq 1 .. links
    /\ job \in Job(links)

\* What a job has reached says what the coordinator's fields are.
SetupInv ==
    /\ job.at = "connect" => Claimed \/ co.client = 0
    /\ job.at = "establish" => co.client = 0
    /\ job.at = "down" => co.client \in {0, job.link} /\ co.token = 0
    /\ job.at \in Stages => co.loop = 0
    /\ job.at \in Stages \ {"select"} /\ job.link = co.client => co.token = job.link
    /\ job.at = "pace" /\ job.link = co.client => co.session = job.link
    /\ co.initializing => job.at \in {"establish", "failed", "down"} \cup Stages
    /\ job.at = "spill" => Claimed \/ shut # "no" \/ co.client = 0

\* A link that is up is known, and its callback is not due.
LinkInv ==
    /\ up \cap owed = {}
    /\ up \subseteq lost \cup cleaning \cup {co.client}
                 \cup (IF job.at = "down" THEN {job.link} ELSE {})

\* A keep-alive task that goes on is the current one, or has control.
LoopInv ==
    /\ alive \ cut \subseteq {co.loop, job.self}
    /\ job.kind = "loop" =>
          /\ co.loop \in {0, job.self}
          /\ job.ok => job.at = "end"
          /\ \/ co.loop = job.self \/ job.self \in cut
             \/ job.at \in {"down", "end"} /\ ~job.ok

\* A coordinator that is shut down keeps a link only for a job that will take it
\* down, and a device that was handed over gets no other one.  What a preflight
\* drops without a claim, it drops of a coordinator that is shut down.
EndInv ==
    /\ shut = "done" /\ hand = "no" /\ co.client # 0 =>
          job.at \in {"write", "down", "failed"} \cup Stages
    /\ job.kind = "shutdown" /\ job.at = "end" /\ hand = "no" => co.client = 0
    /\ hand = "released" => /\ up \subseteq lost \cup spilt /\ seen \notin up
                            /\ job.at # "establish"
    /\ job.kind = "handover" => hand = "closing"
    /\ cleaning \subseteq spilt \/ (shut # "no" /\ ~Claimed)

IInv ==
    /\ TypesInv /\ Good(co, links) /\ OnItsWay(job)
    /\ SetupInv /\ LinkInv /\ LoopInv /\ EndInv

-----------------------------------------------------------------------------
(* The coordinator's helpers.                                              *)

\* The keep-alive task is no longer the coordinator's.
LEMMA StopLoopGood ==
    ASSUME NEW n \in Nat, NEW c, Good(c, n)
    PROVE  /\ Good(StopLoop(c), n) /\ StopLoop(c).loop = 0
           /\ StopLoop(c).client = c.client /\ StopLoop(c).token = c.token
           /\ StopLoop(c).session = c.session
           /\ StopLoop(c).initializing = c.initializing
BY DEF StopLoop, Good, Fields, Coherent

\* The timer is stopped or started, and nothing else.
LEMMA TimersGood ==
    ASSUME NEW n \in Nat, NEW c, Good(c, n)
    PROVE  \A d : d = StartTimer(c) \/ d = [c EXCEPT !.armed = FALSE] \/ d = c =>
              /\ Good(d, n)
              /\ d.client = c.client /\ d.token = c.token /\ d.session = c.session
              /\ d.loop = c.loop /\ d.initializing = c.initializing
<1> DEFINE f == Outdated(c.firing)
           s == StartTimer(c)
           t == [c EXCEPT !.armed = FALSE]
<1>1. f \in SUBSET {"current", "outdated"} /\ "current" \notin f
  BY DEF Outdated
<1>2. s \in Fields(n) /\ s.firing = f
      /\ s.client = c.client /\ s.token = c.token /\ s.session = c.session
      /\ s.loop = c.loop /\ s.initializing = c.initializing
  <2>1. PICK a \in BOOLEAN : a
    OBVIOUS
  <2>2. s = [c EXCEPT !.armed = a, !.firing = f]
    BY <2>1 DEF StartTimer
  <2> HIDE DEF s, f
  <2> QED
    BY <1>1, <2>2 DEF Good, Fields
<1>3. t \in Fields(n) /\ ~t.armed
      /\ t.client = c.client /\ t.token = c.token /\ t.session = c.session
      /\ t.loop = c.loop /\ t.initializing = c.initializing
  <2>1. PICK a \in BOOLEAN : ~a
    OBVIOUS
  <2>2. t = [c EXCEPT !.armed = a]
    BY <2>1
  <2> HIDE DEF t
  <2> QED
    BY <2>1, <2>2 DEF Good, Fields
<1> HIDE DEF s, t, f
<1> QED
  BY <1>1, <1>2, <1>3 DEF Good, Coherent, s, t

\* _clear_connection_state forgets the link it is told of, and no other one.
LEMMA ClearStateGood ==
    ASSUME NEW n \in Nat, NEW c, Good(c, n), NEW link
    PROVE  /\ Good(ClearState(c, link), n)
           /\ ClearState(c, link).initializing = c.initializing
           /\ c.client # link => ClearState(c, link) = c
           /\ c.client = link =>
                 /\ ClearState(c, link).client = 0 /\ ClearState(c, link).token = 0
                 /\ ClearState(c, link).session = 0 /\ ClearState(c, link).loop = 0
<1>1. CASE c.client # link
  BY <1>1 DEF ClearState
<1>2. CASE c.client = link
  <2> DEFINE s == StopLoop(c)
             f == Outdated(s.firing)
             d == [s EXCEPT !.client = 0, !.token = 0, !.session = 0, !.quiet = FALSE,
                            !.armed = FALSE, !.firing = f]
  <2>1. Good(s, n) /\ s.loop = 0 /\ s.initializing = c.initializing
    BY StopLoopGood
  <2>2. f \in SUBSET {"current", "outdated"} /\ "current" \notin f
    BY DEF Outdated
  <2>3. ClearState(c, link) = d
    BY <1>2 DEF ClearState
  <2> PICK a \in BOOLEAN : ~a
    OBVIOUS
  <2>4. d = [s EXCEPT !.client = 0, !.token = 0, !.session = 0, !.quiet = a,
                      !.armed = a, !.firing = f]
    OBVIOUS
  <2> HIDE DEF s, f, d
  <2>5. /\ d \in Fields(n) /\ d.firing = f /\ d.initializing = s.initializing
        /\ d.client = 0 /\ d.token = 0 /\ d.session = 0 /\ d.loop = s.loop
    BY <2>1, <2>2, <2>4 DEF Good, Fields
  <2> QED
    BY <1>2, <2>1, <2>2, <2>3, <2>5 DEF Good, Coherent
<1> QED
  BY <1>1, <1>2

\* A teardown gives up the session and the subscription before its await ...
LEMMA BeginDownGood ==
    ASSUME NEW n \in Nat, NEW c, Good(c, n), NEW wipe \in BOOLEAN
    PROVE  /\ Good(BeginDown(c, wipe), n)
           /\ BeginDown(c, wipe).client \in {0, c.client}
           /\ BeginDown(c, wipe).token = 0 /\ BeginDown(c, wipe).session = 0
           /\ BeginDown(c, wipe).loop = 0
           /\ BeginDown(c, wipe).initializing = c.initializing
<1> DEFINE s == StopLoop(c)
           d == [s EXCEPT !.token = 0, !.session = 0, !.armed = FALSE,
                          !.closing = c.client]
<1>1. /\ Good(d, n) /\ d.client = c.client /\ d.token = 0 /\ d.session = 0
      /\ d.loop = 0 /\ d.initializing = c.initializing
  <2>1. /\ Good(s, n) /\ s.client = c.client /\ s.loop = 0
        /\ s.initializing = c.initializing
    BY StopLoopGood
  <2> PICK a \in BOOLEAN : ~a
    OBVIOUS
  <2>2. d = [s EXCEPT !.token = 0, !.session = 0, !.armed = a, !.closing = c.client]
    OBVIOUS
  <2> HIDE DEF s, d
  <2> QED
    BY <2>1, <2>2 DEF Good, Fields, Coherent
<1>2. BeginDown(c, wipe) = IF wipe THEN ClearState(d, c.client) ELSE d
  BY DEF BeginDown
<1> HIDE DEF d, s
<1> QED
  BY <1>1, <1>2, ClearStateGood

\* ... and the client after it, unless a group claims a link that would not go.
LEMMA EndDownGood ==
    ASSUME NEW n \in Nat, NEW c, Good(c, n), NEW link \in 0 .. n, NEW remains,
           c.client \in {0, link}
    PROVE  /\ Good(EndDown(c, link, remains), n)
           /\ EndDown(c, link, remains).client =
                 IF Retained(link, remains) THEN link ELSE 0
           /\ EndDown(c, link, remains).token = 0
           /\ EndDown(c, link, remains).session = 0
           /\ EndDown(c, link, remains).loop = 0
           /\ EndDown(c, link, remains).initializing = c.initializing
<1> DEFINE b == ClearState(c, link)
           d == [b EXCEPT !.closing = IF @ = link THEN 0 ELSE @]
<1>1. /\ Good(b, n) /\ b.client = 0 /\ b.token = 0 /\ b.session = 0 /\ b.loop = 0
      /\ b.initializing = c.initializing
  BY ClearStateGood DEF Good, Coherent
<1> HIDE DEF b
<1>2. /\ Good(d, n) /\ d.client = 0 /\ d.token = 0 /\ d.session = 0 /\ d.loop = 0
      /\ d.initializing = c.initializing
  BY <1>1 DEF Good, Fields, Coherent
<1>3. EndDown(c, link, remains) = IF Retained(link, remains)
                                  THEN [d EXCEPT !.client = link] ELSE d
  BY DEF EndDown, b
<1> HIDE DEF d
<1>4. /\ Good([d EXCEPT !.client = link], n) /\ [d EXCEPT !.client = link].client = link
      /\ [d EXCEPT !.client = link].token = 0 /\ [d EXCEPT !.client = link].session = 0
      /\ [d EXCEPT !.client = link].loop = 0
      /\ [d EXCEPT !.client = link].initializing = d.initializing
  BY <1>2 DEF Good, Fields, Coherent
<1> QED
  BY <1>2, <1>3, <1>4

\* Only the flag of the set-up changes.
LEMMA FinishedGood ==
    ASSUME NEW n \in Nat, NEW c, Good(c, n)
    PROVE  /\ Good(Finished(c), n) /\ ~Finished(c).initializing
           /\ Finished(c).client = c.client /\ Finished(c).token = c.token
           /\ Finished(c).session = c.session /\ Finished(c).loop = c.loop
BY DEF Finished, Good, Fields, Coherent

\* An exception takes a job to a handler of its own kind, or ends it.
LEMMA RaisedGood ==
    ASSUME NEW n \in Nat, job \in Job(n), NEW err \in Errors,
           job.kind \in Connectors \cup {"loop"}
    PROVE  /\ Raised(err) \in Job(n) /\ Raised(err).kind = job.kind
           /\ Raised(err).self = job.self /\ Raised(err).ok = job.ok
           /\ Raised(err).link = job.link
           /\ Raised(err).at \in Points(job.kind)
                                   \cap {"pollend", "handler", "spill", "end"}
           /\ job.kind = "loop" => Raised(err).at = "end"
           /\ Raised(err).at = "spill" => job.kind = "preflight" /\ err # "crypto"
BY DEF Raised, Job, Points, Connecting, Connectors, Running, Awaits

\* What a teardown makes of the coordinator, and where the job goes on.
LEMMA TearsDown ==
    ASSUME TypesInv, Good(co, links), NEW then, NEW err, NEW wipe \in BOOLEAN,
           TearDown(then, err, wipe)
    PROVE  /\ Good(co', links) /\ co'.token = 0 /\ co'.session = 0 /\ co'.loop = 0
           /\ cut' = cut \cup Watchers(co, job.self) /\ UNCHANGED <<alive, retire>>
           /\ \/ /\ Present /\ co'.client \in {0, co.client}
                 /\ job' = [job EXCEPT !.at = "down", !.link = co.client, !.then = then,
                                       !.err = err]
              \/ /\ ~Present /\ co'.client = 0 /\ ~co'.initializing
                 /\ job' = Continued([job EXCEPT !.err = err], then)
<1> DEFINE b == BeginDown(co, wipe)
           e == EndDown(b, co.client, up)
<1>1. /\ Good(b, links) /\ b.client \in {0, co.client} /\ b.token = 0 /\ b.session = 0
      /\ b.loop = 0
  BY BeginDownGood DEF TypesInv
<1>2. \/ Present /\ co' = b
         /\ job' = [job EXCEPT !.at = "down", !.link = co.client, !.then = then,
                               !.err = err]
      \/ ~Present /\ co' = Finished(e) /\ job' = Continued([job EXCEPT !.err = err], then)
  BY DEF TearDown
<1>3. cut' = cut \cup Watchers(co, job.self) /\ UNCHANGED <<alive, retire>>
  BY DEF TearDown
<1>4. ASSUME ~Present
      PROVE  /\ Good(Finished(e), links) /\ ~Finished(e).initializing
             /\ Finished(e).client = 0 /\ Finished(e).token = 0
             /\ Finished(e).session = 0 /\ Finished(e).loop = 0
  <2>1. co.client \in 0 .. links /\ ~Retained(co.client, up)
    BY <1>4 DEF Good, Fields, Retained, Present
  <2> HIDE DEF b
  <2>2. /\ Good(e, links) /\ e.client = 0 /\ e.token = 0 /\ e.session = 0 /\ e.loop = 0
    BY <1>1, <2>1, EndDownGood DEF TypesInv
  <2> HIDE DEF e
  <2> QED
    BY <2>2, FinishedGood DEF TypesInv
<1> HIDE DEF b, e
<1> QED
  BY <1>1, <1>2, <1>3, <1>4

\* Where a job goes on after a teardown.
LEMMA ContinuedGood ==
    ASSUME NEW n \in Nat, NEW j \in Job(n), job \in Job(n),
           j.kind = job.kind, j.self = job.self, j.ok = job.ok,
           job.kind # "none", NEW then \in Thens(job.kind)
    PROVE  /\ Continued(j, then) \in Job(n)
           /\ Continued(j, then).kind = job.kind /\ Continued(j, then).self = job.self
           /\ Continued(j, then).ok = job.ok
           /\ Continued(j, then).at \in
                 Points(job.kind)
                   \cap {"connect", "next", "end", "pollend", "handler", "spill"}
           /\ Continued(j, then).at = "connect" => then = "connect"
           /\ job.kind = "loop" => Continued(j, then).at = "end"
<1>1. CASE then = "raise"
  <2>1. job.kind \in Connectors \cup {"loop"} /\ j.err \in Errors
    BY <1>1 DEF Thens, Job
  <2> DEFINE r == Raised(j.err)
  <2>2. /\ r \in Job(n) /\ r.kind = job.kind /\ r.self = job.self /\ r.ok = job.ok
        /\ r.at \in Points(job.kind) \cap {"pollend", "handler", "spill", "end"}
        /\ job.kind = "loop" => r.at = "end"
    BY <2>1, RaisedGood
  <2>3. Continued(j, then) = [r EXCEPT !.link = 0]
    BY <1>1 DEF Continued
  <2> HIDE DEF r
  <2>4. /\ [r EXCEPT !.link = 0] \in Job(n) /\ [r EXCEPT !.link = 0].kind = r.kind
        /\ [r EXCEPT !.link = 0].self = r.self /\ [r EXCEPT !.link = 0].ok = r.ok
        /\ [r EXCEPT !.link = 0].at = r.at
    BY <2>2 DEF Job
  <2> QED
    BY <2>2, <2>3, <2>4
<1>2. CASE then # "raise"
  <2> DEFINE r == [j EXCEPT !.at = then, !.link = 0]
  <2>1. then \in {"connect", "next", "end"} /\ then \in Points(job.kind)
        /\ (job.kind = "loop" => then = "end")
    BY <1>2 DEF Thens, Points, Connecting, Job, Kinds
  <2>2. /\ r \in Job(n) /\ r.kind = j.kind /\ r.self = j.self /\ r.ok = j.ok
        /\ r.at = then
    <3>1. then \in Awaits \cup Running
      BY <2>1 DEF Running
    <3> PICK z \in 0 .. n : z = 0
      OBVIOUS
    <3>2. r = [j EXCEPT !.at = then, !.link = z]
      OBVIOUS
    <3> HIDE DEF r
    <3> QED
      BY <3>1, <3>2 DEF Job
  <2>3. Continued(j, then) = r
    BY <1>2 DEF Continued
  <2> HIDE DEF r
  <2> QED
    BY <2>1, <2>2, <2>3
<1> QED
  BY <1>1, <1>2

\* A job that takes the link down keeps everything, wherever it stands.
LEMMA TearDownKeeps ==
    ASSUME IInv, NEW then \in Thens(job.kind), NEW err \in Errors, NEW wipe \in BOOLEAN,
           TearDown(then, err, wipe), job.kind # "none", job.at \notin {"down", "end"},
           UNCHANGED <<mode, calls, world, ends>>
    PROVE  IInv'
<1> USE DEF IInv
<1>1. /\ Good(co', links) /\ co'.token = 0 /\ co'.session = 0 /\ co'.loop = 0
      /\ cut' = cut \cup Watchers(co, job.self) /\ UNCHANGED <<alive, retire>>
      /\ UNCHANGED <<links, up, owed, lost, cleaning, spilt, shut, hand, seen>>
  BY TearsDown DEF world, ends
<1>10. \/ /\ Present /\ co'.client \in {0, co.client}
          /\ job' = [job EXCEPT !.at = "down", !.link = co.client, !.then = then,
                                !.err = err]
       \/ /\ ~Present /\ co'.client = 0 /\ ~co'.initializing
          /\ job' = Continued([job EXCEPT !.err = err], then)
  BY TearsDown
<1>2. job \in Job(links) /\ links \in Nat /\ co.client \in 0 .. links
  BY DEF TypesInv, Good, Fields
<1>3. /\ job' \in Job(links) /\ job'.kind = job.kind /\ job'.self = job.self
      /\ job'.ok = job.ok
      /\ \/ /\ Present /\ co'.client \in {0, co.client}
            /\ job'.at = "down" /\ job'.link = co.client /\ job'.then = then
         \/ /\ ~Present /\ co'.client = 0 /\ ~co'.initializing
            /\ job'.at \in
                  Points(job.kind)
                    \cap {"connect", "next", "end", "pollend", "handler", "spill"}
            /\ job.kind = "loop" => job'.at = "end"
  <2>1. CASE /\ Present /\ co'.client \in {0, co.client}
             /\ job' = [job EXCEPT !.at = "down", !.link = co.client, !.then = then,
                                   !.err = err]
    BY <1>2, <2>1 DEF Job, Awaits, Thens
  <2>2. CASE /\ ~Present /\ co'.client = 0 /\ ~co'.initializing
             /\ job' = Continued([job EXCEPT !.err = err], then)
    <3> DEFINE j == [job EXCEPT !.err = err]
    <3>1. j \in Job(links) /\ j.kind = job.kind /\ j.self = job.self /\ j.ok = job.ok
      BY <1>2 DEF Job
    <3> HIDE DEF j
    <3>2. job' = Continued(j, then)
      BY <2>2 DEF j
    <3> QED
      BY <1>2, <2>2, <3>1, <3>2, ContinuedGood
  <2> QED
    BY <1>10, <2>1, <2>2
<1>4. TypesInv'
  BY <1>1, <1>3 DEF TypesInv
<1>5. OnItsWay(job')
  <2>1. "down" \in Points(job.kind)
    BY <1>2 DEF Job, Kinds, Points, Connecting
  <2> QED
    BY <1>3, <2>1 DEF OnItsWay
<1>6. SetupInv'
  BY <1>1, <1>3 DEF SetupInv, Stages, Claimed
<1>7. LinkInv'
  BY <1>1, <1>3 DEF LinkInv, Present
<1>8. LoopInv'
  BY <1>1, <1>3 DEF LoopInv, Watchers, OnItsWay
<1>9. EndInv'
  BY <1>1, <1>3 DEF EndInv, Claimed
<1> QED
  BY <1>1, <1>4, <1>5, <1>6, <1>7, <1>8, <1>9

\* Which jobs come by a point.
LEMMA WhoIsThere ==
    ASSUME TypesInv, OnItsWay(job)
    PROVE  /\ job.at \in {"ensure", "connect", "establish", "failed"} \cup Stages
                 => job.kind \in Connectors
           /\ job.at \in {"pace", "write"} => job.kind \in {"command", "poll", "loop"}
           /\ job.at = "reply" => job.kind \in {"poll", "loop"}
           /\ job.at \in {"handler", "next", "backoff"} => job.kind = "command"
           /\ job.at = "pollend" => job.kind = "poll"
           /\ job.at = "spill" => job.kind = "preflight"
           /\ job.at = "close" =>
                 job.kind \in {"expire", "retire", "shutdown", "handover"}
           /\ job.at = "idle" <=> job.kind = "none"
           /\ job.kind \in Kinds /\ job \in Job(links)
<1>1. job.kind \in Kinds /\ job \in Job(links) /\ job.at \in Points(job.kind)
  BY DEF TypesInv, OnItsWay, Job
<1> QED
  BY <1>1 DEF Kinds, Points, Connecting, Stages

\* The steps of a job that leave the connection as it is.
LEMMA MovesOn ==
    ASSUME IInv, UNCHANGED <<mode, calls, world, tasks, ends>>,
           Good(co', links), co'.client = co.client, co'.token = co.token,
           co'.session = co.session, co'.loop = co.loop,
           co'.initializing => co.initializing,
           job.kind \in Connectors \cup {"loop"}, job.at \notin {"down", "end"},
           job' \in Job(links), job'.kind = job.kind, job'.self = job.self,
           job'.at \in Points(job.kind)
              \ ({"down", "connect", "establish", "pace"} \cup Stages),
           job.kind = "loop" /\ job'.ok => job'.at = "end",
           job'.at = "failed" \/ job.at \notin {"establish", "failed"} \cup Stages,
           \/ job'.at \in {"failed", "write"} \/ shut # "done"
           \/ job.at \notin {"write", "failed"} \cup Stages,
           job'.at = "spill" => Refused
    PROVE  IInv'
<1> USE DEF IInv
<1>1. UNCHANGED <<links, up, owed, lost, cleaning, spilt, alive, cut, retire, shut,
                  hand, seen>>
  BY DEF world, tasks, ends
<1>2. TypesInv'
  BY <1>1 DEF TypesInv
<1>3. OnItsWay(job')
  BY DEF OnItsWay
<1>4. SetupInv'
  BY <1>1 DEF SetupInv, Refused, Shutdown, Claimed
<1>5. LinkInv'
  BY <1>1 DEF LinkInv
<1>6. LoopInv'
  BY <1>1 DEF LoopInv
<1>7. EndInv'
  BY <1>1 DEF EndInv, Claimed
<1> QED
  BY <1>1, <1>2, <1>3, <1>4, <1>5, <1>6, <1>7

\* The same with an error.
LEMMA RaiseKeeps ==
    ASSUME IInv, UNCHANGED <<mode, calls, world, co, tasks, ends>>,
           NEW err \in Errors, job' = Raised(err),
           job.kind \in Connectors \cup {"loop"},
           job.at \in {"ensure", "connect", "pace", "write", "reply", "backoff"},
           job.at = "write" => shut # "done",
           job.kind = "preflight" => Refused \/ err = "crypto"
    PROVE  IInv'
<1>1. /\ Raised(err) \in Job(links) /\ Raised(err).kind = job.kind
      /\ Raised(err).self = job.self /\ Raised(err).ok = job.ok
      /\ Raised(err).at \in Points(job.kind) \cap {"pollend", "handler", "spill", "end"}
      /\ job.kind = "loop" => Raised(err).at = "end"
      /\ Raised(err).at = "spill" => job.kind = "preflight" /\ err # "crypto"
  BY RaisedGood DEF IInv, TypesInv
<1>2. job'.at \notin {"down", "connect", "establish", "pace"} \cup Stages
  BY <1>1 DEF Stages
<1>3. job.at \notin {"down", "end", "establish", "failed"} \cup Stages
  BY DEF Stages
<1>4. Good(co', links)
  BY DEF IInv
<1> QED
  BY <1>1, <1>2, <1>3, <1>4, MovesOn

\* A lease is renewed by a command, and not by what runs in the background.
LEMMA RenewedGood ==
    ASSUME IInv
    PROVE  \A d \in {Renewed(co), ResetTimer(co)} :
              /\ Good(d, links)
              /\ d.client = co.client /\ d.token = co.token /\ d.session = co.session
              /\ d.loop = co.loop /\ d.initializing = co.initializing
<1>1. \A d \in {Renewed(co), ResetTimer(co)} :
         d = StartTimer(co) \/ d = [co EXCEPT !.armed = FALSE] \/ d = co
  BY DEF Renewed, ResetTimer
<1> QED
  BY <1>1, TimersGood DEF IInv, TypesInv

-----------------------------------------------------------------------------
(* The steps of a job.                                                     *)

\* _ensure_connected hands out a usable link, tears one down, or goes on.
LEMMA EnsureKeeps ==
    ASSUME IInv, Ensure
    PROVE  IInv'
<1> USE DEF IInv
<1>1. /\ UNCHANGED <<mode, calls, world, ends>> /\ job.at = "ensure"
      /\ job.kind \in Connectors
  BY WhoIsThere DEF Ensure
<1>2. {"raise", "connect"} \subseteq Thens(job.kind)
  BY <1>1 DEF Thens
<1>3. CASE /\ UNCHANGED <<co, tasks>>
           /\ \E err \in Errors : job' = Raised(err) /\ (Refused \/ err = "crypto")
  BY <1>1, <1>3, RaiseKeeps
<1>4. CASE \E then \in {"raise", "connect"}, err \in Errors : TearDown(then, err, FALSE)
  <2>1. PICK then \in Thens(job.kind), err \in Errors : TearDown(then, err, FALSE)
    BY <1>2, <1>4
  <2> QED
    BY <1>1, <2>1, TearDownKeeps
<1>5. CASE /\ Usable /\ co' = Renewed(co) /\ UNCHANGED tasks
           /\ job' = [job EXCEPT !.at = Onward, !.link = co.client]
  <2>1. /\ Good(co', links) /\ co'.client = co.client /\ co'.token = co.token
        /\ co'.session = co.session /\ co'.loop = co.loop
        /\ co'.initializing = co.initializing
    BY <1>5, RenewedGood
  <2>3. Onward \in Points(job.kind) /\ Onward \in {"pace", "end"}
    BY <1>1 DEF Points, Connecting, Onward
  <2>2. /\ job' \in Job(links) /\ job'.kind = job.kind /\ job'.self = job.self
        /\ job'.ok = job.ok /\ job'.at = Onward /\ job'.link = co.client
    BY <1>5, <2>3 DEF TypesInv, Job, Good, Fields, Awaits, Running
  <2>4. UNCHANGED <<links, up, owed, lost, cleaning, spilt, alive, cut, retire,
                    shut, hand, seen>>
    BY <1>1, <1>5 DEF world, tasks, ends
  <2>5. SetupInv' /\ LinkInv' /\ LoopInv' /\ EndInv'
    BY <1>1, <1>5, <2>1, <2>2, <2>3, <2>4
       DEF SetupInv, LinkInv, LoopInv, EndInv, Stages, Claimed, Usable
  <2> QED
    BY <2>1, <2>2, <2>3, <2>4, <2>5 DEF TypesInv, OnItsWay
<1>6. CASE co.client = 0 /\ job' = At("connect") /\ UNCHANGED <<co, tasks>>
  <2>2. /\ job' \in Job(links) /\ job'.kind = job.kind /\ job'.self = job.self
        /\ job'.ok = job.ok /\ job'.at = "connect"
    BY <1>6 DEF TypesInv, Job, Running, At
  <2>3. "connect" \in Points(job.kind)
    BY <1>1 DEF Points, Connecting
  <2>4. UNCHANGED <<links, up, owed, lost, cleaning, spilt, alive, cut, retire,
                    shut, hand, seen, co>>
    BY <1>1, <1>6 DEF world, tasks, ends
  <2>5. SetupInv' /\ LinkInv' /\ LoopInv' /\ EndInv'
    BY <1>1, <1>6, <2>2, <2>4
       DEF SetupInv, LinkInv, LoopInv, EndInv, Stages, Claimed
  <2> QED
    BY <2>2, <2>3, <2>4, <2>5 DEF TypesInv, OnItsWay
<1> QED
  BY <1>3, <1>4, <1>5, <1>6 DEF Ensure, Errors, Refused

\* A set-up begins with nothing left of an earlier link.
LEMMA ConnectKeeps ==
    ASSUME IInv, Connect
    PROVE  IInv'
<1> USE DEF IInv
<1>1. /\ UNCHANGED <<mode, calls, world, tasks, ends>> /\ job.at = "connect"
      /\ job.kind \in Connectors
  BY WhoIsThere DEF Connect
<1>2. CASE Refused /\ job' = Raised(Refusal) /\ UNCHANGED co
  <2>1. Refusal \in Errors
    BY DEF Refusal, Errors
  <2> QED
    BY <1>1, <1>2, <2>1, RaiseKeeps
<1>3. CASE /\ ~Refused /\ job' = At("establish")
           /\ co' = [co EXCEPT !.initializing = TRUE, !.session = 0]
  <2>1. co.client = 0 /\ co.token = 0 /\ co.session = 0 /\ co.loop = 0
    BY <1>1, <1>3 DEF SetupInv, Refused, Good, Coherent
  <2>2. /\ Good(co', links) /\ co'.client = 0 /\ co'.token = 0 /\ co'.session = 0
        /\ co'.loop = 0
    <3> PICK z : z = 0
      OBVIOUS
    <3> PICK b \in BOOLEAN : b
      OBVIOUS
    <3>1. co' = [co EXCEPT !.initializing = b, !.session = z]
      BY <1>3
    <3> QED
      BY <2>1, <3>1 DEF Good, Fields, Coherent, TypesInv
  <2>3. /\ job' \in Job(links) /\ job'.kind = job.kind /\ job'.self = job.self
        /\ job'.ok = job.ok /\ job'.at = "establish"
    BY <1>3 DEF TypesInv, Job, Awaits, At
  <2>4. "establish" \in Points(job.kind)
    BY <1>1 DEF Points, Connecting
  <2>5. UNCHANGED <<links, up, owed, lost, cleaning, spilt, alive, cut, retire,
                    shut, hand, seen>>
    BY <1>1 DEF world, tasks, ends
  <2>6. SetupInv' /\ LinkInv' /\ LoopInv' /\ EndInv'
    BY <1>1, <1>3, <2>1, <2>2, <2>3, <2>5
       DEF SetupInv, LinkInv, LoopInv, EndInv, Stages, Refused, Claimed
  <2> QED
    BY <2>2, <2>3, <2>4, <2>5, <2>6 DEF TypesInv, OnItsWay
<1> QED
  BY <1>2, <1>3 DEF Connect

\* A set-up that failed takes down whatever was connected.
LEMMA SetupFailsKeeps ==
    ASSUME IInv, SetupFails
    PROVE  IInv'
<1>1. PICK wipe \in BOOLEAN : TearDown("raise", job.err, wipe)
  BY DEF SetupFails
<1>2. /\ UNCHANGED <<mode, calls, world, ends>> /\ job.at = "failed"
      /\ job.kind \in Connectors /\ job.err \in Errors
  BY WhoIsThere DEF SetupFails, IInv, TypesInv, Job
<1>3. "raise" \in Thens(job.kind)
  BY <1>2 DEF Thens
<1> QED
  BY <1>1, <1>2, <1>3, TearDownKeeps

\* A set-up fails, in any of its steps.
LEMMA FailedKeeps ==
    ASSUME IInv, SetupRaises \/ StageRefused
    PROVE  IInv'
<1>1. PICK err \in Errors : job' = Failed(err)
  BY DEF SetupRaises, StageRefused, Refusal, Errors
<1>2. /\ UNCHANGED <<mode, calls, world, co, tasks, ends>>
      /\ job.at \in {"establish"} \cup Stages /\ job.kind \in Connectors
  BY WhoIsThere DEF SetupRaises, StageRefused, IInv
<1>3. /\ job' \in Job(links) /\ job'.kind = job.kind /\ job'.self = job.self
      /\ job'.at = "failed"
  BY <1>1 DEF Failed, IInv, TypesInv, Job, Running
<1>4. "failed" \in Points(job.kind)
  BY <1>2 DEF Points, Connecting
<1>5. Good(co', links)
  BY <1>2 DEF IInv
<1>6. job.at \notin {"down", "end"} /\ "failed" \notin Stages
  BY <1>2 DEF Stages
<1> QED
  BY <1>2, <1>3, <1>4, <1>5, <1>6, MovesOn

\* The link that comes back is the only one.
LEMMA EstablishKeeps ==
    ASSUME IInv, Establish
    PROVE  IInv'
<1> USE DEF IInv
<1>1. /\ links \in Nat /\ links' = links + 1 /\ links' \in Nat
      /\ \A l \in 1 .. links : l \in 1 .. links' /\ l # links'
      /\ links' \in 1 .. links'
  BY DEF Establish, TypesInv
<1>2. /\ job.at = "establish" /\ job.kind \in Connectors
      /\ \/ up' = up \cup {links'} /\ UNCHANGED owed
         \/ UNCHANGED <<up, owed>>
         \/ owed' = owed \cup {links'} /\ UNCHANGED up
      /\ UNCHANGED <<mode, lost, cleaning, spilt, alive, cut, retire, shut, hand,
                     seen>>
  BY WhoIsThere DEF Establish, tasks, ends
<1>3. co.client = 0 /\ co.token = 0 /\ co.session = 0 /\ co.loop = 0
  BY <1>2 DEF SetupInv, Good, Coherent
<1> DEFINE c == [co EXCEPT !.client = links']
<1>4. /\ Good(c, links') /\ c.client = links' /\ c.token = 0 /\ c.session = 0
      /\ c.loop = 0
  BY <1>1, <1>3 DEF Good, Fields, Coherent
<1>5. \/ co' = c /\ \E err \in Errors : job' = Failed(err)
      \/ /\ ~Refused /\ co' = ResetTimer(c)
         /\ job' = [job EXCEPT !.at = "select", !.link = links']
  BY DEF Establish, Refusal, Errors
<1> HIDE DEF c
<1>6. /\ Good(co', links') /\ co'.client = links' /\ co'.token = 0
      /\ co'.session = 0 /\ co'.loop = 0
  <2>1. ResetTimer(c) = StartTimer(c) \/ ResetTimer(c) = [c EXCEPT !.armed = FALSE]
    BY DEF ResetTimer
  <2>2. \A d : d = StartTimer(c) \/ d = [c EXCEPT !.armed = FALSE] \/ d = c =>
           /\ Good(d, links') /\ d.client = c.client /\ d.token = c.token
           /\ d.session = c.session /\ d.loop = c.loop
    BY <1>1, <1>4, TimersGood
  <2> QED
    BY <1>4, <1>5, <2>1, <2>2
<1>7. /\ job' \in Job(links') /\ job'.kind = job.kind /\ job'.self = job.self
      /\ job'.at \in {"failed", "select"}
  <2>1. job \in Job(links')
    BY <1>1 DEF TypesInv, Job
  <2>2. CASE \E err \in Errors : job' = Failed(err)
    BY <2>1, <2>2 DEF Failed, Job, Running
  <2>3. CASE job' = [job EXCEPT !.at = "select", !.link = links']
    <3> PICK z \in 0 .. links', a \in Stages : z = links' /\ a = "select"
      BY <1>1 DEF Stages
    <3>1. job' = [job EXCEPT !.at = a, !.link = z]
      BY <2>3
    <3> QED
      BY <2>1, <3>1 DEF Job, Awaits
  <2> QED
    BY <1>5, <2>2, <2>3
<1>8. TypesInv'
  BY <1>1, <1>2, <1>7 DEF TypesInv
<1>9. {"failed", "select"} \subseteq Points(job.kind)
  BY <1>2 DEF Points, Connecting, Stages
<1>10. SetupInv' /\ LoopInv' /\ EndInv'
  <2>1. hand # "released"
    BY <1>2 DEF EndInv
  <2> QED
    BY <1>2, <1>3, <1>6, <1>7, <2>1 DEF SetupInv, LoopInv, EndInv, Stages, Claimed
<1>11. LinkInv'
  BY <1>1, <1>2, <1>3, <1>6, <1>7 DEF LinkInv, TypesInv
<1> QED
  BY <1>6, <1>7, <1>8, <1>9, <1>10, <1>11 DEF OnItsWay

\* The steps of a set-up whose link is still the coordinator's.
LEMMA StageKeeps ==
    ASSUME IInv, UNCHANGED <<mode, calls, world, retire, ends>>,
           job.at \in Stages, job.kind \in Connectors,
           Good(co', links), co'.client = co.client,
           NEW point \in {"subscribe", "negotiate", "identify", Onward},
           job' = At(point),
           job.link = co.client => co'.token = job.link,
           point = Onward =>
              ~co'.initializing /\ (job.link = co.client => co'.session = job.link),
           point # Onward => co'.loop = 0, shut = "no",
           alive' \ cut' \subseteq {co'.loop}, alive' \subseteq 1 .. links
    PROVE  IInv'
<1> USE DEF IInv
<1>1. UNCHANGED <<links, up, owed, lost, cleaning, spilt, shut, hand, seen, retire>>
  BY DEF world, ends
<1>2. /\ job' \in Job(links) /\ job'.kind = job.kind /\ job'.self = job.self
      /\ job'.at = point /\ job'.link = job.link
  BY DEF TypesInv, Job, Awaits, Running, Stages, At, Onward
<1>3. point \in Points(job.kind) /\ point # "down"
  BY DEF Points, Connecting, Stages, Onward
<1>4. TypesInv'
  BY <1>1, <1>2 DEF TypesInv
<1>5. SetupInv'
  BY <1>1, <1>2 DEF SetupInv, Stages, Onward
<1>6. LinkInv'
  BY <1>1, <1>2 DEF LinkInv, Stages, Onward
<1>7. LoopInv'
  BY <1>2 DEF LoopInv
<1>8. EndInv'
  BY <1>1, <1>2 DEF EndInv, Claimed, Stages, Onward
<1> QED
  BY <1>1, <1>2, <1>3, <1>4, <1>5, <1>6, <1>7, <1>8 DEF OnItsWay

\* What is known of a set-up that may go on.
LEMMA StageIsMine ==
    ASSUME IInv, job.at \in Stages, StageHolds
    PROVE  /\ job.kind \in Connectors /\ shut = "no" /\ ~Claimed
           /\ co.loop = 0 /\ job.self = 0 /\ co \in Fields(links) /\ links \in Nat
           /\ job.link \in 0 .. links /\ alive \ cut \subseteq {0}
           /\ alive \cup retire \subseteq 1 .. links
           /\ job.at # "subscribe" => job.link = co.client /\ job.link \in up
<1>1. job.kind \in Connectors /\ job.self = 0
  BY WhoIsThere DEF IInv, OnItsWay
<1>2. shut = "no" /\ ~Claimed
  BY DEF StageHolds, Refused, Shutdown
<1>3. co.loop = 0 /\ co \in Fields(links) /\ links \in Nat /\ job.link \in 0 .. links
      /\ alive \cup retire \subseteq 1 .. links
  BY DEF IInv, SetupInv, Good, TypesInv, Job
<1> QED
  BY <1>1, <1>2, <1>3 DEF IInv, LoopInv, StageHolds, Mine

\* The subscription takes the link of this set-up for its own ...
LEMMA SelectKeeps ==
    ASSUME IInv, Select
    PROVE  IInv'
<1>1. /\ job.at = "select" /\ StageHolds /\ job' = At("subscribe")
      /\ UNCHANGED <<mode, calls, world, tasks, ends>>
  BY DEF Select
<1>2. job.at \in Stages
  BY <1>1 DEF Stages
<1>3. PICK s \in {0, job.link} : co' = [co EXCEPT !.session = s, !.token = job.link]
  BY DEF Select
<1>4. /\ job.kind \in Connectors /\ shut = "no" /\ co.loop = 0
      /\ co \in Fields(links) /\ job.link \in 0 .. links /\ job.link = co.client
      /\ links \in Nat /\ alive \ cut \subseteq {0} /\ alive \subseteq 1 .. links
  BY <1>1, <1>2, StageIsMine
<1>5. /\ Good(co', links) /\ co'.client = co.client /\ co'.token = job.link
      /\ co'.loop = 0
  BY <1>3, <1>4 DEF IInv, Good, Fields, Coherent
<1> QED
  BY <1>1, <1>2, <1>4, <1>5, StageKeeps DEF tasks, Onward

\* ... and is alive.
LEMMA SubscribeKeeps ==
    ASSUME IInv, Subscribe
    PROVE  IInv'
<1>1. /\ job.at = "subscribe" /\ StageHolds /\ job' = At("negotiate")
      /\ co' = [co EXCEPT !.quiet = FALSE]
      /\ UNCHANGED <<mode, calls, world, tasks, ends>>
  BY DEF Subscribe
<1>2. job.at \in Stages
  BY <1>1 DEF Stages
<1>3. co.token = job.link
  BY <1>1 DEF StageHolds
<1>4. /\ job.kind \in Connectors /\ shut = "no" /\ co.loop = 0
      /\ co \in Fields(links) /\ job.link \in 0 .. links
      /\ links \in Nat /\ alive \ cut \subseteq {0} /\ alive \subseteq 1 .. links
  BY <1>1, <1>2, StageIsMine
<1>5. /\ Good(co', links) /\ co'.client = co.client /\ co'.token = job.link
      /\ co'.loop = 0
  <2> PICK b \in BOOLEAN : ~b
    OBVIOUS
  <2>1. co' = [co EXCEPT !.quiet = b]
    BY <1>1
  <2> QED
    BY <1>3, <1>4, <2>1 DEF IInv, Good, Fields, Coherent
<1> QED
  BY <1>1, <1>2, <1>4, <1>5, StageKeeps DEF tasks, Onward

\* The session is that of the subscribed link.
LEMMA NegotiateKeeps ==
    ASSUME IInv, Negotiate
    PROVE  IInv'
<1>1. /\ job.at = "negotiate" /\ StageHolds /\ job' = At("identify")
      /\ co' = [co EXCEPT !.session = job.link]
      /\ UNCHANGED <<mode, calls, world, tasks, ends>>
  BY DEF Negotiate
<1>2. job.at \in Stages
  BY <1>1 DEF Stages
<1>4. /\ job.kind \in Connectors /\ shut = "no" /\ co.loop = 0
      /\ co \in Fields(links) /\ job.link \in 0 .. links /\ job.link = co.client
      /\ links \in Nat /\ alive \ cut \subseteq {0} /\ alive \subseteq 1 .. links
  BY <1>1, <1>2, StageIsMine
<1>3. co.token = job.link
  BY <1>1, <1>4 DEF IInv, SetupInv, Stages
<1>5. /\ Good(co', links) /\ co'.client = co.client /\ co'.token = job.link
      /\ co'.loop = 0
  BY <1>1, <1>3, <1>4 DEF IInv, Good, Fields, Coherent
<1> QED
  BY <1>1, <1>2, <1>4, <1>5, StageKeeps DEF tasks, Onward

\* The keep-alive task that starts is the only one.
LEMMA IdentifyKeeps ==
    ASSUME IInv, Identify
    PROVE  IInv'
<1> DEFINE d == [co EXCEPT !.loop = job.link]
<1>1. /\ job.at = "identify" /\ StageHolds /\ job' = At(Onward)
      /\ co' = Finished(d) /\ alive' = alive \cup {job.link}
      /\ cut' = cut \cup Watchers(co, job.self)
      /\ UNCHANGED <<mode, calls, world, retire, ends>>
  BY DEF Identify
<1>2. job.at \in Stages
  BY <1>1 DEF Stages
<1>4. /\ job.kind \in Connectors /\ shut = "no" /\ co.loop = 0
      /\ co \in Fields(links) /\ job.link \in 0 .. links /\ job.link = co.client
      /\ job.link \in up
      /\ links \in Nat /\ alive \ cut \subseteq {0} /\ alive \subseteq 1 .. links
  BY <1>1, <1>2, StageIsMine
<1>3. co.token = job.link /\ co.session = job.link
  BY <1>1, <1>4 DEF IInv, SetupInv, Stages, StageHolds
<1>5. /\ Good(d, links) /\ d.client = co.client /\ d.token = job.link
      /\ d.session = job.link /\ d.loop = job.link
  BY <1>3, <1>4 DEF IInv, Good, Fields, Coherent
<1> HIDE DEF d
<1>6. /\ Good(co', links) /\ co'.client = co.client /\ co'.token = job.link
      /\ co'.session = job.link /\ co'.loop = job.link /\ ~co'.initializing
  BY <1>1, <1>4, <1>5, FinishedGood
<1>7. job.link \in 1 .. links
  BY <1>4 DEF IInv, TypesInv
<1>8. alive' \subseteq 1 .. links /\ alive' \ cut' \subseteq {co'.loop}
  <2>1. alive \ cut = {}
    BY <1>4
  <2> QED
    BY <1>1, <1>4, <1>6, <1>7, <2>1
<1> QED
  BY <1>1, <1>2, <1>4, <1>6, <1>8, StageKeeps

\* The packet's turn has come: it is written, or the link is not the caller's.
LEMMA PaceKeeps ==
    ASSUME IInv, Pace
    PROVE  IInv'
<1>1. /\ UNCHANGED <<mode, calls, world, ends>> /\ job.at = "pace"
      /\ job.kind \in {"command", "poll", "loop"}
  BY WhoIsThere DEF Pace, IInv
<1>2. CASE TearDown("raise", Refusal, FALSE)
  BY <1>1, <1>2, TearDownKeeps DEF Thens, Refusal, Errors
<1>3. CASE job' = Raised("crypto") /\ UNCHANGED <<co, tasks>>
  BY <1>1, <1>3, RaiseKeeps DEF Errors
<1>4. CASE job' = At("write") /\ UNCHANGED <<co, tasks>>
  <2>1. /\ job' \in Job(links) /\ job'.kind = job.kind /\ job'.self = job.self
        /\ job'.ok = job.ok /\ job'.at = "write"
    BY <1>4 DEF IInv, TypesInv, Job, Awaits, At
  <2>2. "write" \in Points(job.kind) /\ "write" \notin Stages /\ job.at \notin Stages
    BY <1>1 DEF Points, Connecting, Stages
  <2>3. Good(co', links) /\ (job.kind = "loop" => ~job.ok)
    BY <1>1, <1>4 DEF IInv, LoopInv
  <2> QED
    BY <1>1, <1>4, <2>1, <2>2, <2>3, MovesOn
<1> QED
  BY <1>2, <1>3, <1>4 DEF Pace

\* A wait is cancelled.
LEMMA WaitCutKeeps ==
    ASSUME IInv, WaitCut
    PROVE  IInv'
<1>1. /\ UNCHANGED <<mode, calls, world, co, tasks, ends>>
      /\ job.at \in {"pace", "reply", "backoff"} /\ job' = Raised("cancelled")
      /\ job.kind \in {"command", "poll", "loop"}
  BY WhoIsThere DEF WaitCut, IInv
<1> QED
  BY <1>1, RaiseKeeps DEF Errors

\* The write is over, or its reply is awaited.
LEMMA WriteSentKeeps ==
    ASSUME IInv, WriteSent
    PROVE  IInv'
<1>1. /\ UNCHANGED <<mode, calls, world, tasks, ends>> /\ job.at = "write"
      /\ job.kind \in {"command", "poll", "loop"} /\ shut = "no"
  BY WhoIsThere DEF WriteSent, IInv, Shutdown
<1>2. /\ Good(co', links) /\ co'.client = co.client /\ co'.token = co.token
      /\ co'.session = co.session /\ co'.loop = co.loop
      /\ co'.initializing = co.initializing
  BY RenewedGood DEF WriteSent, IInv
<1>3. PICK point \in {"end", "reply"} :
         job' = At(point) /\ point = IF job.kind = "command" THEN "end" ELSE "reply"
  BY DEF WriteSent
<1>4. /\ job' \in Job(links) /\ job'.kind = job.kind /\ job'.self = job.self
      /\ job'.ok = job.ok /\ job'.at = point
  BY <1>3 DEF IInv, TypesInv, Job, Awaits, Running, At
<1>5. point \in Points(job.kind) /\ point \notin Stages /\ job.at \notin Stages
  BY <1>1, <1>3 DEF Points, Connecting, Stages
<1>6. job.kind = "loop" => ~job.ok
  BY <1>1 DEF IInv, LoopInv
<1> QED
  BY <1>1, <1>2, <1>3, <1>4, <1>5, <1>6, MovesOn

\* It fails: with a teardown, or without.
LEMMA WriteFailsKeeps ==
    ASSUME IInv, WriteFails
    PROVE  IInv'
<1>1. /\ UNCHANGED <<mode, calls, world, ends>> /\ job.at = "write"
      /\ job.kind \in {"command", "poll", "loop"}
  BY WhoIsThere DEF WriteFails, IInv
<1>2. "raise" \in Thens(job.kind)
  BY <1>1 DEF Thens
<1>3. CASE \E err \in Errors, wipe \in BOOLEAN : TearDown("raise", err, wipe)
  BY <1>1, <1>2, <1>3, TearDownKeeps
<1>4. CASE /\ ~Shutdown /\ UNCHANGED <<co, tasks>>
           /\ \E err \in Errors : job' = Raised(err)
  BY <1>1, <1>4, RaiseKeeps DEF Shutdown
<1> QED
  BY <1>3, <1>4 DEF WriteFails, Errors

\* A keep-alive task that was answered goes on, a poll comes to its end.
LEMMA ReplyHeardKeeps ==
    ASSUME IInv, ReplyHeard
    PROVE  IInv'
<1>1. /\ UNCHANGED <<mode, calls, world, tasks, ends>> /\ job.at = "reply"
      /\ job.kind \in {"poll", "loop"}
  BY WhoIsThere DEF ReplyHeard, IInv
<1>2. /\ Good(co', links) /\ co'.client = co.client /\ co'.token = co.token
      /\ co'.session = co.session /\ co'.loop = co.loop
      /\ co'.initializing = co.initializing
  <2> PICK b \in BOOLEAN : ~b
    OBVIOUS
  <2>1. co' = [co EXCEPT !.quiet = b]
    BY DEF ReplyHeard
  <2> QED
    BY <2>1 DEF IInv, Good, Fields, Coherent
<1>3. PICK point \in {"end", "pollend"} :
         /\ job' = [job EXCEPT !.at = point, !.ok = TRUE]
         /\ point = IF job.kind = "poll" THEN "pollend" ELSE "end"
  BY DEF ReplyHeard
<1>4. /\ job' \in Job(links) /\ job'.kind = job.kind /\ job'.self = job.self
      /\ job'.at = point
  <2> PICK b \in BOOLEAN : b
    OBVIOUS
  <2>1. job' = [job EXCEPT !.at = point, !.ok = b]
    BY <1>3
  <2> QED
    BY <2>1 DEF IInv, TypesInv, Job, Running
<1>5. point \in Points(job.kind) /\ point \notin Stages /\ job.at \notin Stages
  BY <1>1, <1>3 DEF Points, Connecting, Stages
<1> QED
  BY <1>1, <1>2, <1>3, <1>4, <1>5, MovesOn

\* A reply is missed: ask once more, or give the link up.
LEMMA ReplyMissedKeeps ==
    ASSUME IInv, ReplyMissed
    PROVE  IInv'
<1>1. /\ UNCHANGED <<mode, calls, world, ends>> /\ job.at = "reply"
      /\ job.kind \in {"poll", "loop"} /\ Good(co, links)
  BY WhoIsThere DEF ReplyMissed, IInv
<1>2. CASE TearDown("raise", "bleak", FALSE)
  BY <1>1, <1>2, TearDownKeeps DEF Thens, Errors
<1>3. CASE /\ job.kind = "poll" /\ job' = [job EXCEPT !.tries = 1, !.at = "ensure"]
           /\ UNCHANGED <<co, tasks>>
  <2>1. /\ job' \in Job(links) /\ job'.kind = job.kind /\ job'.self = job.self
        /\ job'.at = "ensure"
    <3> PICK t \in 0 .. 2 : t = 1
      OBVIOUS
    <3>1. job' = [job EXCEPT !.tries = t, !.at = "ensure"]
      BY <1>3
    <3> QED
      BY <3>1 DEF IInv, TypesInv, Job, Running
  <2>2. "ensure" \in Points(job.kind) /\ "ensure" \notin Stages /\ job.at \notin Stages
    BY <1>1, <1>3 DEF Points, Connecting, Stages
  <2> QED
    BY <1>1, <1>3, <2>1, <2>2, MovesOn
<1>4. CASE /\ job.kind = "loop" /\ job' = [job EXCEPT !.ok = TRUE, !.at = "end"]
           /\ UNCHANGED <<co, tasks>>
  <2>1. /\ job' \in Job(links) /\ job'.kind = job.kind /\ job'.self = job.self
        /\ job'.at = "end"
    <3> PICK b \in BOOLEAN : b
      OBVIOUS
    <3>1. job' = [job EXCEPT !.ok = b, !.at = "end"]
      BY <1>4
    <3> QED
      BY <3>1 DEF IInv, TypesInv, Job, Running
  <2>2. "end" \in Points(job.kind) /\ "end" \notin Stages /\ job.at \notin Stages
    BY <1>1, <1>4 DEF Points, Connecting, Stages
  <2> QED
    BY <1>1, <1>4, <2>1, <2>2, MovesOn
<1> QED
  BY <1>2, <1>3, <1>4 DEF ReplyMissed

\* The handler of send_command, and the finally clause of a poll.
LEMMA HandlersKeep ==
    ASSUME IInv, Handle \/ PollEnds
    PROVE  IInv'
<1>1. CASE Handle
  <2>1. /\ UNCHANGED <<mode, calls, world, ends>> /\ job.at = "handler"
        /\ job.kind = "command" /\ job.err \in Errors
        /\ TearDown("next", job.err, FALSE)
    BY <1>1, WhoIsThere DEF Handle, IInv, TypesInv, Job
  <2> QED
    BY <2>1, TearDownKeeps DEF Thens
<1>2. CASE PollEnds
  <2>1. /\ UNCHANGED <<mode, calls, world, ends>> /\ job.at = "pollend"
        /\ job.kind = "poll" /\ job.err \in Errors /\ Good(co, links)
    BY <1>2, WhoIsThere DEF PollEnds, IInv, TypesInv, Job
  <2>2. CASE TearDown("end", job.err, FALSE)
    BY <2>1, <2>2, TearDownKeeps DEF Thens
  <2>3. CASE job' = At("end") /\ UNCHANGED <<co, tasks>>
    <3>1. /\ job' \in Job(links) /\ job'.kind = job.kind /\ job'.self = job.self
          /\ job'.at = "end"
      BY <2>3 DEF IInv, TypesInv, Job, Running, At
    <3>2. "end" \in Points(job.kind) /\ "end" \notin Stages /\ job.at \notin Stages
      BY <2>1 DEF Points, Connecting, Stages
    <3> QED
      BY <2>1, <2>3, <3>1, <3>2, MovesOn
  <2> QED
    BY <1>2, <2>2, <2>3 DEF PollEnds
<1> QED
  BY <1>1, <1>2

\* A preflight that failed forgets the client and leaves it to a task.
LEMMA SpillKeeps ==
    ASSUME IInv, Spill
    PROVE  IInv'
<1> USE DEF IInv
<1> DEFINE left == {co.client} \cap up
<1>1. /\ job.at = "spill" /\ job.kind = "preflight" /\ job.self = 0
      /\ job \in Job(links) /\ links \in Nat /\ Good(co, links)
      /\ 0 \notin up /\ up \subseteq 1 .. links
  BY WhoIsThere DEF Spill, OnItsWay, TypesInv
<1>2. /\ UNCHANGED <<links, up, owed, lost, alive, retire, shut, hand, seen>>
      /\ cleaning' = cleaning \cup left
      /\ spilt' = IF Claimed THEN spilt \cup left ELSE spilt
      /\ cut' = cut \cup (IF co.loop = 0 THEN {} ELSE {co.loop})
  BY DEF Spill, ends, Watchers
<1>3. /\ Good(co', links) /\ co'.client = 0 /\ co'.token = 0 /\ co'.session = 0
      /\ co'.loop = 0 /\ co'.initializing = co.initializing
  BY <1>1, ClearStateGood DEF Spill
<1>4. /\ job' \in Job(links) /\ job'.kind = job.kind /\ job'.self = job.self
      /\ job'.at = "end"
  BY <1>1 DEF Spill, At, Job, Running
<1>5. TypesInv'
  BY <1>1, <1>2, <1>4 DEF TypesInv
<1>6. OnItsWay(job')
  BY <1>1, <1>4 DEF OnItsWay, Points, Connecting
<1>7. SetupInv'
  BY <1>1, <1>3, <1>4 DEF SetupInv, Stages
<1>8. LinkInv'
  BY <1>1, <1>2, <1>3, <1>4 DEF LinkInv
<1>9. LoopInv'
  BY <1>1, <1>2, <1>3, <1>4 DEF LoopInv
<1>10. EndInv'
  <2>1. Claimed' = Claimed
    BY <1>2 DEF Claimed
  <2>2. left = {} \/ Claimed \/ shut # "no"
    BY <1>1 DEF SetupInv
  <2> QED
    BY <1>1, <1>2, <1>3, <1>4, <2>1, <2>2 DEF EndInv
<1> QED
  BY <1>2, <1>3, <1>5, <1>6, <1>7, <1>8, <1>9, <1>10

\* Attempts are counted.
LEMMA RetryKeeps ==
    ASSUME IInv, Retry \/ BackedOff
    PROVE  IInv'
<1>1. /\ UNCHANGED <<mode, calls, world, co, tasks, ends>>
      /\ job.at \in {"next", "backoff"} /\ job.kind = "command" /\ Good(co', links)
  BY WhoIsThere DEF Retry, BackedOff, IInv
<1>2. job \in Job(links)
  BY DEF IInv, TypesInv
<1>3. PICK a \in {"ensure", "backoff", "end"}, t \in 0 .. 2 :
         job' = [job EXCEPT !.at = a, !.tries = t]
  <2>1. job.tries \in 0 .. 2 /\ (job.tries # 2 => job.tries + 1 \in 0 .. 2)
    BY <1>2 DEF Job
  <2>2. \A p : [job EXCEPT !.at = p] = [job EXCEPT !.at = p, !.tries = job.tries]
    BY <1>2 DEF Job
  <2>3. CASE \E a \in {"ensure", "backoff", "end"} : job' = [job EXCEPT !.at = a]
    BY <2>1, <2>2, <2>3
  <2>4. CASE /\ job.tries # 2
             /\ \E a \in {"ensure", "backoff"} :
                   job' = [job EXCEPT !.at = a, !.tries = job.tries + 1]
    BY <2>1, <2>4
  <2> QED
    BY <2>3, <2>4 DEF Retry, BackedOff, At
<1>4. /\ job' \in Job(links) /\ job'.kind = job.kind /\ job'.self = job.self
      /\ job'.at = a
  BY <1>2, <1>3 DEF Job, Running, Awaits
<1>5. a \in Points(job.kind) /\ a \notin Stages /\ job.at \notin Stages
  BY <1>1 DEF Points, Connecting, Stages
<1> QED
  BY <1>1, <1>3, <1>4, <1>5, MovesOn

\* The jobs that only disconnect.
LEMMA CloseKeeps ==
    ASSUME IInv, Close
    PROVE  IInv'
<1>1. /\ UNCHANGED <<mode, calls, world, ends>> /\ job.at = "close"
      /\ job.kind \in {"expire", "retire", "shutdown", "handover"}
      /\ TearDown("end", "bleak", FALSE)
  BY WhoIsThere DEF Close, IInv
<1>2. "end" \in Thens(job.kind) /\ "bleak" \in Errors
  BY <1>1 DEF Thens, Errors
<1> QED
  BY <1>1, <1>2, TearDownKeeps

\* A teardown ends: the link is gone, or lost, or kept for a group's claim.
LEMMA DownEndsKeeps ==
    ASSUME IInv, DownEnds
    PROVE  IInv'
<1> USE DEF IInv
<1>1. PICK remains \in {up, up \ {job.link}}, interrupted \in BOOLEAN :
         /\ up' = remains
         /\ co' = Finished(EndDown(co, job.link, remains))
         /\ lost' = IF job.link \in remains /\ ~Claimed
                    THEN lost \cup {job.link} ELSE lost
         /\ LET cutOff == [job EXCEPT !.err = "cancelled"] IN
            job' = CASE ~interrupted -> Continued(job, job.then)
                     [] job.then = "end" -> Continued(cutOff, "end")
                     [] OTHER -> Continued(cutOff, "raise")
  BY DEF DownEnds
<1>2. /\ UNCHANGED <<links, owed, cleaning, spilt, alive, cut, retire, shut, hand,
                     seen>>
      /\ job.at = "down" /\ job.kind # "none" /\ job.then \in Thens(job.kind)
      /\ co.client \in {0, job.link} /\ job \in Job(links) /\ links \in Nat
      /\ job.link \in 0 .. links /\ co.loop = 0 /\ 0 \notin up
  BY WhoIsThere
     DEF DownEnds, tasks, ends, OnItsWay, TypesInv, SetupInv, Job, Good, Coherent
<1> DEFINE e == EndDown(co, job.link, remains)
<1>3. /\ Good(e, links)
      /\ e.client = IF Retained(job.link, remains) THEN job.link ELSE 0
      /\ e.token = 0 /\ e.session = 0 /\ e.loop = 0
  BY <1>2, EndDownGood
<1>4. co' = Finished(e)
  BY <1>1
<1> HIDE DEF e
<1>5. /\ Good(co', links)
      /\ co'.client = IF Retained(job.link, remains) THEN job.link ELSE 0
      /\ co'.token = 0 /\ co'.session = 0 /\ co'.loop = 0 /\ ~co'.initializing
  BY <1>2, <1>3, <1>4, FinishedGood
<1>6. /\ job' \in Job(links) /\ job'.kind = job.kind /\ job'.self = job.self
      /\ job'.ok = job.ok
      /\ job'.at \in
            Points(job.kind)
              \cap {"connect", "next", "end", "pollend", "handler", "spill"}
      /\ job.kind = "loop" => job'.at = "end"
  <2> DEFINE j == [job EXCEPT !.err = "cancelled"]
  <2>1. /\ j \in Job(links) /\ j.kind = job.kind /\ j.self = job.self /\ j.ok = job.ok
    BY <1>2 DEF Job, Errors
  <2>2. \/ job' = Continued(job, job.then)
        \/ job.then = "end" /\ job' = Continued(j, "end")
        \/ job.then # "end" /\ job' = Continued(j, "raise")
    BY <1>1
  <2>3. job.then # "end" => "raise" \in Thens(job.kind)
    BY <1>2, WhoIsThere DEF Thens, Kinds
  <2> HIDE DEF j
  <2> QED
    BY <1>2, <2>1, <2>2, <2>3, ContinuedGood
<1>7. /\ up' \subseteq up /\ lost \subseteq lost'
      /\ lost' \subseteq lost \cup (up \cap {job.link})
      /\ (job.link \in up' => job.link \in lost' \/ co'.client = job.link)
  <2>1. job.link \in up => job.link # 0
    BY <1>2 DEF TypesInv
  <2> QED
    BY <1>1, <1>5, <2>1 DEF Retained
<1>8. TypesInv'
  BY <1>2, <1>6, <1>7 DEF TypesInv
<1>9. OnItsWay(job')
  BY <1>6 DEF OnItsWay
<1>10. SetupInv'
  <2>1. Claimed' = Claimed
    BY <1>2 DEF Claimed
  <2> QED
    BY <1>5, <1>6, <2>1 DEF SetupInv, Stages, Retained
<1>11. LinkInv'
  BY <1>2, <1>6, <1>7 DEF LinkInv
<1>12. LoopInv'
  BY <1>2, <1>5, <1>6 DEF LoopInv
<1>13. EndInv'
  <2>1. hand = "no" => co'.client = 0
    BY <1>5 DEF Retained, Claimed
  <2>2. hand = "released" => up' \subseteq lost' \cup spilt' /\ seen' \notin up'
    BY <1>2, <1>7 DEF EndInv
  <2> QED
    BY <1>2, <1>6, <2>1, <2>2 DEF EndInv, Claimed
<1> QED
  BY <1>2, <1>5, <1>8, <1>9, <1>10, <1>11, <1>12, <1>13

\* A job gives control back; a keep-alive task goes on, or is no more.
LEMMA EndJobKeeps ==
    ASSUME IInv, EndJob
    PROVE  IInv'
<1> USE DEF IInv
<1> DEFINE over == job.kind = "loop" /\ ~job.ok
<1>1. /\ UNCHANGED <<links, up, owed, lost, cleaning, spilt, retire, seen>>
      /\ job.at = "end" /\ job' = NoJob
      /\ alive' = (IF over THEN alive \ {job.self} ELSE alive)
      /\ cut' = (IF over THEN cut \ {job.self} ELSE cut)
      /\ co' = IF over /\ co.loop = job.self THEN StopLoop(co) ELSE co
      /\ shut' = (IF job.kind = "shutdown" THEN "done" ELSE shut)
      /\ hand' = IF job.kind # "handover" THEN hand
                 ELSE IF LetGo THEN "released" ELSE "refused"
  BY DEF EndJob, world
<1>2. /\ Good(co', links) /\ co'.client = co.client /\ co'.token = co.token
      /\ co'.session = co.session /\ co'.initializing = co.initializing
      /\ co'.loop = IF over /\ co.loop = job.self THEN 0 ELSE co.loop
  BY <1>1, StopLoopGood DEF TypesInv
<1>3. /\ job' \in Job(links') /\ job'.kind = "none" /\ job'.at = "idle" /\ job'.self = 0
      /\ ~job'.ok
  BY <1>1 DEF NoJob, Job, TypesInv, Kinds, Awaits, Errors
<1>4. TypesInv'
  BY <1>1, <1>3 DEF TypesInv
<1>5. OnItsWay(job')
  BY <1>3 DEF OnItsWay, Points
<1>6. SetupInv'
  BY <1>1, <1>2, <1>3 DEF SetupInv, Stages
<1>7. LinkInv'
  BY <1>1, <1>2, <1>3 DEF LinkInv
<1>8. LoopInv'
  BY <1>1, <1>2, <1>3 DEF LoopInv, OnItsWay
<1>9. EndInv'
  <2>1. ASSUME hand' = "released"
        PROVE  up' \subseteq lost' \cup spilt' /\ seen' \notin up'
    <3>1. CASE job.kind # "handover"
      BY <1>1, <2>1, <3>1 DEF EndInv
    <3>2. CASE job.kind = "handover" /\ LetGo
      <4>1. cleaning \subseteq spilt
        BY <3>2 DEF EndInv, Claimed
      <4> QED
        BY <1>1, <3>2, <4>1 DEF LetGo, LinkInv
    <3> QED
      BY <1>1, <2>1, <3>1, <3>2
  <2>2. ASSUME shut' = "done", hand' = "no" PROVE co'.client = 0
    BY <1>1, <1>2, <2>2 DEF EndInv, Stages
  <2>3. cleaning' \subseteq spilt' \/ (shut' # "no" /\ ~Claimed')
    BY <1>1 DEF EndInv, Claimed
  <2> QED
    BY <1>3, <2>1, <2>2, <2>3 DEF EndInv
<1> QED
  BY <1>1, <1>2, <1>4, <1>5, <1>6, <1>7, <1>8, <1>9

-----------------------------------------------------------------------------
(* What runs beside the job.                                               *)

\* Control is free, and a job begins.
LEMMA Begins ==
    ASSUME IInv, Idle, UNCHANGED <<links, up, owed, lost, cleaning, spilt, alive,
                                   cut, seen>>,
           retire' \subseteq retire, Good(co', links),
           co'.client = co.client, co'.token = co.token, co'.session = co.session,
           co'.loop = co.loop, co'.initializing = co.initializing,
           shut' = shut \/ shut' = "closing",
           hand' = hand \/ (hand' = "closing" /\ hand = "noted"),
           job' \in Job(links), OnItsWay(job'), ~job'.ok,
           job'.kind = "handover" => hand' = "closing",
           \/ job'.at = "ensure" /\ job'.kind \in Connectors
           \/ job'.at = "close" /\ job'.kind \notin Connectors \cup {"loop"}
           \/ /\ job'.at = "pace" /\ job'.kind = "loop" /\ job'.self = co.loop
              /\ job'.link = co.session
    PROVE  IInv'
<1> USE DEF IInv
<1>1. job.at = "idle" /\ job.kind = "none" /\ job.self = 0
  BY WhoIsThere DEF Idle, OnItsWay
<1>2. ~co.initializing
  BY <1>1 DEF SetupInv, Stages
<1>3. TypesInv'
  BY DEF TypesInv
<1>4. SetupInv'
  BY <1>2 DEF SetupInv, Stages
<1>5. LinkInv'
  BY <1>1 DEF LinkInv
<1>6. LoopInv'
  BY <1>1 DEF LoopInv, OnItsWay, TypesInv
<1>7. EndInv'
  BY <1>1 DEF EndInv, Claimed, Stages
<1> QED
  BY <1>3, <1>4, <1>5, <1>6, <1>7

\* A job that begins has no link yet.
LEMMA NewJobGood ==
    ASSUME NEW n \in Nat, NEW kind \in Kinds, NEW at \in {"ensure", "close", "pace"}
    PROVE  /\ NewJob(kind, at) \in Job(n) /\ NewJob(kind, at).kind = kind
           /\ NewJob(kind, at).at = at /\ NewJob(kind, at).self = 0
           /\ ~NewJob(kind, at).ok /\ NewJob(kind, at).link = 0
<1> PICK z \in 0 .. n : z = 0
  OBVIOUS
<1> PICK t \in 0 .. 2 : t = 0
  OBVIOUS
<1> PICK b \in BOOLEAN : ~b
  OBVIOUS
<1>1. NoJob = [kind |-> "none", at |-> "idle", link |-> z, before |-> z, self |-> z,
               tries |-> t, ok |-> b, then |-> "end", err |-> "bleak"]
  BY DEF NoJob
<1>2. NoJob \in Job(n) /\ NoJob.self = z /\ NoJob.link = z /\ NoJob.ok = b
  BY <1>1 DEF Job, Kinds, Awaits, Errors
<1>3. at \in Awaits \cup Running
  BY DEF Awaits, Running
<1> QED
  BY <1>2, <1>3 DEF NewJob, Job

\* A command, a poll or a preflight.
LEMMA CallBegins ==
    ASSUME IInv, StartCommand \/ StartPoll \/ StartPreflight
    PROVE  IInv'
<1>1. PICK kind \in Connectors :
         \/ job' = NewJob(kind, "ensure")
         \/ job' = [NewJob(kind, "ensure") EXCEPT !.before = co.client]
  BY DEF StartCommand, StartPoll, StartPreflight
<1>2. /\ Idle
      /\ UNCHANGED <<links, up, owed, lost, cleaning, spilt, alive, cut, retire, co,
                     shut, hand, seen>>
  BY DEF StartCommand, StartPoll, StartPreflight, world, tasks, ends
<1> DEFINE n == NewJob(kind, "ensure")
<1>3. /\ n \in Job(links) /\ n.kind = kind /\ n.at = "ensure" /\ n.self = 0 /\ ~n.ok
      /\ co.client \in 0 .. links /\ links \in Nat /\ Good(co, links)
  BY NewJobGood DEF IInv, TypesInv, Good, Fields, Kinds
<1>6. job' = n \/ job' = [n EXCEPT !.before = co.client]
  BY <1>1
<1> HIDE DEF n
<1>4. /\ job' \in Job(links) /\ job'.kind = kind /\ job'.at = "ensure" /\ job'.self = 0
      /\ job'.ok = n.ok
  BY <1>3, <1>6 DEF Job
<1>5. OnItsWay(job')
  BY <1>4 DEF OnItsWay, Points, Connecting
<1> QED
  BY <1>2, <1>3, <1>4, <1>5, Begins

\* The task of the idle timer, of a silent link, of an unload or of a group.
LEMMA ClosingBegins ==
    ASSUME IInv, NEW kind \in {"expire", "retire", "shutdown", "handover"},
           job' = NewJob(kind, "close"), Idle,
           UNCHANGED <<mode, calls, world, alive, cut>>, retire' \subseteq retire,
           Good(co', links),
           co'.client = co.client, co'.token = co.token, co'.session = co.session,
           co'.loop = co.loop, co'.initializing = co.initializing, seen' = seen,
           shut' = shut \/ shut' = "closing",
           hand' = hand \/ (hand' = "closing" /\ hand = "noted"),
           kind = "handover" => hand' = "closing"
    PROVE  IInv'
<1>1. /\ job' \in Job(links) /\ job'.kind = kind /\ job'.at = "close" /\ job'.self = 0
      /\ ~job'.ok
  BY NewJobGood DEF IInv, TypesInv, Kinds
<1>2. OnItsWay(job')
  BY <1>1 DEF OnItsWay, Points
<1> QED
  BY <1>1, <1>2, Begins DEF world

\* A keep-alive task that was not cancelled is the current one, and the link it
\* watches is ready.
LEMMA LoopAsksKeeps ==
    ASSUME IInv, NEW l \in Links, LoopAsks(l)
    PROVE  IInv'
<1>1. /\ l \in alive \ cut /\ Idle
      /\ job' = [NewJob("loop", "pace") EXCEPT !.self = l, !.link = co.client]
      /\ UNCHANGED <<links, up, owed, lost, cleaning, spilt, alive, cut, retire,
                     co, shut, hand, seen>>
  BY DEF LoopAsks, world, tasks, ends, Sleeping
<1>2. /\ l \in 1 .. links /\ links \in Nat /\ job.self = 0 /\ Good(co, links)
      /\ co.client \in 0 .. links
  BY <1>1, WhoIsThere DEF IInv, TypesInv, OnItsWay, Idle, Good, Fields
<1>3. l = co.loop /\ co.session = co.client
  BY <1>1, <1>2 DEF IInv, LoopInv, Good, Coherent
<1> DEFINE n == NewJob("loop", "pace")
<1>4. n \in Job(links) /\ n.kind = "loop" /\ n.at = "pace" /\ ~n.ok
  BY <1>2, NewJobGood DEF Kinds
<1>7. job' = [n EXCEPT !.self = l, !.link = co.client]
  BY <1>1
<1> HIDE DEF n
<1>5. /\ job' \in Job(links) /\ job'.kind = "loop" /\ job'.at = "pace" /\ job'.self = l
      /\ job'.link = co.client /\ job'.ok = n.ok
  <2>1. l \in 0 .. links
    BY <1>2
  <2>2. job' \in Job(links)
    BY <1>2, <1>4, <1>7, <2>1 DEF Job
  <2>3. /\ job'.kind = n.kind /\ job'.at = n.at /\ job'.self = l /\ job'.link = co.client
        /\ job'.ok = n.ok
    BY <1>4, <1>7 DEF Job
  <2> QED
    BY <1>4, <2>2, <2>3
<1>6. OnItsWay(job')
  BY <1>2, <1>5 DEF OnItsWay, Points
<1> QED
  BY <1>1, <1>2, <1>3, <1>4, <1>5, <1>6, Begins

\* What happens while a job is suspended may clear the connection or lose it,
\* and brings nothing back.
LEMMA Meanwhile ==
    ASSUME IInv, Suspended, UNCHANGED <<links, spilt, job>>,
           lost \subseteq lost', lost' \cup cleaning' \subseteq lost \cup cleaning,
           cleaning' \subseteq cleaning, up' \cap cleaning \subseteq lost' \cup cleaning',
           up' \subseteq up, owed' \subseteq owed \cup up, up' \cap owed' = {},
           alive' \subseteq alive, retire' \subseteq 1 .. links,
           Good(co', links), co'.initializing = co.initializing,
           \/ co'.client = co.client /\ co'.token = co.token /\ co'.session = co.session
           \/ co'.client = 0 /\ co.client \notin up',
           co'.loop \in {0, co.loop}, alive' \ cut' \subseteq {co'.loop, job.self},
           \/ job.self = 0
           \/ job.self \in cut'
           \/ job.self \notin cut /\ (co'.loop = co.loop \/ co.loop # job.self),
           shut' = "done" => shut = "done" \/ job.at \in Lasting,
           hand' = "no" => hand = "no",
           hand' = "released" => hand = "released" /\ seen' = seen,
           hand = "closing" => hand' = "closing", shut' = "no" => shut = "no",
           Claimed' => Claimed \/ shut = "no"
    PROVE  IInv'
<1> USE DEF IInv
<1>1. job.at \notin {"connect", "failed", "spill", "end"}
  BY DEF Suspended, Awaits, Stages
<1>2. TypesInv'
  BY DEF TypesInv
<1>3. SetupInv'
  BY <1>1 DEF SetupInv, Good, Coherent
<1>4. LinkInv'
  BY DEF LinkInv, TypesInv
<1>5. LoopInv'
  BY <1>1 DEF LoopInv, OnItsWay
<1>6. EndInv'
  BY <1>1 DEF EndInv, SetupInv, Lasting
<1> QED
  BY <1>2, <1>3, <1>4, <1>5, <1>6

\* The idle timer fires; its task takes control, or starts the timer anew.
LEMMA TimerKeeps ==
    ASSUME IInv, Suspended,
           \/ TimerFires
           \/ \E f \in {"current", "outdated"} : ExpiryRuns(f) \/ ExpirySkipped(f)
    PROVE  IInv'
<1> USE DEF IInv
<1>1. links \in Nat /\ Good(co, links) /\ alive \cup retire \subseteq 1 .. links
      /\ up \cap owed = {}
  BY DEF TypesInv, LinkInv
<1>2. ASSUME NEW f, NEW c, c = [co EXCEPT !.firing = @ \ {f}]
      PROVE  /\ Good(c, links) /\ c.client = co.client /\ c.token = co.token
             /\ c.session = co.session /\ c.loop = co.loop
             /\ c.initializing = co.initializing
  BY <1>1, <1>2 DEF Good, Fields, Coherent
<1>3. ASSUME UNCHANGED <<links, lost, cleaning, spilt, up, owed, alive, cut,
                         retire, job, shut, hand, seen>>,
             Good(co', links), co'.client = co.client, co'.token = co.token,
             co'.session = co.session, co'.loop = co.loop,
             co'.initializing = co.initializing
      PROVE  IInv'
  <2>1. /\ alive' \ cut' \subseteq {co'.loop, job.self}
        /\ \/ job.self = 0
           \/ job.self \in cut'
           \/ job.self \notin cut /\ (co'.loop = co.loop \/ co.loop # job.self)
    BY <1>3 DEF LoopInv
  <2> QED
    BY <1>1, <1>3, <2>1, Meanwhile DEF Claimed
<1>4. CASE TimerFires
  <2> DEFINE c == [co EXCEPT !.armed = FALSE]
             d == [c EXCEPT !.firing = @ \cup {"current"}]
  <2>1. /\ Good(c, links) /\ c.client = co.client /\ c.token = co.token
        /\ c.session = co.session /\ c.loop = co.loop
        /\ c.initializing = co.initializing
    BY <1>1, TimersGood
  <2>2. ~c.armed
    BY <1>1 DEF Good, Fields
  <2>3. co' = d
    <3>1. co' = [co EXCEPT !.armed = FALSE, !.firing = co.firing \cup {"current"}]
      BY <1>4 DEF TimerFires
    <3>2. c.firing = co.firing
      BY <1>1 DEF Good, Fields
    <3> QED
      BY <3>1, <3>2
  <2> HIDE DEF c
  <2>4. /\ Good(co', links) /\ co'.client = c.client /\ co'.token = c.token
        /\ co'.session = c.session /\ co'.loop = c.loop
        /\ co'.initializing = c.initializing
    BY <2>1, <2>2, <2>3 DEF Good, Fields, Coherent
  <2>5. UNCHANGED <<links, lost, cleaning, spilt, up, owed, alive, cut, retire,
                    job, shut, hand, seen>>
    BY <1>4 DEF TimerFires, world, tasks, ends
  <2> QED
    BY <1>3, <2>1, <2>4, <2>5
<1>5. ASSUME NEW f, ExpiryRuns(f)
      PROVE  IInv'
  <2>1. co' = [co EXCEPT !.firing = @ \ {f}] /\ job' = NewJob("expire", "close") /\ Idle
        /\ UNCHANGED <<mode, calls, world, alive, cut, retire, shut, hand, seen>>
    BY <1>5 DEF ExpiryRuns, tasks, ends
  <2> QED
    BY <1>2, <2>1, ClosingBegins
<1>6. ASSUME NEW f, ExpirySkipped(f)
      PROVE  IInv'
  <2> DEFINE c == [co EXCEPT !.firing = @ \ {f}]
  <2>1. /\ Good(c, links) /\ c.client = co.client /\ c.token = co.token
        /\ c.session = co.session /\ c.loop = co.loop
        /\ c.initializing = co.initializing
    BY <1>2
  <2>2. co' = c \/ co' = StartTimer(c) \/ co' = [c EXCEPT !.armed = FALSE]
    BY <1>6 DEF ExpirySkipped, ResetTimer
  <2> HIDE DEF c
  <2>3. /\ Good(co', links) /\ co'.client = c.client /\ co'.token = c.token
        /\ co'.session = c.session /\ co'.loop = c.loop
        /\ co'.initializing = c.initializing
    BY <1>1, <2>1, <2>2, TimersGood
  <2>4. UNCHANGED <<links, lost, cleaning, spilt, up, owed, alive, cut, retire,
                    job, shut, hand, seen>>
    BY <1>6 DEF ExpirySkipped, world, tasks, ends
  <2> QED
    BY <1>3, <2>1, <2>3, <2>4
<1> QED
  BY <1>4, <1>5, <1>6

\* The link drops, its callback comes, or the link falls silent.
LEMMA LinkKeeps ==
    ASSUME IInv, Suspended, Drop \/ Callback \/ GoQuiet
    PROVE  IInv'
<1> USE DEF IInv
<1>1. /\ links \in Nat /\ Good(co, links)
      /\ up \cup owed \cup alive \cup retire \subseteq 1 .. links
      /\ up \cap owed = {} /\ alive \ cut \subseteq {co.loop, job.self}
  BY DEF TypesInv, LinkInv, LoopInv
<1>2. CASE Drop
  <2>1. /\ UNCHANGED <<links, lost, cleaning, spilt, alive, cut, retire, co, job,
                       shut, hand, seen>>
        /\ up' \subseteq up /\ owed' \subseteq owed \cup up /\ up' \cap owed' = {}
    BY <1>1, <1>2 DEF Drop, tasks, ends
  <2> QED
    BY <1>1, <2>1, Meanwhile DEF Claimed
<1>3. CASE GoQuiet
  <2>1. UNCHANGED <<links, lost, cleaning, spilt, up, owed, alive, cut, retire,
                    job, shut, hand, seen>>
    BY <1>3 DEF GoQuiet, world, tasks, ends
  <2>2. /\ Good(co', links) /\ co'.client = co.client /\ co'.token = co.token
        /\ co'.session = co.session /\ co'.loop = co.loop
        /\ co'.initializing = co.initializing
    <3> PICK b \in BOOLEAN : b
      OBVIOUS
    <3>1. co' = [co EXCEPT !.quiet = b]
      BY <1>3 DEF GoQuiet
    <3> QED
      BY <1>1, <3>1 DEF Good, Fields, Coherent
  <2> QED
    BY <1>1, <2>1, <2>2, Meanwhile DEF Claimed
<1>4. CASE Callback
  <2>1. PICK l \in owed : /\ owed' = owed \ {l}
                          /\ IF Concerns(l)
                             THEN /\ co' = ClearState(co, co.client)
                                  /\ cut' = cut \cup Watchers(co, 0)
                             ELSE UNCHANGED <<co, cut>>
    BY <1>4 DEF Callback
  <2>2. UNCHANGED <<links, lost, cleaning, spilt, up, alive, retire, job, shut,
                    hand, seen>>
    BY <1>4 DEF Callback, ends
  <2>3. CASE Concerns(l)
    <3>1. /\ Good(co', links) /\ co'.client = 0 /\ co'.token = 0 /\ co'.session = 0
          /\ co'.loop = 0 /\ co'.initializing = co.initializing
      BY <1>1, <2>1, <2>3, ClearStateGood
    <3>2. co.client \notin up'
      BY <1>1, <2>1, <2>2, <2>3 DEF Concerns
    <3>3. /\ alive' \ cut' \subseteq {co'.loop, job.self}
          /\ cut' = cut \cup (IF co.loop = 0 THEN {} ELSE {co.loop})
      BY <1>1, <2>1, <2>2, <2>3 DEF Watchers
    <3>4. \/ job.self = 0
          \/ job.self \in cut'
          \/ job.self \notin cut /\ (co'.loop = co.loop \/ co.loop # job.self)
      BY <3>3
    <3> QED
      BY <1>1, <2>1, <2>2, <3>1, <3>2, <3>3, <3>4, Meanwhile DEF Claimed
  <2>4. CASE ~Concerns(l)
    BY <1>1, <2>1, <2>2, <2>4, Meanwhile DEF Claimed
  <2> QED
    BY <2>3, <2>4
<1> QED
  BY <1>2, <1>3, <1>4

\* A keep-alive task ends, and the link it found silent is to be closed; the
\* clean-up of a preflight ends.
LEMMA WatchersKeep ==
    ASSUME IInv, Suspended, NEW l \in Links, LoopEnds(l) \/ Retire(l) \/ CleanUpEnds(l)
    PROVE  IInv'
<1> USE DEF IInv
<1>1. /\ links \in Nat /\ Good(co, links)
      /\ up \cup owed \cup alive \cup retire \subseteq 1 .. links
      /\ up \cap owed = {} /\ alive \ cut \subseteq {co.loop, job.self}
  BY DEF TypesInv, LinkInv, LoopInv
<1>2. CASE LoopEnds(l)
  <2>1. /\ UNCHANGED <<links, lost, cleaning, spilt, up, owed, job, shut, hand, seen>>
        /\ l # job.self /\ alive' = alive \ {l} /\ cut' = cut \ {l}
        /\ retire' \subseteq retire \cup (up \cap {co.client})
        /\ co' = IF co.loop = l THEN StopLoop(co) ELSE co
    BY <1>2 DEF LoopEnds, world, ends, Sleeping, Present
  <2>2. /\ Good(co', links) /\ co'.client = co.client /\ co'.token = co.token
        /\ co'.session = co.session /\ co'.initializing = co.initializing
        /\ co'.loop = IF co.loop = l THEN 0 ELSE co.loop
    BY <1>1, <2>1, StopLoopGood
  <2>3. alive' \ cut' \subseteq {co'.loop, job.self}
    BY <1>1, <2>1, <2>2
  <2>4. \/ job.self = 0
        \/ job.self \in cut'
        \/ job.self \notin cut /\ (co'.loop = co.loop \/ co.loop # job.self)
    BY <2>1, <2>2
  <2> QED
    BY <1>1, <2>1, <2>2, <2>3, <2>4, Meanwhile DEF Claimed
<1>3. CASE Retire(l)
  <2>1. /\ UNCHANGED <<mode, calls, world, links, lost, cleaning, spilt, up, owed, co,
                       alive, cut, shut, hand, seen>>
        /\ retire' \subseteq retire
        /\ job' = IF Idle /\ co.client = l THEN NewJob("retire", "close") ELSE job
    BY <1>3 DEF Retire, world, ends
  <2>2. CASE Idle /\ job' = NewJob("retire", "close")
    BY <1>1, <2>1, <2>2, ClosingBegins
  <2>3. CASE job' = job
    BY <1>1, <2>1, <2>3, Meanwhile DEF Claimed
  <2> QED
    BY <2>1, <2>2, <2>3
<1>4. CASE CleanUpEnds(l)
  <2>1. /\ UNCHANGED <<links, spilt, owed, co, job, alive, cut, retire, shut, hand,
                       seen>>
        /\ cleaning' = cleaning \ {l} /\ lost' = lost \cup ({l} \cap up')
        /\ up' \subseteq up /\ l \in cleaning
    BY <1>4 DEF CleanUpEnds, tasks, ends
  <2>2. /\ lost \subseteq lost' /\ lost' \cup cleaning' \subseteq lost \cup cleaning
        /\ cleaning' \subseteq cleaning /\ up' \cap cleaning \subseteq lost' \cup cleaning'
    BY <2>1
  <2>3. \/ job.self = 0
        \/ job.self \in cut'
        \/ job.self \notin cut /\ (co'.loop = co.loop \/ co.loop # job.self)
    BY <2>1
  <2> QED
    BY <1>1, <2>1, <2>2, <2>3, Meanwhile DEF Claimed
<1> QED
  BY <1>2, <1>3, <1>4

\* No more work is taken, and the keep-alive task is cancelled.
LEMMA StopsKeep ==
    ASSUME IInv, Suspended, BeginShutdown \/ HassStops
    PROVE  IInv'
<1> USE DEF IInv
<1>1. /\ links \in Nat /\ Good(co, links)
      /\ up \cup owed \cup alive \cup retire \subseteq 1 .. links
      /\ up \cap owed = {} /\ alive \ cut \subseteq {co.loop, job.self}
  BY DEF TypesInv, LinkInv, LoopInv
<1> DEFINE s == StopLoop(co)
<1>2. /\ UNCHANGED <<links, lost, cleaning, spilt, up, owed, alive, retire, job, hand>>
      /\ (shut' = "done" => shut = "done") /\ (shut' = "no" => shut = "no")
      /\ seen' = seen
      /\ co' = [s EXCEPT !.armed = FALSE] /\ cut' = cut \cup Watchers(co, 0)
  BY DEF BeginShutdown, HassStops, world
<1>3. /\ Good(s, links) /\ s.client = co.client /\ s.token = co.token
      /\ s.session = co.session /\ s.loop = 0 /\ s.initializing = co.initializing
  BY <1>1, StopLoopGood
<1> HIDE DEF s
<1>4. /\ Good(co', links) /\ co'.client = co.client /\ co'.token = co.token
      /\ co'.session = co.session /\ co'.loop = 0 /\ co'.initializing = co.initializing
  BY <1>1, <1>2, <1>3, TimersGood
<1>5. /\ alive' \ cut' \subseteq {co'.loop, job.self}
      /\ cut' = cut \cup (IF co.loop = 0 THEN {} ELSE {co.loop})
  BY <1>1, <1>2 DEF Watchers
<1>6. \/ job.self = 0
      \/ job.self \in cut'
      \/ job.self \notin cut /\ (co'.loop = co.loop \/ co.loop # job.self)
  BY <1>5
<1> QED
  BY <1>1, <1>2, <1>4, <1>5, <1>6, Meanwhile DEF Claimed

\* The shutdown and a DreamView centre, as far as they only wait.
LEMMA WaitsKeep ==
    ASSUME IInv, Suspended, ShutdownTimesOut \/ Claim \/ NoteLink \/ Unclaim
    PROVE  IInv'
<1>1. links \in Nat /\ Good(co, links) /\ alive \cup retire \subseteq 1 .. links
      /\ up \cap owed = {} /\ alive \ cut \subseteq {co.loop, job.self}
  BY DEF IInv, TypesInv, LinkInv, LoopInv
<1>2. /\ UNCHANGED <<links, lost, cleaning, spilt, up, owed, alive, cut, retire,
                     co, job>>
      /\ shut' = "done" => shut = "done" \/ job.at \in Lasting
      /\ hand' = "no" => hand = "no"
      /\ hand' = "released" => hand = "released" /\ seen' = seen
      /\ hand = "closing" => hand' = "closing"
      /\ shut' = "no" => shut = "no"
      /\ Claimed' => Claimed \/ shut = "no"
  BY DEF ShutdownTimesOut, Claim, NoteLink, Unclaim, world, tasks, Claimed
<1> QED
  BY <1>1, <1>2, Meanwhile DEF Claimed

\* Both close what is left of the connection.
LEMMA ClosesKeep ==
    ASSUME IInv, ShutdownCloses \/ HandoverCloses
    PROVE  IInv'
<1>1. PICK kind \in {"shutdown", "handover"} :
         /\ job' = NewJob(kind, "close")
         /\ kind = "shutdown" => ShutdownCloses
         /\ kind = "handover" => HandoverCloses
  BY DEF ShutdownCloses, HandoverCloses
<1>2. /\ Idle /\ UNCHANGED <<mode, calls, world, alive, cut, retire, co>>
      /\ shut' = shut \/ shut' = "closing"
      /\ hand' = hand \/ (hand' = "closing" /\ hand = "noted")
      /\ (kind = "handover" => hand' = "closing") /\ seen' = seen
  BY <1>1 DEF ShutdownCloses, HandoverCloses, tasks
<1>3. Good(co, links)
  BY DEF IInv
<1> QED
  BY <1>1, <1>2, <1>3, ClosingBegins

\* Nothing is connected at first.
LEMMA InitIInv == Init => IInv
<1> SUFFICES ASSUME Init PROVE IInv
  OBVIOUS
<1> USE DEF Init
<1> PICK z : z = 0
  OBVIOUS
<1> PICK t \in 0 .. 2 : t = 0
  OBVIOUS
<1> PICK b \in BOOLEAN : ~b
  OBVIOUS
<1>1. /\ Good(co, links) /\ co.client = 0 /\ co.token = 0 /\ co.session = 0
      /\ co.loop = 0 /\ ~co.initializing
  <2>1. co = [client |-> z, token |-> z, session |-> z, closing |-> z,
              initializing |-> b, quiet |-> b, armed |-> b, firing |-> {}, loop |-> z]
    BY DEF Rest
  <2> QED
    BY <2>1 DEF Good, Fields, Coherent
<1>2. /\ job \in Job(links) /\ job.kind = "none" /\ job.at = "idle" /\ job.self = 0
  <2>1. job = [kind |-> "none", at |-> "idle", link |-> z, before |-> z, self |-> z,
               tries |-> t, ok |-> b, then |-> "end", err |-> "bleak"]
    BY DEF NoJob
  <2> QED
    BY <2>1 DEF Job, Kinds, Awaits, Errors
<1>3. TypesInv
  BY <1>2 DEF TypesInv
<1>4. OnItsWay(job)
  BY <1>2 DEF OnItsWay, Points
<1>5. SetupInv /\ LinkInv /\ LoopInv /\ EndInv
  BY <1>1, <1>2 DEF SetupInv, LinkInv, LoopInv, EndInv, Stages, Claimed
<1> QED
  BY <1>1, <1>3, <1>4, <1>5 DEF IInv

\* Every step keeps the invariant.
LEMMA Step == IInv /\ [Next]_vars => IInv'
<1> SUFFICES ASSUME IInv, [Next]_vars PROVE IInv'
  OBVIOUS
<1>1. CASE Synchronous
  BY <1>1, EnsureKeeps, ConnectKeeps, SetupFailsKeeps, HandlersKeep, RetryKeeps,
     SpillKeeps, CloseKeeps, EndJobKeeps DEF Synchronous
<1>2. CASE Resume
  BY <1>2, DownEndsKeeps, EstablishKeeps, FailedKeeps, SelectKeeps, SubscribeKeeps,
     NegotiateKeeps, IdentifyKeeps, PaceKeeps, WaitCutKeeps, WriteSentKeeps,
     WriteFailsKeeps, ReplyHeardKeeps, ReplyMissedKeeps, RetryKeeps DEF Resume
<1>3. CASE Suspended /\ Beside
  BY <1>3, TimerKeeps, LinkKeeps, WatchersKeep, LoopAsksKeeps, StopsKeep, WaitsKeep,
     ClosesKeep, CallBegins DEF Beside
<1>4. CASE UNCHANGED vars
  <2>1. /\ UNCHANGED <<links, up, owed, lost, cleaning, spilt, co, job, alive, cut,
                       retire, shut, hand, seen>>
    BY <1>4 DEF vars, world, tasks, ends
  <2> QED
    BY <2>1 DEF IInv, TypesInv, SetupInv, LinkInv, LoopInv, EndInv, Claimed
<1> QED
  BY <1>1, <1>2, <1>3, <1>4 DEF Next, JobSteps

(***************************************************************************)
(* Whatever jobs do with the connection and whatever happens beside them,  *)
(* the coordinator's fields fit what its job has reached, every link that  *)
(* is up is known, and a keep-alive task that is not the current one has   *)
(* been cancelled.                                                         *)
(***************************************************************************)
THEOREM Invariant == Spec => []IInv
BY InitIInv, Step, PTL DEF Spec

(***************************************************************************)
(* _ensure_connected, _disconnect_locked and _clear_connection_state: no   *)
(* link that is up is forgotten, at most one keep-alive task goes on, and  *)
(* a set-up that ends is undone as a whole, for any number of links and    *)
(* calls, however drops, late callbacks and cancellations interleave.      *)
(***************************************************************************)
THEOREM NothingIsEverLeft == Spec => []NothingIsLeft
<1>1. IInv => NothingIsLeft
  <2> SUFFICES ASSUME IInv PROVE NothingIsLeft
    OBVIOUS
  <2> USE DEF IInv
  <2>1. NoStrayLink
    BY DEF NoStrayLink, LinkInv
  <2>2. OneKeepAlive
    <3>1. PICK x : alive \ cut \subseteq {x}
      <4>1. job.self = 0 \/ co.loop \in {0, job.self}
        BY DEF OnItsWay, LoopInv
      <4>2. 0 \notin alive
        BY DEF TypesInv
      <4>3. alive \ cut \subseteq {co.loop} \/ alive \ cut \subseteq {job.self}
        BY <4>1, <4>2 DEF LoopInv
      <4> QED
        BY <4>3
    <3>2. alive \ cut = {} \/ alive \ cut = {x}
      BY <3>1
    <3>3. Cardinality(alive \ cut) = 0 \/ Cardinality(alive \ cut) = 1
      BY <3>2, FS_EmptySet, FS_Singleton
    <3> QED
      BY <3>3 DEF OneKeepAlive
  <2>3. SetupIsUndone
    <3>1. Idle => ~co.initializing
      BY WhoIsThere DEF Idle, SetupInv, Stages
    <3>2. {co.session, co.token} \subseteq {0, co.client}
      BY DEF Good, Coherent
    <3> QED
      BY <3>1, <3>2 DEF SetupIsUndone
  <2> QED
    BY <2>1, <2>2, <2>3 DEF NothingIsLeft
<1> QED
  BY <1>1, Invariant, PTL

\* A group's centre goes through these stages.
Hands == {"no", "claimed", "noted", "closing", "released", "refused", "undone"}

\* No step takes a centre anywhere else.
LEMMA HandStep == hand \in Hands /\ [Next]_vars => (hand \in Hands)'
<1> SUFFICES ASSUME hand \in Hands, [Next]_vars PROVE hand' \in Hands
  OBVIOUS
<1> USE DEF Hands
<1>1. CASE JobSteps
  <2>1. CASE EndJob
    BY <2>1 DEF EndJob
  <2>2. CASE ~EndJob
    BY <1>1, <2>2
       DEF JobSteps, Synchronous, Resume, Ensure, Connect, SetupFails, Handle, Retry,
           PollEnds, Spill, Close, DownEnds, Establish, SetupRaises, StageRefused,
           Select, Subscribe, Negotiate, Identify, Pace, WaitCut, WriteSent,
           WriteFails, ReplyHeard, ReplyMissed, BackedOff, ends
  <2> QED
    BY <2>1, <2>2
<1>2. CASE Beside
  BY <1>2
     DEF Beside, TimerFires, ExpiryRuns, ExpirySkipped, Drop, Callback, GoQuiet,
         CleanUpEnds, StartPreflight, LoopAsks, LoopEnds, Retire, BeginShutdown,
         ShutdownCloses, ShutdownTimesOut,
         Claim, NoteLink, HandoverCloses, Unclaim, HassStops, StartCommand, StartPoll,
         ends
<1>3. CASE UNCHANGED vars
  BY <1>3 DEF vars, ends
<1> QED
  BY <1>1, <1>2, <1>3 DEF Next

\* So the stages are the only ones.
LEMMA HandTypes == Spec => [](hand \in Hands)
<1>1. Init => hand \in Hands
  BY DEF Init, Hands
<1> QED
  BY <1>1, HandStep, PTL DEF Spec

(***************************************************************************)
(* async_shutdown and async_disconnect_for_handover: once the coordinator  *)
(* is shut down and its last job over it has no link, though the shutdown  *)
(* stopped waiting for that job, and a device is handed over only when the *)
(* link that the centre noted is gone and no other one is up but those     *)
(* given up before, and those that a preflight forgot under the claim.     *)
(***************************************************************************)
THEOREM LetGoIsAlwaysReal == Spec => []LetGoIsReal
<1>1. IInv /\ hand \in Hands => LetGoIsReal
  <2> SUFFICES ASSUME IInv, hand \in Hands PROVE LetGoIsReal
    OBVIOUS
  <2> USE DEF IInv
  <2>1. Idle => job.at = "idle"
    BY WhoIsThere DEF Idle
  <2>2. shut = "done" /\ Idle /\ co.client # 0 => Claimed \/ hand = "undone"
    <3>1. hand = "no" \/ Claimed \/ hand = "undone"
      BY DEF Hands, Claimed, EndInv
    <3> QED
      BY <2>1, <3>1 DEF EndInv, Stages
  <2>3. Idle => up \subseteq lost \cup cleaning \cup {co.client}
    BY <2>1 DEF LinkInv
  <2>4. HandoverIsReal
    BY DEF EndInv, HandoverIsReal
  <2> QED
    BY <2>2, <2>3, <2>4 DEF LetGoIsReal, ShutdownLeavesNoLink
<1> QED
  BY <1>1, Invariant, HandTypes, PTL

-----------------------------------------------------------------------------
(* Where a write begins, and where the idle timer's task does.             *)

\* An error never leads to a write ...
LEMMA RaisedElsewhere ==
    ASSUME NEW n, job \in Job(n), NEW err
    PROVE  Raised(err).at \in {"pollend", "handler", "spill", "end"}
BY DEF Raised, Job

\* ... nor does what follows a teardown ...
LEMMA ContinuedElsewhere ==
    ASSUME NEW n, NEW j \in Job(n), job \in Job(n),
           NEW then \in {"connect", "raise", "next", "end"}
    PROVE  Continued(j, then).at # "write"
<1>1. CASE then = "raise"
  <2> DEFINE r == Raised(j.err)
  <2>1. /\ r.at \in {"pollend", "handler", "spill", "end"}
        /\ r \in [DOMAIN job -> {r[f] : f \in DOMAIN job}]
    BY RaisedElsewhere DEF Raised, Job
  <2> QED
    BY <1>1, <2>1 DEF Continued
<1>2. CASE then # "raise"
  BY <1>2 DEF Continued, Job
<1> QED
  BY <1>1, <1>2

\* ... nor the teardown itself.
LEMMA TearDownElsewhere ==
    ASSUME TypesInv, NEW then \in {"connect", "raise", "next", "end"}, NEW err \in Errors,
           NEW wipe, TearDown(then, err, wipe)
    PROVE  job'.at # "write"
<1>1. job \in Job(links) /\ [job EXCEPT !.err = err] \in Job(links)
  BY DEF TypesInv, Job
<1>2. Continued([job EXCEPT !.err = err], then).at # "write"
  BY <1>1, ContinuedElsewhere
<1> QED
  BY <1>1, <1>2 DEF TearDown, Job

\* What a job is about does not say where it stands.
LEMMA Addressed ==
    ASSUME NEW n, NEW j \in Job(n), NEW s, NEW k
    PROVE  /\ [j EXCEPT !.self = s, !.link = k].at = j.at
           /\ [j EXCEPT !.self = s, !.link = k].kind = j.kind
           /\ [j EXCEPT !.before = k].at = j.at /\ [j EXCEPT !.before = k].kind = j.kind
BY DEF Job

\* Nor does a job begin with a write, or those of a caller with the timer's.
LEMMA CallsElsewhere ==
    ASSUME links \in Nat, StartCommand \/ StartPoll \/ StartPreflight
    PROVE  job'.at = "ensure" /\ job'.kind \in Connectors
<1>1. CASE StartCommand \/ StartPreflight
  BY <1>1, NewJobGood DEF StartCommand, StartPreflight, Kinds
<1>2. CASE StartPoll
  <2>1. PICK j : j = NewJob("poll", "ensure")
    OBVIOUS
  <2>2. j \in Job(links) /\ j.at = "ensure" /\ j.kind = "poll"
    BY <2>1, NewJobGood DEF Kinds
  <2>3. job' = [j EXCEPT !.before = co.client]
    BY <1>2, <2>1 DEF StartPoll
  <2> QED
    BY <2>2, <2>3, Addressed
<1> QED
  BY <1>1, <1>2

\* The same of a keep-alive task that asks.
LEMMA LoopElsewhere ==
    ASSUME links \in Nat, NEW l, LoopAsks(l)
    PROVE  job'.at = "pace" /\ job'.kind = "loop"
<1>1. PICK j : j = NewJob("loop", "pace")
  OBVIOUS
<1>2. j \in Job(links) /\ j.at = "pace" /\ j.kind = "loop"
  BY <1>1, NewJobGood DEF Kinds
<1>3. job' = [j EXCEPT !.self = l, !.link = co.client]
  BY <1>1 DEF LoopAsks
<1> QED
  BY <1>2, <1>3, Addressed

\* Only a packet whose turn has come is written, and after a look at the link.
LEMMA WriteBegins ==
    ASSUME IInv, Next, job'.at = "write", job.at # "write"
    PROVE  job.at = "pace" /\ ~Refused /\ Mine /\ job' = At("write") /\ UNCHANGED co
<1>1. TypesInv /\ job \in Job(links) /\ job.err \in Errors /\ links \in Nat
  BY DEF IInv, TypesInv, Job
<1>2. \A err : Raised(err).at # "write"
  BY <1>1, RaisedElsewhere
<1>3. \A then \in {"connect", "raise", "next", "end"}, err \in Errors : \A wipe :
         ~TearDown(then, err, wipe)
  BY <1>1, TearDownElsewhere
<1>4. ~(Ensure \/ Connect \/ SetupFails \/ Handle \/ PollEnds \/ Spill \/ Close)
  <2>1. ~(Connect \/ SetupFails \/ Handle \/ PollEnds \/ Spill \/ Close)
    BY <1>1, <1>2, <1>3
       DEF Connect, SetupFails, Handle, PollEnds, Spill, Close, At, Job, Refusal, Errors
  <2>2. \A l : [job EXCEPT !.at = Onward, !.link = l].at # "write"
    BY <1>1 DEF Job, Onward
  <2>3. At("connect").at # "write"
    BY <1>1 DEF At, Job
  <2>4. ~Ensure
    BY <1>2, <1>3, <2>2, <2>3 DEF Ensure, Errors
  <2> QED
    BY <2>1, <2>4
<1>5. ~(Retry \/ BackedOff \/ EndJob)
  <2>1. ~BackedOff
    BY <1>1 DEF BackedOff, At, Job
  <2>2. ~EndJob
    BY DEF EndJob, NoJob
  <2>3. ~Retry
    <3> SUFFICES ASSUME Retry PROVE FALSE
      OBVIOUS
    <3>1. CASE job' = At("end")
      BY <1>1, <3>1 DEF At, Job
    <3>2. CASE job' \in {[job EXCEPT !.at = a, !.tries = @ + 1]
                           : a \in {"ensure", "backoff"}}
      <4>1. PICK a \in {"ensure", "backoff"} :
               job' = [job EXCEPT !.at = a, !.tries = job.tries + 1]
        BY <3>2
      <4>2. PICK t : t = job.tries + 1
        OBVIOUS
      <4> QED
        BY <1>1, <4>1, <4>2 DEF Job
    <3> QED
      BY <3>1, <3>2 DEF Retry
  <2> QED
    BY <2>1, <2>2, <2>3
<1>6. ~(SetupRaises \/ StageRefused \/ Select \/ Subscribe \/ Negotiate \/ Identify
        \/ Establish)
  BY <1>1
     DEF SetupRaises, StageRefused, Select, Subscribe, Negotiate, Identify, Establish,
         Failed, At, Job, Onward
<1>7. ~(WaitCut \/ WriteSent \/ WriteFails \/ ReplyHeard \/ ReplyMissed)
  <2>1. ~WaitCut
    BY <1>2 DEF WaitCut
  <2>2. ~WriteSent
    BY <1>1 DEF WriteSent, At, Job
  <2>3. ~WriteFails
    BY DEF WriteFails
  <2>4. PICK b \in BOOLEAN : b
    OBVIOUS
  <2>5. PICK t \in 0 .. 2 : t = 1
    OBVIOUS
  <2>6. \A p \in {"ensure", "pollend", "end"} :
           /\ [job EXCEPT !.at = p, !.ok = b].at = p
           /\ [job EXCEPT !.ok = b, !.at = p].at = p
           /\ [job EXCEPT !.tries = t, !.at = p].at = p
    BY <1>1 DEF Job
  <2>7. ~ReplyHeard
    <3> SUFFICES ASSUME ReplyHeard PROVE FALSE
      OBVIOUS
    <3>1. \/ job' = [job EXCEPT !.at = "pollend", !.ok = b]
          \/ job' = [job EXCEPT !.at = "end", !.ok = b]
      BY <2>4 DEF ReplyHeard
    <3> QED
      BY <2>6, <3>1
  <2>8. ~ReplyMissed
    <3> SUFFICES ASSUME ReplyMissed PROVE FALSE
      OBVIOUS
    <3>1. \/ job' = [job EXCEPT !.tries = t, !.at = "ensure"]
          \/ job' = [job EXCEPT !.ok = b, !.at = "end"]
      BY <1>3, <2>4, <2>5 DEF ReplyMissed, Errors
    <3> QED
      BY <2>6, <3>1
  <2> QED
    BY <2>1, <2>2, <2>3, <2>7, <2>8
<1>8. ~DownEnds
  <2> SUFFICES ASSUME DownEnds PROVE FALSE
    OBVIOUS
  <2> DEFINE j == [job EXCEPT !.err = "cancelled"]
  <2>1. \/ job' = Continued(job, job.then)
        \/ job' = Continued(j, "end")
        \/ job' = Continued(j, "raise")
    BY DEF DownEnds
  <2>2. j \in Job(links) /\ job.then \in {"connect", "raise", "next", "end"}
    BY <1>1 DEF Job, Errors
  <2> HIDE DEF j
  <2> QED
    BY <1>1, <2>1, <2>2, ContinuedElsewhere
<1>9. ~Beside
  <2>1. \A kind \in Kinds, at \in {"ensure", "close", "pace"} :
           NewJob(kind, at).at = at /\ NewJob(kind, at) \in Job(links)
    BY <1>1, NewJobGood
  <2>2. ~(StartCommand \/ StartPoll \/ StartPreflight)
    BY <1>1, CallsElsewhere
  <2>3. \A l \in Links : ~LoopAsks(l)
    BY <1>1, LoopElsewhere
  <2>4. ~(ShutdownCloses \/ HandoverCloses)
        /\ \A f \in {"current", "outdated"} : ~ExpiryRuns(f)
    BY <2>1 DEF ShutdownCloses, HandoverCloses, ExpiryRuns, Kinds
  <2>5. \A l \in Links : ~Retire(l)
    BY <2>1 DEF Retire, Kinds
  <2>6. ~(TimerFires \/ Drop \/ Callback \/ GoQuiet \/ BeginShutdown \/ ShutdownTimesOut
          \/ Claim \/ NoteLink \/ Unclaim \/ HassStops)
        /\ (\A f \in {"current", "outdated"} : ~ExpirySkipped(f))
        /\ \A l \in Links : ~LoopEnds(l) /\ ~CleanUpEnds(l)
    BY DEF TimerFires, Drop, Callback, GoQuiet, BeginShutdown, ShutdownTimesOut, Claim,
           NoteLink, Unclaim, HassStops, ExpirySkipped, LoopEnds, CleanUpEnds
  <2> QED
    BY <2>2, <2>3, <2>4, <2>5, <2>6 DEF Beside
<1>10. Pace
  BY <1>4, <1>5, <1>6, <1>7, <1>8, <1>9 DEF Next, JobSteps, Synchronous, Resume
<1> QED
  BY <1>2, <1>3, <1>10 DEF Pace, Refusal, Errors

(***************************************************************************)
(* _async_write_packet: a packet goes only to a client that is current,    *)
(* connected, ready and subscribed, never for a coordinator that is shut   *)
(* down or claimed, whatever happened while it waited for its turn.        *)
(***************************************************************************)
THEOREM WritesAreAlwaysCurrent == Spec => WritesAreCurrent
<1>1. IInv /\ [Next]_vars =>
         [job'.at = "write" /\ job.at # "write" =>
             /\ {co.client, co.session, co.token} = {job.link}
             /\ job.link \in up /\ ~Shutdown /\ ~Claimed]_vars
  <2> SUFFICES ASSUME IInv, Next, job'.at = "write", job.at # "write"
               PROVE  /\ {co.client, co.session, co.token} = {job.link}
                      /\ job.link \in up /\ ~Shutdown /\ ~Claimed
    OBVIOUS
  <2>1. /\ job.at = "pace" /\ ~Shutdown /\ ~Claimed
        /\ job.link = co.client /\ job.link \in up
    BY WriteBegins DEF Refused, Mine
  <2>2. /\ co.session = job.link
        /\ co.token \in {0, co.client} /\ co.session \in {0, co.token}
    BY <2>1 DEF IInv, SetupInv, Good, Coherent
  <2> QED
    BY <2>1, <2>2
<1> QED
  BY <1>1, Invariant, PTL DEF Spec, WritesAreCurrent

\* A job of the idle timer begins with the firing of the current generation.
LEMMA ExpiryBegins ==
    ASSUME IInv, Next, job.kind = "none", job'.kind = "expire"
    PROVE  "current" \in co.firing
<1>1. job.at = "idle" /\ links \in Nat
  BY WhoIsThere DEF IInv, TypesInv
<1>2. ~JobSteps
  BY <1>1
     DEF JobSteps, Synchronous, Resume, Ensure, Connect, SetupFails, Handle, Retry,
         PollEnds, Spill, Close, EndJob, DownEnds, Establish, SetupRaises, StageRefused,
         Select, Subscribe, Negotiate, Identify, Pace, WaitCut, WriteSent, WriteFails,
         ReplyHeard, ReplyMissed, BackedOff, Stages
<1>3. \A kind \in Kinds, at \in {"ensure", "close", "pace"} :
         NewJob(kind, at).kind = kind /\ NewJob(kind, at) \in Job(links)
  BY <1>1, NewJobGood
<1>4. ~(StartCommand \/ StartPoll \/ StartPreflight) /\ \A l \in Links : ~LoopAsks(l)
  BY <1>1, CallsElsewhere, LoopElsewhere
<1>5. ~(ShutdownCloses \/ HandoverCloses) /\ \A l \in Links : ~Retire(l)
  BY <1>3 DEF ShutdownCloses, HandoverCloses, Retire, Kinds
<1>6. ~(TimerFires \/ Drop \/ Callback \/ GoQuiet \/ BeginShutdown \/ ShutdownTimesOut
        \/ Claim \/ NoteLink \/ Unclaim \/ HassStops)
      /\ (\A f \in {"current", "outdated"} : ~ExpirySkipped(f))
      /\ \A l \in Links : ~LoopEnds(l) /\ ~CleanUpEnds(l)
  BY DEF TimerFires, Drop, Callback, GoQuiet, BeginShutdown, ShutdownTimesOut, Claim,
         NoteLink, Unclaim, HassStops, ExpirySkipped, LoopEnds, CleanUpEnds
<1>7. PICK f : ExpiryRuns(f)
  BY <1>2, <1>4, <1>5, <1>6 DEF Next, Beside
<1> QED
  BY <1>7 DEF ExpiryRuns, IsCurrentFiring

(***************************************************************************)
(* _reset_disconnect_timer and _disconnect_if_idle: the task of the idle   *)
(* timer takes control only while no newer timer runs, so no link that a   *)
(* later command has leased again is closed by an older lease.             *)
(***************************************************************************)
THEOREM LeaseIsAlwaysHonoured == Spec => LeaseIsHonoured
<1>1. IInv /\ [Next]_vars =>
         [job.kind = "none" /\ job'.kind = "expire" => ~co.armed]_vars
  BY ExpiryBegins DEF IInv, Good, Coherent
<1> QED
  BY <1>1, Invariant, PTL DEF Spec, LeaseIsHonoured

-----------------------------------------------------------------------------
(* Types.  What IInv does not say of them: no idle timer runs in hold      *)
(* mode, and the keep-alive task that is current has not ended.            *)

\* A helper starts no keep-alive task, and no timer where none may run.
Tame(d, c) ==
    /\ d.loop \in {0, c.loop}
    /\ Hold /\ ~c.armed /\ c.firing = {} => ~d.armed /\ d.firing = {}

LEMMA TimersTame ==
    ASSUME NEW n \in Nat, NEW c \in Fields(n)
    PROVE  Tame(c, c) /\ Tame(ResetTimer(c), c) /\ Tame(Renewed(c), c)
<1>1. Tame(c, c)
  BY DEF Tame
<1>2. Tame(ResetTimer(c), c)
  <2>1. CASE Hold
    BY <2>1 DEF ResetTimer, Tame, Fields
  <2>2. CASE ~Hold
    BY <2>2 DEF ResetTimer, StartTimer, Tame, Fields
  <2> QED  BY <2>1, <2>2
<1> QED  BY <1>1, <1>2 DEF Renewed

LEMMA ClearStateTame ==
    ASSUME NEW n \in Nat, NEW c \in Fields(n), NEW link
    PROVE  Tame(ClearState(c, link), c)
<1>1. CASE c.client # link
  BY <1>1 DEF ClearState, Tame
<1>2. CASE c.client = link
  <2>1. ClearState(c, link).loop = 0 /\ ~ClearState(c, link).armed
    BY <1>2 DEF ClearState, StopLoop, Fields
  <2>2. ClearState(c, link).firing = Outdated(c.firing)
    BY <1>2 DEF ClearState, StopLoop, Fields
  <2>3. Outdated({}) = {}
    BY DEF Outdated
  <2> QED  BY <2>1, <2>2, <2>3 DEF Tame
<1> QED  BY <1>1, <1>2

LEMMA BeginDownTame ==
    ASSUME NEW n \in Nat, NEW c, Good(c, n), NEW wipe \in BOOLEAN
    PROVE  Tame(BeginDown(c, wipe), c)
<1> DEFINE d == [StopLoop(c) EXCEPT !.token = 0, !.session = 0,
                                    !.armed = FALSE, !.closing = c.client]
<1>1. /\ d \in Fields(n) /\ d.loop = 0 /\ ~d.armed /\ d.firing = c.firing
  <2> DEFINE s == StopLoop(c)
  <2>1. s \in Fields(n) /\ s.loop = 0 /\ s.firing = c.firing /\ c.client \in 0 .. n
    BY DEF StopLoop, Good, Fields
  <2> PICK a \in BOOLEAN : ~a
    OBVIOUS
  <2> PICK z \in 0 .. n : z = 0
    OBVIOUS
  <2>2. d = [s EXCEPT !.token = z, !.session = z, !.armed = a, !.closing = c.client]
    OBVIOUS
  <2> HIDE DEF s, d
  <2> QED  BY <2>1, <2>2 DEF Fields
<1>2. BeginDown(c, wipe) = IF wipe THEN ClearState(d, c.client) ELSE d
  BY DEF BeginDown
<1> HIDE DEF d
<1>3. Tame(ClearState(d, c.client), d)
  BY <1>1, ClearStateTame
<1> QED  BY <1>1, <1>2, <1>3 DEF Tame

LEMMA EndDownTame ==
    ASSUME NEW n \in Nat, NEW c, Good(c, n), NEW link, NEW remains
    PROVE  Tame(Finished(EndDown(c, link, remains)), c)
<1> DEFINE b == ClearState(c, link)
           e == EndDown(c, link, remains)
<1>1. b \in Fields(n) /\ Tame(b, c)
  BY ClearStateGood, ClearStateTame DEF Good
<1>2. e = LET d == [b EXCEPT !.closing = IF @ = link THEN 0 ELSE @]
          IN  IF Retained(link, remains) THEN [d EXCEPT !.client = link] ELSE d
  BY DEF EndDown
<1> HIDE DEF b
<1>3. e.loop = b.loop /\ e.armed = b.armed /\ e.firing = b.firing
  BY <1>1, <1>2 DEF Fields
<1>4. /\ Finished(e).loop = b.loop /\ Finished(e).armed = b.armed
      /\ Finished(e).firing = b.firing
  BY <1>1, <1>2 DEF Finished, Fields
<1> HIDE DEF e
<1>5. Tame(Finished(e), c)
  BY <1>1, <1>4 DEF Tame
<1> QED  BY <1>5 DEF e

\* What a step keeps that neither starts nor ends a keep-alive task.
Settled ==
    /\ Tame(co', co) /\ alive' = alive
    /\ cut' \subseteq cut \cup ({co.loop} \ {0})

LEMMA TearDownTame ==
    ASSUME IInv, NEW then, NEW err, NEW wipe \in BOOLEAN, TearDown(then, err, wipe)
    PROVE  Settled
<1> DEFINE b == BeginDown(co, wipe)
           e == Finished(EndDown(b, co.client, up))
<1>1. Good(co, links) /\ links \in Nat
  BY DEF IInv, TypesInv
<1>2. Good(b, links) /\ Tame(b, co)
  BY <1>1, BeginDownGood, BeginDownTame
<1>3. co' = b \/ co' = e
  BY DEF TearDown
<1>4. alive' = alive /\ cut' \subseteq cut \cup ({co.loop} \ {0})
  BY DEF TearDown, Watchers
<1> HIDE DEF b
<1>5. Tame(e, b)
  BY <1>1, <1>2, EndDownTame
<1> HIDE DEF e
<1> QED  BY <1>2, <1>3, <1>4, <1>5 DEF Settled, Tame

LEMMA JobsAreTame ==
    ASSUME IInv, JobSteps, ~Identify, ~EndJob
    PROVE  Settled
<1>1. Good(co, links) /\ links \in Nat /\ co \in Fields(links)
  BY DEF IInv, TypesInv, Good
<1>2. /\ Tame(co, co) /\ Tame(ResetTimer(co), co) /\ Tame(Renewed(co), co)
  BY <1>1, TimersTame
<1>3. (UNCHANGED co \/ co' = Renewed(co)) /\ UNCHANGED tasks => Settled
  BY <1>2 DEF Settled, tasks
<1>4. CASE Ensure
  BY <1>3, <1>4, TearDownTame DEF Ensure
<1>5. CASE Connect
  BY <1>1, <1>3, <1>5 DEF Connect, Settled, Tame, Fields, tasks
<1>6. CASE SetupFails \/ Handle \/ PollEnds \/ Close \/ Pace \/ WriteFails \/ ReplyMissed
  BY <1>3, <1>6, TearDownTame
     DEF SetupFails, Handle, PollEnds, Close, Pace, WriteFails, ReplyMissed
<1>7. CASE Retry \/ SetupRaises \/ StageRefused \/ WaitCut \/ WriteSent \/ BackedOff
  BY <1>3, <1>7 DEF Retry, SetupRaises, StageRefused, WaitCut, WriteSent, BackedOff
<1>11. CASE Spill
  <2>1. /\ co' = ClearState(co, co.client) /\ cut' = cut \cup Watchers(co, 0)
        /\ alive' = alive
    BY <1>11 DEF Spill
  <2> QED  BY <1>1, <2>1, ClearStateTame DEF Settled, Watchers
<1>8. CASE DownEnds
  <2>1. PICK remains : co' = Finished(EndDown(co, job.link, remains))
    BY <1>8 DEF DownEnds
  <2>2. UNCHANGED tasks
    BY <1>8 DEF DownEnds
  <2> QED  BY <1>1, <2>1, <2>2, EndDownTame DEF Settled, tasks
<1>9. CASE Establish
  <2> DEFINE c == [co EXCEPT !.client = links']
  <2>1. links' \in Nat /\ links' = links + 1 /\ UNCHANGED tasks
    BY <1>1, <1>9 DEF Establish
  <2>2. c \in Fields(links')
    BY <1>1, <2>1 DEF Fields
  <2>3. c.loop = co.loop /\ c.armed = co.armed /\ c.firing = co.firing
    BY <1>1 DEF Fields
  <2>4. co' = c \/ co' = ResetTimer(c)
    BY <1>9 DEF Establish
  <2> HIDE DEF c
  <2>5. Tame(c, c) /\ Tame(ResetTimer(c), c)
    BY <2>1, <2>2, TimersTame
  <2> QED  BY <2>1, <2>3, <2>4, <2>5 DEF Settled, Tame, tasks
<1>10. CASE Select \/ Subscribe \/ Negotiate \/ ReplyHeard
  <2>1. UNCHANGED tasks
    BY <1>10 DEF Select, Subscribe, Negotiate, ReplyHeard
  <2>2. co'.loop = co.loop /\ co'.armed = co.armed /\ co'.firing = co.firing
    BY <1>1, <1>10 DEF Select, Subscribe, Negotiate, ReplyHeard, Fields
  <2> QED  BY <2>1, <2>2 DEF Settled, Tame, tasks
<1> QED
  BY <1>4, <1>5, <1>6, <1>7, <1>8, <1>9, <1>10, <1>11
     DEF JobSteps, Synchronous, Resume

LEMMA BesideIsTame ==
    ASSUME IInv, Beside, \A l \in Links : ~LoopEnds(l)
    PROVE  Settled
<1>1. links \in Nat /\ co \in Fields(links)
  BY DEF IInv, TypesInv, Good
<1>2. UNCHANGED <<co, alive, cut>> => Settled
  BY <1>1, TimersTame DEF Settled
<1>3. CASE TimerFires
  <2>1. co.armed /\ co'.loop = co.loop /\ UNCHANGED tasks
    BY <1>1, <1>3 DEF TimerFires, Fields
  <2> QED  BY <2>1 DEF Settled, Tame, tasks
<1>4. ASSUME NEW f \in {"current", "outdated"}, ExpiryRuns(f) \/ ExpirySkipped(f)
      PROVE  Settled
  <2> DEFINE c == [co EXCEPT !.firing = @ \ {f}]
  <2>1. co.firing # {} /\ UNCHANGED tasks
    BY <1>4 DEF ExpiryRuns, ExpirySkipped
  <2>2. c \in Fields(links) /\ c.loop = co.loop
    BY <1>1 DEF Fields
  <2>3. co' = c \/ co' = ResetTimer(c)
    BY <1>4 DEF ExpiryRuns, ExpirySkipped
  <2> HIDE DEF c
  <2>4. Tame(c, c) /\ Tame(ResetTimer(c), c)
    BY <1>1, <2>2, TimersTame
  <2> QED  BY <2>1, <2>2, <2>3, <2>4 DEF Settled, Tame, tasks
<1>5. CASE Callback
  <2>1. \/ co' = ClearState(co, co.client) /\ cut' = cut \cup Watchers(co, 0)
        \/ UNCHANGED <<co, cut>>
    BY <1>5 DEF Callback
  <2>2. alive' = alive
    BY <1>5 DEF Callback
  <2> QED  BY <1>1, <1>2, <2>1, <2>2, ClearStateTame DEF Settled, Watchers
<1>6. CASE GoQuiet
  <2>1. /\ co'.loop = co.loop /\ co'.armed = co.armed /\ co'.firing = co.firing
        /\ UNCHANGED tasks
    BY <1>1, <1>6 DEF GoQuiet, Fields
  <2> QED  BY <2>1 DEF Settled, Tame, tasks
<1>7. CASE BeginShutdown \/ HassStops
  <2>1. /\ co' = [StopLoop(co) EXCEPT !.armed = FALSE]
        /\ alive' = alive /\ cut' = cut \cup Watchers(co, 0)
    BY <1>7 DEF BeginShutdown, HassStops
  <2>2. co'.loop = 0 /\ ~co'.armed /\ co'.firing = co.firing
    BY <1>1, <2>1 DEF StopLoop, Fields
  <2> QED  BY <2>1, <2>2 DEF Settled, Tame, Watchers
<1>8. CASE \/ Drop \/ ShutdownCloses \/ ShutdownTimesOut \/ Claim \/ NoteLink
           \/ HandoverCloses \/ Unclaim \/ StartCommand \/ StartPoll \/ StartPreflight
           \/ \E l \in Links : LoopAsks(l) \/ Retire(l) \/ CleanUpEnds(l)
  BY <1>2, <1>8
     DEF Drop, ShutdownCloses, ShutdownTimesOut, Claim, NoteLink, HandoverCloses,
         Unclaim, StartCommand, StartPoll, StartPreflight, LoopAsks, Retire,
         CleanUpEnds, tasks
<1> QED
  BY <1>3, <1>4, <1>5, <1>6, <1>7, <1>8 DEF Beside

\* The mode of the coordinator is settled, and its timers follow it; whatever is
\* cut off, and the task that is current, is among those that go on.
TimersInv ==
    /\ mode \in Modes
    /\ Hold => ~co.armed /\ co.firing = {}
    /\ cut \subseteq alive /\ co.loop \in {0} \cup alive

LEMMA ModeStays == [Next]_vars => mode' = mode
BY DEF Next, JobSteps, Synchronous, Resume, Ensure, Connect, SetupFails, Handle, Retry,
       PollEnds, Close, EndJob, DownEnds, Establish, SetupRaises, StageRefused, Select,
       Subscribe, Negotiate, Identify, Pace, WaitCut, WriteSent, WriteFails, ReplyHeard,
       ReplyMissed, BackedOff, Beside, TimerFires, ExpiryRuns, ExpirySkipped, Drop,
       Callback, GoQuiet, LoopAsks, LoopEnds, Retire, BeginShutdown, ShutdownCloses,
       ShutdownTimesOut, Claim, NoteLink, HandoverCloses, Unclaim, HassStops,
       StartCommand, StartPoll, StartPreflight, Spill, CleanUpEnds, vars

LEMMA TimersStep == IInv /\ TimersInv /\ [Next]_vars => TimersInv'
<1> SUFFICES ASSUME IInv, TimersInv, [Next]_vars PROVE TimersInv'
  OBVIOUS
<1>1. links \in Nat /\ co \in Fields(links) /\ mode' = mode /\ Hold' = Hold
  BY ModeStays DEF IInv, TypesInv, Good, Hold
<1>2. ASSUME Settled PROVE TimersInv'
  BY <1>1, <1>2 DEF Settled, Tame, TimersInv
<1>3. CASE Identify
  <2>1. /\ co'.loop = job.link /\ co'.armed = co.armed /\ co'.firing = co.firing
        /\ alive' = alive \cup {job.link} /\ cut' = cut \cup Watchers(co, job.self)
    BY <1>1, <1>3 DEF Identify, Finished, Fields
  <2> QED  BY <1>1, <2>1 DEF TimersInv, Watchers
\* A keep-alive task that ends is neither current nor cut off any more.
<1>4. ASSUME NEW l, alive' = alive \ {l}, cut' = cut \ {l},
             co' = IF co.loop = l THEN StopLoop(co) ELSE co
      PROVE  TimersInv'
  <2>1. StopLoop(co).loop = 0 /\ StopLoop(co).armed = co.armed
        /\ StopLoop(co).firing = co.firing
    BY <1>1 DEF StopLoop, Fields
  <2> QED  BY <1>1, <1>4, <2>1 DEF TimersInv
<1>5. CASE EndJob
  <2>1. CASE job.kind = "loop" /\ ~job.ok
    <3>1. /\ alive' = alive \ {job.self} /\ cut' = cut \ {job.self}
          /\ co' = IF co.loop = job.self THEN StopLoop(co) ELSE co
      BY <1>5, <2>1 DEF EndJob
    <3> QED  BY <1>4, <3>1
  <2>2. CASE ~(job.kind = "loop" /\ ~job.ok)
    <3>1. alive' = alive /\ cut' = cut /\ co' = co
      BY <1>5, <2>2 DEF EndJob
    <3> QED  BY <1>1, <3>1 DEF TimersInv
  <2> QED  BY <2>1, <2>2
<1>6. ASSUME NEW l \in Links, LoopEnds(l)
      PROVE  TimersInv'
  <2>1. /\ alive' = alive \ {l} /\ cut' = cut \ {l}
        /\ co' = IF co.loop = l THEN StopLoop(co) ELSE co
    BY <1>6 DEF LoopEnds
  <2> QED  BY <1>4, <2>1
<1>7. CASE UNCHANGED vars
  <2>1. UNCHANGED <<co, alive, cut>>
    BY <1>7 DEF vars, tasks
  <2> QED  BY <1>1, <2>1 DEF TimersInv
<1> QED
  BY <1>2, <1>3, <1>5, <1>6, <1>7, JobsAreTame, BesideIsTame DEF Next

\* Counters within their bounds, and the stages of an end.
EndsTypes ==
    /\ calls \in 0 .. MaxCalls /\ links \in 0 .. MaxLinks
    /\ stopping \in BOOLEAN /\ seen \in 0 .. links
    /\ shut \in {"no", "waiting", "closing", "done"}

LEMMA EndsStep == IInv /\ EndsTypes /\ [Next]_vars => EndsTypes'
<1> SUFFICES ASSUME IInv, EndsTypes, [Next]_vars PROVE EndsTypes'
  OBVIOUS
<1> USE ConnectionAssumption DEF EndsTypes
<1>0. co.client \in 0 .. links
  BY DEF IInv, Good, Fields
<1>1. CASE Establish
  <2>1. links < MaxLinks /\ links' = links + 1 /\ UNCHANGED <<calls, stopping,
                                                              shut, seen>>
    BY <1>1 DEF Establish, ends
  <2> QED  BY <2>1
<1>2. CASE EndJob
  <2>1. UNCHANGED <<links, calls, stopping, seen>> /\ shut' \in {shut, "done"}
    BY <1>2 DEF EndJob, world
  <2> QED  BY <2>1
<1>3. CASE JobSteps /\ ~Establish /\ ~EndJob
  <2>1. UNCHANGED <<links, calls, stopping, shut, seen>>
    BY <1>3
       DEF JobSteps, Synchronous, Resume, Ensure, Connect, SetupFails, Handle, Retry,
           PollEnds, Spill, Close, DownEnds, SetupRaises, StageRefused, Select, Subscribe,
           Negotiate, Identify, Pace, WaitCut, WriteSent, WriteFails, ReplyHeard,
           ReplyMissed, BackedOff, ends, world
  <2> QED  BY <2>1
<1>4. CASE StartCommand \/ StartPoll \/ StartPreflight
  <2>1. calls < MaxCalls /\ calls' = calls + 1 /\ UNCHANGED <<links, stopping,
                                                              shut, seen>>
    BY <1>4 DEF StartCommand, StartPoll, StartPreflight, world, ends
  <2> QED  BY <2>1
<1>5. CASE Beside /\ ~StartCommand /\ ~StartPoll /\ ~StartPreflight
  <2>1. /\ UNCHANGED <<links, calls>>
        /\ stopping' \in {stopping, TRUE} /\ seen' \in {seen, co.client}
        /\ shut' \in {shut, "waiting", "closing", "done"}
    BY <1>5
       DEF Beside, TimerFires, ExpiryRuns, ExpirySkipped, Drop, Callback, GoQuiet,
           CleanUpEnds, LoopAsks, LoopEnds, Retire, BeginShutdown, ShutdownCloses,
           ShutdownTimesOut, Claim, NoteLink, HandoverCloses, Unclaim, HassStops, world,
           ends
  <2> QED  BY <1>0, <2>1
<1>6. CASE UNCHANGED vars
  BY <1>6 DEF vars, world, ends
<1> QED
  BY <1>1, <1>2, <1>3, <1>4, <1>5, <1>6 DEF Next

(***************************************************************************)
(* _reset_disconnect_timer and the keep-alive task, for any number of      *)
(* links and calls: in hold mode no idle timer runs or has fired, which    *)
(* nothing there would stop, and the keep-alive task that the coordinator  *)
(* would cancel is one that has not ended.                                 *)
(***************************************************************************)
THEOREM ConnectionTypes == Spec => []TypeOK
<1>1. Init => TimersInv /\ EndsTypes
  <2> SUFFICES ASSUME Init PROVE TimersInv /\ EndsTypes
    OBVIOUS
  <2>1. ~co.armed /\ co.firing = {} /\ co.loop = 0
    BY DEF Init, Rest
  <2>2. TimersInv
    BY <2>1 DEF Init, TimersInv
  <2>3. EndsTypes
    <3>1. calls = 0 /\ links = 0 /\ stopping = FALSE /\ seen = 0 /\ shut = "no"
      BY DEF Init
    <3>2. MaxCalls \in Nat /\ MaxLinks \in Nat
      BY ConnectionAssumption
    <3>3. calls \in 0 .. MaxCalls /\ links \in 0 .. MaxLinks /\ seen \in 0 .. links
      BY <3>1, <3>2
    <3>4. stopping \in BOOLEAN /\ shut \in {"no", "waiting", "closing", "done"}
      BY <3>1
    <3> QED  BY <3>3, <3>4 DEF EndsTypes
  <2> QED  BY <2>2, <2>3
<1>2. IInv /\ TimersInv /\ EndsTypes /\ hand \in Hands => TypeOK
  <2> SUFFICES ASSUME IInv, TimersInv, EndsTypes, hand \in Hands PROVE TypeOK
    OBVIOUS
  <2>1. co \in [client : 0 .. links, token : 0 .. links, session : 0 .. links,
               closing : 0 .. links, initializing : BOOLEAN, quiet : BOOLEAN,
               armed : BOOLEAN, firing : SUBSET {"current", "outdated"},
               loop : {0} \cup alive]
    BY DEF IInv, Good, Fields, TimersInv
  <2>2. job \in [kind : Kinds, at : Awaits \cup Running, link : 0 .. links,
                before : 0 .. links, self : 0 .. links, tries : 0 .. 2, ok : BOOLEAN,
                then : {"connect", "raise", "next", "end"}, err : Errors]
    BY DEF IInv, TypesInv, Job
  <2> QED
    BY <2>1, <2>2 DEF IInv, TypesInv, TimersInv, EndsTypes, Hands, TypeOK
<1> QED
  BY <1>1, <1>2, Invariant, HandTypes, TimersStep, EndsStep, PTL DEF Spec

=============================================================================
