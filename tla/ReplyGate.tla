----------------------------- MODULE ReplyGate ------------------------------
(***************************************************************************)
(* ReplyGate (reply_pacing.py) and the part of the coordinator's only      *)
(* write path that drives it (_async_write_packet): every frame waits for  *)
(* the reply to the previous one, commands that never reply are learned as *)
(* silent, and a new subscription forgets what was learned.                *)
(*                                                                         *)
(* The callers hold the coordinator's lock, so there is one writer.  The   *)
(* notification callback, the deadline and a disconnection interleave with *)
(* it wherever it awaits: in the gate and in the GATT write.  Time is one  *)
(* bit: has the deadline of the pending reply passed.                      *)
(***************************************************************************)
EXTENDS FiniteSets

CONSTANTS
    Keys,    \* the (header, command) pairs whose writes are answered
    NoKey    \* None; also the key of a frame that is never paced

ASSUME NoKeyAssumption == NoKey \notin Keys

VARIABLES
    pending,  \* _pending
    expired,  \* the clock is past _deadline
    replied,  \* the _replied event is set
    answered, \* _answered
    silent,   \* _silent
    writer,   \* where the writer is: "idle", "waiting" or "writing"
    frame,    \* the key of the frame it is to write
    current,  \* the subscription it armed the gate on is still the current one
    replies,  \* replies under way: key and fate of the write they answer
    heard,    \* history: keys whose completed or running write was answered
    ripe      \* history: keys that stayed unanswered for a whole timeout after
              \* a write of theirs was complete

gateVars   == <<pending, expired, replied, answered, silent>>
writerVars == <<writer, frame, current>>
pacingVars == <<gateVars, writerVars, replies, heard, ripe>>

Reply == [key : Keys, write : {"running", "sent", "failed"}]

PacingInit ==
    /\ pending = NoKey
    /\ expired = FALSE
    /\ replied = FALSE
    /\ answered = {}
    /\ silent = {}
    /\ writer = "idle"
    /\ frame = NoKey
    /\ current = TRUE
    /\ replies = {}
    /\ heard = {}
    /\ ripe = {}

-----------------------------------------------------------------------------
(* The gate's operations. *)

\* The end of wait(): what is still pending is learned as silent, unless it
\* has replied before.
Settled(sil) ==
    IF pending # NoKey /\ pending \notin answered
      THEN sil \cup {pending}
      ELSE sil

\* arm(k), for a gate that wait() has just settled.
Arm(k, sil) ==
    /\ silent' = sil
    /\ IF k \in Keys \ sil
         THEN /\ pending' = k
              /\ expired' = FALSE
              /\ replied' = FALSE
         ELSE /\ pending' = NoKey
              /\ UNCHANGED <<expired, replied>>
    /\ UNCHANGED answered

\* sent(): the deadline restarts when the transport is done.
Sent ==
    /\ expired' = IF pending # NoKey THEN FALSE ELSE expired
    /\ UNCHANGED <<pending, replied, answered, silent>>

\* Fault: a failed write is left pending, to be taken for an unanswered one.
AbortNothing == UNCHANGED gateVars

\* abort()
Abort ==
    /\ pending' = NoKey
    /\ replied' = TRUE
    /\ UNCHANGED <<expired, answered, silent>>

\* Fault: a late reply does not reinstate the command.
ObservePendingOnly(k) ==
    /\ answered' = IF k = pending THEN answered \cup {k} ELSE answered
    /\ pending' = IF k = pending THEN NoKey ELSE pending
    /\ replied' = (replied \/ k = pending)
    /\ UNCHANGED <<expired, silent>>

\* observe(k)
Observe(k) ==
    /\ silent' = silent \ {k}
    /\ answered' = IF k \in silent \/ k = pending
                     THEN answered \cup {k} ELSE answered
    /\ pending' = IF k = pending THEN NoKey ELSE pending
    /\ replied' = (replied \/ k = pending)
    /\ UNCHANGED expired

-----------------------------------------------------------------------------
(* The write path. *)

\* wait() returned: the request is written, or refused by a check between the
\* gate and the radio (shutdown, unqualified packet, a changed profile).
Proceed(k) ==
    LET sil == Settled(silent) IN
    \/ /\ Arm(k, sil)
       /\ writer' = "writing"
       /\ frame' = k
       /\ current' = TRUE
       /\ replies' \in {replies, replies \cup
                           {[key |-> j, write |-> "running"] : j \in {k} \ {NoKey}}}
    \/ /\ silent' = sil
       /\ pending' = NoKey
       /\ writer' = "idle"
       /\ UNCHANGED <<expired, replied, answered, frame, current, replies>>

\* A frame meets a gate with nothing pending, or past its deadline.
WriteAtOnce(k) ==
    /\ writer = "idle"
    /\ pending = NoKey \/ expired
    /\ Proceed(k)
    /\ UNCHANGED <<heard, ripe>>

\* A frame has to wait for the previous one's reply.
WriteWaits(k) ==
    /\ writer = "idle"
    /\ pending # NoKey /\ ~expired
    /\ writer' = "waiting"
    /\ frame' = k
    /\ UNCHANGED <<gateVars, current, replies, heard, ripe>>

\* The reply came, the subscription was reset, or the timeout fired.
WaitEnds ==
    /\ writer = "waiting"
    /\ replied \/ expired
    /\ Proceed(frame)
    /\ UNCHANGED <<heard, ripe>>

\* The waiting task is cancelled: nothing is learned, the reply stays pending.
WaitCancelled ==
    /\ writer = "waiting"
    /\ writer' = "idle"
    /\ UNCHANGED <<gateVars, frame, current, replies, heard, ripe>>

Fate(fate) ==
    replies' = {IF r.write = "running" THEN [r EXCEPT !.write = fate] ELSE r
                  : r \in replies}

\* write_gatt_char returned.
WriteCompletes ==
    /\ writer = "writing"
    /\ IF current THEN Sent ELSE UNCHANGED gateVars
    /\ Fate("sent")
    /\ writer' = "idle"
    /\ UNCHANGED <<frame, current, heard, ripe>>

\* write_gatt_char raised or was cancelled (the frame may still have got
\* through), or a shutdown was requested while it ran.
WriteFails ==
    /\ writer = "writing"
    /\ IF current THEN Abort ELSE UNCHANGED gateVars
    /\ Fate("failed")
    /\ writer' = "idle"
    /\ UNCHANGED <<frame, current, heard, ripe>>

-----------------------------------------------------------------------------
(* What happens around the writer. *)

\* A validated reply arrives, as late as it likes, and is observed.
ReplyArrives(r) ==
    /\ Observe(r.key)
    /\ replies' = replies \ {r}
    /\ heard' = IF r.write = "failed" THEN heard ELSE heard \cup {r.key}
    /\ UNCHANGED <<writerVars, ripe>>

ReplyLost(r) ==
    /\ replies' = replies \ {r}
    /\ UNCHANGED <<gateVars, writerVars, heard, ripe>>

DeadlinePasses ==
    /\ pending # NoKey
    /\ ~expired
    /\ expired' = TRUE
    /\ ripe' = IF writer # "writing" THEN ripe \cup {pending} ELSE ripe
    /\ UNCHANGED <<pending, replied, answered, silent, writerVars, replies,
                   heard>>

\* reset()
Reset ==
    /\ pending' = NoKey
    /\ answered' = {}
    /\ silent' = {}
    /\ replied' = TRUE
    /\ UNCHANGED expired

\* The subscription changes: the client is cleared (_clear_client_state) or a
\* new one is subscribed to (_start_notify).  Frames of the old one are
\* dropped by the receive closure from here on.
SubscriptionChanges ==
    /\ Reset
    /\ current' = FALSE
    /\ replies' = {}
    /\ heard' = {}
    /\ ripe' = {}
    /\ UNCHANGED <<writer, frame>>

PacingNext ==
    \/ \E k \in Keys \cup {NoKey} : WriteAtOnce(k) \/ WriteWaits(k)
    \/ WaitEnds \/ WaitCancelled \/ WriteCompletes \/ WriteFails
    \/ \E r \in replies : ReplyArrives(r) \/ ReplyLost(r)
    \/ DeadlinePasses
    \/ SubscriptionChanges

PacingSpec == PacingInit /\ [][PacingNext]_pacingVars

-----------------------------------------------------------------------------
(* Properties. *)

PacingTypeOK ==
    /\ pending \in Keys \cup {NoKey}
    /\ expired \in BOOLEAN
    /\ replied \in BOOLEAN
    /\ answered \subseteq Keys
    /\ silent \subseteq Keys
    /\ writer \in {"idle", "waiting", "writing"}
    /\ frame \in Keys \cup {NoKey}
    /\ current \in BOOLEAN
    /\ replies \subseteq Reply
    /\ heard \subseteq Keys
    /\ ripe \subseteq Keys

\* A command that has replied on this subscription stays paced, however late
\* its reply was and however many later ones are dropped (reply_pacing.py:6,
\* "a dropped reply from a command that has replied before keeps it paced").
AnsweredStaysPaced == silent \cap (answered \cup heard) = {}

\* Silence is learned only from a complete write that a whole timeout passed
\* over: neither a failed or cancelled write, nor a slow transport, nor a
\* cancelled wait, nor another subscription teaches it.
SilenceEarned == silent \subseteq ripe

\* The event and the pending reply tell the same story: a frame behind an
\* outstanding reply really waits, and a waiter whose reply came, or whose
\* subscription went away, does not sit out the timeout.
EventFaithful ==
    /\ pending # NoKey => ~replied
    /\ writer = "waiting" /\ pending = NoKey => replied

=============================================================================
