---------------------------- MODULE LightRequests ---------------------------
(***************************************************************************)
(* The light entity on top of LatestRequests (light.py): turn_on and       *)
(* turn_off share one control; the attributes of queued turn_on calls are  *)
(* merged in _pending_turn_on and written by whichever of them runs.       *)
(* Requests for the other controls of the device share the lock.           *)
(*                                                                         *)
(* An attribute's value is represented by the request that asked for it.   *)
(***************************************************************************)
EXTENDS LatestRequests

CONSTANTS
    Power,       \* the control shared by turn_on and turn_off
    ModeAttrs,   \* _LIGHT_MODE_ATTRS: they replace one another
    OtherAttrs   \* the attributes that do not (brightness)

ASSUME PowerAssumption == Power \in Controls
ASSUME AttrsAssumption == ModeAttrs \cap OtherAttrs = {}

Attrs == ModeAttrs \cup OtherAttrs

VARIABLES
    pendingTurnOn, \* _pending_turn_on: per attribute, who asked (0: nobody)
    call,          \* per request: "on", "off", or "-" for other controls
    asked,         \* history: the attributes each turn_on came with
    written        \* history: what each turn_on that started handed on

lightVars == <<pendingTurnOn, call, asked, written>>
allVars   == <<requestVars, lightVars>>

Nothing == [a \in Attrs |-> 0]

LightInit ==
    /\ QueueInit
    /\ pendingTurnOn = Nothing
    /\ call = [r \in Requests |-> "-"]
    /\ asked = [r \in Requests |-> {}]
    /\ written = [r \in Requests |-> Nothing]

\* Fault: the mode attributes are replaced one by one.
MergedEach(r, args) ==
    [a \in Attrs |-> IF a \in args THEN r ELSE pendingTurnOn[a]]

\* async_turn_on stores every argument of the call, a colour beside an effect
\* included: newer values replace older ones, and a call with a mode attribute
\* replaces every mode attribute of the calls before it.
Merged(r, args) ==
    [a \in Attrs |->
        CASE a \in args -> r
          [] a \notin args /\ a \in ModeAttrs /\ args \cap ModeAttrs # {} -> 0
          [] OTHER -> pendingTurnOn[a]]

\* _async_send_pending_turn_on: the request that has just started takes what
\* is pending, if it is a turn_on.
TakePending(pend) ==
    IF running' # running /\ running' # 0 /\ call'[running'] = "on"
      THEN /\ written' = [written EXCEPT ![running'] = pend]
           /\ pendingTurnOn' = Nothing
      ELSE /\ pendingTurnOn' = pend
           /\ UNCHANGED written

AskOn(args) ==
    /\ Arrive
    /\ controlOf[arrivals'] = Power
    /\ call' = [call EXCEPT ![arrivals'] = "on"]
    /\ asked' = [asked EXCEPT ![arrivals'] = args]
    /\ TakePending(Merged(arrivals', args))

\* async_turn_off
AskOff ==
    /\ Arrive
    /\ controlOf[arrivals'] = Power
    /\ call' = [call EXCEPT ![arrivals'] = "off"]
    /\ pendingTurnOn' = Nothing
    /\ UNCHANGED <<asked, written>>

\* A setter of another entity of the device.
AskOther ==
    /\ Arrive
    /\ controlOf[arrivals'] # Power
    /\ UNCHANGED lightVars

LightHandOver ==
    /\ HandOver
    /\ UNCHANGED <<call, asked>>
    /\ TakePending(pendingTurnOn)

LightSkip == Skip /\ UNCHANGED lightVars
LightFinish == Finish /\ UNCHANGED lightVars
LightCancel(r) == CancelQueued(r) /\ UNCHANGED lightVars

LightNext ==
    \/ \E args \in SUBSET Attrs : AskOn(args)
    \/ AskOff
    \/ AskOther
    \/ LightHandOver
    \/ LightSkip
    \/ LightFinish
    \/ \E r \in Requests : LightCancel(r)

LightSpec == LightInit /\ [][LightNext]_allVars

-----------------------------------------------------------------------------
(* Properties. *)

\* Types; only turn_on calls have attributes pending.
LightTypeOK ==
    /\ QueueTypeOK
    /\ pendingTurnOn \in [Attrs -> 0..MaxRequests]
    /\ call \in [Requests -> {"on", "off", "-"}]
    /\ asked \in [Requests -> SUBSET Attrs]
    /\ written \in [Requests -> [Attrs -> 0..MaxRequests]]
    /\ \A a \in Attrs : pendingTurnOn[a] # 0 => call[pendingTurnOn[a]] = "on"

\* The mode that is written is the one that was asked for last: its attributes
\* come from one call, are all that this call came with, and no call between
\* it and the one that writes them asked for a mode.  A colour and an effect
\* of different calls never go out together.
ModeOfOneCall ==
    \A r \in Requests : \A a, b \in ModeAttrs :
        written[r][a] # 0 =>
            /\ a \in asked[written[r][a]]
            /\ written[r][b] =
                   IF b \in asked[written[r][a]] THEN written[r][a] ELSE 0
            /\ \A q \in Requests :
                   q <= r /\ b \in asked[q] => q <= written[r][a]

\* Turning off withdraws what was asked before: no turn_on that runs after a
\* turn_off writes an attribute that was asked for before it.
OffWithdraws ==
    \A r, off \in Requests : \A a \in Attrs :
        call[off] = "off" /\ off < r /\ written[r][a] # 0
            => written[r][a] > off

\* An attribute is written once: merging never repeats a value that an
\* earlier turn_on already sent, or the old value would undo what was set in
\* between.
WrittenOnce ==
    \A r, s \in Requests : \A a \in Attrs :
        r # s /\ written[r][a] # 0 => written[r][a] # written[s][a]

\* What a turn_on hands on is what was asked for last, and is handed on once,
\* whatever was merged, withdrawn, skipped or cancelled while it was queued.
MergedIsCurrent == ModeOfOneCall /\ OffWithdraws /\ WrittenOnce

=============================================================================
