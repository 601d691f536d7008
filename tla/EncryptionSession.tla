-------------------------- MODULE EncryptionSession --------------------------
(***************************************************************************)
(* GoveeEncryptionSession (govee_encryption/session.py) driven by the      *)
(* coordinator's connection set-up: a version is selected from the         *)
(* advertisements and the device's marker, keys are negotiated, and frames *)
(* are sealed and opened.  Advertisements, the link, its callback and the  *)
(* device's frames interleave with the set-up wherever it awaits.          *)
(*                                                                         *)
(* Ciphers are data: a frame is named by what it says, a key by the link   *)
(* it was negotiated on, for every link has a negotiation of its own.  The *)
(* set-up holds the coordinator's lock, so there is one at a time, and     *)
(* "_generation is still the one I captured" is one bit, cleared by reset. *)
(***************************************************************************)
EXTENDS Naturals

CONSTANTS
    MaxCounter,  \* the last counter that seal accepts
    MaxLinks,    \* bound: connections ever made
    MaxFrames    \* bound: data frames the device sends on one connection

ASSUME BoundsAssumption ==
    MaxCounter \in Nat /\ MaxCounter >= 2 /\ MaxLinks \in Nat /\ MaxFrames \in Nat

VARIABLES
    heardEncrypted, \* coordinator: _advertised_encryption
    heardPlain,     \* coordinator: _advertised_plaintext
    link,           \* how many connections were made; the current one
    conn,           \* "none", "up", "dropped" (callback still to run), "cleared"
    at,             \* the await the set-up is in; "off", or "open" for use
    plainOk,        \* async_select's argument plaintext_evidence
    version,        \* version
    required,       \* required_version
    failed,         \* _selection_failed
    ready,          \* ready
    intact,         \* _generation is the one the set-up captured
    future,         \* the future the set-up waits for
    opcode,         \* _opcode, 0 for none
    keyed,          \* _key is there
    iv,             \* _client_iv: the link it was drawn for, 0 for none
    counter,        \* _counter
    received,       \* _received_counter
    air,            \* frames of the device on this link; any may come again
    used,           \* history: how many frames each nonce sealed
    taken           \* history: how often each data frame of this link was accepted

adverts == <<heardEncrypted, heardPlain>>
world   == <<link, conn, air>>
choice  == <<plainOk, version, required, failed>>
keys    == <<keyed, iv, counter, received>>
history == <<used, taken>>
vars    == <<adverts, world, at, choice, ready, intact, future, opcode, keys,
             history>>

\* What the opcodes of the vendor's handshakes ask for.
KeyRequest     == 1
ConfirmRequest == 2
V2Request      == 17
Opcodes == {KeyRequest, ConfirmRequest, V2Request}

\* What a frame is sealed with: the session's random part and the counter.
Nonces == (1 .. MaxLinks) \X (2 .. MaxCounter)

NothingTaken == [n \in 1 .. MaxFrames |-> 0]

Handshake == [kind : {"handshake"}, n : Opcodes]
Data      == [kind : {"data"}, n : 1 .. MaxFrames]
Reply(op) == [kind |-> "handshake", n |-> op]

SetUpAwaits == {"marker", "subscribe", "mtu", "write", "reply", "settle"}
Subscribed  == {"mtu", "write", "reply", "settle", "open"}

Init ==
    /\ heardEncrypted = FALSE /\ heardPlain = FALSE
    /\ link = 0 /\ conn = "none" /\ at = "off" /\ air = {}
    /\ plainOk = FALSE /\ version = 0 /\ required = 0 /\ failed = FALSE
    /\ ready = FALSE /\ intact = FALSE /\ future = "none" /\ opcode = 0
    /\ keyed = FALSE /\ iv = 0 /\ counter = 2 /\ received = 0
    /\ used = [n \in Nonces |-> 0] /\ taken = NothingTaken

-----------------------------------------------------------------------------
(* Pieces of the session's methods. *)

ForgetKeys ==
    /\ opcode' = 0
    /\ keyed' = FALSE /\ iv' = 0 /\ counter' = 2 /\ received' = 0

\* reset(): a pending handshake fails; one that was answered keeps its answer,
\* which the waiter will refuse because the generation has changed.
Reset ==
    /\ ready' = FALSE
    /\ intact' = FALSE
    /\ future' = IF future = "pending" THEN "failed" ELSE future
    /\ ForgetKeys

\* The set-up raises: the session is reset and the link is torn down.
GiveUp ==
    /\ ready' = FALSE /\ intact' = FALSE /\ future' = "none"
    /\ ForgetKeys
    /\ at' = "off" /\ conn' = "none"
    /\ UNCHANGED <<adverts, link, air, history>>

\* "except Exception" and "except CancelledError" of async_select; version
\* and required_version stay as far as they were set.
SelectionFails(v, r) ==
    /\ version' = v /\ required' = r /\ failed' = TRUE
    /\ GiveUp

\* Fault: the reset during the read goes unnoticed.
MineStale == conn = "up"

\* The check after each await of select, exchange and negotiate: it is still
\* the session of this generation, and its link is up.
Mine == intact /\ conn = "up"

\* The end of a selection; the coordinator checks the link and subscribes.
Selected(v, r, plain) ==
    /\ version' = v /\ required' = r /\ failed' = FALSE
    /\ ready' = plain
    /\ at' = "subscribe"
    /\ future' = "none"
    /\ UNCHANGED <<adverts, world, intact, opcode, keys, history>>

-----------------------------------------------------------------------------
(* Advertisements. *)

\* _note_advertisement: evidence of encryption revokes a plaintext session,
\* and any session whose version is not known yet.
AdvertiseEncrypted ==
    /\ heardEncrypted' = TRUE
    /\ IF version = 0 THEN Reset
                      ELSE UNCHANGED <<ready, intact, future, opcode, keys>>
    /\ UNCHANGED <<heardPlain, world, at, choice, history>>

AdvertisePlain ==
    /\ heardPlain' = TRUE
    /\ UNCHANGED <<heardEncrypted, world, at, choice, ready, intact, future,
                   opcode, keys, history>>

-----------------------------------------------------------------------------
(* Selection. *)

\* What async_select sets before it looks at the services.
Demand == IF heardEncrypted /\ required = 0 THEN 1 ELSE required

\* The connection is made; it may be gone again before anybody looks.  The
\* session is reset and the generation captured.
Connect ==
    /\ at = "off" /\ link < MaxLinks
    /\ link' = link + 1
    /\ conn' \in {"up", "dropped"}
    /\ air' = {} /\ taken' = NothingTaken
    /\ plainOk' = (heardPlain /\ ~heardEncrypted)
    /\ intact' = TRUE
    /\ future' = "none"
    /\ ForgetKeys
    /\ UNCHANGED <<adverts, used>>

\* The device has the marker characteristic: it is read.
SelectByMarker ==
    /\ Connect
    /\ version' = 0 /\ required' = Demand
    /\ ready' = FALSE
    /\ at' = "marker"
    /\ UNCHANGED failed

\* It has none: what is required decides, unless a selection failed before.
SelectWithoutMarker ==
    /\ Connect
    /\ ~failed /\ conn' = "up"
    /\ version' = Demand /\ required' = Demand
    /\ ready' = (Demand = 0)
    /\ at' = "subscribe"
    /\ UNCHANGED failed

\* The same in the states where it raises.  The link is torn down at once.
SelectWithoutMarkerFails ==
    /\ at = "off" /\ link < MaxLinks
    /\ link' = link + 1
    /\ version' = IF failed THEN 0 ELSE Demand
    /\ required' = Demand
    /\ failed' = TRUE
    /\ plainOk' = (heardPlain /\ ~heardEncrypted)
    /\ air' = {} /\ taken' = NothingTaken
    /\ UNCHANGED <<adverts, conn, at, ready, intact, future, opcode, keys,
                   used>>

\* The marker says m, and what is required outlives a zero.
MarkerRead(m) ==
    LET v == IF m = 0 THEN required ELSE m
        r == IF v = 0 THEN required ELSE v
    IN /\ at = "marker"
       /\ IF Mine THEN Selected(v, r, v = 0) ELSE SelectionFails(v, r)
       /\ UNCHANGED plainOk

\* The read fails or the marker makes no sense: plaintext only if the device
\* advertises it, and nothing ever spoke for encryption.
MarkerUnusable ==
    /\ at = "marker"
    /\ IF plainOk /\ required = 0 /\ Mine
         THEN Selected(0, required, TRUE)
         ELSE SelectionFails(0, required)
    /\ UNCHANGED plainOk

ReadMarker == MarkerUnusable \/ \E m \in 0 .. 2 : MarkerRead(m)

-----------------------------------------------------------------------------
(* Negotiation. *)

\* _exchange up to its first await.
BeginExchange(op) ==
    /\ opcode' = op
    /\ future' = "pending"
    /\ intact' = TRUE
    /\ at' = "write"

Fails == GiveUp /\ UNCHANGED choice

\* start_notify is done (or not needed): async_negotiate begins.
Negotiate ==
    /\ at = "subscribe"
    /\ \/ /\ conn = "up" /\ ready /\ version = 0
          /\ at' = "settle"
          /\ UNCHANGED <<intact, future, opcode, keys, ready, conn>>
       \/ /\ conn = "up" /\ version = 1
          /\ BeginExchange(KeyRequest)
          /\ UNCHANGED <<keys, ready, conn>>
       \/ /\ conn = "up" /\ version = 2
          /\ intact' = TRUE
          /\ at' = "mtu"
          /\ UNCHANGED <<future, opcode, keys, ready, conn>>
       \/ /\ conn # "up" \/ (version = 0 /\ ~ready)
          /\ Fails
    /\ UNCHANGED <<adverts, link, air, choice, history>>

\* The backend has told its MTU, from its cache or from the link.
MtuKnown ==
    /\ at = "mtu"
    /\ IF Mine
         THEN /\ iv' = link
              /\ BeginExchange(V2Request)
              /\ UNCHANGED <<adverts, world, choice, ready, keyed, counter,
                             received, history>>
         ELSE Fails

\* write_gatt_char returns; the answer may be there already.
RequestWritten ==
    /\ at = "write"
    /\ at' = "reply"
    /\ UNCHANGED <<adverts, world, choice, ready, intact, future, opcode, keys,
                   history>>

\* The answer of the device counts if it is still the same session.
Accepted == future = "answered" /\ Mine

\* The future is done and the set-up resumes.
Answered ==
    /\ at = "reply" /\ future \in {"answered", "failed"}
    /\ \/ /\ Accepted /\ version = 1 /\ opcode = KeyRequest
          /\ BeginExchange(ConfirmRequest)
          /\ UNCHANGED <<keys, ready, conn>>
       \/ /\ Accepted /\ ~(version = 1 /\ opcode = KeyRequest)
          /\ keyed' = TRUE /\ ready' = TRUE
          /\ future' = "none" /\ opcode' = 0
          /\ at' = "settle"
          /\ UNCHANGED <<intact, iv, counter, received, conn>>
       \/ ~Accepted /\ Fails
    /\ UNCHANGED <<adverts, link, air, choice, history>>

\* Fault: only the write is under the timeout.
TimeoutOfWrite == at = "write" /\ Fails

\* HANDSHAKE_TIMEOUT covers the write and the wait for the answer, even one
\* that has come but was not picked up yet.
HandshakeTimeout == at \in {"write", "reply"} /\ Fails

\* The set-up is cancelled, or another of its steps raises.
SetUpCut ==
    /\ at \in SetUpAwaits
    /\ failed' = (failed \/ at = "marker")
    /\ GiveUp
    /\ UNCHANGED <<plainOk, version, required>>

\* The last check of the set-up.
SetUpEnds ==
    /\ at = "settle"
    /\ IF conn = "up" /\ ready
         THEN /\ at' = "open"
              /\ UNCHANGED <<adverts, world, choice, ready, intact, future,
                             opcode, keys, history>>
         ELSE Fails

-----------------------------------------------------------------------------
(* Traffic. *)

\* Fault: a sealed frame does not advance the counter.
AdvanceNot == counter

Advance == counter + 1

\* seal refuses a counter that does not fit.
CounterLeft == counter <= MaxCounter

\* encode(): version 2 seals with the next counter while there is one.
SendSealed ==
    /\ at \in {"settle", "open"} /\ conn = "up"
    /\ ready /\ version = 2 /\ keyed /\ iv # 0
    /\ CounterLeft
    /\ used' = [used EXCEPT ![<<iv, counter>>] = @ + 1]
    /\ counter' = Advance
    /\ UNCHANGED <<adverts, world, at, choice, ready, intact, future, opcode,
                   keyed, iv, received, taken>>

\* The device answers a request that has reached it.
DeviceReplies ==
    /\ at \in {"write", "reply"} /\ conn = "up"
    /\ opcode \in Opcodes
    /\ air' = air \cup {Reply(opcode)}
    /\ UNCHANGED <<adverts, link, conn, at, choice, ready, intact, future,
                   opcode, keys, history>>

\* It reports something, under the keys it has given out.
DeviceReports(n) ==
    /\ conn = "up"
    /\ Reply(V2Request) \in air
    /\ n = 1 \/ [kind |-> "data", n |-> n - 1] \in air
    /\ air' = air \cup {[kind |-> "data", n |-> n]}
    /\ UNCHANGED <<adverts, link, conn, at, choice, ready, intact, future,
                   opcode, keys, history>>

\* Fault: any answer goes, whatever was asked.
AnswersAnything(f) == f.kind = "handshake"

\* decode(), not ready: the answer to what was asked.  A duplicate of the key
\* is no confirmation.
Answers(f) == f.kind = "handshake" /\ f.n = opcode

\* A frame under no key, or one that the handshake parser refuses.
Unreadable(f) == f.kind = "data"

\* Fault: the last frame may be repeated.
FreshOrLast(n) == n >= received

Fresh(n) == n > received

\* decode() of a frame that reaches the current subscription (receive in
\* _start_notify); a frame may come more than once and out of order.
Receive(f) ==
    /\ at \in Subscribed /\ conn = "up"
    /\ \/ /\ ~ready /\ future = "pending" /\ Answers(f)
          /\ future' = "answered"
          /\ UNCHANGED <<received, taken>>
       \/ /\ ~ready /\ future = "pending" /\ Unreadable(f)
          /\ future' = "failed"
          /\ UNCHANGED <<received, taken>>
       \/ /\ ready /\ version = 2 /\ keyed /\ f.kind = "data" /\ Fresh(f.n)
          /\ received' = f.n
          /\ taken' = [taken EXCEPT ![f.n] = @ + 1]
          /\ UNCHANGED future
    /\ UNCHANGED <<adverts, world, at, choice, ready, intact, opcode, keyed,
                   iv, counter, used>>

\* Something that is no frame of the handshake arrives in the middle of it,
\* or the device refuses.
Garbled ==
    /\ at \in Subscribed /\ conn = "up"
    /\ ~ready /\ future = "pending"
    /\ future' = "failed"
    /\ UNCHANGED <<adverts, world, at, choice, ready, intact, opcode, keys,
                   history>>

-----------------------------------------------------------------------------
(* The link. *)

Drop ==
    /\ conn = "up"
    /\ conn' = "dropped"
    /\ UNCHANGED <<adverts, link, air, at, choice, ready, intact, future,
                   opcode, keys, history>>

\* _disconnected_callback clears the client and resets the session.
Callback ==
    /\ conn = "dropped"
    /\ conn' = "cleared"
    /\ Reset
    /\ UNCHANGED <<adverts, link, air, at, choice, history>>

\* _disconnect_locked: idle, superseded, not ready any more, or shut down.
Disconnect == at = "open" /\ Fails

Next ==
    \/ AdvertiseEncrypted \/ AdvertisePlain
    \/ SelectByMarker \/ SelectWithoutMarker \/ SelectWithoutMarkerFails
    \/ ReadMarker \/ Negotiate \/ MtuKnown \/ RequestWritten \/ Answered
    \/ HandshakeTimeout \/ SetUpCut \/ SetUpEnds
    \/ SendSealed \/ DeviceReplies
    \/ \E n \in 1 .. MaxFrames : DeviceReports(n)
    \/ \E f \in air : Receive(f)
    \/ Garbled
    \/ Drop \/ Callback \/ Disconnect

Spec == Init /\ [][Next]_vars

\* Reading the marker, subscribing, asking for the MTU and the write are
\* bounded by the Bluetooth stack or a timeout, and the loop resumes whatever
\* is due.  Nothing obliges the device to answer.
FairSpec ==
    /\ Spec
    /\ WF_vars(ReadMarker) /\ WF_vars(Negotiate) /\ WF_vars(MtuKnown)
    /\ WF_vars(RequestWritten) /\ WF_vars(Answered)
    /\ WF_vars(HandshakeTimeout) /\ WF_vars(SetUpEnds)

-----------------------------------------------------------------------------
(* Properties. *)

StageTypes ==
    /\ heardEncrypted \in BOOLEAN /\ heardPlain \in BOOLEAN
    /\ conn \in {"none", "up", "dropped", "cleared"}
    /\ at \in SetUpAwaits \cup {"off", "open"}
    /\ plainOk \in BOOLEAN /\ failed \in BOOLEAN
    /\ ready \in BOOLEAN /\ intact \in BOOLEAN /\ keyed \in BOOLEAN
    /\ future \in {"none", "pending", "answered", "failed"}

NumberTypes ==
    /\ link \in 0 .. MaxLinks
    /\ version \in 0 .. 2 /\ required \in 0 .. 2
    /\ opcode \in Opcodes \cup {0}
    /\ iv \in {0, link}
    /\ counter \in 2 .. MaxCounter + 1 /\ received \in 0 .. MaxFrames

FrameTypes ==
    /\ air \subseteq Handshake \cup Data
    /\ used \in [Nonces -> Nat]
    /\ taken \in [1 .. MaxFrames -> Nat]

\* The fields hold what the code can put in them: the random part is the one
\* drawn on this link, and no counter passes the value after the last one.
TypeOK == StageTypes /\ NumberTypes /\ FrameTypes

\* "Version zero permits plaintext only without positive encryption evidence"
\* (session.py:109): encode hands a packet on unsealed only while no
\* advertisement, marker or earlier session ever spoke for encryption, even if
\* the evidence came while the selection that ignores it was under way.
PlaintextNeedsNoEvidence ==
    ready /\ version = 0 => ~heardEncrypted /\ required = 0

\* A session with keys is one that the device took part in: on this very
\* link it answered every request of the handshake, whatever was repeated,
\* late, or overtaken by a drop.
ReadyIsConfirmed ==
    ready /\ version # 0 =>
        /\ keyed /\ conn \in {"up", "dropped"}
        /\ IF version = 1
             THEN {Reply(KeyRequest), Reply(ConfirmRequest)} \subseteq air
             ELSE Reply(V2Request) \in air

\* No two frames are sealed with the same nonce: a counter that is spent
\* stays spent through resets and reconnects, up to its last value.
NonceIsFresh == \A n \in Nonces : used[n] <= 1

\* A frame of the device is accepted at most once on a link.
FrameIsTakenOnce == \A n \in 1 .. MaxFrames : taken[n] <= 1

\* A set-up never hangs on a device that does not answer.
SetUpIsBounded == at \in SetUpAwaits ~> at \in {"off", "open"}

=============================================================================
