---------------------- MODULE EncryptionSessionProofs -----------------------
(***************************************************************************)
(* What a session promises, for any number of connections and frames and   *)
(* any last counter.  None of the properties is inductive: they rest on    *)
(* what the set-up has in hand at each of its awaits, which is what the    *)
(* conjuncts of IInv say.                                                  *)
(***************************************************************************)
EXTENDS EncryptionSession, TLAPS

\* Between connections there is nothing to use and nothing to wait for.
AtRest ==
    at = "off" => conn = "none" /\ ~ready /\ iv = 0 /\ future = "none"

\* While the marker is read, an advertisement of encryption that the arguments
\* of the selection do not know of has ended the generation.
Choosing ==
    at = "marker" =>
        /\ version = 0 /\ ~ready
        /\ intact /\ required = 0 => ~heardEncrypted

\* Nobody waits for an answer before a request is made.
NoRequestYet == at \in {"marker", "subscribe", "mtu"} => future = "none"

\* The request that is out fits the version, and an answer that counts is
\* one of the device, to this request.
Exchanging ==
    /\ at \in {"mtu", "write", "reply"} => ~ready /\ version # 0
    /\ at = "mtu" => version = 2
    /\ at \in {"write", "reply"} /\ intact =>
          /\ version = 1 => opcode \in {KeyRequest, ConfirmRequest}
          /\ version = 2 => opcode = V2Request
          /\ opcode = ConfirmRequest => Reply(KeyRequest) \in air
    /\ future = "answered" /\ intact => Reply(opcode) \in air

\* Keys are in use only after the exchange.
ReadyLate == ready /\ version # 0 => at \in {"settle", "open"}

\* Nothing was sealed with a random part that is not drawn yet, nor with the
\* current one and a counter that is still to come.
Unspent ==
    \A n \in Nonces :
        \/ n[1] > link
        \/ n[1] = link /\ at \in {"marker", "subscribe", "mtu"}
        \/ n[1] = iv /\ n[2] >= counter
        => used[n] = 0

\* No data frame was accepted before the exchange was over, nor any that is
\* newer than the last.
Untaken ==
    /\ at \in {"marker", "subscribe", "mtu", "write", "reply"} =>
          taken = NothingTaken
    /\ ready => \A n \in 1 .. MaxFrames : n > received => taken[n] = 0

IInv ==
    /\ TypeOK
    /\ AtRest
    /\ Choosing
    /\ NoRequestYet
    /\ Exchanging
    /\ ReadyLate
    /\ Unspent
    /\ Untaken
    /\ PlaintextNeedsNoEvidence
    /\ ReadyIsConfirmed
    /\ NonceIsFresh
    /\ FrameIsTakenOnce

LEMMA NothingTakenType == NothingTaken \in [1 .. MaxFrames -> Nat]
BY DEF NothingTaken

LEMMA InitIInv == Init => IInv
<1> SUFFICES ASSUME Init
             PROVE  IInv
  OBVIOUS
<1> USE BoundsAssumption DEF Init
<1>1. used \in [Nonces -> Nat] /\ \A n \in Nonces : used[n] = 0
  OBVIOUS
<1>2. TypeOK
  <2>1. StageTypes
    BY DEF StageTypes
  <2>2. NumberTypes
    BY DEF NumberTypes
  <2>3. FrameTypes
    BY <1>1, NothingTakenType DEF FrameTypes
  <2> QED
    BY <2>1, <2>2, <2>3 DEF TypeOK
<1>3. AtRest /\ Choosing /\ NoRequestYet /\ Exchanging /\ ReadyLate
  BY DEF AtRest, Choosing, NoRequestYet, Exchanging, ReadyLate
<1>4. Unspent /\ NonceIsFresh
  BY <1>1 DEF Unspent, NonceIsFresh
<1>5. Untaken /\ FrameIsTakenOnce
  BY DEF Untaken, FrameIsTakenOnce, NothingTaken
<1>6. PlaintextNeedsNoEvidence /\ ReadyIsConfirmed
  BY DEF PlaintextNeedsNoEvidence, ReadyIsConfirmed
<1> QED
  BY <1>2, <1>3, <1>4, <1>5, <1>6 DEF IInv

\* Every step keeps the types of flags and stages.
LEMMA StageTypesStep ==
    ASSUME IInv, [Next]_vars
    PROVE  StageTypes'
<1> USE BoundsAssumption DEF vars, adverts, world, choice, keys, history,
        TypeOK, IInv, StageTypes, SetUpAwaits
<1>1. CASE AdvertiseEncrypted
  <2>1. CASE version = 0
    BY <1>1, <2>1 DEF AdvertiseEncrypted, Reset, ForgetKeys
  <2>2. CASE version # 0
    BY <1>1, <2>2 DEF AdvertiseEncrypted
  <2> QED
    BY <2>1, <2>2
<1>2. CASE AdvertisePlain
  BY <1>2 DEF AdvertisePlain
<1>3. CASE SelectByMarker
  BY <1>3 DEF SelectByMarker, Connect, ForgetKeys, Demand
<1>4. CASE SelectWithoutMarker
  BY <1>4 DEF SelectWithoutMarker, Connect, ForgetKeys, Demand
<1>5. CASE SelectWithoutMarkerFails
  BY <1>5 DEF SelectWithoutMarkerFails, Demand
<1>6. CASE MarkerUnusable
  BY <1>6 DEF MarkerUnusable, Selected, SelectionFails, GiveUp, ForgetKeys,
     Mine
<1>7. ASSUME NEW m \in 0 .. 2, MarkerRead(m)
      PROVE  StageTypes'
  BY <1>7 DEF MarkerRead, Selected, SelectionFails, GiveUp, ForgetKeys, Mine
<1>8. CASE Negotiate
  BY <1>8 DEF Negotiate, Fails, GiveUp, ForgetKeys, BeginExchange
<1>9. CASE MtuKnown
  BY <1>9 DEF MtuKnown, Fails, GiveUp, ForgetKeys, BeginExchange, Mine
<1>10. CASE RequestWritten
  BY <1>10 DEF RequestWritten
<1>11. CASE Answered
  BY <1>11 DEF Answered, Fails, GiveUp, ForgetKeys, BeginExchange, Accepted,
     Mine
<1>12. CASE HandshakeTimeout
  BY <1>12 DEF HandshakeTimeout, Fails, GiveUp, ForgetKeys
<1>13. CASE SetUpCut
  BY <1>13 DEF SetUpCut, GiveUp, ForgetKeys
<1>14. CASE SetUpEnds
  BY <1>14 DEF SetUpEnds, Fails, GiveUp, ForgetKeys
<1>15. CASE SendSealed
  BY <1>15 DEF SendSealed, Advance, CounterLeft
<1>16. CASE DeviceReplies
  BY <1>16 DEF DeviceReplies
<1>17. ASSUME NEW n \in 1 .. MaxFrames, DeviceReports(n)
      PROVE  StageTypes'
  BY <1>17 DEF DeviceReports
<1>18. ASSUME NEW f \in air, Receive(f)
      PROVE  StageTypes'
  BY <1>18 DEF Receive, Answers, Unreadable, Fresh
<1>19. CASE Garbled
  BY <1>19 DEF Garbled
<1>20. CASE Drop
  BY <1>20 DEF Drop
<1>21. CASE Callback
  BY <1>21 DEF Callback, Reset, ForgetKeys
<1>22. CASE Disconnect
  BY <1>22 DEF Disconnect, Fails, GiveUp, ForgetKeys
<1>23. CASE UNCHANGED vars
  BY <1>23
<1> QED
  BY <1>1, <1>2, <1>3, <1>4, <1>5, <1>6, <1>7, <1>8, <1>9, <1>10, <1>11,
     <1>12, <1>13, <1>14, <1>15, <1>16, <1>17, <1>18, <1>19, <1>20, <1>21,
     <1>22, <1>23
  DEF Next, ReadMarker

\* Every step keeps the numbers in their ranges.
LEMMA NumberTypesStep ==
    ASSUME IInv, [Next]_vars
    PROVE  NumberTypes'
<1> USE BoundsAssumption DEF vars, adverts, world, choice, keys, history,
        TypeOK, IInv, NumberTypes, Opcodes, KeyRequest, ConfirmRequest,
        V2Request, AtRest
<1>1. CASE AdvertiseEncrypted
  BY <1>1 DEF AdvertiseEncrypted, Reset, ForgetKeys
<1>2. CASE AdvertisePlain
  BY <1>2 DEF AdvertisePlain
<1>3. CASE SelectByMarker
  BY <1>3 DEF SelectByMarker, Connect, ForgetKeys, Demand
<1>4. CASE SelectWithoutMarker
  BY <1>4 DEF SelectWithoutMarker, Connect, ForgetKeys, Demand
<1>5. CASE SelectWithoutMarkerFails
  BY <1>5 DEF SelectWithoutMarkerFails, Demand
<1>6. CASE MarkerUnusable
  BY <1>6 DEF MarkerUnusable, Selected, SelectionFails, GiveUp, ForgetKeys,
     Mine
<1>7. ASSUME NEW m \in 0 .. 2, MarkerRead(m)
      PROVE  NumberTypes'
  BY <1>7 DEF MarkerRead, Selected, SelectionFails, GiveUp, ForgetKeys, Mine
<1>8. CASE Negotiate
  BY <1>8 DEF Negotiate, Fails, GiveUp, ForgetKeys, BeginExchange
<1>9. CASE MtuKnown
  BY <1>9 DEF MtuKnown, Fails, GiveUp, ForgetKeys, BeginExchange, Mine
<1>10. CASE RequestWritten
  BY <1>10 DEF RequestWritten
<1>11. CASE Answered
  BY <1>11 DEF Answered, Fails, GiveUp, ForgetKeys, BeginExchange, Accepted,
     Mine
<1>12. CASE HandshakeTimeout
  BY <1>12 DEF HandshakeTimeout, Fails, GiveUp, ForgetKeys
<1>13. CASE SetUpCut
  BY <1>13 DEF SetUpCut, GiveUp, ForgetKeys
<1>14. CASE SetUpEnds
  BY <1>14 DEF SetUpEnds, Fails, GiveUp, ForgetKeys
<1>15. CASE SendSealed
  BY <1>15 DEF SendSealed, Advance, CounterLeft
<1>16. CASE DeviceReplies
  BY <1>16 DEF DeviceReplies
<1>17. ASSUME NEW n \in 1 .. MaxFrames, DeviceReports(n)
      PROVE  NumberTypes'
  BY <1>17 DEF DeviceReports
<1>18. ASSUME NEW f \in air, Receive(f)
      PROVE  NumberTypes'
  <2>1. f.kind = "data" => f.n \in 1 .. MaxFrames
    BY DEF FrameTypes, Handshake, Data
  <2>2. received' \in 0 .. MaxFrames
    BY <1>18, <2>1 DEF Receive
  <2> QED
    BY <1>18, <2>2 DEF Receive
<1>19. CASE Garbled
  BY <1>19 DEF Garbled
<1>20. CASE Drop
  BY <1>20 DEF Drop
<1>21. CASE Callback
  BY <1>21 DEF Callback, Reset, ForgetKeys
<1>22. CASE Disconnect
  BY <1>22 DEF Disconnect, Fails, GiveUp, ForgetKeys
<1>23. CASE UNCHANGED vars
  BY <1>23
<1> QED
  BY <1>1, <1>2, <1>3, <1>4, <1>5, <1>6, <1>7, <1>8, <1>9, <1>10, <1>11,
     <1>12, <1>13, <1>14, <1>15, <1>16, <1>17, <1>18, <1>19, <1>20, <1>21,
     <1>22, <1>23
  DEF Next, ReadMarker

\* Every step keeps the frames and their histories.
LEMMA FrameTypesStep ==
    ASSUME IInv, [Next]_vars
    PROVE  FrameTypes'
<1> USE BoundsAssumption DEF vars, adverts, world, choice, keys, history,
        TypeOK, IInv, FrameTypes
<1>1. CASE AdvertiseEncrypted
  BY <1>1 DEF AdvertiseEncrypted, Reset, ForgetKeys
<1>2. CASE AdvertisePlain
  BY <1>2 DEF AdvertisePlain
<1>3. CASE SelectByMarker
  BY <1>3, NothingTakenType DEF SelectByMarker, Connect
<1>4. CASE SelectWithoutMarker
  BY <1>4, NothingTakenType DEF SelectWithoutMarker, Connect
<1>5. CASE SelectWithoutMarkerFails
  BY <1>5, NothingTakenType DEF SelectWithoutMarkerFails
<1>6. CASE MarkerUnusable
  BY <1>6 DEF MarkerUnusable, Selected, SelectionFails, GiveUp, ForgetKeys,
     Mine
<1>7. ASSUME NEW m \in 0 .. 2, MarkerRead(m)
      PROVE  FrameTypes'
  BY <1>7 DEF MarkerRead, Selected, SelectionFails, GiveUp, ForgetKeys, Mine
<1>8. CASE Negotiate
  BY <1>8 DEF Negotiate, Fails, GiveUp, ForgetKeys, BeginExchange
<1>9. CASE MtuKnown
  BY <1>9 DEF MtuKnown, Fails, GiveUp, ForgetKeys, BeginExchange, Mine
<1>10. CASE RequestWritten
  BY <1>10 DEF RequestWritten
<1>11. CASE Answered
  BY <1>11 DEF Answered, Fails, GiveUp, ForgetKeys, BeginExchange, Accepted,
     Mine
<1>12. CASE HandshakeTimeout
  BY <1>12 DEF HandshakeTimeout, Fails, GiveUp, ForgetKeys
<1>13. CASE SetUpCut
  BY <1>13 DEF SetUpCut, GiveUp, ForgetKeys
<1>14. CASE SetUpEnds
  BY <1>14 DEF SetUpEnds, Fails, GiveUp, ForgetKeys
<1>15. CASE SendSealed
  <2>1. \A n \in Nonces : used[n] \in Nat /\ used[n] + 1 \in Nat
    OBVIOUS
  <2>2. used' = [used EXCEPT ![<<iv, counter>>] = used[<<iv, counter>>] + 1]
    BY <1>15 DEF SendSealed
  <2>3. used' \in [Nonces -> Nat]
    BY <2>1, <2>2
  <2> QED
    BY <1>15, <2>3 DEF SendSealed
<1>16. CASE DeviceReplies
  <2>1. Reply(opcode) \in Handshake
    BY <1>16 DEF DeviceReplies, Reply, Handshake
  <2> QED
    BY <1>16, <2>1 DEF DeviceReplies
<1>17. ASSUME NEW n \in 1 .. MaxFrames, DeviceReports(n)
      PROVE  FrameTypes'
  <2>1. [kind |-> "data", n |-> n] \in Data
    BY <1>17 DEF Data
  <2> QED
    BY <1>17, <2>1 DEF DeviceReports
<1>18. ASSUME NEW f \in air, Receive(f)
      PROVE  FrameTypes'
  <2>1. f.kind = "data" => f.n \in 1 .. MaxFrames
    BY <1>18 DEF Handshake, Data
  <2> QED
    BY <1>18, <2>1 DEF Receive
<1>19. CASE Garbled
  BY <1>19 DEF Garbled
<1>20. CASE Drop
  BY <1>20 DEF Drop
<1>21. CASE Callback
  BY <1>21 DEF Callback, Reset, ForgetKeys
<1>22. CASE Disconnect
  BY <1>22 DEF Disconnect, Fails, GiveUp, ForgetKeys
<1>23. CASE UNCHANGED vars
  BY <1>23
<1> QED
  BY <1>1, <1>2, <1>3, <1>4, <1>5, <1>6, <1>7, <1>8, <1>9, <1>10, <1>11,
     <1>12, <1>13, <1>14, <1>15, <1>16, <1>17, <1>18, <1>19, <1>20, <1>21,
     <1>22, <1>23
  DEF Next, ReadMarker

\* Every step keeps what the set-up has in hand.
LEMMA SetUpStep ==
    ASSUME IInv, [Next]_vars
    PROVE  (AtRest /\ Choosing /\ NoRequestYet /\ Exchanging /\ ReadyLate)'
<1> USE BoundsAssumption DEF vars, adverts, world, choice, keys, history,
        TypeOK, StageTypes, NumberTypes, IInv, FrameTypes, SetUpAwaits,
        Subscribed, Handshake, Data, Reply, Opcodes, KeyRequest,
        ConfirmRequest, V2Request, AtRest, Choosing, NoRequestYet, Exchanging,
        ReadyLate
<1>1. CASE AdvertiseEncrypted
  BY <1>1 DEF AdvertiseEncrypted, Reset, ForgetKeys
<1>2. CASE AdvertisePlain
  BY <1>2 DEF AdvertisePlain
<1>3. CASE SelectByMarker
  BY <1>3 DEF SelectByMarker, Connect, ForgetKeys, Demand
<1>4. CASE SelectWithoutMarker
  BY <1>4 DEF SelectWithoutMarker, Connect, ForgetKeys, Demand
<1>5. CASE SelectWithoutMarkerFails
  BY <1>5 DEF SelectWithoutMarkerFails, Demand
<1>6. CASE MarkerUnusable
  BY <1>6 DEF MarkerUnusable, Selected, SelectionFails, GiveUp, ForgetKeys,
     Mine
<1>7. ASSUME NEW m \in 0 .. 2, MarkerRead(m)
      PROVE  (AtRest /\ Choosing /\ NoRequestYet /\ Exchanging /\ ReadyLate)'
  BY <1>7 DEF MarkerRead, Selected, SelectionFails, GiveUp, ForgetKeys, Mine
<1>8. CASE Negotiate
  BY <1>8 DEF Negotiate, Fails, GiveUp, ForgetKeys, BeginExchange
<1>9. CASE MtuKnown
  BY <1>9 DEF MtuKnown, Fails, GiveUp, ForgetKeys, BeginExchange, Mine
<1>10. CASE RequestWritten
  BY <1>10 DEF RequestWritten
<1>11. CASE Answered
  BY <1>11 DEF Answered, Fails, GiveUp, ForgetKeys, BeginExchange, Accepted,
     Mine
<1>12. CASE HandshakeTimeout
  BY <1>12 DEF HandshakeTimeout, Fails, GiveUp, ForgetKeys
<1>13. CASE SetUpCut
  BY <1>13 DEF SetUpCut, GiveUp, ForgetKeys
<1>14. CASE SetUpEnds
  BY <1>14 DEF SetUpEnds, Fails, GiveUp, ForgetKeys
<1>15. CASE SendSealed
  BY <1>15 DEF SendSealed, Advance, CounterLeft
<1>16. CASE DeviceReplies
  BY <1>16 DEF DeviceReplies
<1>17. ASSUME NEW n \in 1 .. MaxFrames, DeviceReports(n)
      PROVE  (AtRest /\ Choosing /\ NoRequestYet /\ Exchanging /\ ReadyLate)'
  BY <1>17 DEF DeviceReports
<1>18. ASSUME NEW f \in air, Receive(f)
      PROVE  (AtRest /\ Choosing /\ NoRequestYet /\ Exchanging /\ ReadyLate)'
  BY <1>18 DEF Receive, Answers, Unreadable, Fresh
<1>19. CASE Garbled
  BY <1>19 DEF Garbled
<1>20. CASE Drop
  BY <1>20 DEF Drop
<1>21. CASE Callback
  BY <1>21 DEF Callback, Reset, ForgetKeys
<1>22. CASE Disconnect
  BY <1>22 DEF Disconnect, Fails, GiveUp, ForgetKeys
<1>23. CASE UNCHANGED vars
  BY <1>23
<1> QED
  BY <1>1, <1>2, <1>3, <1>4, <1>5, <1>6, <1>7, <1>8, <1>9, <1>10, <1>11,
     <1>12, <1>13, <1>14, <1>15, <1>16, <1>17, <1>18, <1>19, <1>20, <1>21,
     <1>22, <1>23
  DEF Next, ReadMarker

\* Every step keeps plaintext away from evidence.
LEMMA PlaintextStep ==
    ASSUME IInv, [Next]_vars
    PROVE  PlaintextNeedsNoEvidence'
<1> USE BoundsAssumption DEF vars, adverts, world, choice, keys, history,
        TypeOK, StageTypes, NumberTypes, IInv, SetUpAwaits, AtRest, Choosing,
        Exchanging, PlaintextNeedsNoEvidence
<1>1. CASE AdvertiseEncrypted
  BY <1>1 DEF AdvertiseEncrypted, Reset, ForgetKeys
<1>2. CASE AdvertisePlain
  BY <1>2 DEF AdvertisePlain
<1>3. CASE SelectByMarker
  BY <1>3 DEF SelectByMarker, Connect, ForgetKeys, Demand
<1>4. CASE SelectWithoutMarker
  BY <1>4 DEF SelectWithoutMarker, Connect, ForgetKeys, Demand
<1>5. CASE SelectWithoutMarkerFails
  BY <1>5 DEF SelectWithoutMarkerFails, Demand
<1>6. CASE MarkerUnusable
  BY <1>6 DEF MarkerUnusable, Selected, SelectionFails, GiveUp, ForgetKeys,
     Mine
<1>7. ASSUME NEW m \in 0 .. 2, MarkerRead(m)
      PROVE  PlaintextNeedsNoEvidence'
  BY <1>7 DEF MarkerRead, Selected, SelectionFails, GiveUp, ForgetKeys, Mine
<1>8. CASE Negotiate
  BY <1>8 DEF Negotiate, Fails, GiveUp, ForgetKeys, BeginExchange
<1>9. CASE MtuKnown
  BY <1>9 DEF MtuKnown, Fails, GiveUp, ForgetKeys, BeginExchange, Mine
<1>10. CASE RequestWritten
  BY <1>10 DEF RequestWritten
<1>11. CASE Answered
  BY <1>11 DEF Answered, Fails, GiveUp, ForgetKeys, BeginExchange, Accepted,
     Mine
<1>12. CASE HandshakeTimeout
  BY <1>12 DEF HandshakeTimeout, Fails, GiveUp, ForgetKeys
<1>13. CASE SetUpCut
  BY <1>13 DEF SetUpCut, GiveUp, ForgetKeys
<1>14. CASE SetUpEnds
  BY <1>14 DEF SetUpEnds, Fails, GiveUp, ForgetKeys
<1>15. CASE SendSealed
  BY <1>15 DEF SendSealed, Advance, CounterLeft
<1>16. CASE DeviceReplies
  BY <1>16 DEF DeviceReplies
<1>17. ASSUME NEW n \in 1 .. MaxFrames, DeviceReports(n)
      PROVE  PlaintextNeedsNoEvidence'
  BY <1>17 DEF DeviceReports
<1>18. ASSUME NEW f \in air, Receive(f)
      PROVE  PlaintextNeedsNoEvidence'
  BY <1>18 DEF Receive, Answers, Unreadable, Fresh
<1>19. CASE Garbled
  BY <1>19 DEF Garbled
<1>20. CASE Drop
  BY <1>20 DEF Drop
<1>21. CASE Callback
  BY <1>21 DEF Callback, Reset, ForgetKeys
<1>22. CASE Disconnect
  BY <1>22 DEF Disconnect, Fails, GiveUp, ForgetKeys
<1>23. CASE UNCHANGED vars
  BY <1>23
<1> QED
  BY <1>1, <1>2, <1>3, <1>4, <1>5, <1>6, <1>7, <1>8, <1>9, <1>10, <1>11,
     <1>12, <1>13, <1>14, <1>15, <1>16, <1>17, <1>18, <1>19, <1>20, <1>21,
     <1>22, <1>23
  DEF Next, ReadMarker

\* Every step keeps readiness to what the device confirmed.
LEMMA ConfirmedStep ==
    ASSUME IInv, [Next]_vars
    PROVE  ReadyIsConfirmed'
<1> USE BoundsAssumption DEF vars, adverts, world, choice, keys, history,
        TypeOK, StageTypes, NumberTypes, IInv, FrameTypes, SetUpAwaits,
        Opcodes, Reply, KeyRequest, ConfirmRequest, V2Request, AtRest,
        Choosing, Exchanging, ReadyLate, ReadyIsConfirmed
<1>1. CASE AdvertiseEncrypted
  BY <1>1 DEF AdvertiseEncrypted, Reset, ForgetKeys
<1>2. CASE AdvertisePlain
  BY <1>2 DEF AdvertisePlain
<1>3. CASE SelectByMarker
  BY <1>3 DEF SelectByMarker, Connect, ForgetKeys, Demand
<1>4. CASE SelectWithoutMarker
  BY <1>4 DEF SelectWithoutMarker, Connect, ForgetKeys, Demand
<1>5. CASE SelectWithoutMarkerFails
  BY <1>5 DEF SelectWithoutMarkerFails, Demand
<1>6. CASE MarkerUnusable
  BY <1>6 DEF MarkerUnusable, Selected, SelectionFails, GiveUp, ForgetKeys,
     Mine
<1>7. ASSUME NEW m \in 0 .. 2, MarkerRead(m)
      PROVE  ReadyIsConfirmed'
  BY <1>7 DEF MarkerRead, Selected, SelectionFails, GiveUp, ForgetKeys, Mine
<1>8. CASE Negotiate
  BY <1>8 DEF Negotiate, Fails, GiveUp, ForgetKeys, BeginExchange
<1>9. CASE MtuKnown
  BY <1>9 DEF MtuKnown, Fails, GiveUp, ForgetKeys, BeginExchange, Mine
<1>10. CASE RequestWritten
  BY <1>10 DEF RequestWritten
<1>11. CASE Answered
  <2>1. CASE Accepted /\ version = 1 /\ opcode = KeyRequest
    BY <1>11, <2>1 DEF Answered, BeginExchange, Accepted, Mine
  <2>2. CASE Accepted /\ version = 1 /\ opcode # KeyRequest
    <3>1. /\ opcode = ConfirmRequest
          /\ Reply(KeyRequest) \in air /\ Reply(ConfirmRequest) \in air
      BY <1>11, <2>2 DEF Answered, Accepted, Mine
    <3>2. UNCHANGED <<air, version, conn>> /\ keyed' /\ conn = "up"
      BY <1>11, <2>2 DEF Answered, Accepted, Mine
    <3> QED
      BY <2>2, <3>1, <3>2
  <2>3. CASE Accepted /\ version # 1
    <3>1. opcode = V2Request /\ Reply(opcode) \in air
      BY <1>11, <2>3 DEF Answered, Accepted, Mine
    <3>2. UNCHANGED <<air, version, conn>> /\ keyed' /\ conn = "up"
      BY <1>11, <2>3 DEF Answered, Accepted, Mine
    <3> QED
      BY <2>3, <3>1, <3>2
  <2>4. CASE ~Accepted
    BY <1>11, <2>4 DEF Answered, Fails, GiveUp
  <2> QED
    BY <2>1, <2>2, <2>3, <2>4
<1>12. CASE HandshakeTimeout
  BY <1>12 DEF HandshakeTimeout, Fails, GiveUp, ForgetKeys
<1>13. CASE SetUpCut
  BY <1>13 DEF SetUpCut, GiveUp, ForgetKeys
<1>14. CASE SetUpEnds
  BY <1>14 DEF SetUpEnds, Fails, GiveUp, ForgetKeys
<1>15. CASE SendSealed
  BY <1>15 DEF SendSealed, Advance, CounterLeft
<1>16. CASE DeviceReplies
  BY <1>16 DEF DeviceReplies
<1>17. ASSUME NEW n \in 1 .. MaxFrames, DeviceReports(n)
      PROVE  ReadyIsConfirmed'
  BY <1>17 DEF DeviceReports
<1>18. ASSUME NEW f \in air, Receive(f)
      PROVE  ReadyIsConfirmed'
  BY <1>18 DEF Receive, Answers, Unreadable, Fresh
<1>19. CASE Garbled
  BY <1>19 DEF Garbled
<1>20. CASE Drop
  BY <1>20 DEF Drop
<1>21. CASE Callback
  BY <1>21 DEF Callback, Reset, ForgetKeys
<1>22. CASE Disconnect
  BY <1>22 DEF Disconnect, Fails, GiveUp, ForgetKeys
<1>23. CASE UNCHANGED vars
  BY <1>23
<1> QED
  BY <1>1, <1>2, <1>3, <1>4, <1>5, <1>6, <1>7, <1>8, <1>9, <1>10, <1>11,
     <1>12, <1>13, <1>14, <1>15, <1>16, <1>17, <1>18, <1>19, <1>20, <1>21,
     <1>22, <1>23
  DEF Next, ReadMarker

\* Every step keeps the nonces that are still to come unspent.
LEMMA NonceStep ==
    ASSUME IInv, [Next]_vars
    PROVE  (Unspent /\ NonceIsFresh)'
<1> USE BoundsAssumption DEF vars, adverts, world, choice, keys, history,
        TypeOK, StageTypes, NumberTypes, IInv, FrameTypes, SetUpAwaits,
        Nonces, AtRest, Unspent, NonceIsFresh
<1>1. CASE AdvertiseEncrypted
  BY <1>1 DEF AdvertiseEncrypted, Reset, ForgetKeys
<1>2. CASE AdvertisePlain
  BY <1>2 DEF AdvertisePlain
<1>3. CASE SelectByMarker
  BY <1>3 DEF SelectByMarker, Connect, ForgetKeys, Demand
<1>4. CASE SelectWithoutMarker
  BY <1>4 DEF SelectWithoutMarker, Connect, ForgetKeys, Demand
<1>5. CASE SelectWithoutMarkerFails
  BY <1>5 DEF SelectWithoutMarkerFails, Demand
<1>6. CASE MarkerUnusable
  BY <1>6 DEF MarkerUnusable, Selected, SelectionFails, GiveUp, ForgetKeys,
     Mine
<1>7. ASSUME NEW m \in 0 .. 2, MarkerRead(m)
      PROVE  (Unspent /\ NonceIsFresh)'
  BY <1>7 DEF MarkerRead, Selected, SelectionFails, GiveUp, ForgetKeys, Mine
<1>8. CASE Negotiate
  BY <1>8 DEF Negotiate, Fails, GiveUp, ForgetKeys, BeginExchange
<1>9. CASE MtuKnown
  BY <1>9 DEF MtuKnown, Fails, GiveUp, ForgetKeys, BeginExchange, Mine
<1>10. CASE RequestWritten
  BY <1>10 DEF RequestWritten
<1>11. CASE Answered
  BY <1>11 DEF Answered, Fails, GiveUp, ForgetKeys, BeginExchange, Accepted,
     Mine
<1>12. CASE HandshakeTimeout
  BY <1>12 DEF HandshakeTimeout, Fails, GiveUp, ForgetKeys
<1>13. CASE SetUpCut
  BY <1>13 DEF SetUpCut, GiveUp, ForgetKeys
<1>14. CASE SetUpEnds
  <2>1. CASE conn = "up" /\ ready
    BY <1>14, <2>1 DEF SetUpEnds
  <2>2. CASE ~(conn = "up" /\ ready)
    BY <1>14, <2>2 DEF SetUpEnds, Fails, GiveUp, ForgetKeys
  <2> QED
    BY <2>1, <2>2
<1>15. CASE SendSealed
  <2>1. <<iv, counter>> \in Nonces /\ iv = link
    BY <1>15 DEF SendSealed, CounterLeft
  <2>2. used[<<iv, counter>>] = 0
    BY <2>1
  <2>3. \A n \in Nonces : used'[n] = IF n = <<iv, counter>> THEN 1 ELSE used[n]
    BY <1>15, <2>1, <2>2 DEF SendSealed
  <2>4. counter' = counter + 1 /\ UNCHANGED <<link, at, iv>>
    BY <1>15 DEF SendSealed, Advance
  <2>5. Unspent'
    BY <1>15, <2>1, <2>3, <2>4 DEF SendSealed
  <2>6. NonceIsFresh'
    BY <2>3
  <2> QED
    BY <2>5, <2>6
<1>16. CASE DeviceReplies
  BY <1>16 DEF DeviceReplies
<1>17. ASSUME NEW n \in 1 .. MaxFrames, DeviceReports(n)
      PROVE  (Unspent /\ NonceIsFresh)'
  BY <1>17 DEF DeviceReports
<1>18. ASSUME NEW f \in air, Receive(f)
      PROVE  (Unspent /\ NonceIsFresh)'
  BY <1>18 DEF Receive, Answers, Unreadable, Fresh
<1>19. CASE Garbled
  BY <1>19 DEF Garbled
<1>20. CASE Drop
  BY <1>20 DEF Drop
<1>21. CASE Callback
  BY <1>21 DEF Callback, Reset, ForgetKeys
<1>22. CASE Disconnect
  BY <1>22 DEF Disconnect, Fails, GiveUp, ForgetKeys
<1>23. CASE UNCHANGED vars
  BY <1>23
<1> QED
  BY <1>1, <1>2, <1>3, <1>4, <1>5, <1>6, <1>7, <1>8, <1>9, <1>10, <1>11,
     <1>12, <1>13, <1>14, <1>15, <1>16, <1>17, <1>18, <1>19, <1>20, <1>21,
     <1>22, <1>23
  DEF Next, ReadMarker

\* Every step keeps the frames that are still to come untaken.
LEMMA TakenStep ==
    ASSUME IInv, [Next]_vars
    PROVE  (Untaken /\ FrameIsTakenOnce)'
<1> USE BoundsAssumption DEF vars, adverts, world, choice, keys, history,
        TypeOK, StageTypes, NumberTypes, IInv, FrameTypes, SetUpAwaits,
        NothingTaken, Handshake, Data, AtRest, Choosing, Exchanging, Untaken,
        FrameIsTakenOnce
<1>1. CASE AdvertiseEncrypted
  BY <1>1 DEF AdvertiseEncrypted, Reset, ForgetKeys
<1>2. CASE AdvertisePlain
  BY <1>2 DEF AdvertisePlain
<1>3. CASE SelectByMarker
  BY <1>3 DEF SelectByMarker, Connect, ForgetKeys, Demand
<1>4. CASE SelectWithoutMarker
  BY <1>4 DEF SelectWithoutMarker, Connect, ForgetKeys, Demand
<1>5. CASE SelectWithoutMarkerFails
  BY <1>5 DEF SelectWithoutMarkerFails, Demand
<1>6. CASE MarkerUnusable
  BY <1>6 DEF MarkerUnusable, Selected, SelectionFails, GiveUp, ForgetKeys,
     Mine
<1>7. ASSUME NEW m \in 0 .. 2, MarkerRead(m)
      PROVE  (Untaken /\ FrameIsTakenOnce)'
  BY <1>7 DEF MarkerRead, Selected, SelectionFails, GiveUp, ForgetKeys, Mine
<1>8. CASE Negotiate
  BY <1>8 DEF Negotiate, Fails, GiveUp, ForgetKeys, BeginExchange
<1>9. CASE MtuKnown
  BY <1>9 DEF MtuKnown, Fails, GiveUp, ForgetKeys, BeginExchange, Mine
<1>10. CASE RequestWritten
  BY <1>10 DEF RequestWritten
<1>11. CASE Answered
  BY <1>11 DEF Answered, Fails, GiveUp, ForgetKeys, BeginExchange, Accepted,
     Mine
<1>12. CASE HandshakeTimeout
  BY <1>12 DEF HandshakeTimeout, Fails, GiveUp, ForgetKeys
<1>13. CASE SetUpCut
  BY <1>13 DEF SetUpCut, GiveUp, ForgetKeys
<1>14. CASE SetUpEnds
  BY <1>14 DEF SetUpEnds, Fails, GiveUp, ForgetKeys
<1>15. CASE SendSealed
  BY <1>15 DEF SendSealed, Advance, CounterLeft
<1>16. CASE DeviceReplies
  BY <1>16 DEF DeviceReplies
<1>17. ASSUME NEW n \in 1 .. MaxFrames, DeviceReports(n)
      PROVE  (Untaken /\ FrameIsTakenOnce)'
  BY <1>17 DEF DeviceReports
<1>18. ASSUME NEW f \in air, Receive(f)
      PROVE  (Untaken /\ FrameIsTakenOnce)'
  <2>1. CASE ~ready
    BY <1>18, <2>1 DEF Receive
  <2>2. CASE ready
    <3>1. f.n \in 1 .. MaxFrames /\ f.n > received /\ received' = f.n
      BY <1>18, <2>2 DEF Receive, Fresh
    <3>2. taken' = [taken EXCEPT ![f.n] = 1]
      BY <1>18, <2>2, <3>1 DEF Receive
    <3>3. UNCHANGED <<at, ready>> /\ at \in {"settle", "open"}
      BY <1>18, <2>2 DEF Receive, ReadyLate, Subscribed
    <3>4. \A n \in 1 .. MaxFrames : taken'[n] = IF n = f.n THEN 1 ELSE taken[n]
      BY <3>2
    <3> QED
      BY <3>1, <3>3, <3>4
  <2> QED
    BY <2>1, <2>2
<1>19. CASE Garbled
  BY <1>19 DEF Garbled
<1>20. CASE Drop
  BY <1>20 DEF Drop
<1>21. CASE Callback
  BY <1>21 DEF Callback, Reset, ForgetKeys
<1>22. CASE Disconnect
  BY <1>22 DEF Disconnect, Fails, GiveUp, ForgetKeys
<1>23. CASE UNCHANGED vars
  BY <1>23
<1> QED
  BY <1>1, <1>2, <1>3, <1>4, <1>5, <1>6, <1>7, <1>8, <1>9, <1>10, <1>11,
     <1>12, <1>13, <1>14, <1>15, <1>16, <1>17, <1>18, <1>19, <1>20, <1>21,
     <1>22, <1>23
  DEF Next, ReadMarker

\* The invariant is inductive.
LEMMA StepIInv == IInv /\ [Next]_vars => IInv'
BY StageTypesStep, NumberTypesStep, FrameTypesStep, SetUpStep, PlaintextStep,
   ConfirmedStep, NonceStep, TakenStep
   DEF IInv, TypeOK

THEOREM Invariance == Spec => []IInv
BY InitIInv, StepIInv, PTL DEF Spec

\* Type correctness of the session, for every bound.
THEOREM TypeCorrect == Spec => []TypeOK
BY Invariance, PTL DEF IInv

\* A session never falls back to plaintext once anything spoke for
\* encryption, whenever the evidence comes (async_select, _note_advertisement).
THEOREM NoPlaintextFallback == Spec => []PlaintextNeedsNoEvidence
BY Invariance, PTL DEF IInv

\* A session with keys is one the device answered in full on this link
\* (_exchange, decode).
THEOREM KeysAreConfirmed == Spec => []ReadyIsConfirmed
BY Invariance, PTL DEF IInv

\* No nonce seals two frames, whatever resets and reconnects come between
\* them (encode, reset).
THEOREM NoncesAreFresh == Spec => []NonceIsFresh
BY Invariance, PTL DEF IInv

\* No data frame is accepted twice on a link (decode).
THEOREM FramesAreTakenOnce == Spec => []FrameIsTakenOnce
BY Invariance, PTL DEF IInv

=============================================================================
