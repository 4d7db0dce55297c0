------------------------ MODULE CanReassemblyProofs ------------------------
(***************************************************************************)
(* Proofs about CanReassembly, for any set of channels and any number of   *)
(* messages.  The invariant counts: while a message is being reassembled,  *)
(* the frames in the buffer and the frames lost since its first one are    *)
(* together all the frames sent since then.                                *)
(***************************************************************************)
EXTENDS CanReassembly, TLAPS

\* Frames sent since the first frame in the buffer.
Sent == Frames * (message - head) + part

Counts ==
    /\ inFrame => len + Chunk * lost = Chunk * Sent
    /\ whole /\ part > 0 => inFrame /\ head = message /\ lost = 0

IInv == LinkTypeOK /\ Counts /\ SplicesNeedLongLoss /\ WholeMessagesArrive

-----------------------------------------------------------------------------
\* What the number of frames and the length of the last one are (send_multiframe).
LEMMA FrameCount ==
    ASSUME ChannelsAreSane, channel \in Channels
    PROVE  /\ Frames \in Nat /\ Frames >= 2
           /\ LastChunk \in 1 .. Chunk
           /\ channel.payload = Chunk * (Frames - 1) + LastChunk
           /\ channel.payload \in Nat /\ channel.room \in Nat
           /\ channel.room >= channel.payload
  <1>1. channel.payload \in Nat /\ channel.room \in Nat /\ channel.payload > Chunk
        /\ channel.room >= channel.payload
    BY DEF ChannelsAreSane
  <1> DEFINE q == (channel.payload - 1) \div Chunk
  <1>2. q \in Int /\ Chunk * q <= channel.payload - 1 /\ channel.payload - 1 < Chunk * q + Chunk
    BY <1>1 DEF Chunk
  <1>3. Frames = q + 1 /\ LastChunk = channel.payload - Chunk * (Frames - 1)
    BY DEF Frames, LastChunk
  <1> HIDE DEF q
  <1> QED BY <1>1, <1>2, <1>3 DEF Chunk

\* A product with a positive factor is not smaller than the other factor.
LEMMA Multiples == ASSUME NEW f \in Nat, NEW d \in Nat, d >= 1 PROVE f * d >= f
  <1>1. PICK e \in Nat : d = e + 1
    BY SMT
  <1>2. f * e \in Nat
    BY SMT
  <1>3. f * d = f * e + f
    BY <1>1, SMT
  <1> QED BY <1>2, <1>3

LEMMA InitHolds == ASSUME ChannelsAreSane, LinkInit PROVE IInv
  <1>1. channel \in Channels
    BY DEF LinkInit
  <1>2. Frames \in Nat /\ Frames >= 2 /\ channel.room \in Nat /\ MaxMessage \in Nat
    BY <1>1, FrameCount DEF ChannelsAreSane
  <1>3. LinkTypeOK
    <2>1. delivered \in Payloads
      BY DEF LinkInit, NoDelivery, Payloads, ChannelsAreSane
    <2>2. message \in 0 .. MaxMessage /\ part \in 0 .. Frames - 1 /\ len \in 0 .. channel.room
          /\ head \in 0 .. message /\ lost \in Nat
      BY <1>2 DEF LinkInit
    <2>3. inFrame \in BOOLEAN /\ whole \in BOOLEAN
      BY DEF LinkInit
    <2> QED BY <1>1, <2>1, <2>2, <2>3 DEF LinkTypeOK
  <1>4. Counts /\ SplicesNeedLongLoss /\ WholeMessagesArrive
    BY DEF LinkInit, Counts, SplicesNeedLongLoss, WholeMessagesArrive, NoDelivery
  <1> QED BY <1>3, <1>4 DEF IInv

\* What NextFrame does to the numbers: the frames sent since the head grow by one.
LEMMA OneMore ==
    ASSUME ChannelsAreSane, LinkTypeOK, NextFrame
    PROVE  /\ channel' = channel /\ Frames' = Frames
           /\ message' \in 0 .. MaxMessage /\ part' \in 0 .. Frames - 1
           /\ message' >= message
           /\ part' > 0 => message' = message /\ part' = part + 1 /\ ~IsLast
           /\ part' = 0 => message' = message + 1 /\ IsLast
           /\ Frames * (message' - head) + part' = Sent + 1
  <1>1. channel \in Channels /\ channel' = channel
    BY DEF LinkTypeOK, NextFrame
  <1>2. Frames \in Nat /\ Frames >= 2 /\ MaxMessage \in Nat
    BY <1>1, FrameCount DEF ChannelsAreSane
  <1>3. Frames' = Frames
    BY <1>1 DEF Frames
  <1>4. CASE IsLast
    <2>1. message' = message + 1 /\ part' = 0 /\ part = Frames - 1
      BY <1>4 DEF NextFrame, IsLast
    <2>2. Frames * (message' - head) = Frames * (message - head) + Frames
      BY <1>2, <2>1, SMT DEF LinkTypeOK
    <2>3. Frames * (message - head) \in Int
      BY <1>2, SMT DEF LinkTypeOK
    <2>4. Frames * (message' - head) + part' = Sent + 1
      BY <1>2, <2>1, <2>2, <2>3 DEF Sent
    <2> QED BY <1>1, <1>2, <1>3, <1>4, <2>1, <2>4 DEF LinkTypeOK, NextFrame
  <1>5. CASE ~IsLast
    <2>1. message' = message /\ part' = part + 1 /\ part < Frames - 1
      BY <1>2, <1>5 DEF NextFrame, IsLast, LinkTypeOK
    <2>2. Frames * (message - head) \in Int
      BY <1>2, SMT DEF LinkTypeOK
    <2>3. Frames * (message' - head) + part' = Sent + 1
      BY <1>2, <2>1, <2>2 DEF Sent, LinkTypeOK
    <2> QED BY <1>1, <1>2, <1>3, <1>5, <2>1, <2>3 DEF LinkTypeOK, NextFrame
  <1> QED BY <1>4, <1>5

LEMMA LostStep == ASSUME ChannelsAreSane, IInv, FrameLost PROVE IInv'
  <1> USE DEF IInv
  <1>1. NextFrame /\ lost' = lost + 1 /\ whole' = FALSE
        /\ inFrame' = inFrame /\ head' = head /\ len' = len /\ delivered' = delivered
    BY DEF FrameLost
  <1>2. channel' = channel /\ Frames' = Frames /\ message' >= message
        /\ message' \in 0 .. MaxMessage /\ part' \in 0 .. Frames - 1
        /\ Frames * (message' - head) + part' = Sent + 1
    BY <1>1, OneMore
  <1>3. Sent \in Int
    <2>1. Frames \in Nat
      BY FrameCount DEF LinkTypeOK
    <2> QED BY <2>1, SMT DEF Sent, LinkTypeOK
  <1>4. LinkTypeOK'
    <2>1. channel' \in Channels /\ delivered' \in Payloads
          /\ inFrame' \in BOOLEAN /\ whole' \in BOOLEAN /\ part' \in (0 .. Frames - 1)'
          /\ len' \in (0 .. channel.room)'
      BY <1>1, <1>2 DEF LinkTypeOK
    <2>2. head' \in (0 .. message)' /\ lost' \in Nat
      BY <1>1, <1>2 DEF LinkTypeOK
    <2> QED BY <1>2, <2>1, <2>2 DEF LinkTypeOK
  <1>5. Counts'
    <2>1. Sent' = Sent + 1
      BY <1>1, <1>2 DEF Sent
    <2>2. (inFrame => len + Chunk * lost = Chunk * Sent)'
      BY <1>1, <1>3, <2>1, SMT DEF Counts, Chunk, LinkTypeOK
    <2> QED BY <1>1, <2>2 DEF Counts
  <1>6. SplicesNeedLongLoss'
    BY <1>1, <1>2 DEF SplicesNeedLongLoss
  <1>7. WholeMessagesArrive'
    BY <1>1 DEF WholeMessagesArrive
  <1> QED BY <1>4, <1>5, <1>6, <1>7

\* A frame that neither starts a message nor is expected changes nothing.
LEMMA IgnoredStep ==
    ASSUME ChannelsAreSane, IInv, FrameArrives, ~inFrame, ~Starts PROVE IInv'
  <1> USE DEF IInv
  <1>1. NextFrame /\ whole' = whole /\ part > 0
        /\ inFrame' = inFrame /\ head' = head /\ len' = len /\ lost' = lost
        /\ delivered' = delivered
    BY DEF FrameArrives, Starts, LinkTypeOK
  <1>2. channel' = channel /\ Frames' = Frames /\ message' >= message
        /\ message' \in 0 .. MaxMessage /\ part' \in 0 .. Frames - 1
    BY <1>1, OneMore
  <1>3. ~whole
    BY <1>1 DEF Counts
  <1> QED BY <1>1, <1>2, <1>3 DEF LinkTypeOK, Counts, SplicesNeedLongLoss, WholeMessagesArrive

\* A frame that starts a message or continues the one in the buffer.
LEMMA TakenStep ==
    ASSUME ChannelsAreSane, IInv, FrameArrives, inFrame \/ Starts PROVE IInv'
  <1> USE DEF IInv
  <1> DEFINE first == IF Starts THEN message ELSE head
             have  == IF Starts THEN 0 ELSE len
             gaps  == IF Starts THEN 0 ELSE lost
             fits  == Fits(have + FrameLen)
             hands == fits /\ IsLast /\ LengthOk(have + FrameLen)
  <1>1. NextFrame /\ whole' = (whole \/ part = 0)
        /\ head' = first /\ lost' = gaps /\ inFrame' = (fits /\ ~IsLast)
        /\ len' = (IF fits THEN have + FrameLen ELSE have)
        /\ delivered' = IF hands THEN [head |-> first, tail |-> message, lost |-> gaps]
                        ELSE delivered
    BY DEF FrameArrives
  <1>2. /\ Frames \in Nat /\ Frames >= 2
        /\ LastChunk \in 1 .. Chunk
        /\ channel.payload = Chunk * (Frames - 1) + LastChunk
        /\ channel.payload \in Nat /\ channel.room \in Nat
        /\ channel.room >= channel.payload
    BY FrameCount DEF LinkTypeOK
  <1>3. channel' = channel /\ Frames' = Frames /\ message' >= message
        /\ message' \in 0 .. MaxMessage /\ part' \in 0 .. Frames - 1
        /\ (part' > 0 => message' = message /\ part' = part + 1 /\ ~IsLast)
        /\ (part' = 0 => message' = message + 1 /\ IsLast)
    BY <1>1, OneMore
  <1>4. /\ first \in 0 .. message /\ have \in 0 .. channel.room /\ gaps \in Nat
        /\ FrameLen \in 1 .. Chunk
        /\ IsLast => FrameLen = LastChunk
        /\ ~IsLast => FrameLen = Chunk
    BY <1>2 DEF LinkTypeOK, FrameLen, Chunk
  <1> DEFINE dist == Frames * (message - first)
  <1>5. dist \in Nat /\ (first < message => dist >= Frames) /\ (first = message => dist = 0)
    <2>1. message - first \in Nat
      BY <1>4 DEF LinkTypeOK
    <2>2. dist \in Nat
      BY <1>2, <2>1, SMT
    <2>3. first < message => dist >= Frames
      BY <1>2, <1>4, <2>1, Multiples DEF LinkTypeOK
    <2>4. first = message => dist = 0
      BY <1>2, <2>1, SMT DEF LinkTypeOK
    <2> QED BY <2>2, <2>3, <2>4
  <1>6. have + Chunk * gaps = Chunk * (dist + part)
    <2>1. CASE Starts
      BY <1>5, <2>1, SMT DEF Starts, Chunk, LinkTypeOK
    <2>2. CASE ~Starts
      <3>1. inFrame /\ dist + part = Sent
        BY <2>2 DEF Sent
      <3> QED BY <2>2, <3>1 DEF Counts
    <2> QED BY <2>1, <2>2
  <1>7. whole \/ part = 0 => first = message /\ gaps = 0
    BY DEF Counts, Starts, LinkTypeOK
  <1>8. LinkTypeOK'
    <2>1. [head |-> first, tail |-> message, lost |-> gaps] \in Payloads
      BY <1>4 DEF LinkTypeOK, Payloads, ChannelsAreSane
    <2>2. delivered' \in Payloads
      BY <1>1, <2>1 DEF LinkTypeOK
    <2>3. len' \in 0 .. channel.room /\ head' \in 0 .. message' /\ lost' \in Nat
          /\ inFrame' \in BOOLEAN /\ whole' \in BOOLEAN
      BY <1>1, <1>2, <1>3, <1>4 DEF LinkTypeOK, Chunk, Fits
    <2> QED BY <1>3, <2>2, <2>3 DEF LinkTypeOK
  <1>9. Counts'
    <2>1. ASSUME inFrame' PROVE (len + Chunk * lost = Chunk * Sent)'
      <3>1. fits /\ ~IsLast /\ len' = have + Chunk /\ lost' = gaps /\ head' = first
            /\ message' = message /\ part' = part + 1
        <4>1. fits /\ ~IsLast
          BY <1>1, <2>1
        <4>2. part' # 0
          BY <1>3, <4>1
        <4>3. part' > 0
          BY <1>2, <1>3, <4>2
        <4> QED BY <1>1, <1>3, <1>4, <4>1, <4>3
      <3>2. Sent' = dist + part + 1
        BY <1>3, <1>5, <3>1 DEF Sent, LinkTypeOK
      <3> QED BY <1>4, <1>5, <1>6, <3>1, <3>2 DEF Chunk, LinkTypeOK
    <2>2. ASSUME whole', part' > 0 PROVE inFrame' /\ head' = message' /\ lost' = 0
      <3>1. message' = message /\ part' = part + 1 /\ ~IsLast /\ first = message /\ gaps = 0
        BY <1>1, <1>3, <1>7, <2>2
      <3>2. have = Chunk * part /\ part < Frames - 1
        BY <1>2, <1>4, <1>5, <1>6, <3>1 DEF Chunk, LinkTypeOK, IsLast
      <3>3. fits
        BY <1>2, <1>4, <3>1, <3>2 DEF Chunk, LinkTypeOK, Fits
      <3> QED BY <1>1, <3>1, <3>3
    <2> QED BY <2>1, <2>2 DEF Counts
  <1>10. ASSUME hands PROVE gaps = dist
    <2>1. part = Frames - 1 /\ have + LastChunk = channel.payload
      BY <1>4, <1>10 DEF IsLast, LengthOk
    <2>2. have = Chunk * (Frames - 1)
      BY <1>2, <1>4, <2>1 DEF Chunk, LinkTypeOK
    <2>3. ASSUME NEW h \in Int, NEW g \in Int, NEW d \in Int, NEW f \in Int,
                 h + 7 * g = 7 * (d + (f - 1)), h = 7 * (f - 1)
          PROVE  g = d
      BY <2>3
    <2>4. have \in Int /\ gaps \in Int /\ dist \in Int /\ Frames \in Int
      BY <1>2, <1>4, <1>5
    <2> HIDE DEF have, gaps, dist
    <2> QED BY <1>6, <2>1, <2>2, <2>3, <2>4 DEF Chunk
  <1>11. SplicesNeedLongLoss'
    <2>1. CASE hands
      <3>1. delivered'.head = first /\ delivered'.tail = message /\ delivered'.lost = gaps
        BY <1>1, <2>1
      <3>2. first = message \/ gaps >= Frames
        BY <1>4, <1>5, <1>10, <2>1 DEF LinkTypeOK
      <3> QED BY <1>3, <3>1, <3>2 DEF SplicesNeedLongLoss
    <2>2. CASE ~hands
      BY <1>1, <1>3, <2>2 DEF SplicesNeedLongLoss
    <2> QED BY <2>1, <2>2
  <1>12. WholeMessagesArrive'
    <2> SUFFICES ASSUME part' = 0, whole'
                 PROVE  delivered' = [head |-> message' - 1, tail |-> message' - 1, lost |-> 0]
      BY DEF WholeMessagesArrive
    <2>1. message' = message + 1 /\ IsLast /\ first = message /\ gaps = 0
      BY <1>1, <1>3, <1>7
    <2>2. have = Chunk * (Frames - 1) /\ FrameLen = LastChunk
      BY <1>2, <1>4, <1>5, <1>6, <2>1 DEF Chunk, IsLast, LinkTypeOK
    <2>3. hands
      BY <1>2, <2>1, <2>2 DEF LengthOk, Chunk, Fits
    <2>4. message' - 1 = message
      BY <2>1 DEF LinkTypeOK
    <2> QED BY <1>1, <2>1, <2>3, <2>4
  <1> QED BY <1>8, <1>9, <1>11, <1>12

LEMMA RenegotiateStep == ASSUME ChannelsAreSane, IInv, Renegotiate PROVE IInv'
  <1> USE DEF IInv
  <1>1. channel.room \in Nat
    BY FrameCount DEF LinkTypeOK
  <1>2. Frames' = Frames
    BY DEF Renegotiate, Frames
  <1>3. LinkTypeOK'
    <2>1. len' \in (0 .. channel.room)'
      BY <1>1 DEF Renegotiate
    <2>2. inFrame' \in BOOLEAN /\ whole' \in BOOLEAN
      BY DEF Renegotiate, LinkTypeOK
    <2> QED BY <1>2, <2>1, <2>2 DEF Renegotiate, LinkTypeOK
  <1>4. Counts'
    <2>1. ~inFrame' /\ part' = part /\ (whole' => part = 0)
      BY DEF Renegotiate
    <2>2. ~(whole' /\ part' > 0)
      BY <2>1
    <2> QED BY <2>1, <2>2 DEF Counts
  <1>5. SplicesNeedLongLoss' /\ WholeMessagesArrive'
    BY <1>2 DEF Renegotiate, SplicesNeedLongLoss, WholeMessagesArrive
  <1> QED BY <1>3, <1>4, <1>5

LEMMA StutterStep == ASSUME ChannelsAreSane, IInv, UNCHANGED linkVars PROVE IInv'
  <1>1. Frames' = Frames
    BY DEF linkVars, Frames
  <1> QED BY <1>1 DEF linkVars, IInv, LinkTypeOK, Counts, Sent, SplicesNeedLongLoss, WholeMessagesArrive

LEMMA Inductive == ASSUME ChannelsAreSane PROVE LinkSpec => []IInv
  <1>1. LinkInit => IInv
    BY InitHolds
  <1>2. IInv /\ [LinkNext]_linkVars => IInv'
    BY LostStep, IgnoredStep, TakenStep, RenegotiateStep, StutterStep DEF LinkNext
  <1> QED BY <1>1, <1>2, PTL DEF LinkSpec

\* The reassembly state is always well formed: the buffer of the receiver is never written
\* beyond its end (the overflow tests of can_master_task and can_slave_task).
THEOREM BufferHolds == ASSUME ChannelsAreSane PROVE LinkSpec => [](LinkTypeOK /\ NeverOverruns)
  <1>1. ASSUME IInv PROVE LinkTypeOK /\ NeverOverruns
    <2>1. LinkTypeOK /\ channel.room \in Nat
      BY <1>1, FrameCount DEF IInv, LinkTypeOK
    <2> QED BY <2>1 DEF LinkTypeOK, NeverOverruns
  <1> QED BY <1>1, Inductive, PTL

\* On every channel, a payload handed on is one message unless at least as many frames were
\* lost inside it as a message has.
THEOREM NoShortSplice == ASSUME ChannelsAreSane PROVE LinkSpec => []SplicesNeedLongLoss
  <1>1. IInv => SplicesNeedLongLoss
    BY DEF IInv
  <1> QED BY <1>1, Inductive, PTL

\* On every channel, a message of which every frame arrives is handed on.
THEOREM WholeMessagesAlwaysArrive == ASSUME ChannelsAreSane PROVE LinkSpec => []WholeMessagesArrive
  <1>1. IInv => WholeMessagesArrive
    BY DEF IInv
  <1> QED BY <1>1, Inductive, PTL

-----------------------------------------------------------------------------
\* What was handed on ended before the message that is being sent, and before the one the
\* buffer begins with.
Ordered == delivered.tail < message /\ (inFrame => delivered.tail < head)

LEMMA OrderKept ==
    ASSUME ChannelsAreSane, IInv, Ordered, [LinkNext]_linkVars
    PROVE  Ordered' /\ (delivered' # delivered => delivered.tail < delivered'.head)
  <1> USE DEF IInv
  <1>1. /\ message \in Nat /\ head \in Nat /\ delivered.tail \in Int
        /\ message \in 0 .. MaxMessage /\ MaxMessage \in Nat
    BY DEF LinkTypeOK, Payloads, ChannelsAreSane
  <1>2. ASSUME NextFrame PROVE message' \in Nat /\ message' >= message /\ (IsLast => message' = message + 1)
    BY <1>1, <1>2 DEF NextFrame
  <1>3. CASE FrameLost
    BY <1>1, <1>2, <1>3 DEF FrameLost, Ordered
  <1>4. CASE FrameArrives /\ ~inFrame /\ ~Starts
    BY <1>1, <1>2, <1>4 DEF FrameArrives, Ordered
  <1>5. CASE FrameArrives /\ (inFrame \/ Starts)
    <2> DEFINE first == IF Starts THEN message ELSE head
    <2>1. delivered.tail < first /\ first \in Nat
      BY <1>1, <1>5 DEF Ordered
    <2> DEFINE have == IF Starts THEN 0 ELSE len
               gaps == IF Starts THEN 0 ELSE lost
               fits == Fits(have + FrameLen)
    <2>2. /\ NextFrame /\ head' = first /\ inFrame' = (fits /\ ~IsLast)
          /\ delivered' = IF fits /\ IsLast /\ LengthOk(have + FrameLen)
                          THEN [head |-> first, tail |-> message, lost |-> gaps]
                          ELSE delivered
      BY <1>5 DEF FrameArrives
    <2> HIDE DEF have, gaps, fits
    <2>3. /\ IsLast => ~inFrame'
          /\ \/ delivered' = delivered
             \/ IsLast /\ delivered'.head = first /\ delivered'.tail = message
      BY <2>2
    <2> HIDE DEF first
    <2> QED BY <1>1, <1>2, <2>1, <2>2, <2>3 DEF Ordered
  <1>6. CASE Renegotiate
    BY <1>6 DEF Renegotiate, Ordered
  <1>7. CASE UNCHANGED linkVars
    BY <1>7 DEF linkVars, Ordered
  <1> QED BY <1>3, <1>4, <1>5, <1>6, <1>7 DEF LinkNext

\* On every channel, messages are handed on in the order they were sent and none twice, however
\* frames are lost and messages spliced: sequence number 0 starts over and the last frame ends.
THEOREM MessagesAlwaysInOrder == ASSUME ChannelsAreSane PROVE LinkSpec => MessagesInOrder
  <1>1. LinkInit => Ordered
    BY DEF LinkInit, NoDelivery, Ordered
  <1>2. Ordered /\ IInv /\ [LinkNext]_linkVars
            => Ordered' /\ [delivered' # delivered => delivered.tail < delivered'.head]_linkVars
    BY OrderKept
  <1> QED BY <1>1, <1>2, Inductive, PTL DEF LinkSpec, MessagesInOrder
=============================================================================
