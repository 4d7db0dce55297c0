---------------------------- MODULE CanReassembly ----------------------------
(***************************************************************************)
(* One CAN identifier: send_multiframe cuts every message into frames of 7 *)
(* bytes numbered 0, 1, ... with 0xFF on the last, and the receiver        *)
(* (can_master_task for nonces, telemetry and configurations,              *)
(* can_slave_task for jobs) puts them together again.                      *)
(*                                                                         *)
(* Any frame can be lost: twai_transmit fails and the sender goes on with  *)
(* the next frame, the bus is recovering, the receive queue is full.  The  *)
(* receiver looks at two sequence numbers only, 0 and 0xFF.  Messages are  *)
(* numbered in the order they are sent; of the reassembly buffer the model *)
(* keeps what the properties tell apart: the message its first frame came  *)
(* from, how many bytes it holds, how many frames were lost meanwhile.     *)
(***************************************************************************)
EXTENDS Integers

CONSTANTS
    Channels,     \* [payload, room]: bytes of a message, bytes the buffer takes
    MaxMessage    \* bound on the number of messages

Chunk == 7

\* A message needs more than one frame and fits the buffer.
ChannelsAreSane ==
    /\ Channels \subseteq [payload : Nat, room : Nat]
    /\ \A c \in Channels : c.payload > Chunk /\ c.room >= c.payload
    /\ MaxMessage \in Nat

VARIABLES
    channel,      \* the channel under consideration
    message,      \* the message that is being sent
    part,         \* its next frame
    inFrame,      \* in_frame
    head,         \* the message the first frame of the buffer belongs to
    len,          \* len, bytes in the buffer
    lost,         \* history: frames lost since reassembly started
    whole,        \* history: every frame of the message so far has arrived
    delivered     \* history: the last payload handed on: first and last frame's message, losses

linkVars == <<channel, message, part, inFrame, head, len, lost, whole, delivered>>

\* frames of a message, and bytes in the last one
Frames == ((channel.payload - 1) \div Chunk) + 1
LastChunk == channel.payload - Chunk * (Frames - 1)

IsLast == part = Frames - 1
FrameLen == IF IsLast THEN LastChunk ELSE Chunk

Payloads == [head : -1 .. MaxMessage, tail : -1 .. MaxMessage, lost : Nat]
NoDelivery == [head |-> -1, tail |-> -1, lost |-> 0]

LinkTypeOK ==
    /\ channel \in Channels
    /\ message \in 0 .. MaxMessage
    /\ part \in 0 .. Frames - 1
    /\ inFrame \in BOOLEAN
    /\ head \in 0 .. message
    /\ len \in 0 .. channel.room
    /\ lost \in Nat
    /\ whole \in BOOLEAN
    /\ delivered \in Payloads

LinkInit ==
    /\ channel \in Channels
    /\ message = 0
    /\ part = 0
    /\ inFrame = FALSE
    /\ head = 0
    /\ len = 0
    /\ lost = 0
    /\ whole = FALSE
    /\ delivered = NoDelivery

\* The sender moves on to its next frame, whatever became of this one.
NextFrame ==
    /\ message < MaxMessage
    /\ part' = IF IsLast THEN 0 ELSE part + 1
    /\ message' = IF IsLast THEN message + 1 ELSE message
    /\ UNCHANGED channel

FrameLost ==
    /\ NextFrame
    /\ lost' = lost + 1
    /\ whole' = FALSE
    /\ UNCHANGED <<inFrame, head, len, delivered>>

\* Mutant: a first frame is not a new start while a message is being reassembled.
NoRestart == part = 0 /\ ~inFrame

\* Sequence number 0 starts over, whatever the buffer holds.
Starts == part = 0

\* Mutant: the room in the buffer is not checked.
NoBound(n) == n > 0

\* The overflow test.
Fits(n) == n <= channel.room

\* Mutant: the length is not checked.
AnyLength(n) == n > 0

\* handle_nonce and can_slave_task want the exact length; handle_telemetry and handle_config
\* want at least the length, which is also all that fits.
LengthOk(n) == n = channel.payload

(***************************************************************************)
(* A frame arrives.  One that is neither a start nor expected is dropped;  *)
(* one that does not fit ends the reassembly; the last one hands the       *)
(* buffer on if its length is right.                                       *)
(***************************************************************************)
FrameArrives ==
    /\ NextFrame
    /\ whole' = (whole \/ part = 0)
    /\ LET first == IF Starts THEN message ELSE head
           have == IF Starts THEN 0 ELSE len
           gaps == IF Starts THEN 0 ELSE lost
           fits == Fits(have + FrameLen)
       IN  IF ~inFrame /\ ~Starts
           THEN UNCHANGED <<inFrame, head, len, lost, delivered>>
           ELSE /\ head' = first
                /\ lost' = gaps
                /\ inFrame' = (fits /\ ~IsLast)
                /\ len' = IF fits THEN have + FrameLen ELSE have
                /\ delivered' = IF fits /\ IsLast /\ LengthOk(have + FrameLen)
                                THEN [head |-> first, tail |-> message, lost |-> gaps]
                                ELSE delivered

\* A slave forgets the buffer when it negotiates anew.
Renegotiate ==
    /\ inFrame' = FALSE
    /\ len' = 0
    /\ whole' = (whole /\ part = 0)
    /\ UNCHANGED <<channel, message, part, head, lost, delivered>>

LinkNext == FrameLost \/ FrameArrives \/ Renegotiate

LinkSpec == LinkInit /\ [][LinkNext]_linkVars

\* Whatever is lost and however messages are spliced, the buffer is not written beyond its end.
NeverOverruns == len <= channel.room

\* What is handed on is one message, unless at least as many frames were lost in between
\* as a message has: sequence numbers are not compared, yet no smaller loss can splice the
\* front of one message to the back of a later one.
SplicesNeedLongLoss == delivered.head = delivered.tail \/ delivered.lost >= Frames

\* A message of which every frame arrives is handed on, whatever was lost before it and
\* whatever the buffer held when it began.
WholeMessagesArrive ==
    part = 0 /\ message > 0 /\ whole =>
        delivered = [head |-> message - 1, tail |-> message - 1, lost |-> 0]

\* Messages are handed on in the order they were sent and none twice, spliced ones included:
\* what is handed on begins after all that was handed on before.
MessagesInOrder == [][delivered' # delivered => delivered.tail < delivered'.head]_linkVars
=============================================================================
