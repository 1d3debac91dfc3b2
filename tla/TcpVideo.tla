------------------------------- MODULE TcpVideo -------------------------------
(***************************************************************************)
(* Video over TCP (USB mode): TCPVideoServer.SendFrame writes each NAL     *)
(* unit behind a length prefix, with a deadline of 150 ms, and             *)
(* TcpVideoReceiver.receiveLoop cuts the stream into NAL units again.      *)
(*                                                                         *)
(* The stream is made of units of some bytes, which stay together as long  *)
(* as the receiver knows where it is.  <<n, 0>> is the length prefix of    *)
(* frame n, <<n, 1>>, <<n, 2>>, ... are its header and payload: what the   *)
(* receiver makes of the stream shows where its bytes came from.           *)
(* The type of a frame only decides whether a failed write is logged.      *)
(***************************************************************************)
EXTENDS Naturals, Sequences, FiniteSets, Functions

CONSTANTS
    Lengths,      \* how long a frame may be, prefix not counted
    MaxLength,    \* the longest packet the receiver takes: 2 MiB
    Capacity,     \* what the socket buffers and adb hold
    MaxFrames     \* bound: frames sent

ASSUME TcpAssumption ==
    /\ Lengths \subseteq Nat \ {0}
    /\ MaxLength \in Nat /\ Capacity \in Nat \ {0} /\ MaxFrames \in Nat

VARIABLES
    frames,       \* lengths of the frames sent, by sequence number
    sending,      \* the frame SendFrame is writing, 0 for none
    written,      \* units of it the kernel has taken
    conn,         \* the server's end
    wire,         \* written and not yet read
    reader,       \* receiveLoop: reads a length or a body, or has ended;
                  \* "closed": the client has closed its socket
    need,         \* length of the body
    readBuf,      \* what readFully has of it
    \* What the properties speak of.
    complete,     \* frames written in full, in order
    cut,          \* frames of which only a part was written
    delivered     \* packets given to handlePacket

senderVars   == <<frames, sending, written, conn, complete, cut>>
receiverVars == <<reader, need, readBuf, delivered>>
vars == <<senderVars, wire, receiverVars>>

Frames == 1 .. MaxFrames
Units == Frames \X Nat

TypeOK ==
    /\ frames \in Seq(Lengths) /\ Len(frames) <= MaxFrames
    /\ sending \in 0 .. Len(frames)
    /\ IF sending = 0 THEN written = 0 ELSE written \in 0 .. frames[sending]
    /\ conn \in {"open", "closed"}
    /\ wire \in Seq(Units) /\ Len(wire) <= Capacity
    /\ reader \in {"length", "body", "ended", "closed"}
    /\ need \in 0 .. MaxLength
    /\ readBuf \in Seq(Units)
    /\ reader = "body" => Len(readBuf) < need
    /\ complete \in Seq(Frames) /\ cut \subseteq Frames
    /\ delivered \in Seq(Seq(Units))

(* AcceptOne has returned with the client's connection.                    *)
Init ==
    /\ frames = <<>> /\ sending = 0 /\ written = 0 /\ conn = "open"
    /\ wire = <<>> /\ complete = <<>> /\ cut = {}
    /\ reader = "length" /\ need = 0 /\ readBuf = <<>> /\ delivered = <<>>

-----------------------------------------------------------------------------
(* SendFrame.  Once Close has reset s.conn it returns an error and changes *)
(* nothing.                                                                *)

SendFrame(length) ==
    /\ sending = 0 /\ conn = "open" /\ Len(frames) < MaxFrames
    /\ frames' = Append(frames, length)
    /\ sending' = Len(frames')
    /\ UNCHANGED <<written, conn, complete, cut, wire, receiverVars>>

Return == sending' = 0 /\ written' = 0

WholeBuffer(n, units) == units = frames[n] + 2
AllWritten(n, units) == units = frames[n] + 1

(* The kernel takes as much as the buffers hold.                           *)
WriteUnit ==
    /\ sending # 0 /\ conn = "open" /\ Len(wire) < Capacity
    /\ wire' = Append(wire, <<sending, written>>)
    /\ IF AllWritten(sending, written + 1)
       THEN Return /\ complete' = Append(complete, sending)
       ELSE written' = written + 1 /\ UNCHANGED <<sending, complete>>
    /\ UNCHANGED <<frames, conn, cut, receiverVars>>

(* The write ends with an error: the deadline has expired while the        *)
(* buffers were full, or a connection is closed.  What was written stays   *)
(* in the stream, and the next frame is written behind it.                 *)
NoDeadline == FALSE
DeadlineExpired == Len(wire) = Capacity

WriteEnds ==
    /\ sending # 0
    /\ DeadlineExpired \/ conn = "closed" \/ reader = "closed"
    /\ Return
    /\ cut' = IF written > 0 THEN cut \cup {sending} ELSE cut
    /\ UNCHANGED <<frames, conn, complete, wire, receiverVars>>

(* Close of the server's end, by the teardown of the client.               *)
Close ==
    /\ conn = "open"
    /\ conn' = "closed"
    /\ UNCHANGED <<frames, sending, written, complete, cut, wire, receiverVars>>

-----------------------------------------------------------------------------
(* receiveLoop.                                                            *)

LongPrefix(length) == length >= MaxLength
TooLong(length) == length > MaxLength

(* A length that is not positive or too long is skipped, and the loop      *)
(* reads on behind it.  What is read where no prefix stands may be any     *)
(* number: 0 stands for those skipped here.                                *)
Prefix(unit) == IF unit[2] = 0 THEN {frames[unit[1]]} ELSE 0 .. MaxLength

ReadLength ==
    /\ reader = "length" /\ wire # <<>>
    /\ wire' = Tail(wire)
    /\ \E length \in Prefix(Head(wire)) :
          IF length = 0 \/ TooLong(length)
          THEN UNCHANGED <<reader, need>>
          ELSE reader' = "body" /\ need' = length
    /\ UNCHANGED <<senderVars, readBuf, delivered>>

(* Fewer bytes than a header: the parser throws, and the loop is over.     *)
ReadShortLength ==
    /\ reader = "length" /\ wire # <<>> /\ Head(wire)[2] # 0
    /\ reader' = "ended" /\ wire' = Tail(wire)
    /\ UNCHANGED <<senderVars, need, readBuf, delivered>>

ReadOnce(buf) == buf # <<>>
ReadFully(buf) == Len(buf) = need

ReadBody ==
    /\ reader = "body" /\ wire # <<>>
    /\ wire' = Tail(wire)
    /\ LET buf == Append(readBuf, Head(wire)) IN
          IF ReadFully(buf)
          THEN delivered' = Append(delivered, buf) /\ readBuf' = <<>> /\ reader' = "length"
          ELSE readBuf' = buf /\ UNCHANGED <<delivered, reader>>
    /\ UNCHANGED <<senderVars, need>>

EndOfStream ==
    /\ reader \in {"length", "body"} /\ wire = <<>> /\ conn = "closed"
    /\ reader' = "ended"
    /\ UNCHANGED <<senderVars, wire, need, readBuf, delivered>>

(* cleanupConnections closes the socket, whatever the loop is doing.       *)
ClientCloses ==
    /\ reader # "closed"
    /\ reader' = "closed"
    /\ UNCHANGED <<senderVars, wire, need, readBuf, delivered>>

-----------------------------------------------------------------------------
WriteStep == WriteUnit \/ WriteEnds
ReadStep == ReadLength \/ ReadShortLength \/ ReadBody \/ EndOfStream

Next ==
    \/ \E length \in Lengths : SendFrame(length)
    \/ WriteStep \/ Close
    \/ ReadStep \/ ClientCloses

Spec == Init /\ [][Next]_vars

(* A write goes on or is ended by its deadline, and the receiving thread   *)
(* runs; the encoder owes no frame and nobody has to disconnect.           *)
FairSpec == Spec /\ WF_vars(WriteStep) /\ WF_vars(ReadStep)

-----------------------------------------------------------------------------
(* Safety.                                                                 *)

Body(n) == [i \in 1 .. frames[n] |-> <<n, i>>]

(* A frame behind which the receiver may lose its place in the stream.     *)
Derails(n) == n \in cut \/ frames[n] > MaxLength
OnTrack(n) == \A m \in 1 .. n : ~Derails(m)

(* Up to the first frame that was cut off by its deadline, or is too long  *)
(* for the receiver, the packets delivered are the frames written, intact, *)
(* in order and none missing: a frame of which nothing was written is      *)
(* skipped without harm.                                                   *)
IntactBeforeCut ==
    \A k \in DOMAIN delivered \cap DOMAIN complete :
        OnTrack(complete[k]) => delivered[k] = Body(complete[k])

-----------------------------------------------------------------------------
(* Liveness, under FairSpec.                                               *)

(* The encoder's callback is never held up for good, also when the client  *)
(* stops reading: "Set write deadline to avoid blocking on slow clients".  *)
SendReturns == \A n \in Frames : sending = n ~> sending # n

Arrived(n) == n \in DOMAIN frames /\ Body(n) \in Range(delivered)

(* A frame that was written in full, with none before it that derails the  *)
(* receiver, is delivered, unless the client closes its socket.            *)
CompleteFramesArrive ==
    \A n \in Frames :
        n \in Range(complete) /\ OnTrack(n) ~> Arrived(n) \/ reader = "closed"

-----------------------------------------------------------------------------
(* What the comments of the code say and the code does not do.             *)

(* "For non-keyframes, write timeout is acceptable (skip frame)" (tcp.go), *)
(* and each packet is a complete NAL unit (TcpVideoReceiver.kt): what the  *)
(* receiver delivers is always a frame as it was sent.                     *)
PacketsAreFrames ==
    \A k \in DOMAIN delivered : \E n \in DOMAIN frames : delivered[k] = Body(n)
=============================================================================
