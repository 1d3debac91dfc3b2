------------------------------ MODULE UdpVideo -------------------------------
(***************************************************************************)
(* Video over UDP (WiFi mode): UDPStreamer.SendFrame splits a NAL unit     *)
(* into packets, the network loses, duplicates and reorders them, and      *)
(* DisplayService.handlePacket puts the NAL units together again.          *)
(*                                                                         *)
(* The bytes of frame n are <<n, 1>>, <<n, 2>>, ...: what is submitted to  *)
(* the decoder shows which bytes of which frame it was made of.            *)
(***************************************************************************)
EXTENDS Integers, Sequences, FiniteSets, SequencesExt

CONSTANTS
    Kinds,            \* the frames the encoder may produce: [type, len]
    MaxPayloadSize,   \* payload bytes that fit into a packet
    FragNumbers,      \* values of FragIndex and FragTotal: 2^16, as they are uint16
    MaxFrames,        \* bound: frames the encoder produces
    MaxLost,          \* bound: packets the network loses
    MaxDuplicated,    \* bound: packets the network duplicates
    MaxReordered      \* bound: packets that overtake others

ASSUME UdpAssumption ==
    /\ MaxPayloadSize \in Nat \ {0} /\ FragNumbers \in Nat \ {0, 1}
    /\ \A k \in Kinds : k.type \in {"config", "slice"} /\ k.len \in Nat
    /\ {MaxFrames, MaxLost, MaxDuplicated, MaxReordered} \subseteq Nat

VARIABLES
    frames,             \* kinds of the frames sent, by sequence number
    outgoing,           \* packets SendFrame has still to write
    network,            \* packets on their way
    lost, duplicated, reordered,   \* what the network has done to packets
    arrived,            \* the packets handlePacket has seen, as <<seq, index>>
    currentSequence,    \* the multi-packet frame being put together, -1 at first
    currentType,
    expectedFragTotal,
    fragments,          \* its payloads, by FragIndex
    cachedConfig,       \* the last SPS or PPS kept for a decoder restart
    submitted,          \* NAL units given to the decoder
    dropCount

senderVars   == <<frames, outgoing>>
networkVars  == <<network, lost, duplicated, reordered>>
assemblyVars == <<currentSequence, currentType, expectedFragTotal, fragments, dropCount>>
receiverVars == <<arrived, assemblyVars, cachedConfig, submitted>>
vars == <<senderVars, networkVars, receiverVars>>

-----------------------------------------------------------------------------
(* SplitIntoPackets.                                                       *)

Data(seq, len) == [i \in 1 .. len |-> <<seq, i>>]

Packet(seq, type, i, total, payload) ==
    [seq |-> seq, type |-> type, index |-> i, total |-> total, payload |-> payload]

Smaller(a, b) == IF a < b THEN a ELSE b

PacketsFor(len) == (len + MaxPayloadSize - 1) \div MaxPayloadSize

Uint16(n) == n % FragNumbers

SplitIntoPackets(seq, type, data) ==
    LET total == PacketsFor(Len(data))
        end(i) == Smaller((i + 1) * MaxPayloadSize, Len(data))
        fragment(i) == SubSeq(data, i * MaxPayloadSize + 1, end(i))
    IN  IF Len(data) <= MaxPayloadSize
        THEN <<Packet(seq, type, 0, 1, data)>>
        ELSE [k \in 1 .. total |->
                 Packet(seq, type, Uint16(k - 1), Uint16(total), fragment(k - 1))]

-----------------------------------------------------------------------------
Packets == [seq : 1 .. MaxFrames, type : {"config", "slice"}, index : Nat, total : Nat,
            payload : Seq((1 .. MaxFrames) \X Nat)]

TypeOK ==
    /\ frames \in Seq(Kinds) /\ Len(frames) <= MaxFrames
    /\ outgoing \in Seq(Packets) /\ network \in Seq(Packets)
    /\ lost \in 0 .. MaxLost /\ duplicated \in 0 .. MaxDuplicated
    /\ reordered \in 0 .. MaxReordered
    /\ arrived \subseteq (1 .. MaxFrames) \X Nat
    /\ currentSequence \in {-1} \cup 1 .. Len(frames)
    /\ expectedFragTotal \in Nat
    /\ Cardinality(DOMAIN fragments) < expectedFragTotal \/ DOMAIN fragments = {}
    /\ dropCount \in Nat

Init ==
    /\ frames = <<>> /\ outgoing = <<>> /\ network = <<>>
    /\ lost = 0 /\ duplicated = 0 /\ reordered = 0
    /\ arrived = {}
    /\ currentSequence = -1 /\ currentType = "slice"
    /\ expectedFragTotal = 0 /\ fragments = <<>>
    /\ cachedConfig = <<>> /\ submitted = <<>> /\ dropCount = 0

(* SendFrame takes the next sequence number and splits the NAL unit ...    *)
SendFrame(kind) ==
    /\ outgoing = <<>> /\ Len(frames) < MaxFrames
    /\ frames' = Append(frames, kind)
    /\ outgoing' = SplitIntoPackets(Len(frames'), kind.type, Data(Len(frames'), kind.len))
    /\ UNCHANGED <<networkVars, receiverVars>>

(* ... and writes the packets one by one; an error ends the loop.          *)
WritePacket ==
    /\ outgoing # <<>>
    /\ network' = Append(network, Head(outgoing))
    /\ outgoing' = Tail(outgoing)
    /\ UNCHANGED <<frames, lost, duplicated, reordered, receiverVars>>

WriteFails ==
    /\ outgoing # <<>> /\ lost < MaxLost
    /\ lost' = lost + 1
    /\ outgoing' = <<>>
    /\ UNCHANGED <<frames, network, duplicated, reordered, receiverVars>>

Lose(k) ==
    /\ lost < MaxLost
    /\ lost' = lost + 1
    /\ network' = RemoveAt(network, k)
    /\ UNCHANGED <<senderVars, duplicated, reordered, receiverVars>>

Duplicate(k) ==
    /\ duplicated < MaxDuplicated
    /\ duplicated' = duplicated + 1
    /\ network' = InsertAt(network, k, network[k])
    /\ UNCHANGED <<senderVars, lost, reordered, receiverVars>>

-----------------------------------------------------------------------------
(* DisplayService.handlePacket.                                            *)

Submit(seq, type, data) ==
    submitted' = Append(submitted, [seq |-> seq, type |-> type, data |-> data])

(* A NAL unit in one packet passes at once; SPS and PPS are kept.          *)
HandleSingle(p) ==
    /\ p.total <= 1
    /\ cachedConfig' = IF p.type = "config" THEN p.payload ELSE cachedConfig
    /\ Submit(p.seq, p.type, p.payload)
    /\ UNCHANGED assemblyVars

(* What a packet of another frame than the current one leaves of it.       *)
KeepFragments(p) == fragments
FragmentsBefore(p) == IF p.seq = currentSequence THEN fragments ELSE <<>>

DropsNever(p) == FALSE
DropsCurrent(p) ==
    /\ p.seq # currentSequence
    /\ currentSequence >= 0 /\ Cardinality(DOMAIN fragments) < expectedFragTotal

Put(frags, i, payload) ==
    [j \in DOMAIN frags \cup {i} |-> IF j = i THEN payload ELSE frags[j]]

(* Fragments are counted, by their index, against the expected total.      *)
AllButOne(frags, total) == Cardinality(DOMAIN frags) = total - 1
AllThere(frags, total) == Cardinality(DOMAIN frags) = total

KeepAfterSubmit(frags) == frags
ClearAfterSubmit(frags) == <<>>

HandleFragment(p) ==
    /\ p.total > 1
    /\ LET new == p.seq # currentSequence
           type == IF new THEN p.type ELSE currentType
           total == IF new THEN p.total ELSE expectedFragTotal
           frags == Put(FragmentsBefore(p), p.index, p.payload)
           complete == AllThere(frags, total)
           gap == \E i \in 0 .. total - 1 : i \notin DOMAIN frags
           drops == (IF DropsCurrent(p) THEN 1 ELSE 0) + (IF complete /\ gap THEN 1 ELSE 0)
       IN  /\ currentSequence' = p.seq
           /\ currentType' = type
           /\ expectedFragTotal' = total
           /\ fragments' = IF complete THEN ClearAfterSubmit(frags) ELSE frags
           /\ dropCount' = dropCount + drops
           /\ IF complete /\ ~gap
              THEN Submit(p.seq, type, FlattenSeq([k \in 1 .. total |-> frags[k - 1]]))
              ELSE UNCHANGED submitted
    /\ UNCHANGED cachedConfig

(* The socket delivers the k-th packet on its way: with k > 1 it overtakes *)
(* others.                                                                 *)
Receive(k) ==
    /\ k = 1 \/ reordered < MaxReordered
    /\ reordered' = IF k = 1 THEN reordered ELSE reordered + 1
    /\ network' = RemoveAt(network, k)
    /\ arrived' = arrived \cup {<<network[k].seq, network[k].index>>}
    /\ HandleSingle(network[k]) \/ HandleFragment(network[k])
    /\ UNCHANGED <<senderVars, lost, duplicated>>

Next ==
    \/ \E kind \in Kinds : SendFrame(kind)
    \/ WritePacket \/ WriteFails
    \/ \E k \in DOMAIN network : Lose(k) \/ Duplicate(k) \/ Receive(k)

Spec == Init /\ [][Next]_vars

-----------------------------------------------------------------------------
(* Safety.                                                                 *)

Total(seq) == Len(SplitIntoPackets(seq, frames[seq].type, Data(seq, frames[seq].len)))
Arrived(seq) == {i \in 0 .. Total(seq) - 1 : <<seq, i>> \in arrived}
Copies(seq) == Cardinality({k \in DOMAIN submitted : submitted[k].seq = seq})

(* The packets of the frame are numbered without a wrap.                   *)
Fits(seq) == PacketsFor(frames[seq].len) < FragNumbers

(* A network that keeps the order and makes no copies, and no frame so far *)
(* that takes more packets than can be numbered.                           *)
Fifo == reordered = 0 /\ duplicated = 0
AllFit == \A seq \in DOMAIN frames : Fits(seq)

(* What the decoder gets under a sequence number is the NAL unit sent with *)
(* it: no fragment missing, none of another frame, all in their places,    *)
(* whatever the network does and whatever became of other frames, unless   *)
(* its own packets are too many to be numbered.                            *)
SubmittedIntact ==
    \A k \in DOMAIN submitted :
        LET nal == submitted[k] IN
        Fits(nal.seq) =>
           /\ nal.type = frames[nal.seq].type
           /\ nal.data = Data(nal.seq, frames[nal.seq].len)

(* As long as packets are neither reordered nor duplicated, the NAL units  *)
(* are submitted in the order of sending, and every frame that arrived in  *)
(* full is submitted.                                                      *)
FifoDelivery ==
    Fifo /\ AllFit =>
        /\ \A j, k \in DOMAIN submitted : j < k => submitted[j].seq < submitted[k].seq
        /\ \A seq \in DOMAIN frames :
              Arrived(seq) = 0 .. Total(seq) - 1 => Copies(seq) = 1

(* On such a network dropCount misses no frame that came in part and was   *)
(* given up for a later one.  It may count more: the fragments of a frame  *)
(* that was submitted are cleared, and it then looks incomplete to the     *)
(* next one.                                                               *)
PartialFramesCounted ==
    Fifo /\ AllFit =>
        dropCount >= Cardinality({seq \in DOMAIN frames :
                        /\ seq < currentSequence
                        /\ Arrived(seq) # {} /\ Arrived(seq) # 0 .. Total(seq) - 1})

=============================================================================
