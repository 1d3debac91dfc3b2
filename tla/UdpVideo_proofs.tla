---------------------------- MODULE UdpVideo_proofs ----------------------------
(***************************************************************************)
(* What the WiFi video loses, and what it never spoils: any frames, any    *)
(* packet size, and a network that loses, copies and reorders at will.     *)
(***************************************************************************)
EXTENDS UdpVideo, SequenceTheorems, FiniteSetTheorems, WellFoundedInduction, TLAPS

-----------------------------------------------------------------------------
(* The inductive invariant.                                                *)

(* The packets of a frame, and a packet that is one of them: which one,    *)
(* its index tells while the packets can be numbered.                      *)
PacketsOf(seq) == SplitIntoPackets(seq, frames[seq].type, Data(seq, frames[seq].len))
Genuine(p) ==
    /\ p.seq \in 1 .. Len(frames) /\ p.index \in 0 .. Total(p.seq) - 1
    /\ Fits(p.seq) => p = PacketsOf(p.seq)[p.index + 1]

SenderInv ==
    /\ frames \in Seq(Kinds) /\ Len(frames) <= MaxFrames
    /\ outgoing \in Seq(Packets) /\ \A k \in 1 .. Len(outgoing) : Genuine(outgoing[k])
NetworkInv ==
    /\ network \in Seq(Packets) /\ \A k \in 1 .. Len(network) : Genuine(network[k])
    /\ lost \in 0 .. MaxLost /\ duplicated \in 0 .. MaxDuplicated
    /\ reordered \in 0 .. MaxReordered
    /\ \A a \in arrived : a \in (1 .. Len(frames)) \X Nat /\ a[2] < Total(a[1])

(* There are never as many fragments as expected, and those put together   *)
(* are fragments of one frame, at their places.                            *)
Gathering ==
    /\ expectedFragTotal = Total(currentSequence)
    /\ currentType = frames[currentSequence].type
    /\ DOMAIN fragments \subseteq 0 .. expectedFragTotal - 1
    /\ DOMAIN fragments # 0 .. expectedFragTotal - 1
    /\ \A i \in DOMAIN fragments :
          fragments[i] = PacketsOf(currentSequence)[i + 1].payload
AssemblyInv ==
    /\ dropCount \in Nat /\ expectedFragTotal \in Nat
    /\ currentSequence = -1 => DOMAIN fragments = {}
    /\ currentSequence # -1 =>
          /\ currentSequence \in 1 .. Len(frames) /\ expectedFragTotal > 1
          /\ IsFiniteSet(DOMAIN fragments)
          /\ Cardinality(DOMAIN fragments) < expectedFragTotal
          /\ Fits(currentSequence) => Gathering

(* The NAL unit of a frame, and what is submitted under its number.        *)
Whole(seq) == [seq |-> seq, type |-> frames[seq].type, data |-> Data(seq, frames[seq].len)]
Sound(nal) == nal.seq \in 1 .. Len(frames) /\ (Fits(nal.seq) => nal = Whole(nal.seq))
SubmittedInv ==
    /\ \E S : submitted \in Seq(S)
    /\ \A k \in DOMAIN submitted : Sound(submitted[k])

(* On a network that keeps the order and makes no copies, what is on its   *)
(* way is in order, and later than what has arrived.                       *)
Orderly == Fifo /\ AllFit
Earlier(a, b) == a[1] < b[1] \/ (a[1] = b[1] /\ a[2] < b[2])
Place(p) == <<p.seq, p.index>>
Ordered(queue) == \A j, k \in 1 .. Len(queue) : j < k => Earlier(Place(queue[j]), Place(queue[k]))
InOrder ==
    /\ Ordered(outgoing) /\ Ordered(network)
    /\ \A j \in 1 .. Len(network), k \in 1 .. Len(outgoing) :
          Earlier(Place(network[j]), Place(outgoing[k]))
    /\ \A a \in arrived :
          /\ \A k \in 1 .. Len(network) : Earlier(a, Place(network[k]))
          /\ \A k \in 1 .. Len(outgoing) : Earlier(a, Place(outgoing[k]))
OrderInv == Orderly => InOrder

(* There, the fragments are what has arrived of the current frame, unless  *)
(* all of it has, and no later frame has arrived in part.                  *)
Full(seq) == Arrived(seq) = 0 .. Total(seq) - 1
Current ==
    /\ \A seq \in 1 .. Len(frames) :
          Total(seq) > 1 /\ Arrived(seq) # {} => seq <= currentSequence
    /\ currentSequence # -1 =>
          /\ Arrived(currentSequence) # {}
          /\ DOMAIN fragments = IF Full(currentSequence) THEN {} ELSE Arrived(currentSequence)
CurrentInv == Orderly => Current

(* And the frames submitted are those that have arrived in full, in order. *)
Delivered ==
    /\ \A j, k \in DOMAIN submitted : j < k => submitted[j].seq < submitted[k].seq
    /\ \A k \in DOMAIN submitted : Full(submitted[k].seq)
    /\ \A seq \in 1 .. Len(frames) :
          Full(seq) => \E k \in DOMAIN submitted : submitted[k].seq = seq
DeliveryInv == Orderly => Delivered

SafeInv ==
    /\ SenderInv /\ NetworkInv /\ AssemblyInv /\ SubmittedInv
    /\ OrderInv /\ CurrentInv /\ DeliveryInv /\ PartialFramesCounted

-----------------------------------------------------------------------------
(* Induction.                                                              *)

(* A set of numbers has a least element, so one that has 0, and with a     *)
(* number the next one, has them all.                                      *)
LEMMA LeastElement ==
  ASSUME NEW T \in SUBSET Nat, T # {}
  PROVE  \E m \in T : \A k \in T : m <= k
<1>1. IsWellFoundedOn(OpToRel(<, Nat), Nat)
  BY NatLessThanWellFounded
<1>2. PICK m \in T : \A k \in T : ~ (<<k, m>> \in OpToRel(<, Nat))
  BY <1>1, WFMin
<1>3. \A k \in T : k \in Nat /\ m \in Nat
  OBVIOUS
<1>4. \A k \in T : ~(k < m)
  BY <1>2, <1>3 DEF OpToRel
<1>5. \A k \in T : m <= k
  BY <1>3, <1>4
<1> QED
  BY <1>5

\* A set with 0 that is closed under the successor holds every number.
LEMMA SetInduction ==
  ASSUME NEW S, 0 \in S, \A n \in Nat : n \in S => n + 1 \in S
  PROVE  Nat \subseteq S
<1> SUFFICES ASSUME Nat \ S # {} PROVE FALSE
  OBVIOUS
<1>1. PICK m \in Nat \ S : \A k \in Nat \ S : m <= k
  BY LeastElement
<1>2. m # 0 /\ m - 1 \in Nat
  BY <1>1
<1>3. m - 1 \in S
  BY <1>1, <1>2
<1> QED
  BY <1>1, <1>2, <1>3

(* What FlattenSeq makes of n sequences, from what it makes of the first   *)
(* ones.                                                                   *)
Joins(J, seqs, n) == J = [i \in 1 .. n |-> IF i = 1 THEN seqs[i] ELSE J[i - 1] \o seqs[i]]

\* FlattenSeq joins the members of a sequence one after the other.
LEMMA Flattening ==
  ASSUME NEW n \in Nat \ {0}, NEW seqs, DOMAIN seqs = 1 .. n, Len(seqs) = n,
         NEW J, Joins(J, seqs, n)
  PROVE  FlattenSeq(seqs) = J[n]
<1> DEFINE flatten == CHOOSE g : Joins(g, seqs, n)
<1>1. FlattenSeq(seqs) = flatten[n]
  BY DEF FlattenSeq, Joins
<1>2. Joins(flatten, seqs, n)
  OBVIOUS
<1> HIDE DEF flatten
<1>3. ASSUME NEW i \in 1 .. n
      PROVE  flatten[i] = (IF i = 1 THEN seqs[i] ELSE flatten[i - 1] \o seqs[i])
  BY <1>2 DEF Joins
<1>4. ASSUME NEW i \in 1 .. n
      PROVE  J[i] = (IF i = 1 THEN seqs[i] ELSE J[i - 1] \o seqs[i])
  BY DEF Joins
<1> DEFINE Same == {k \in Nat : k \in 1 .. n => flatten[k] = J[k]}
<1>5. Nat \subseteq Same
  <2>1. 0 \in Same
    OBVIOUS
  <2>2. ASSUME NEW k \in Nat, k \in Same PROVE k + 1 \in Same
    <3>1. CASE k + 1 \in 1 .. n /\ k # 0
      <4>1. flatten[k] = J[k]
        BY <2>2, <3>1
      <4>2. flatten[k + 1] = flatten[k] \o seqs[k + 1] /\ J[k + 1] = J[k] \o seqs[k + 1]
        <5>1. (k + 1) - 1 = k /\ k + 1 # 1
          BY <3>1
        <5> QED
          BY <1>3, <1>4, <3>1, <5>1
      <4>3. flatten[k + 1] = J[k + 1]
        BY <4>1, <4>2, Zenon
      <4> QED
        BY <4>3
    <3>2. CASE k = 0
      BY <1>3, <1>4, <3>2
    <3>3. CASE k + 1 \notin 1 .. n
      BY <3>3
    <3> QED
      BY <3>1, <3>2, <3>3
  <2> HIDE DEF Same
  <2> QED
    BY <2>1, <2>2, SetInduction
<1>6. n \in Same /\ n \in 1 .. n
  BY <1>5
<1>7. flatten[n] = J[n]
  BY <1>6
<1> QED
  BY <1>1, <1>7

-----------------------------------------------------------------------------
(* Splitting and putting together.                                         *)

(* A NAL unit that does not fit into a packet takes so many of them that   *)
(* all but the last one are full.                                          *)
LEMMA Division ==
  ASSUME NEW len \in Nat, len > MaxPayloadSize
  PROVE  /\ PacketsFor(len) \in Nat /\ PacketsFor(len) > 1
         /\ PacketsFor(len) * MaxPayloadSize >= len
         /\ \A k \in 0 .. PacketsFor(len) - 1 :
               k * MaxPayloadSize \in Nat /\ k * MaxPayloadSize < len
<1> DEFINE M == MaxPayloadSize
           q == PacketsFor(len)
<1>1. M \in Nat /\ M > 0
  BY UdpAssumption
<1>2. q \in Int /\ q * M <= len + M - 1 /\ len + M - 1 < q * M + M
  <2>1. \A a \in Int, b \in Nat : b > 0 =>
           a \div b \in Int /\ b * (a \div b) <= a /\ a < b * (a \div b) + b
    OBVIOUS
  <2>2. q = (len + M - 1) \div M /\ len + M - 1 \in Int
    BY <1>1 DEF PacketsFor
  <2> HIDE DEF M, q
  <2>3. q \in Int /\ M * q <= len + M - 1 /\ len + M - 1 < M * q + M
    BY <1>1, <2>1, <2>2
  <2>4. M * q = q * M
    BY <1>1, <2>3
  <2> QED
    BY <2>3, <2>4
<1> HIDE DEF M, q
<1>3. \A a, b \in Int : a <= b => a * M <= b * M
  BY <1>1
<1>4. q > 1
  <2> SUFFICES ASSUME q <= 1 PROVE FALSE
    BY <1>2
  <2>1. q * M <= 1 * M
    BY <1>2, <1>3
  <2> QED
    BY <1>1, <1>2, <2>1 DEF M
<1>5. ASSUME NEW k \in 0 .. q - 1 PROVE k * M \in Nat /\ k * M < len
  <2>1. k * M <= (q - 1) * M /\ (q - 1) * M = q * M - M
    BY <1>1, <1>2, <1>3
  <2>2. 0 * M <= k * M
    BY <1>3
  <2>3. k * M \in Int /\ q * M \in Int
    BY <1>1, <1>2
  <2> QED
    BY <1>1, <1>2, <2>1, <2>2, <2>3
<1> QED
  BY <1>1, <1>2, <1>4, <1>5 DEF M, q

(* The payloads of the packets, one behind the other, are the NAL unit.    *)
LEMMA PiecesJoin ==
  ASSUME NEW S, NEW data \in Seq(S), Len(data) > MaxPayloadSize,
         NEW n, n = PacketsFor(Len(data)), NEW pieces, DOMAIN pieces = 1 .. n, Len(pieces) = n,
         \A k \in 1 .. n :
            pieces[k] = SubSeq(data, (k - 1) * MaxPayloadSize + 1,
                                     Smaller(k * MaxPayloadSize, Len(data)))
  PROVE  FlattenSeq(pieces) = data
<1> DEFINE M == MaxPayloadSize
           end(k) == Smaller(k * M, Len(data))
           J == [k \in 1 .. n |-> SubSeq(data, 1, end(k))]
<1>1. /\ n \in Nat /\ n > 1 /\ n * M >= Len(data)
      /\ \A k \in 0 .. n - 1 : k * M \in Nat /\ k * M < Len(data)
      /\ Len(data) \in Nat
  BY Division, LenProperties
<1>2. ASSUME NEW k \in 0 .. n - 1 PROVE end(k) = k * M /\ end(k) \in Nat /\ end(k) < Len(data)
  BY <1>1 DEF Smaller
<1>3. end(n) = Len(data)
  <2>1. n * M \in Int
    BY <1>1, UdpAssumption
  <2> QED
    BY <1>1, <2>1 DEF Smaller
<1>4. ASSUME NEW k \in 1 .. n PROVE end(k) \in Nat /\ end(k) <= Len(data) /\ end(k - 1) <= end(k)
  <2>1. CASE k = n
    <3>1. k - 1 \in 0 .. n - 1
      BY <1>1, <2>1
    <3> QED
      BY <1>1, <1>2, <1>3, <2>1, <3>1
  <2>2. CASE k # n
    <3>1. k \in 0 .. n - 1 /\ k - 1 \in 0 .. n - 1
      BY <1>1, <2>2
    <3>2. (k - 1) * M = k * M - M /\ M \in Nat
      BY UdpAssumption
    <3> HIDE DEF M, end
    <3> QED
      BY <1>1, <1>2, <3>1, <3>2
  <2> QED
    BY <2>1, <2>2
<1>5. end(0) = 0
  BY <1>1, <1>2, UdpAssumption
<1> HIDE DEF M
<1>6. \A k \in 1 .. n : pieces[k] = SubSeq(data, end(k - 1) + 1, end(k))
  <2> TAKE k \in 1 .. n
  <2>1. k - 1 \in 0 .. n - 1
    BY <1>1
  <2>2. end(k - 1) = (k - 1) * M
    BY <1>2, <2>1
  <2>3. pieces[k] = SubSeq(data, (k - 1) * M + 1, Smaller(k * M, Len(data)))
    BY DEF M
  <2> QED
    BY <2>2, <2>3
<1> HIDE DEF end
<1>7. \A k \in 1 .. n : J[k] = IF k = 1 THEN pieces[k] ELSE J[k - 1] \o pieces[k]
  <2> TAKE k \in 1 .. n
  <2>1. CASE k = 1
    <3>1. end(k - 1) + 1 = 1
      BY <1>5, <2>1
    <3> QED
      BY <1>6, <2>1, <3>1
  <2>2. CASE k # 1
    <3>1. k - 1 \in 1 .. n
      BY <1>1, <2>2
    <3>2. /\ end(k - 1) \in 0 .. Len(data) /\ end(k) \in end(k - 1) .. Len(data)
          /\ Len(data) + 1 >= 1
      BY <1>1, <1>4, <3>1
    <3>3. SubSeq(data, 1, end(k - 1)) \o SubSeq(data, end(k - 1) + 1, end(k)) = SubSeq(data, 1, end(k))
      <4>1. 1 \in 1 .. Len(data) + 1 /\ end(k - 1) \in 1 - 1 .. Len(data)
        BY <1>1, <3>2
      <4> QED
        BY <3>2, <4>1, ConcatAdjacentSubSeq
    <3>4. J[k] = SubSeq(data, 1, end(k)) /\ J[k - 1] = SubSeq(data, 1, end(k - 1))
      BY <3>1
    <3> QED
      BY <1>6, <2>2, <3>3, <3>4
  <2> QED
    BY <2>1, <2>2
<1>8. J = [k \in 1 .. n |-> IF k = 1 THEN pieces[k] ELSE J[k - 1] \o pieces[k]]
  <2>1. J = [k \in 1 .. n |-> J[k]]
    OBVIOUS
  <2> HIDE DEF J
  <2> QED
    BY <1>7, <2>1
<1>9. J[n] = data
  BY <1>1, <1>3, SubSeqFull
<1> HIDE DEF J
<1>10. n \in Nat \ {0} /\ DOMAIN pieces = 1 .. n /\ Len(pieces) = n
  BY <1>1
<1>11. PICK joined : Joins(joined, pieces, n) /\ joined[n] = data
  BY <1>8, <1>9 DEF Joins
<1>12. FlattenSeq(pieces) = joined[n]
  BY <1>10, <1>11, Flattening
<1> QED
  BY <1>11, <1>12

(* The packets SplitIntoPackets makes of the NAL unit of a frame.          *)
Split(packets, seq, kind, data) ==
    /\ packets \in Seq(Packets) /\ Len(packets) \in Nat \ {0}
    /\ \A k \in 1 .. Len(packets) :
          /\ packets[k].seq = seq /\ packets[k].type = kind.type
          /\ packets[k].index \in 0 .. Len(packets) - 1
    /\ PacketsFor(kind.len) < FragNumbers =>
          \A k \in 1 .. Len(packets) :
             packets[k].index = k - 1 /\ packets[k].total = Len(packets)
    /\ Len(packets) = 1 => packets[1].payload = data
    /\ Len(packets) > 1 =>
          FlattenSeq([k \in 1 .. Len(packets) |-> packets[k].payload]) = data
    /\ data \in Seq((1 .. MaxFrames) \X Nat)

\* What the conversion to uint16 does to the number of a packet.
LEMMA Numbering ==
  ASSUME NEW a \in Nat
  PROVE  /\ Uint16(a) \in Nat /\ Uint16(a) <= a
         /\ a < FragNumbers => Uint16(a) = a
<1>1. \A b \in Nat : b > 0 => a % b \in 0 .. a /\ (a < b => a % b = a)
  OBVIOUS
<1>2. FragNumbers \in Nat /\ FragNumbers > 0
  BY UdpAssumption
<1> QED
  BY <1>1, <1>2 DEF Uint16

\* splitIntoPackets: what the packets of a frame are, for every length.
LEMMA SplitFacts ==
  ASSUME NEW seq \in 1 .. MaxFrames, NEW kind \in Kinds,
         NEW data, data = Data(seq, kind.len),
         NEW packets, packets = SplitIntoPackets(seq, kind.type, data)
  PROVE  Split(packets, seq, kind, data)
<1> DEFINE Byte == (1 .. MaxFrames) \X Nat
<1>1. kind.len \in Nat /\ kind.type \in {"config", "slice"}
  BY UdpAssumption
<1>2. data \in Seq(Byte) /\ Len(data) = kind.len
  <2>1. data = [i \in 1 .. kind.len |-> <<seq, i>>]
    BY DEF Data
  <2>2. \A i \in 1 .. kind.len : <<seq, i>> \in Byte
    BY <1>1
  <2> HIDE DEF Byte
  <2> QED
    BY <1>1, <2>1, <2>2
<1> HIDE DEF Byte
<1>3. CASE Len(data) <= MaxPayloadSize
  <2>1. packets = <<Packet(seq, kind.type, 0, 1, data)>>
    BY <1>3 DEF SplitIntoPackets
  <2>2. PICK p : p = Packet(seq, kind.type, 0, 1, data)
    OBVIOUS
  <2>3. /\ p.seq = seq /\ p.type = kind.type /\ p.index = 0 /\ p.total = 1 /\ p.payload = data
        /\ p \in Packets
    BY <1>1, <1>2, <2>2 DEF Packet, Packets, Byte
  <2>4. packets = <<p>>
    BY <2>1, <2>2
  <2>5. packets \in Seq(Packets) /\ Len(packets) = 1 /\ packets[1] = p
    BY <2>3, <2>4
  <2>6. \A k \in 1 .. Len(packets) : k = 1
    BY <2>5
  <2> QED
    BY <1>2, <2>3, <2>5, <2>6 DEF Byte, Split
<1>4. CASE ~(Len(data) <= MaxPayloadSize)
  <2> DEFINE n == PacketsFor(Len(data))
             piece(i) == SubSeq(data, i * MaxPayloadSize + 1,
                                      Smaller((i + 1) * MaxPayloadSize, Len(data)))
  <2>1. /\ n \in Nat /\ n > 1 /\ n * MaxPayloadSize >= Len(data)
        /\ \A k \in 0 .. n - 1 : k * MaxPayloadSize \in Nat /\ k * MaxPayloadSize < Len(data)
    BY <1>1, <1>2, <1>4, UdpAssumption, Division
  <2>2. packets = [k \in 1 .. n |->
                      Packet(seq, kind.type, Uint16(k - 1), Uint16(n), piece(k - 1))]
    BY <1>4 DEF SplitIntoPackets
  <2>3. ASSUME NEW k \in 1 .. n PROVE piece(k - 1) \in Seq(Byte)
    <3>1. k - 1 \in 0 .. n - 1
      BY <2>1
    <3>2. (k - 1) * MaxPayloadSize \in Nat
      BY <2>1, <3>1
    <3>3. ((k - 1) + 1) * MaxPayloadSize \in Int
      BY UdpAssumption
    <3>4. /\ Smaller(((k - 1) + 1) * MaxPayloadSize, Len(data)) \in Int
          /\ Smaller(((k - 1) + 1) * MaxPayloadSize, Len(data)) <= Len(data)
      BY <1>1, <1>2, <3>3 DEF Smaller
    <3>5. PICK a, b : /\ a = (k - 1) * MaxPayloadSize + 1
                      /\ b = Smaller(((k - 1) + 1) * MaxPayloadSize, Len(data))
      OBVIOUS
    <3>6. a \in Int /\ b \in Int /\ 1 <= a /\ b <= Len(data)
      BY <3>2, <3>4, <3>5
    <3>7. \A i \in a .. b : data[i] \in Byte
      BY <1>1, <1>2, <3>6, ElementOfSeq
    <3>8. SubSeq(data, a, b) \in Seq(Byte)
      BY <3>6, <3>7, SubSeqProperties
    <3> QED
      BY <3>5, <3>8
  <2> HIDE DEF piece, n
  <2>4. ASSUME NEW k \in 1 .. n
        PROVE  /\ packets[k].seq = seq /\ packets[k].type = kind.type
               /\ packets[k].index \in 0 .. n - 1
               /\ n < FragNumbers => packets[k].index = k - 1 /\ packets[k].total = n
               /\ packets[k].payload = piece(k - 1)
               /\ packets[k] \in Packets
    <3>1. PICK i, total, payload :
             /\ i = Uint16(k - 1) /\ total = Uint16(n) /\ payload = piece(k - 1)
             /\ packets[k] = Packet(seq, kind.type, i, total, payload)
      BY <2>2
    <3>2. k - 1 \in Nat /\ payload \in Seq(Byte)
      BY <2>1, <2>3, <3>1
    <3>3. /\ i \in Nat /\ i <= k - 1 /\ total \in Nat
          /\ k - 1 < FragNumbers => i = k - 1
          /\ n < FragNumbers => total = n
      BY <2>1, <3>1, <3>2, Numbering
    <3>4. i \in 0 .. n - 1 /\ (n < FragNumbers => i = k - 1 /\ total = n)
      BY <2>1, <3>2, <3>3, UdpAssumption
    <3>5. Packet(seq, kind.type, i, total, payload) \in Packets
      BY <1>1, <3>2, <3>3 DEF Packet, Packets, Byte
    <3> QED
      BY <3>1, <3>4, <3>5 DEF Packet
  <2>5. packets \in Seq(Packets) /\ Len(packets) = n
    <3>1. packets = [k \in 1 .. n |-> packets[k]]
      BY <2>2
    <3> QED
      BY <2>1, <2>4, <3>1
  <2>6. FlattenSeq([k \in 1 .. n |-> packets[k].payload]) = data
    <3>1. PICK pieces : pieces = [k \in 1 .. n |-> packets[k].payload]
      OBVIOUS
    <3>2. DOMAIN pieces = 1 .. n /\ Len(pieces) = n
      BY <2>1, <3>1
    <3>3. ASSUME NEW k \in 1 .. n
          PROVE  pieces[k] = SubSeq(data, (k - 1) * MaxPayloadSize + 1,
                                    Smaller(k * MaxPayloadSize, Len(data)))
      <4>1. (k - 1) + 1 = k
        BY <2>1
      <4>2. pieces[k] = piece(k - 1)
        BY <2>4, <3>1
      <4> QED
        BY <4>1, <4>2 DEF piece
    <3>4. Len(data) > MaxPayloadSize
      BY <1>1, <1>2, <1>4, UdpAssumption
    <3>5. PICK m : m = n
      OBVIOUS
    <3>6. FlattenSeq(pieces) = data
      BY <1>2, <3>2, <3>3, <3>4, <3>5, PiecesJoin DEF n
    <3> QED
      BY <3>1, <3>6
  <2>7. data \in Seq((1 .. MaxFrames) \X Nat)
    BY <1>2 DEF Byte
  <2>8. /\ Len(packets) \in Nat \ {0} /\ Len(packets) # 1 /\ Len(packets) = n
        /\ n = PacketsFor(kind.len)
    BY <1>2, <2>1, <2>5 DEF n
  <2> QED
    BY <2>4, <2>5, <2>6, <2>7, <2>8 DEF Split
<1> QED
  BY <1>3, <1>4

-----------------------------------------------------------------------------
(* The steps, and sequences that grow and shrink.                          *)

\* The actions a step can be.
LEMMA StepCases ==
  ASSUME [Next]_vars
  PROVE  \/ \E kind \in Kinds : SendFrame(kind)
         \/ WritePacket \/ WriteFails
         \/ \E k \in DOMAIN network : Lose(k) \/ Duplicate(k) \/ Receive(k)
         \/ UNCHANGED vars
BY DEF Next

\* What Append does to a sequence.
LEMMA Appended ==
  ASSUME NEW S, NEW s \in Seq(S), NEW x \in S
  PROVE  /\ Append(s, x) \in Seq(S) /\ Len(Append(s, x)) = Len(s) + 1 /\ Len(s) \in Nat
         /\ DOMAIN s = 1 .. Len(s) /\ DOMAIN Append(s, x) = 1 .. Len(s) + 1
         /\ \A k \in 1 .. Len(s) : Append(s, x)[k] = s[k]
         /\ Append(s, x)[Len(s) + 1] = x
BY AppendProperties, LenProperties

\* What Tail and Head do to a sequence.
LEMMA Dropped ==
  ASSUME NEW S, NEW s \in Seq(S), s # <<>>
  PROVE  /\ Tail(s) \in Seq(S) /\ Len(Tail(s)) = Len(s) - 1 /\ Len(s) \in Nat \ {0}
         /\ \A k \in 1 .. Len(s) - 1 : Tail(s)[k] = s[k + 1]
         /\ Head(s) = s[1] /\ Head(s) \in S
BY HeadTailProperties, EmptySeq, LenProperties

\* What RemoveAt does to a sequence.
LEMMA Removed ==
  ASSUME NEW S, NEW s \in Seq(S), NEW k \in 1 .. Len(s)
  PROVE  /\ RemoveAt(s, k) \in Seq(S) /\ Len(RemoveAt(s, k)) = Len(s) - 1 /\ Len(s) \in Nat
         /\ \A j \in 1 .. Len(s) - 1 : RemoveAt(s, k)[j] = s[IF j < k THEN j ELSE j + 1]
<1>1. Len(s) \in Nat /\ \A j \in 1 .. Len(s) : s[j] \in S
  BY LenProperties, ElementOfSeq
<1>2. PICK a : a = SubSeq(s, 1, k - 1)
  OBVIOUS
<1>3. PICK b : b = SubSeq(s, k + 1, Len(s))
  OBVIOUS
<1>4. /\ a \in Seq(S) /\ Len(a) = k - 1 /\ \A j \in 1 .. k - 1 : a[j] = s[j]
  <2>1. 1 \in Int /\ k - 1 \in Int /\ \A j \in 1 .. k - 1 : s[j] \in S
    BY <1>1
  <2> QED
    BY <1>1, <1>2, <2>1, SubSeqProperties
<1>5. /\ b \in Seq(S) /\ Len(b) = Len(s) - k /\ \A j \in 1 .. Len(s) - k : b[j] = s[k + j]
  <2>1. k + 1 \in Int /\ Len(s) \in Int /\ \A j \in k + 1 .. Len(s) : s[j] \in S
    BY <1>1
  <2>2. /\ b \in Seq(S) /\ Len(b) = IF k + 1 <= Len(s) THEN Len(s) - (k + 1) + 1 ELSE 0
        /\ \A j \in 1 .. Len(s) - (k + 1) + 1 : b[j] = s[(k + 1) + j - 1]
    BY <1>3, <2>1, SubSeqProperties
  <2> QED
    BY <1>1, <2>2
<1>6. RemoveAt(s, k) = a \o b
  BY <1>2, <1>3 DEF RemoveAt
<1>7. /\ a \o b \in Seq(S) /\ Len(a \o b) = Len(a) + Len(b)
      /\ \A i \in 1 .. Len(a) + Len(b) :
            (a \o b)[i] = IF i <= Len(a) THEN a[i] ELSE b[i - Len(a)]
  BY <1>4, <1>5, ConcatProperties
<1>8. ASSUME NEW j \in 1 .. Len(s) - 1
      PROVE  (a \o b)[j] = s[IF j < k THEN j ELSE j + 1]
  <2>1. (a \o b)[j] = IF j <= Len(a) THEN a[j] ELSE b[j - Len(a)]
    BY <1>1, <1>4, <1>5, <1>7
  <2>2. CASE j < k
    <3>1. j \in 1 .. k - 1 /\ j <= Len(a)
      BY <1>1, <1>4, <2>2
    <3> QED
      BY <1>4, <2>1, <2>2, <3>1
  <2>3. CASE ~(j < k)
    <3>1. /\ ~(j <= Len(a)) /\ j - Len(a) = j - k + 1 /\ j - k + 1 \in 1 .. Len(s) - k
          /\ k + (j - k + 1) = j + 1
      BY <1>1, <1>4, <2>3
    <3> QED
      BY <1>5, <2>1, <2>3, <3>1
  <2> QED
    BY <2>2, <2>3
<1>9. Len(a) + Len(b) = Len(s) - 1
  BY <1>1, <1>4, <1>5
<1> QED
  BY <1>1, <1>6, <1>7, <1>8, <1>9

Copied(t, s) == \A j \in 1 .. Len(t) : \E i \in 1 .. Len(s) : t[j] = s[i]

\* A packet that is duplicated is a copy of one that was there.
LEMMA Inserted ==
  ASSUME NEW S, NEW s \in Seq(S), NEW k \in 1 .. Len(s)
  PROVE  InsertAt(s, k, s[k]) \in Seq(S) /\ Copied(InsertAt(s, k, s[k]), s)
<1>1. Len(s) \in Nat /\ \A j \in 1 .. Len(s) : s[j] \in S
  BY LenProperties, ElementOfSeq
<1> DEFINE T == {s[i] : i \in 1 .. Len(s)}
<1>2. SubSeq(s, 1, k - 1) \in Seq(T)
  <2>1. 1 \in Int /\ k - 1 \in Int /\ \A j \in 1 .. k - 1 : s[j] \in T
    BY <1>1
  <2> HIDE DEF T
  <2> QED
    BY <2>1, SubSeqProperties
<1>3. SubSeq(s, k, Len(s)) \in Seq(T)
  <2>1. k \in Int /\ Len(s) \in Int /\ \A j \in k .. Len(s) : s[j] \in T
    BY <1>1
  <2> HIDE DEF T
  <2> QED
    BY <2>1, SubSeqProperties
<1>4. <<s[k]>> \in Seq(T)
  <2>1. s[k] \in T
    OBVIOUS
  <2> HIDE DEF T
  <2> QED
    BY <2>1
<1>5. T \subseteq S
  BY <1>1
<1>6. InsertAt(s, k, s[k]) = SubSeq(s, 1, k - 1) \o <<s[k]>> \o SubSeq(s, k, Len(s))
  BY DEF InsertAt
<1> HIDE DEF T
<1>7. InsertAt(s, k, s[k]) \in Seq(T)
  BY <1>2, <1>3, <1>4, <1>6, ConcatProperties
<1>8. PICK t : t = InsertAt(s, k, s[k])
  OBVIOUS
<1>9. t \in Seq(T) /\ \A j \in 1 .. Len(t) : t[j] \in T
  BY <1>7, <1>8, ElementOfSeq
<1>10. t \in Seq(S)
  <2>1. Len(t) \in Nat /\ t = [j \in 1 .. Len(t) |-> t[j]] /\ \A j \in 1 .. Len(t) : t[j] \in S
    BY <1>5, <1>9, LenProperties
  <2> QED
    BY <2>1
<1> QED
  BY <1>8, <1>9, <1>10 DEF T, Copied

(* What the frames sent say of a sequence number, and of a packet.         *)
LEMMA FrameFacts ==
  ASSUME SenderInv
  PROVE  /\ Len(frames) \in Nat /\ DOMAIN frames = 1 .. Len(frames)
         /\ \A seq \in 1 .. Len(frames) :
               /\ frames[seq] \in Kinds /\ seq \in 1 .. MaxFrames
               /\ Total(seq) = Len(PacketsOf(seq)) /\ Total(seq) \in Nat \ {0}
<1>1. /\ Len(frames) \in Nat /\ DOMAIN frames = 1 .. Len(frames)
      /\ \A seq \in 1 .. Len(frames) : frames[seq] \in Kinds /\ seq \in 1 .. MaxFrames
  BY LenProperties, ElementOfSeq, UdpAssumption DEF SenderInv
<1>2. \A seq : Total(seq) = Len(PacketsOf(seq))
  BY DEF Total, PacketsOf
<1>3. ASSUME NEW seq \in 1 .. Len(frames) PROVE Len(PacketsOf(seq)) \in Nat \ {0}
  <2>1. PICK kind : kind = frames[seq]
    OBVIOUS
  <2>2. PICK data : data = Data(seq, kind.len)
    OBVIOUS
  <2>3. PICK packets : packets = SplitIntoPackets(seq, kind.type, data)
    OBVIOUS
  <2>4. packets = PacketsOf(seq)
    BY <2>1, <2>2, <2>3 DEF PacketsOf
  <2>5. seq \in 1 .. MaxFrames /\ kind \in Kinds
    BY <1>1, <2>1
  <2>6. Len(packets) \in Nat \ {0}
    BY <2>2, <2>3, <2>5, SplitFacts DEF Split
  <2> QED
    BY <2>4, <2>6
<1> QED
  BY <1>1, <1>2, <1>3

\* What the header and the payload of a packet tell of its frame.
LEMMA PacketFacts ==
  ASSUME SenderInv, NEW p, Genuine(p), Fits(p.seq)
  PROVE  /\ p.seq \in 1 .. Len(frames) /\ p.index \in 0 .. Total(p.seq) - 1
         /\ p.total = Total(p.seq) /\ p.type = frames[p.seq].type
         /\ p.payload = PacketsOf(p.seq)[p.index + 1].payload
         /\ p.total <= 1 => p.payload = Data(p.seq, frames[p.seq].len)
<1>1. /\ p.seq \in 1 .. Len(frames) /\ p.index \in 0 .. Total(p.seq) - 1
      /\ p = PacketsOf(p.seq)[p.index + 1]
  BY DEF Genuine
<1>2. /\ Len(frames) \in Nat /\ frames[p.seq] \in Kinds /\ p.seq \in 1 .. MaxFrames
      /\ Total(p.seq) = Len(PacketsOf(p.seq)) /\ Total(p.seq) \in Nat \ {0}
  BY <1>1, FrameFacts
<1>3. PICK seq, kind, data, packets :
         /\ seq = p.seq /\ kind = frames[p.seq] /\ data = Data(seq, kind.len)
         /\ packets = SplitIntoPackets(seq, kind.type, data) /\ packets = PacketsOf(p.seq)
  BY DEF PacketsOf
<1>4. /\ packets \in Seq(Packets) /\ Len(packets) \in Nat \ {0}
      /\ \A k \in 1 .. Len(packets) :
            /\ packets[k].seq = seq /\ packets[k].type = kind.type
            /\ packets[k].index = k - 1 /\ packets[k].total = Len(packets)
      /\ Len(packets) = 1 => packets[1].payload = data
  <2>1. seq \in 1 .. MaxFrames /\ kind \in Kinds /\ PacketsFor(kind.len) < FragNumbers
    BY <1>2, <1>3 DEF Fits
  <2>2. data = Data(seq, kind.len) /\ packets = SplitIntoPackets(seq, kind.type, data)
    BY <1>3
  <2>3. Split(packets, seq, kind, data)
    BY <2>1, <2>2, SplitFacts
  <2> QED
    BY <2>1, <2>3 DEF Split
<1>5. PICK k : k = p.index + 1
  OBVIOUS
<1>6. k \in 1 .. Len(packets) /\ p = packets[k]
  BY <1>1, <1>2, <1>3, <1>5
<1>8. p.total = Total(p.seq) /\ p.type = frames[p.seq].type
  BY <1>2, <1>3, <1>4, <1>6
<1>9. p.total <= 1 => Len(packets) = 1 /\ k = 1
  <2>1. p.total = Len(packets)
    BY <1>4, <1>6
  <2>2. \A a \in Nat \ {0} : a <= 1 => a = 1 /\ \A b \in 1 .. a : b = 1
    OBVIOUS
  <2>3. Len(packets) \in Nat \ {0}
    BY <1>4
  <2> QED
    BY <1>6, <2>1, <2>2, <2>3
<1> QED
  BY <1>1, <1>3, <1>4, <1>6, <1>8, <1>9

-----------------------------------------------------------------------------
(* What the steps do to the frames and their packets.                      *)

(* What is a frame's stays so while no frame is sent.                      *)
LEMMA SameFrames ==
  ASSUME frames' = frames
  PROVE  /\ \A seq : /\ Total(seq)' = Total(seq) /\ PacketsOf(seq)' = PacketsOf(seq)
                     /\ (Fits(seq)' <=> Fits(seq))
         /\ \A p : Genuine(p)' <=> Genuine(p)
         /\ \A nal : Sound(nal)' <=> Sound(nal)
BY DEF Total, PacketsOf, Genuine, Fits, Sound, Whole

\* As long as nothing is sent or arrives, the same frames are full.
LEMMA SameArrivals ==
  ASSUME frames' = frames, arrived' = arrived
  PROVE  \A seq : Arrived(seq)' = Arrived(seq) /\ (Full(seq)' <=> Full(seq))
BY SameFrames DEF Arrived, Full

(* A new frame changes nothing for the earlier ones, and its packets are   *)
(* what SendFrame has to write; none of them has arrived.                  *)
LEMMA FrameSent ==
  ASSUME SenderInv, NEW kind \in Kinds, SendFrame(kind)
  PROVE  /\ Len(frames) \in Nat /\ Len(frames') = Len(frames) + 1
         /\ Len(frames') <= MaxFrames /\ frames' \in Seq(Kinds)
         /\ DOMAIN frames = 1 .. Len(frames) /\ DOMAIN frames' = 1 .. Len(frames) + 1
         /\ \A seq \in 1 .. Len(frames) :
               /\ frames'[seq] = frames[seq] /\ Total(seq)' = Total(seq)
               /\ PacketsOf(seq)' = PacketsOf(seq) /\ (Fits(seq)' <=> Fits(seq))
               /\ Arrived(seq)' = Arrived(seq) /\ (Full(seq)' <=> Full(seq))
         /\ \A seq : seq = Len(frames) + 1 => Total(seq)' \in Nat \ {0}
         /\ \A p : Genuine(p) => Genuine(p)'
         /\ outgoing' \in Seq(Packets)
         /\ \A k \in 1 .. Len(outgoing') :
               /\ Genuine(outgoing[k])'
               /\ outgoing'[k].seq = Len(frames) + 1
               /\ AllFit' => outgoing'[k].index = k - 1
<1>1. kind.len \in Nat /\ MaxFrames \in Nat
  BY UdpAssumption
<1>2. /\ frames' = Append(frames, kind) /\ Len(frames) < MaxFrames
      /\ outgoing' = SplitIntoPackets(Len(frames'), kind.type, Data(Len(frames'), kind.len))
      /\ arrived' = arrived
  BY DEF SendFrame, receiverVars
<1>3. frames \in Seq(Kinds)
  BY DEF SenderInv
<1>4. /\ Len(frames) \in Nat /\ Len(frames') = Len(frames) + 1 /\ frames' \in Seq(Kinds)
      /\ DOMAIN frames = 1 .. Len(frames) /\ DOMAIN frames' = 1 .. Len(frames) + 1
      /\ \A seq \in 1 .. Len(frames) : frames'[seq] = frames[seq]
      /\ frames'[Len(frames) + 1] = kind
  BY <1>2, <1>3, Appended
<1>5. \A seq \in 1 .. Len(frames) :
         /\ Total(seq)' = Total(seq) /\ PacketsOf(seq)' = PacketsOf(seq)
         /\ (Fits(seq)' <=> Fits(seq))
  BY <1>4 DEF Total, PacketsOf, Fits
<1>6. \A seq \in 1 .. Len(frames) :
         Arrived(seq)' = Arrived(seq) /\ (Full(seq)' <=> Full(seq))
  BY <1>2, <1>5 DEF Arrived, Full
<1>7. \A p : Genuine(p) => Genuine(p)'
  BY <1>4, <1>5 DEF Genuine
<1>8. PICK seq, data, packets :
         /\ seq = Len(frames) + 1 /\ data = Data(seq, kind.len)
         /\ packets = SplitIntoPackets(seq, kind.type, data)
  OBVIOUS
<1>9. seq \in 1 .. MaxFrames
  BY <1>1, <1>2, <1>4, <1>8
<1>10. packets \in Seq(Packets) /\ Len(packets) \in Nat \ {0}
  <2>1. Split(packets, seq, kind, data)
    BY <1>8, <1>9, SplitFacts
  <2> QED
    BY <2>1 DEF Split
<1>11. \A k \in 1 .. Len(packets) :
          /\ packets[k].seq = seq /\ packets[k].index \in 0 .. Len(packets) - 1
          /\ Fits(seq)' => packets[k].index = k - 1
  <2>1. Split(packets, seq, kind, data)
    BY <1>8, <1>9, SplitFacts
  <2>2. Fits(seq)' => PacketsFor(kind.len) < FragNumbers
    BY <1>4, <1>8 DEF Fits
  <2> QED
    BY <2>1, <2>2 DEF Split
<1>12. outgoing' = packets
  BY <1>2, <1>4, <1>8
<1>13. packets = PacketsOf(seq)' /\ Len(packets) = Total(seq)'
  BY <1>4, <1>8 DEF PacketsOf, Total
<1>14. ASSUME NEW k \in 1 .. Len(packets) PROVE Genuine(outgoing[k])'
  <2>1. PICK p : p = packets[k]
    OBVIOUS
  <2>2. /\ p.seq = seq /\ p.index \in 0 .. Len(packets) - 1
        /\ Fits(seq)' => p.index + 1 = k
    BY <1>10, <1>11, <2>1
  <2>3. /\ p.seq \in 1 .. Len(frames') /\ p.index \in 0 .. Total(p.seq)' - 1
        /\ Fits(p.seq)' => p = PacketsOf(p.seq)'[p.index + 1]
    BY <1>4, <1>8, <1>10, <1>13, <2>1, <2>2
  <2>4. Genuine(p)'
    BY <2>3 DEF Genuine
  <2> QED
    BY <1>12, <2>1, <2>4
<1>15. /\ outgoing' \in Seq(Packets)
       /\ \A k \in 1 .. Len(outgoing') :
             /\ Genuine(outgoing[k])'
             /\ outgoing'[k].seq = Len(frames) + 1
             /\ AllFit' => outgoing'[k].index = k - 1
  <2>1. AllFit' => Fits(seq)'
    BY <1>4, <1>8 DEF AllFit
  <2> QED
    BY <1>8, <1>10, <1>11, <1>12, <1>14, <2>1
<1>16. Len(frames') <= MaxFrames
  BY <1>1, <1>2, <1>4
<1>17. \A m : m = Len(frames) + 1 => Total(m)' \in Nat \ {0}
  BY <1>8, <1>10, <1>13
<1> QED
  BY <1>4, <1>5, <1>6, <1>7, <1>15, <1>16, <1>17

(* A packet that arrives is one of its frame's, and the only news.         *)
LEMMA PacketReceived ==
  ASSUME SenderInv, NetworkInv, NEW k \in DOMAIN network, Receive(k)
  PROVE  \E p : /\ p = network[k] /\ Genuine(p) /\ p \in Packets
                /\ p.seq \in 1 .. Len(frames) /\ p.index \in 0 .. Total(p.seq) - 1
                /\ p.total \in Nat /\ (Fits(p.seq) => p.total = Total(p.seq))
                /\ HandleSingle(p) \/ HandleFragment(p)
                /\ arrived' = arrived \cup {Place(p)}
                /\ \A seq : Arrived(seq)' =
                      IF seq = p.seq THEN Arrived(seq) \cup {p.index} ELSE Arrived(seq)
                /\ \A seq : seq # p.seq => (Full(seq)' <=> Full(seq))
                /\ frames' = frames /\ outgoing' = outgoing
                /\ k \in 1 .. Len(network) /\ network' = RemoveAt(network, k)
<1>1. k \in 1 .. Len(network)
  BY LenProperties DEF NetworkInv
<1>2. PICK p : p = network[k]
  OBVIOUS
<1>3. /\ HandleSingle(p) \/ HandleFragment(p)
      /\ arrived' = arrived \cup {Place(p)}
      /\ frames' = frames /\ outgoing' = outgoing /\ network' = RemoveAt(network, k)
  BY <1>2 DEF Receive, senderVars, Place
<1>4. Genuine(p)
  BY <1>1, <1>2 DEF NetworkInv
<1>5. /\ p.seq \in 1 .. Len(frames) /\ p.index \in 0 .. Total(p.seq) - 1
      /\ Fits(p.seq) => p.total = Total(p.seq)
  BY <1>4, PacketFacts DEF Genuine
<1>6. p \in Packets /\ p.total \in Nat
  <2>1. p \in Packets
    BY <1>1, <1>2, ElementOfSeq DEF NetworkInv
  <2> QED
    BY <2>1 DEF Packets
<1>7. ASSUME NEW seq
      PROVE  Arrived(seq)' =
                IF seq = p.seq THEN Arrived(seq) \cup {p.index} ELSE Arrived(seq)
  <2>1. Total(seq)' = Total(seq)
    BY <1>3, SameFrames
  <2>2. \A i : <<seq, i>> = <<p.seq, p.index>> <=> seq = p.seq /\ i = p.index
    OBVIOUS
  <2>3. \A i : <<seq, i>> \in arrived' <=>
                  <<seq, i>> \in arrived \/ (seq = p.seq /\ i = p.index)
    BY <1>3, <2>2 DEF Place
  <2>4. CASE seq = p.seq
    BY <1>5, <2>1, <2>3, <2>4 DEF Arrived
  <2>5. CASE seq # p.seq
    BY <2>1, <2>3, <2>5 DEF Arrived
  <2> QED
    BY <2>4, <2>5
<1>8. \A seq : seq # p.seq => (Full(seq)' <=> Full(seq))
  BY <1>3, <1>7, SameFrames DEF Full
<1> QED
  BY <1>1, <1>2, <1>3, <1>4, <1>5, <1>6, <1>7, <1>8

(* Counting the fragments finds out whether all of them are there.         *)
LEMMA CountingSuffices ==
  ASSUME NEW total \in Nat, NEW D \in SUBSET (0 .. total - 1)
  PROVE  /\ IsFiniteSet(D) /\ Cardinality(D) \in Nat /\ Cardinality(D) <= total
         /\ Cardinality(D) = total <=> D = 0 .. total - 1
<1>1. IsFiniteSet(0 .. total - 1) /\ Cardinality(0 .. total - 1) = total
  BY FS_Interval
<1>2. /\ IsFiniteSet(D) /\ Cardinality(D) <= total
      /\ total = Cardinality(D) => 0 .. total - 1 = D
  BY <1>1, FS_Subset
<1> QED
  BY <1>1, <1>2, FS_CardinalityType

\* A set that gains one member at most counts one more at most.
LEMMA GrowsByOne ==
  ASSUME NEW S, IsFiniteSet(S), NEW x, NEW T \in SUBSET (S \cup {x})
  PROVE  /\ Cardinality(S) \in Nat /\ Cardinality(T) \in Nat
         /\ Cardinality(T) <= Cardinality(S) + 1
         /\ T \subseteq S => Cardinality(T) <= Cardinality(S)
<1>1. /\ IsFiniteSet(S \cup {x}) /\ Cardinality(S) \in Nat /\ Cardinality(S \cup {x}) \in Nat
      /\ Cardinality(S \cup {x}) <= Cardinality(S) + 1
  <2>1. /\ IsFiniteSet(S \cup {x})
        /\ Cardinality(S \cup {x}) = IF x \in S THEN Cardinality(S) ELSE Cardinality(S) + 1
    BY FS_AddElement
  <2>2. Cardinality(S) \in Nat
    BY FS_CardinalityType
  <2> QED
    BY <2>1, <2>2
<1>2. IsFiniteSet(T) /\ Cardinality(T) <= Cardinality(S \cup {x})
  BY <1>1, FS_Subset
<1>3. T \subseteq S => Cardinality(T) <= Cardinality(S)
  BY FS_Subset
<1>4. Cardinality(T) \in Nat
  BY <1>2, FS_CardinalityType
<1> QED
  BY <1>1, <1>2, <1>3, <1>4

-----------------------------------------------------------------------------
(* What handlePacket does.                                                 *)

(* The fragments of its frame there are with p, and the whole NAL unit.    *)
Together(p) == DOMAIN FragmentsBefore(p) \cup {p.index}
All(seq) == 0 .. Total(seq) - 1

\* A frame of one packet is submitted as it was sent.
LEMMA SingleSubmits ==
  ASSUME SenderInv, NEW p, Genuine(p), Fits(p.seq), HandleSingle(p)
  PROVE  /\ Total(p.seq) = 1 /\ p.index = 0
         /\ submitted' = Append(submitted, Whole(p.seq))
         /\ UNCHANGED assemblyVars
<1>1. /\ p.seq \in 1 .. Len(frames) /\ p.index \in 0 .. Total(p.seq) - 1
      /\ p.total = Total(p.seq) /\ p.type = frames[p.seq].type
      /\ p.total <= 1 => p.payload = Data(p.seq, frames[p.seq].len)
  BY PacketFacts
<1>2. Total(p.seq) \in Nat \ {0}
  BY <1>1, FrameFacts
<1>3. p.total <= 1 /\ UNCHANGED assemblyVars
  BY DEF HandleSingle
<1>4. submitted' = Append(submitted, [seq |-> p.seq, type |-> p.type, data |-> p.payload])
  BY DEF HandleSingle, Submit
<1>5. \A n \in Nat \ {0} : n <= 1 => n = 1 /\ \A i \in 0 .. n - 1 : i = 0
  OBVIOUS
<1>6. Total(p.seq) = 1 /\ p.index = 0
  BY <1>1, <1>2, <1>3, <1>5
<1> QED
  BY <1>1, <1>3, <1>4, <1>6 DEF Whole

\* A fragment is put at its own place among those of its frame.
LEMMA FragmentsInPlace ==
  ASSUME SenderInv, AssemblyInv, NEW p, Genuine(p), Fits(p.seq), p.total > 1
  PROVE  /\ Together(p) \in SUBSET All(p.seq)
         /\ DOMAIN Put(FragmentsBefore(p), p.index, p.payload) = Together(p)
         /\ \A i \in Together(p) : Put(FragmentsBefore(p), p.index, p.payload)[i] =
                                      PacketsOf(p.seq)[i + 1].payload
<1>1. /\ p.seq \in 1 .. Len(frames) /\ p.index \in All(p.seq)
      /\ p.payload = PacketsOf(p.seq)[p.index + 1].payload
  BY PacketFacts DEF All
<1>2. /\ DOMAIN FragmentsBefore(p) \subseteq All(p.seq)
      /\ \A i \in DOMAIN FragmentsBefore(p) :
            FragmentsBefore(p)[i] = PacketsOf(p.seq)[i + 1].payload
  <2>1. CASE p.seq = currentSequence
    <3>1. /\ currentSequence # -1 /\ FragmentsBefore(p) = fragments
          /\ Fits(currentSequence)
      BY <1>1, <2>1, FrameFacts DEF FragmentsBefore
    <3> QED
      BY <2>1, <3>1 DEF AssemblyInv, Gathering, All
  <2>2. CASE p.seq # currentSequence
    <3>1. FragmentsBefore(p) = <<>> /\ DOMAIN FragmentsBefore(p) = {}
      BY <2>2 DEF FragmentsBefore
    <3> QED
      BY <3>1
  <2> QED
    BY <2>1, <2>2
<1> HIDE DEF FragmentsBefore, All
<1> QED
  BY <1>1, <1>2 DEF Together, Put

(* A fragment completes the NAL unit, or it is kept with the others; the   *)
(* completed one has no gap and is the one sent.                           *)
LEMMA FragmentEffect ==
  ASSUME SenderInv, AssemblyInv, NEW p, Genuine(p), Fits(p.seq), HandleFragment(p)
  PROVE  /\ p.total > 1 /\ currentSequence' = p.seq /\ expectedFragTotal' = Total(p.seq)
         /\ currentType' = frames[p.seq].type
         /\ dropCount' = dropCount + (IF DropsCurrent(p) THEN 1 ELSE 0)
         /\ Together(p) = All(p.seq) =>
               fragments' = <<>> /\ submitted' = Append(submitted, Whole(p.seq))
         /\ Together(p) # All(p.seq) =>
               /\ DOMAIN fragments' = Together(p) /\ submitted' = submitted
               /\ \A i \in Together(p) : fragments'[i] = PacketsOf(p.seq)[i + 1].payload
<1>1. /\ p.seq \in 1 .. Len(frames) /\ p.total = Total(p.seq) /\ p.type = frames[p.seq].type
      /\ Total(p.seq) \in Nat
  BY PacketFacts, FrameFacts
<1>2. p.total > 1
  BY DEF HandleFragment
<1>3. PICK total, type, frags :
         /\ total = IF p.seq # currentSequence THEN p.total ELSE expectedFragTotal
         /\ type = IF p.seq # currentSequence THEN p.type ELSE currentType
         /\ frags = Put(FragmentsBefore(p), p.index, p.payload)
  OBVIOUS
<1>4. total = Total(p.seq) /\ type = frames[p.seq].type
  <2>1. p.seq # -1
    BY <1>1
  <2>2. p.seq = currentSequence => Gathering
    BY <2>1 DEF AssemblyInv
  <2> QED
    BY <1>1, <1>3, <2>2 DEF Gathering
<1>5. /\ DOMAIN frags = Together(p) /\ Together(p) \in SUBSET (0 .. total - 1)
      /\ All(p.seq) = 0 .. total - 1
      /\ \A i \in Together(p) : frags[i] = PacketsOf(p.seq)[i + 1].payload
  BY <1>2, <1>3, <1>4, FragmentsInPlace DEF All
<1>6. AllThere(frags, total) <=> DOMAIN frags = 0 .. total - 1
  BY <1>1, <1>4, <1>5, CountingSuffices DEF AllThere
<1>7. PICK drops :
         /\ drops = (IF DropsCurrent(p) THEN 1 ELSE 0)
                      + (IF AllThere(frags, total) /\ \E i \in 0 .. total - 1 : i \notin DOMAIN frags
                         THEN 1 ELSE 0)
         /\ dropCount' = dropCount + drops
  BY <1>3 DEF HandleFragment
<1>8. /\ currentSequence' = p.seq /\ currentType' = type /\ expectedFragTotal' = total
      /\ fragments' = IF AllThere(frags, total) THEN <<>> ELSE frags
  BY <1>3 DEF HandleFragment, ClearAfterSubmit
<1>9. IF AllThere(frags, total) /\ ~ \E i \in 0 .. total - 1 : i \notin DOMAIN frags
      THEN submitted' = Append(submitted,
              [seq |-> p.seq, type |-> type,
               data |-> FlattenSeq([k \in 1 .. total |-> frags[k - 1]])])
      ELSE submitted' = submitted
  BY <1>3 DEF HandleFragment, Submit
<1>10. drops = IF DropsCurrent(p) THEN 1 ELSE 0
  <2>1. ~(AllThere(frags, total) /\ \E i \in 0 .. total - 1 : i \notin DOMAIN frags)
    BY <1>6
  <2> QED
    BY <1>7, <2>1
<1>11. ASSUME Together(p) = All(p.seq)
       PROVE  FlattenSeq([k \in 1 .. total |-> frags[k - 1]]) = Data(p.seq, frames[p.seq].len)
  <2>1. PICK seq, kind, data, packets :
           /\ seq = p.seq /\ kind = frames[p.seq] /\ data = Data(seq, kind.len)
           /\ packets = SplitIntoPackets(seq, kind.type, data) /\ packets = PacketsOf(p.seq)
    BY DEF PacketsOf
  <2>2. seq \in 1 .. MaxFrames /\ kind \in Kinds /\ Len(packets) = total
    BY <1>1, <1>4, <2>1, FrameFacts
  <2>3. Split(packets, seq, kind, data)
    BY <2>1, <2>2, SplitFacts
  <2>4. FlattenSeq([k \in 1 .. total |-> packets[k].payload]) = data
    BY <1>1, <1>2, <1>4, <2>2, <2>3 DEF Split
  <2>5. \A k \in 1 .. total : frags[k - 1] = packets[k].payload
    <3> TAKE k \in 1 .. total
    <3>1. k - 1 \in 0 .. total - 1 /\ (k - 1) + 1 = k
      BY <1>1, <1>4
    <3>2. frags[k - 1] = PacketsOf(p.seq)[(k - 1) + 1].payload
      BY <1>5, <1>11, <3>1
    <3> QED
      BY <2>1, <3>1, <3>2
  <2>6. [k \in 1 .. total |-> frags[k - 1]] = [k \in 1 .. total |-> packets[k].payload]
    BY <2>5
  <2> QED
    BY <2>1, <2>4, <2>6
<1>12. ASSUME Together(p) = All(p.seq)
       PROVE  fragments' = <<>> /\ submitted' = Append(submitted, Whole(p.seq))
  <2>1. AllThere(frags, total) /\ ~ \E i \in 0 .. total - 1 : i \notin DOMAIN frags
    BY <1>5, <1>6, <1>12
  <2>2. submitted' = Append(submitted, [seq |-> p.seq, type |-> type,
                                        data |-> Data(p.seq, frames[p.seq].len)])
    BY <1>9, <1>11, <1>12, <2>1
  <2> QED
    BY <1>4, <1>8, <2>1, <2>2 DEF Whole
<1>13. ASSUME Together(p) # All(p.seq)
       PROVE  fragments' = frags /\ submitted' = submitted
  BY <1>5, <1>6, <1>8, <1>9, <1>13
<1> QED
  BY <1>2, <1>4, <1>5, <1>7, <1>8, <1>10, <1>12, <1>13

\* However its packets are numbered, a frame put together is never complete.
LEMMA FragmentSizes ==
  ASSUME SenderInv, AssemblyInv, NEW p, Genuine(p), p.total \in Nat, HandleFragment(p)
  PROVE  /\ currentSequence' = p.seq /\ expectedFragTotal' \in Nat /\ expectedFragTotal' > 1
         /\ IsFiniteSet(DOMAIN fragments')
         /\ Cardinality(DOMAIN fragments') < expectedFragTotal'
         /\ dropCount' \in Nat
<1>1. PICK total, frags, drops :
         /\ total = IF p.seq # currentSequence THEN p.total ELSE expectedFragTotal
         /\ frags = Put(FragmentsBefore(p), p.index, p.payload)
         /\ currentSequence' = p.seq /\ expectedFragTotal' = total
         /\ fragments' = IF AllThere(frags, total) THEN <<>> ELSE frags
         /\ drops = (IF DropsCurrent(p) THEN 1 ELSE 0)
                      + (IF /\ AllThere(frags, total)
                            /\ \E i \in 0 .. total - 1 : i \notin DOMAIN frags
                         THEN 1 ELSE 0)
         /\ dropCount' = dropCount + drops
  BY DEF HandleFragment, ClearAfterSubmit
<1>2. p.seq # -1 /\ p.total > 1
  BY FrameFacts DEF Genuine, HandleFragment
<1>3. total \in Nat /\ total > 1
  BY <1>1, <1>2 DEF AssemblyInv
<1>4. PICK before : before = DOMAIN FragmentsBefore(p)
  OBVIOUS
<1>5. IsFiniteSet(before) /\ Cardinality(before) < total
  <2>1. CASE p.seq = currentSequence
    BY <1>1, <1>2, <1>4, <2>1 DEF AssemblyInv, FragmentsBefore
  <2>2. CASE p.seq # currentSequence
    <3>1. before = {}
      BY <1>4, <2>2 DEF FragmentsBefore
    <3> QED
      BY <1>3, <3>1, FS_EmptySet
  <2> QED
    BY <2>1, <2>2
<1>6. PICK held : held = DOMAIN frags
  OBVIOUS
<1>7. held = before \cup {p.index}
  BY <1>1, <1>4, <1>6 DEF Put
<1>8. /\ Cardinality(before) \in Nat /\ Cardinality(held) \in Nat
      /\ Cardinality(held) <= Cardinality(before) + 1
  <2>1. held \in SUBSET (before \cup {p.index})
    BY <1>7
  <2> QED
    BY <1>5, <2>1, GrowsByOne
<1>9. IsFiniteSet(held)
  BY <1>5, <1>7, FS_AddElement
<1>10. IsFiniteSet(DOMAIN fragments') /\ Cardinality(DOMAIN fragments') < total
  <2>1. CASE AllThere(frags, total)
    <3>1. DOMAIN fragments' = {}
      BY <1>1, <2>1
    <3> QED
      BY <1>3, <3>1, FS_EmptySet
  <2>2. CASE ~AllThere(frags, total)
    <3>1. DOMAIN fragments' = held /\ Cardinality(held) # total
      BY <1>1, <1>6, <2>2 DEF AllThere
    <3> QED
      BY <1>3, <1>5, <1>8, <1>9, <3>1
  <2> QED
    BY <2>1, <2>2
<1>11. dropCount' \in Nat
  BY <1>1 DEF AssemblyInv
<1> QED
  BY <1>1, <1>3, <1>10, <1>11

-----------------------------------------------------------------------------
(* The parts of the invariant, step by step.                               *)

(* The other steps leave the frames and the receiver alone.                *)
LEMMA QuietSteps ==
  ASSUME [Next]_vars
  PROVE  \/ \E kind \in Kinds : SendFrame(kind)
         \/ \E k \in DOMAIN network : Receive(k)
         \/ frames' = frames /\ UNCHANGED receiverVars
BY StepCases DEF vars, senderVars, WritePacket, WriteFails, Lose, Duplicate

(* A network that has copied or reordered a packet has done it for good,   *)
(* and a frame of too many packets stays among the frames sent.            *)
LEMMA OrderlyWas ==
  ASSUME SenderInv, NetworkInv, [Next]_vars, Orderly'
  PROVE  Orderly
<1>1. MaxDuplicated \in Nat /\ MaxReordered \in Nat
  BY UdpAssumption
<1>2. duplicated \in Nat /\ reordered \in Nat
  BY <1>1 DEF NetworkInv
<1>3. duplicated' \in {duplicated, duplicated + 1} /\ reordered' \in {reordered, reordered + 1}
  BY StepCases
     DEF vars, networkVars, SendFrame, WritePacket, WriteFails, Lose, Duplicate, Receive
<1>4. Fifo
  BY <1>2, <1>3 DEF Orderly, Fifo
<1>5. ASSUME NEW kind \in Kinds, SendFrame(kind) PROVE AllFit
  <2>1. /\ Len(frames) \in Nat /\ DOMAIN frames = 1 .. Len(frames)
        /\ DOMAIN frames' = 1 .. Len(frames) + 1
        /\ \A seq \in 1 .. Len(frames) : Fits(seq)' <=> Fits(seq)
    BY <1>5, FrameSent
  <2>2. \A seq \in DOMAIN frames' : Fits(seq)'
    BY DEF Orderly, AllFit
  <2> QED
    BY <2>1, <2>2 DEF AllFit
<1>6. CASE frames' = frames
  BY <1>4, <1>6 DEF Orderly, AllFit, Fits
<1>7. frames' = frames \/ \E kind \in Kinds : SendFrame(kind)
  BY QuietSteps DEF Receive, senderVars
<1> QED
  BY <1>4, <1>5, <1>6, <1>7 DEF Orderly

(* Then every frame that is sent can be numbered.                          *)
LEMMA OrderlyFits ==
  ASSUME SenderInv, Orderly
  PROVE  \A seq \in 1 .. Len(frames) : Fits(seq)
BY FrameFacts DEF Orderly, AllFit

\* What SendFrame has still to write are packets of frames it was given.
LEMMA SenderStep ==
  ASSUME SenderInv, NetworkInv, [Next]_vars
  PROVE  SenderInv'
<1>1. ASSUME NEW kind \in Kinds, SendFrame(kind) PROVE SenderInv'
  BY <1>1, FrameSent DEF SenderInv
<1>2. CASE WritePacket
  <2>1. outgoing # <<>> /\ outgoing' = Tail(outgoing) /\ frames' = frames
    BY <1>2 DEF WritePacket
  <2>2. /\ Tail(outgoing) \in Seq(Packets) /\ Len(Tail(outgoing)) = Len(outgoing) - 1
        /\ Len(outgoing) \in Nat \ {0}
        /\ \A k \in 1 .. Len(outgoing) - 1 : Tail(outgoing)[k] = outgoing[k + 1]
    BY <2>1, Dropped DEF SenderInv
  <2>3. ASSUME NEW k \in 1 .. Len(outgoing') PROVE Genuine(outgoing[k])'
    <3>1. k + 1 \in 1 .. Len(outgoing) /\ outgoing'[k] = outgoing[k + 1]
      BY <2>1, <2>2
    <3>2. Genuine(outgoing[k + 1])
      BY <3>1 DEF SenderInv
    <3>3. PICK p : p = outgoing[k + 1] /\ Genuine(p)
      BY <3>2
    <3>4. Genuine(p)'
      BY <2>1, <3>3, SameFrames
    <3> QED
      BY <3>1, <3>3, <3>4
  <2> QED
    BY <2>1, <2>2, <2>3 DEF SenderInv
<1>3. CASE WriteFails
  BY <1>3 DEF WriteFails, SenderInv
<1>4. CASE frames' = frames /\ outgoing' = outgoing
  BY <1>4, SameFrames DEF SenderInv
<1> QED
  BY StepCases, <1>1, <1>2, <1>3, <1>4
     DEF vars, senderVars, Lose, Duplicate, Receive

\* What is on the way, or has arrived, was sent.
LEMMA NetworkStep ==
  ASSUME SenderInv, NetworkInv, [Next]_vars
  PROVE  NetworkInv'
<1> DEFINE Queue == network \in Seq(Packets) /\ \A k \in 1 .. Len(network) : Genuine(network[k])
           Counts == /\ lost \in 0 .. MaxLost /\ duplicated \in 0 .. MaxDuplicated
                     /\ reordered \in 0 .. MaxReordered
           Known == \A a \in arrived : a \in (1 .. Len(frames)) \X Nat /\ a[2] < Total(a[1])
<1>1. Queue /\ Counts /\ Known
  BY DEF NetworkInv
<1>2. Len(frames) \in Nat /\ \A seq \in 1 .. Len(frames) : Total(seq) \in Nat
  BY FrameFacts
<1>3. Counts'
  <2>1. MaxLost \in Nat /\ MaxDuplicated \in Nat /\ MaxReordered \in Nat
    BY UdpAssumption
  <2>2. lost' = lost \/ (lost < MaxLost /\ lost' = lost + 1)
    BY StepCases
       DEF vars, networkVars, SendFrame, WritePacket, WriteFails, Lose, Duplicate,
           Receive
  <2>3. duplicated' = duplicated \/ (duplicated < MaxDuplicated /\ duplicated' = duplicated + 1)
    BY StepCases
       DEF vars, networkVars, SendFrame, WritePacket, WriteFails, Lose, Duplicate,
           Receive
  <2>4. reordered' = reordered \/ (reordered < MaxReordered /\ reordered' = reordered + 1)
    BY StepCases
       DEF vars, networkVars, SendFrame, WritePacket, WriteFails, Lose, Duplicate,
           Receive
  <2> QED
    BY <1>1, <2>1, <2>2, <2>3, <2>4
<1>4. Known'
  <2>1. ASSUME NEW kind \in Kinds, SendFrame(kind) PROVE Known'
    <3>1. arrived' = arrived
      BY <2>1 DEF SendFrame, receiverVars
    <3>2. /\ Len(frames') = Len(frames) + 1
          /\ \A seq \in 1 .. Len(frames) : Total(seq)' = Total(seq)
      BY <2>1, FrameSent
    <3>3. ASSUME NEW a \in arrived'
          PROVE  a \in (1 .. Len(frames')) \X Nat /\ a[2] < Total(a[1])'
      <4>1. a \in (1 .. Len(frames)) \X Nat /\ a[2] < Total(a[1])
        BY <1>1, <3>1
      <4>2. PICK n \in 1 .. Len(frames), i \in Nat : a = <<n, i>>
        BY <4>1
      <4> QED
        BY <1>2, <3>2, <4>1, <4>2
    <3> QED
      BY <3>3
  <2>2. ASSUME NEW k \in DOMAIN network, Receive(k) PROVE Known'
    <3>1. PICK p : /\ Genuine(p) /\ p \in Packets /\ p.seq \in 1 .. Len(frames)
                   /\ p.index \in 0 .. Total(p.seq) - 1
                   /\ arrived' = arrived \cup {Place(p)} /\ frames' = frames
      BY <2>2, PacketReceived
    <3>2. \A seq : Total(seq)' = Total(seq)
      BY <3>1, SameFrames
    <3>3. Place(p) \in (1 .. Len(frames)) \X Nat /\ Place(p)[2] < Total(Place(p)[1])
      BY <1>2, <3>1 DEF Place
    <3> QED
      BY <1>1, <3>1, <3>2, <3>3
  <2>3. CASE frames' = frames /\ UNCHANGED receiverVars
    BY <1>1, <2>3, SameFrames DEF receiverVars
  <2> QED
    BY QuietSteps, <2>1, <2>2, <2>3
<1>5. Queue'
  <2>1. ASSUME NEW kind \in Kinds, SendFrame(kind) PROVE Queue'
    <3>1. network' = network
      BY <2>1 DEF SendFrame, networkVars
    <3> QED
      BY <1>1, <2>1, <3>1, FrameSent
  <2>2. CASE WritePacket
    <3>1. /\ outgoing # <<>> /\ network' = Append(network, Head(outgoing)) /\ frames' = frames
      BY <2>2 DEF WritePacket
    <3>2. PICK p : p = Head(outgoing)
      OBVIOUS
    <3>3. p \in Packets /\ p = outgoing[1] /\ 1 \in 1 .. Len(outgoing)
      BY <3>1, <3>2, Dropped DEF SenderInv
    <3>4. Genuine(p)
      BY <3>3 DEF SenderInv
    <3>5. PICK q : q = network'
      OBVIOUS
    <3>6. /\ q \in Seq(Packets) /\ Len(q) = Len(network) + 1 /\ Len(network) \in Nat
          /\ \A k \in 1 .. Len(network) : q[k] = network[k]
          /\ q[Len(network) + 1] = p
      BY <1>1, <3>1, <3>2, <3>3, <3>5, Appended
    <3>7. \A k \in 1 .. Len(q) : Genuine(q[k])
      BY <1>1, <3>4, <3>6
    <3>8. \A k \in 1 .. Len(q) : Genuine(q[k])'
      BY <3>1, <3>7, SameFrames
    <3> QED
      BY <3>5, <3>6, <3>8
  <2>3. ASSUME NEW k \in DOMAIN network, Lose(k) \/ Receive(k) PROVE Queue'
    <3>1. network' = RemoveAt(network, k) /\ frames' = frames
      BY <2>3 DEF Lose, Receive, senderVars
    <3>2. PICK q : q = network'
      OBVIOUS
    <3>3. k \in 1 .. Len(network)
      BY <1>1, LenProperties
    <3>4. /\ q \in Seq(Packets) /\ Len(q) = Len(network) - 1 /\ Len(network) \in Nat
          /\ \A j \in 1 .. Len(network) - 1 : q[j] = network[IF j < k THEN j ELSE j + 1]
      BY <1>1, <3>1, <3>2, <3>3, Removed
    <3>5. ASSUME NEW j \in 1 .. Len(q) PROVE Genuine(q[j])
      <4>1. PICK i : i = IF j < k THEN j ELSE j + 1
        OBVIOUS
      <4>2. j \in 1 .. Len(network) - 1
        BY <3>4
      <4>3. q[j] = network[i]
        BY <3>4, <4>1, <4>2
      <4>4. i \in 1 .. Len(network)
        BY <3>3, <3>4, <4>1, <4>2
      <4> QED
        BY <1>1, <4>3, <4>4
    <3>6. \A j \in 1 .. Len(q) : Genuine(q[j])'
      BY <3>1, <3>5, SameFrames
    <3> QED
      BY <3>2, <3>4, <3>6
  <2>4. ASSUME NEW k \in DOMAIN network, Duplicate(k) PROVE Queue'
    <3>1. network' = InsertAt(network, k, network[k]) /\ frames' = frames
      BY <2>4 DEF Duplicate, senderVars
    <3>2. PICK q : q = network'
      OBVIOUS
    <3>3. k \in 1 .. Len(network)
      BY <1>1, LenProperties
    <3>4. /\ q \in Seq(Packets)
          /\ \A j \in 1 .. Len(q) : \E i \in 1 .. Len(network) : q[j] = network[i]
      <4>1. network \in Seq(Packets)
        BY <1>1
      <4>2. InsertAt(network, k, network[k]) \in Seq(Packets)
        BY <3>3, <4>1, Inserted
      <4>3. Copied(InsertAt(network, k, network[k]), network)
        BY <3>3, <4>1, Inserted
      <4>4. Copied(q, network)
        BY <3>1, <3>2, <4>3
      <4> QED
        BY <3>1, <3>2, <4>2, <4>4 DEF Copied
    <3>5. \A j \in 1 .. Len(q) : Genuine(q[j])
      BY <1>1, <3>4
    <3>6. \A j \in 1 .. Len(q) : Genuine(q[j])'
      BY <3>1, <3>5, SameFrames
    <3> QED
      BY <3>2, <3>4, <3>6
  <2>5. CASE network' = network /\ frames' = frames
    BY <1>1, <2>5, SameFrames
  <2> QED
    BY StepCases, <2>1, <2>2, <2>3, <2>4, <2>5
       DEF vars, networkVars, senderVars, WriteFails
<1> QED
  BY <1>3, <1>4, <1>5 DEF NetworkInv

\* The fragments stay fragments of the current frame.
LEMMA AssemblyStep ==
  ASSUME SenderInv, NetworkInv, AssemblyInv, [Next]_vars
  PROVE  AssemblyInv'
<1>1. ASSUME NEW kind \in Kinds, SendFrame(kind) PROVE AssemblyInv'
  <2>1. UNCHANGED assemblyVars
    BY <1>1 DEF SendFrame, receiverVars
  <2>2. /\ Len(frames) \in Nat /\ Len(frames') = Len(frames) + 1
        /\ \A seq \in 1 .. Len(frames) :
              /\ frames'[seq] = frames[seq] /\ Total(seq)' = Total(seq)
              /\ PacketsOf(seq)' = PacketsOf(seq) /\ (Fits(seq)' <=> Fits(seq))
    BY <1>1, FrameSent
  <2>3. currentSequence # -1 =>
           currentSequence \in 1 .. Len(frames) /\ currentSequence \in 1 .. Len(frames')
    BY <2>2 DEF AssemblyInv
  <2>4. PICK n : n = currentSequence
    OBVIOUS
  <2>5. n # -1 => /\ Total(n)' = Total(n) /\ PacketsOf(n)' = PacketsOf(n)
                  /\ frames'[n] = frames[n] /\ (Fits(n)' <=> Fits(n))
    BY <2>2, <2>3, <2>4
  <2>6. n = currentSequence'
    BY <2>1, <2>4 DEF assemblyVars
  <2>7. n # -1 => /\ Total(currentSequence)' = Total(currentSequence)
                  /\ PacketsOf(currentSequence)' = PacketsOf(currentSequence)
                  /\ (Fits(currentSequence)' <=> Fits(currentSequence))
    BY <2>4, <2>5, <2>6 DEF Total, PacketsOf, Fits
  <2>8. n # -1 /\ Fits(n) => Gathering'
    <3> SUFFICES ASSUME n # -1, Fits(n) PROVE Gathering'
      OBVIOUS
    <3>1. Gathering
      BY <2>4 DEF AssemblyInv
    <3> QED
      BY <2>1, <2>4, <2>5, <2>7, <3>1 DEF Gathering, assemblyVars
  <2> QED
    BY <2>1, <2>3, <2>4, <2>5, <2>7, <2>8 DEF AssemblyInv, assemblyVars
<1>2. ASSUME NEW k \in DOMAIN network, Receive(k) PROVE AssemblyInv'
  <2>1. PICK p : /\ Genuine(p) /\ p.seq \in 1 .. Len(frames) /\ p.total \in Nat
                 /\ Total(p.seq) \in Nat \ {0} /\ frames' = frames
                 /\ HandleSingle(p) \/ HandleFragment(p)
    BY <1>2, PacketReceived, FrameFacts
  <2>2. CASE HandleSingle(p)
    <3>1. UNCHANGED assemblyVars
      BY <2>2 DEF HandleSingle
    <3> QED
      BY <2>1, <3>1 DEF AssemblyInv, Gathering, assemblyVars, Total, PacketsOf, Fits
  <2>3. ASSUME HandleFragment(p), Fits(p.seq) PROVE Gathering'
    <3>1. /\ p.total > 1 /\ currentSequence' = p.seq /\ expectedFragTotal' = Total(p.seq)
          /\ currentType' = frames[p.seq].type
          /\ dropCount' = dropCount + (IF DropsCurrent(p) THEN 1 ELSE 0)
      BY <2>1, <2>3, FragmentEffect
    <3>2. /\ Together(p) = All(p.seq) => fragments' = <<>>
          /\ Together(p) # All(p.seq) =>
                /\ DOMAIN fragments' = Together(p)
                /\ \A i \in Together(p) : fragments'[i] = PacketsOf(p.seq)[i + 1].payload
      BY <2>1, <2>3, FragmentEffect
    <3>3. Together(p) \subseteq All(p.seq) /\ All(p.seq) # {}
      <4>1. Together(p) \in SUBSET All(p.seq)
        BY <2>1, <2>3, <3>1, FragmentsInPlace
      <4>2. 0 \in All(p.seq)
        BY <2>1 DEF All
      <4> QED
        BY <4>1, <4>2
    <3>4. /\ DOMAIN fragments' \subseteq All(p.seq) /\ DOMAIN fragments' # All(p.seq)
          /\ \A i \in DOMAIN fragments' : fragments'[i] = PacketsOf(p.seq)[i + 1].payload
      <4>1. CASE Together(p) = All(p.seq)
        <5>1. DOMAIN fragments' = {}
          BY <3>2, <4>1
        <5> QED
          BY <3>3, <5>1
      <4>2. CASE Together(p) # All(p.seq)
        BY <3>2, <3>3, <4>2
      <4> QED
        BY <4>1, <4>2
    <3>5. /\ Total(currentSequence)' = Total(p.seq)
          /\ PacketsOf(currentSequence)' = PacketsOf(p.seq)
      BY <2>1, <3>1 DEF Total, PacketsOf
    <3> QED
      BY <2>1, <3>1, <3>4, <3>5 DEF Gathering, All
  <2>4. CASE HandleFragment(p)
    <3>1. /\ currentSequence' = p.seq /\ expectedFragTotal' \in Nat /\ expectedFragTotal' > 1
          /\ IsFiniteSet(DOMAIN fragments')
          /\ Cardinality(DOMAIN fragments') < expectedFragTotal' /\ dropCount' \in Nat
      BY <2>1, <2>4, FragmentSizes
    <3>2. p.seq # -1
      BY <2>1, FrameFacts
    <3>3. Fits(currentSequence)' <=> Fits(p.seq)
      BY <2>1, <3>1 DEF Fits
    <3> QED
      BY <2>1, <2>3, <2>4, <3>1, <3>2, <3>3 DEF AssemblyInv
  <2> QED
    BY <2>1, <2>2, <2>4
<1>3. CASE frames' = frames /\ UNCHANGED receiverVars
  BY <1>3 DEF AssemblyInv, Gathering, receiverVars, assemblyVars, Total, PacketsOf, Fits
<1> QED
  BY QuietSteps, <1>1, <1>2, <1>3

(* A packet that arrives submits a NAL unit of its frame or nothing: the   *)
(* one sent, when the packets could be numbered.                           *)
LEMMA Submission ==
  ASSUME SenderInv, AssemblyInv, NEW p, Genuine(p), HandleSingle(p) \/ HandleFragment(p)
  PROVE  \/ submitted' = submitted
         \/ \E nal : submitted' = Append(submitted, nal) /\ Sound(nal)
<1>1. p.seq \in 1 .. Len(frames)
  BY DEF Genuine
<1>2. \/ submitted' = submitted
      \/ \E nal : submitted' = Append(submitted, nal) /\ nal.seq = p.seq
  BY DEF HandleSingle, HandleFragment, Submit
<1>3. CASE ~Fits(p.seq)
  <2>1. \A nal : nal.seq = p.seq => Sound(nal)
    BY <1>1, <1>3 DEF Sound
  <2> QED
    BY <1>2, <2>1
<1>4. CASE Fits(p.seq)
  <2>1. PICK nal : nal = Whole(p.seq)
    OBVIOUS
  <2>2. Sound(nal)
    BY <1>1, <2>1 DEF Sound, Whole
  <2>3. submitted' = submitted \/ submitted' = Append(submitted, nal)
    <3>1. CASE HandleSingle(p)
      BY <1>4, <2>1, <3>1, SingleSubmits
    <3>2. CASE HandleFragment(p) /\ Together(p) = All(p.seq)
      BY <1>4, <2>1, <3>2, FragmentEffect
    <3>3. CASE HandleFragment(p) /\ Together(p) # All(p.seq)
      BY <1>4, <3>3, FragmentEffect
    <3> QED
      BY <3>1, <3>2, <3>3
  <2> QED
    BY <2>2, <2>3
<1> QED
  BY <1>3, <1>4

\* What Append does to the NAL units submitted, whatever they are.
LEMMA SubmittedMore ==
  ASSUME NEW S, submitted \in Seq(S), NEW nal, submitted' = Append(submitted, nal)
  PROVE  /\ submitted' \in Seq(S \cup {nal})
         /\ Len(submitted) \in Nat /\ DOMAIN submitted = 1 .. Len(submitted)
         /\ DOMAIN submitted' = 1 .. Len(submitted) + 1
         /\ Len(submitted') = Len(submitted) + 1
         /\ \A k \in 1 .. Len(submitted) : submitted'[k] = submitted[k]
         /\ submitted'[Len(submitted) + 1] = nal
<1>1. PICK T : T = S \cup {nal}
  OBVIOUS
<1>2. submitted \in Seq(T)
  <2>1. /\ Len(submitted) \in Nat /\ submitted = [k \in 1 .. Len(submitted) |-> submitted[k]]
        /\ \A k \in 1 .. Len(submitted) : submitted[k] \in T
    BY <1>1, LenProperties, ElementOfSeq
  <2> QED
    BY <2>1
<1>3. nal \in T
  BY <1>1
<1>4. PICK s, t : s = submitted /\ t = submitted'
  OBVIOUS
<1>5. /\ t \in Seq(T) /\ Len(t) = Len(s) + 1 /\ Len(s) \in Nat
      /\ DOMAIN s = 1 .. Len(s) /\ DOMAIN t = 1 .. Len(s) + 1
      /\ \A k \in 1 .. Len(s) : t[k] = s[k]
      /\ t[Len(s) + 1] = nal
  BY <1>2, <1>3, <1>4, Appended
<1> QED
  BY <1>1, <1>4, <1>5

\* What is submitted is a frame as it was sent, if it could be numbered.
LEMMA SubmittedStep ==
  ASSUME SenderInv, NetworkInv, AssemblyInv, SubmittedInv, [Next]_vars
  PROVE  SubmittedInv'
<1>1. PICK S : submitted \in Seq(S)
  BY DEF SubmittedInv
<1>2. \A k \in DOMAIN submitted : Sound(submitted[k])
  BY DEF SubmittedInv
<1>3. CASE submitted' = submitted /\ \A nal : Sound(nal) => Sound(nal)'
  <2>1. submitted' \in Seq(S)
    BY <1>1, <1>3
  <2>2. ASSUME NEW k \in DOMAIN submitted' PROVE Sound(submitted[k])'
    <3>1. PICK nal : nal = submitted[k] /\ Sound(nal)
      BY <1>2, <1>3, <2>2
    <3>2. Sound(nal)' /\ nal = submitted'[k]
      BY <1>3, <3>1
    <3> QED
      BY <3>2
  <2> QED
    BY <2>1, <2>2 DEF SubmittedInv
<1>4. ASSUME NEW kind \in Kinds, SendFrame(kind) PROVE SubmittedInv'
  <2>1. submitted' = submitted
    BY <1>4 DEF SendFrame, receiverVars
  <2>2. /\ Len(frames) \in Nat /\ Len(frames') = Len(frames) + 1
        /\ \A seq \in 1 .. Len(frames) : frames'[seq] = frames[seq] /\ (Fits(seq)' <=> Fits(seq))
    BY <1>4, FrameSent
  <2>3. ASSUME NEW nal, Sound(nal) PROVE Sound(nal)'
    <3>1. nal.seq \in 1 .. Len(frames) /\ nal.seq \in 1 .. Len(frames')
      BY <2>2, <2>3 DEF Sound
    <3>2. Whole(nal.seq)' = Whole(nal.seq) /\ (Fits(nal.seq)' <=> Fits(nal.seq))
      BY <2>2, <3>1 DEF Whole
    <3> QED
      BY <2>3, <3>1, <3>2 DEF Sound
  <2> QED
    BY <1>3, <2>1, <2>3
<1>5. ASSUME NEW k \in DOMAIN network, Receive(k) PROVE SubmittedInv'
  <2>1. PICK p : /\ Genuine(p) /\ frames' = frames
                 /\ HandleSingle(p) \/ HandleFragment(p)
    BY <1>5, PacketReceived
  <2>2. \A nal : Sound(nal)' <=> Sound(nal)
    BY <2>1, SameFrames
  <2>3. CASE submitted' = submitted
    BY <1>3, <2>2, <2>3
  <2>4. ASSUME NEW nal, submitted' = Append(submitted, nal), Sound(nal) PROVE SubmittedInv'
    <3>1. /\ submitted' \in Seq(S \cup {nal})
          /\ Len(submitted) \in Nat /\ DOMAIN submitted = 1 .. Len(submitted)
          /\ DOMAIN submitted' = 1 .. Len(submitted) + 1
          /\ \A j \in 1 .. Len(submitted) : submitted'[j] = submitted[j]
          /\ submitted'[Len(submitted) + 1] = nal
      BY <1>1, <2>4, SubmittedMore
    <3>2. ASSUME NEW j \in DOMAIN submitted' PROVE Sound(submitted[j])'
      <4>1. j = Len(submitted) + 1 \/ j \in DOMAIN submitted
        BY <3>1
      <4>2. PICK w : w = submitted'[j]
        OBVIOUS
      <4>3. Sound(w)
        BY <1>2, <2>4, <3>1, <4>1, <4>2
      <4>4. Sound(w)'
        BY <2>2, <4>3
      <4> QED
        BY <4>2, <4>4
    <3> QED
      BY <3>1, <3>2 DEF SubmittedInv
  <2> QED
    BY <2>1, <2>3, <2>4, Submission
<1>6. CASE frames' = frames /\ UNCHANGED receiverVars
  BY <1>3, <1>6, SameFrames DEF receiverVars
<1> QED
  BY QuietSteps, <1>4, <1>5, <1>6

-----------------------------------------------------------------------------
(* On a network that keeps the order and makes no copies.                  *)

\* Without reordering, packets arrive in the order they were sent.
LEMMA OrderStep ==
  ASSUME SenderInv, NetworkInv, OrderInv, [Next]_vars
  PROVE  OrderInv'
<1> SUFFICES ASSUME Orderly' PROVE InOrder'
  BY DEF OrderInv
<1>1. InOrder
  BY OrderlyWas DEF OrderInv
<1>2. /\ network \in Seq(Packets) /\ outgoing \in Seq(Packets)
      /\ Len(network) \in Nat /\ Len(outgoing) \in Nat
  BY LenProperties DEF NetworkInv, SenderInv
<1>3. ASSUME NEW kind \in Kinds, SendFrame(kind) PROVE InOrder'
  <2>1. network' = network /\ arrived' = arrived
    BY <1>3 DEF SendFrame, networkVars, receiverVars
  <2>2. PICK out : out = outgoing'
    OBVIOUS
  <2>3. /\ Len(frames) \in Nat /\ out \in Seq(Packets) /\ Len(out) \in Nat
        /\ \A k \in 1 .. Len(out) : Place(out[k]) = <<Len(frames) + 1, k - 1>>
    BY <1>3, <2>2, FrameSent, LenProperties DEF Place, Orderly
  <2>4. Ordered(out)
    BY <2>3 DEF Ordered, Earlier
  <2>5. ASSUME NEW j \in 1 .. Len(network), NEW k \in 1 .. Len(out)
        PROVE  Earlier(Place(network[j]), Place(out[k]))
    <3>1. PICK p : p = network[j] /\ Genuine(p)
      BY DEF NetworkInv
    <3>2. p.seq \in 1 .. Len(frames)
      BY <3>1 DEF Genuine
    <3> QED
      BY <2>3, <3>1, <3>2 DEF Place, Earlier
  <2>6. ASSUME NEW a \in arrived, NEW k \in 1 .. Len(out)
        PROVE  Earlier(a, Place(out[k]))
    <3>1. a[1] \in 1 .. Len(frames)
      BY DEF NetworkInv
    <3> QED
      BY <2>3, <3>1 DEF Earlier
  <2> QED
    BY <1>1, <2>1, <2>2, <2>4, <2>5, <2>6 DEF InOrder
<1>4. CASE WritePacket
  <2>1. /\ outgoing # <<>> /\ network' = Append(network, Head(outgoing))
        /\ outgoing' = Tail(outgoing) /\ arrived' = arrived
    BY <1>4 DEF WritePacket, receiverVars
  <2>2. PICK q, r : q = network' /\ r = outgoing'
    OBVIOUS
  <2>3. /\ Len(r) = Len(outgoing) - 1 /\ Len(outgoing) \in Nat \ {0}
        /\ \A k \in 1 .. Len(outgoing) - 1 : r[k] = outgoing[k + 1]
        /\ Head(outgoing) = outgoing[1] /\ Head(outgoing) \in Packets
    BY <1>2, <2>1, <2>2, Dropped
  <2>4. /\ Len(q) = Len(network) + 1
        /\ \A k \in 1 .. Len(network) : q[k] = network[k]
        /\ q[Len(network) + 1] = outgoing[1]
    BY <1>2, <2>1, <2>2, <2>3, Appended
  <2>5. \A k \in 1 .. Len(r) : k + 1 \in 1 .. Len(outgoing) /\ r[k] = outgoing[k + 1]
    BY <2>3
  <2>6. 1 \in 1 .. Len(outgoing)
    BY <2>3
  <2>7. Ordered(r)
    <3>1. \A j, k \in 1 .. Len(r) : j < k => j + 1 < k + 1
      BY <2>3
    <3> QED
      BY <1>1, <2>5, <3>1 DEF Ordered, InOrder
  <2>8. Ordered(q)
    <3> SUFFICES ASSUME NEW j \in 1 .. Len(q), NEW k \in 1 .. Len(q), j < k
                 PROVE  Earlier(Place(q[j]), Place(q[k]))
      BY DEF Ordered
    <3>1. j \in 1 .. Len(network)
      BY <1>2, <2>4
    <3>2. CASE k \in 1 .. Len(network)
      BY <1>1, <2>4, <3>1, <3>2 DEF Ordered, InOrder
    <3>3. CASE k = Len(network) + 1
      BY <1>1, <2>4, <2>6, <3>1, <3>3 DEF InOrder
    <3> QED
      BY <1>2, <2>4, <3>2, <3>3
  <2>9. ASSUME NEW j \in 1 .. Len(q), NEW k \in 1 .. Len(r)
        PROVE  Earlier(Place(q[j]), Place(r[k]))
    <3>1. CASE j \in 1 .. Len(network)
      BY <1>1, <2>4, <2>5, <3>1 DEF InOrder
    <3>2. CASE j = Len(network) + 1
      <4>1. 1 < k + 1
        BY <2>3
      <4> QED
        BY <1>1, <2>4, <2>5, <2>6, <3>2, <4>1 DEF InOrder, Ordered
    <3> QED
      BY <1>2, <2>4, <3>1, <3>2
  <2>10. ASSUME NEW a \in arrived, NEW j \in 1 .. Len(q)
         PROVE  Earlier(a, Place(q[j]))
    <3>1. CASE j \in 1 .. Len(network)
      BY <1>1, <2>4, <3>1 DEF InOrder
    <3>2. CASE j = Len(network) + 1
      BY <1>1, <2>4, <2>6, <3>2 DEF InOrder
    <3> QED
      BY <1>2, <2>4, <3>1, <3>2
  <2>11. ASSUME NEW a \in arrived, NEW k \in 1 .. Len(r)
         PROVE  Earlier(a, Place(r[k]))
    BY <1>1, <2>5 DEF InOrder
  <2> QED
    BY <2>1, <2>2, <2>7, <2>8, <2>9, <2>10, <2>11 DEF InOrder
<1>5. CASE WriteFails
  BY <1>1, <1>5 DEF WriteFails, receiverVars, InOrder, Ordered
<1>6. ASSUME NEW k \in DOMAIN network, Lose(k) PROVE InOrder'
  <2>1. network' = RemoveAt(network, k) /\ outgoing' = outgoing /\ arrived' = arrived
    BY <1>6 DEF Lose, senderVars, receiverVars
  <2>2. PICK q : q = network'
    OBVIOUS
  <2>3. k \in 1 .. Len(network)
    BY <1>2
  <2>4. /\ Len(q) = Len(network) - 1
        /\ \A j \in 1 .. Len(network) - 1 : q[j] = network[IF j < k THEN j ELSE j + 1]
    BY <1>2, <2>1, <2>2, <2>3, Removed
  <2> DEFINE before(j) == IF j < k THEN j ELSE j + 1
  <2>5. ASSUME NEW j \in 1 .. Len(q)
        PROVE  before(j) \in 1 .. Len(network) /\ q[j] = network[before(j)]
    BY <1>2, <2>4
  <2>6. \A i, j \in 1 .. Len(q) : i < j => before(i) < before(j)
    BY <1>2, <2>4
  <2> HIDE DEF before
  <2>7. Ordered(q)
    BY <1>1, <2>5, <2>6 DEF InOrder, Ordered
  <2>8. /\ \A i \in 1 .. Len(q), j \in 1 .. Len(outgoing) :
              Earlier(Place(q[i]), Place(outgoing[j]))
        /\ \A a \in arrived, j \in 1 .. Len(q) : Earlier(a, Place(q[j]))
    BY <1>1, <2>5 DEF InOrder
  <2> QED
    BY <1>1, <2>1, <2>2, <2>7, <2>8 DEF InOrder
<1>7. ASSUME NEW k \in DOMAIN network, Duplicate(k) PROVE FALSE
  <2>1. duplicated \in Nat /\ duplicated' = duplicated + 1
    BY <1>7, UdpAssumption DEF Duplicate, NetworkInv
  <2> QED
    BY <2>1 DEF Orderly, Fifo
<1>8. ASSUME NEW k \in DOMAIN network, Receive(k) PROVE InOrder'
  <2>1. k = 1
    <3>1. reordered \in Nat /\ reordered' = IF k = 1 THEN reordered ELSE reordered + 1
      BY <1>8, UdpAssumption DEF Receive, NetworkInv
    <3> QED
      BY <3>1 DEF Orderly, Fifo
  <2>2. /\ network' = RemoveAt(network, 1) /\ outgoing' = outgoing
        /\ arrived' = arrived \cup {Place(network[1])}
    BY <1>8, <2>1 DEF Receive, senderVars, Place
  <2>3. PICK q : q = network'
    OBVIOUS
  <2>4. 1 \in 1 .. Len(network)
    BY <1>2, <2>1
  <2>5. /\ Len(q) = Len(network) - 1
        /\ \A j \in 1 .. Len(network) - 1 : q[j] = network[IF j < 1 THEN j ELSE j + 1]
    BY <1>2, <2>2, <2>3, <2>4, Removed
  <2>6. ASSUME NEW j \in 1 .. Len(q)
        PROVE  j + 1 \in 1 .. Len(network) /\ q[j] = network[j + 1] /\ 1 < j + 1
    BY <1>2, <2>5
  <2>7. \A i, j \in 1 .. Len(q) : i < j => i + 1 < j + 1
    BY <1>2, <2>5
  <2>8. Ordered(q)
    BY <1>1, <2>6, <2>7 DEF InOrder, Ordered
  <2>9. ASSUME NEW a \in arrived', NEW j \in 1 .. Len(q)
        PROVE  Earlier(a, Place(q[j]))
    BY <1>1, <2>2, <2>4, <2>6 DEF InOrder, Ordered
  <2>10. ASSUME NEW a \in arrived', NEW j \in 1 .. Len(outgoing)
         PROVE  Earlier(a, Place(outgoing[j]))
    BY <1>1, <2>2, <2>4 DEF InOrder
  <2>11. ASSUME NEW i \in 1 .. Len(q), NEW j \in 1 .. Len(outgoing)
         PROVE  Earlier(Place(q[i]), Place(outgoing[j]))
    BY <1>1, <2>6 DEF InOrder
  <2> QED
    BY <1>1, <2>2, <2>3, <2>8, <2>9, <2>10, <2>11 DEF InOrder
<1>9. CASE UNCHANGED vars
  BY <1>1, <1>9 DEF vars, senderVars, networkVars, receiverVars, InOrder, Ordered
<1> QED
  BY StepCases, <1>3, <1>4, <1>5, <1>6, <1>7, <1>8, <1>9

(* A packet that arrives is new, and later than all that have arrived.     *)
LEMMA LaterArrival ==
  ASSUME SenderInv, NetworkInv, InOrder, NEW k \in 1 .. Len(network), NEW p,
         p = network[k]
  PROVE  /\ p.index \notin Arrived(p.seq) /\ ~Full(p.seq)
         /\ \A seq \in 1 .. Len(frames) : Arrived(seq) # {} => seq <= p.seq
<1>1. Genuine(p)
  BY DEF NetworkInv
<1>2. /\ p.seq \in 1 .. Len(frames) /\ p.index \in 0 .. Total(p.seq) - 1
      /\ Total(p.seq) \in Nat \ {0} /\ Len(frames) \in Nat
  BY <1>1, FrameFacts DEF Genuine
<1>3. \A a \in arrived : Earlier(a, <<p.seq, p.index>>)
  BY DEF InOrder, Place
<1>4. \A n, i : <<n, i>> \in arrived => n < p.seq \/ (n = p.seq /\ i < p.index)
  BY <1>3 DEF Earlier
<1>5. <<p.seq, p.index>> \notin arrived
  BY <1>2, <1>4
<1>6. p.index \notin Arrived(p.seq)
  BY <1>5 DEF Arrived
<1>7. ASSUME NEW seq \in 1 .. Len(frames), Arrived(seq) # {} PROVE seq <= p.seq
  <2>1. PICK i : <<seq, i>> \in arrived
    BY <1>7 DEF Arrived
  <2>2. seq < p.seq \/ seq = p.seq
    BY <1>4, <2>1
  <2> QED
    BY <1>2, <2>2
<1> QED
  BY <1>2, <1>6, <1>7 DEF Full

(* So the fragments together with it are what has arrived of its frame.    *)
LEMMA Gathered ==
  ASSUME SenderInv, NetworkInv, AssemblyInv, Orderly, InOrder, Current,
         NEW k \in 1 .. Len(network), NEW p, p = network[k], HandleFragment(p)
  PROVE  Together(p) = Arrived(p.seq) \cup {p.index}
<1>1. Genuine(p)
  BY DEF NetworkInv
<1>2. p.seq \in 1 .. Len(frames) /\ Len(frames) \in Nat /\ Total(p.seq) > 1
  <2>1. p.seq \in 1 .. Len(frames)
    BY <1>1 DEF Genuine
  <2>2. Fits(p.seq)
    BY <2>1, OrderlyFits
  <2>3. p.total = Total(p.seq) /\ p.total > 1
    BY <1>1, <2>2, PacketFacts DEF HandleFragment
  <2> QED
    BY <2>1, <2>3, FrameFacts
<1>3. /\ p.index \notin Arrived(p.seq) /\ ~Full(p.seq)
      /\ \A seq \in 1 .. Len(frames) : Arrived(seq) # {} => seq <= p.seq
  BY LaterArrival
<1>4. CASE p.seq = currentSequence
  <2>1. currentSequence # -1 /\ ~Full(currentSequence)
    BY <1>2, <1>3, <1>4
  <2>2. DOMAIN fragments = Arrived(currentSequence)
    BY <2>1 DEF Current
  <2> QED
    BY <1>4, <2>2 DEF Together, FragmentsBefore
<1>5. CASE p.seq # currentSequence
  <2>1. Arrived(p.seq) = {}
    <3> SUFFICES ASSUME Arrived(p.seq) # {} PROVE FALSE
      OBVIOUS
    <3>1. p.seq <= currentSequence
      BY <1>2 DEF Current
    <3>2. currentSequence # -1
      BY <1>2, <3>1
    <3>3. currentSequence \in 1 .. Len(frames) /\ Arrived(currentSequence) # {}
      BY <3>2 DEF AssemblyInv, Current
    <3>4. currentSequence <= p.seq
      BY <1>3, <3>3
    <3> QED
      BY <1>2, <1>5, <3>1, <3>3, <3>4
  <2>2. DOMAIN FragmentsBefore(p) = {}
    BY <1>5 DEF FragmentsBefore
  <2> QED
    BY <2>1, <2>2 DEF Together
<1> QED
  BY <1>4, <1>5

(* A packet that arrives submits its frame exactly when it was the last    *)
(* one missing.                                                            *)
LEMMA Outcome ==
  ASSUME SenderInv, NetworkInv, AssemblyInv, Orderly, InOrder, Current,
         NEW k \in DOMAIN network, Receive(k)
  PROVE  \E p : /\ p.seq \in 1 .. Len(frames) /\ frames' = frames /\ Total(p.seq) \in Nat \ {0}
                /\ Arrived(p.seq)' = Arrived(p.seq) \cup {p.index}
                /\ \A seq : seq # p.seq =>
                      Arrived(seq)' = Arrived(seq) /\ (Full(seq)' <=> Full(seq))
                /\ ~Full(p.seq)
                /\ \A seq \in 1 .. Len(frames) : Arrived(seq) # {} => seq <= p.seq
                /\ Full(p.seq)' => submitted' = Append(submitted, Whole(p.seq))
                /\ ~Full(p.seq)' => submitted' = submitted
                /\ \/ Total(p.seq) = 1 /\ Full(p.seq)' /\ UNCHANGED assemblyVars
                   \/ /\ Total(p.seq) > 1 /\ currentSequence' = p.seq
                      /\ dropCount' = dropCount + (IF DropsCurrent(p) THEN 1 ELSE 0)
                      /\ DOMAIN fragments' = IF Full(p.seq)' THEN {} ELSE Arrived(p.seq)'
<1>1. PICK p : /\ p = network[k] /\ Genuine(p) /\ k \in 1 .. Len(network)
               /\ p.seq \in 1 .. Len(frames) /\ p.index \in 0 .. Total(p.seq) - 1
               /\ p.total = Total(p.seq) /\ Total(p.seq) \in Nat \ {0} /\ frames' = frames
               /\ (HandleSingle(p) \/ HandleFragment(p)) /\ Fits(p.seq)
               /\ \A seq : Arrived(seq)' =
                     IF seq = p.seq THEN Arrived(seq) \cup {p.index} ELSE Arrived(seq)
               /\ \A seq : seq # p.seq => (Full(seq)' <=> Full(seq))
  BY PacketReceived, FrameFacts, OrderlyFits
<1>2. /\ ~Full(p.seq)
      /\ \A seq \in 1 .. Len(frames) : Arrived(seq) # {} => seq <= p.seq
  BY <1>1, LaterArrival
<1>3. Full(p.seq)' <=> Arrived(p.seq) \cup {p.index} = All(p.seq)
  BY <1>1, SameFrames DEF Full, All
<1> DEFINE Submits == /\ Full(p.seq)' => submitted' = Append(submitted, Whole(p.seq))
                      /\ ~Full(p.seq)' => submitted' = submitted
           Single == Total(p.seq) = 1 /\ Full(p.seq)' /\ UNCHANGED assemblyVars
           Part == /\ Total(p.seq) > 1 /\ currentSequence' = p.seq
                   /\ dropCount' = dropCount + (IF DropsCurrent(p) THEN 1 ELSE 0)
                   /\ DOMAIN fragments' = IF Full(p.seq)' THEN {} ELSE Arrived(p.seq)'
<1>4. ASSUME HandleSingle(p) PROVE Submits /\ (Single \/ Part)
  <2>1. /\ Total(p.seq) = 1 /\ p.index = 0 /\ UNCHANGED assemblyVars
        /\ submitted' = Append(submitted, Whole(p.seq))
    BY <1>1, <1>4, SingleSubmits
  <2>2. All(p.seq) = {0} /\ Arrived(p.seq) \subseteq {0}
    BY <2>1 DEF All, Arrived
  <2>3. Full(p.seq)'
    BY <1>3, <2>1, <2>2
  <2> QED
    BY <2>1, <2>3
<1>5. ASSUME HandleFragment(p) PROVE Submits /\ (Single \/ Part)
  <2>1. Together(p) = Arrived(p.seq) \cup {p.index}
    BY <1>1, <1>5, Gathered
  <2>2. Together(p) = All(p.seq) <=> Full(p.seq)'
    BY <1>3, <2>1
  <2>3. /\ p.total > 1 /\ currentSequence' = p.seq
        /\ dropCount' = dropCount + (IF DropsCurrent(p) THEN 1 ELSE 0)
    BY <1>1, <1>5, FragmentEffect
  <2>4. /\ Together(p) = All(p.seq) =>
              fragments' = <<>> /\ submitted' = Append(submitted, Whole(p.seq))
        /\ Together(p) # All(p.seq) =>
              DOMAIN fragments' = Together(p) /\ submitted' = submitted
    BY <1>1, <1>5, FragmentEffect
  <2>5. Submits
    BY <2>2, <2>4
  <2>6. DOMAIN fragments' = IF Full(p.seq)' THEN {} ELSE Arrived(p.seq)'
    <3>1. Arrived(p.seq)' = Together(p)
      BY <1>1, <2>1
    <3>2. DOMAIN <<>> = {}
      OBVIOUS
    <3> QED
      BY <2>2, <2>4, <3>1, <3>2
  <2> QED
    BY <1>1, <2>3, <2>5, <2>6
<1>6. Submits /\ (Single \/ Part)
  BY <1>1, <1>4, <1>5
<1>7. /\ Arrived(p.seq)' = Arrived(p.seq) \cup {p.index}
      /\ \A seq : seq # p.seq => Arrived(seq)' = Arrived(seq)
  BY <1>1
<1> HIDE DEF Submits, Single, Part
<1>8. /\ p.seq \in 1 .. Len(frames) /\ frames' = frames /\ Total(p.seq) \in Nat \ {0}
      /\ Arrived(p.seq)' = Arrived(p.seq) \cup {p.index}
      /\ \A seq : seq # p.seq => Arrived(seq)' = Arrived(seq) /\ (Full(seq)' <=> Full(seq))
      /\ ~Full(p.seq)
      /\ \A seq \in 1 .. Len(frames) : Arrived(seq) # {} => seq <= p.seq
      /\ Submits /\ (Single \/ Part)
  BY <1>1, <1>2, <1>6, <1>7
<1> USE DEF Submits, Single, Part
<1> QED
  BY <1>8

\* Without reordering, the current frame is the last that has fragments.
LEMMA CurrentStep ==
  ASSUME SenderInv, NetworkInv, AssemblyInv, OrderInv, CurrentInv, [Next]_vars
  PROVE  CurrentInv'
<1> SUFFICES ASSUME Orderly' PROVE Current'
  BY DEF CurrentInv
<1>1. Current /\ InOrder
  BY OrderlyWas DEF OrderInv, CurrentInv
<1>2. /\ Len(frames) \in Nat /\ \A seq \in 1 .. Len(frames) : Total(seq) \in Nat \ {0}
      /\ currentSequence \in {-1} \cup 1 .. Len(frames)
  BY FrameFacts DEF AssemblyInv
<1> DEFINE Begun(n) == \A seq \in 1 .. Len(frames) :
                          Total(seq) > 1 /\ Arrived(seq) # {} => seq <= n
           Held(n) == n # -1 =>
                        /\ Arrived(n) # {}
                        /\ DOMAIN fragments = IF Full(n) THEN {} ELSE Arrived(n)
<1>3. ASSUME NEW kind \in Kinds, SendFrame(kind) PROVE Current'
  <2>1. UNCHANGED <<arrived, assemblyVars>>
    BY <1>3 DEF SendFrame, receiverVars
  <2>2. /\ Len(frames') = Len(frames) + 1
        /\ \A seq \in 1 .. Len(frames) :
              /\ Total(seq)' = Total(seq) /\ Arrived(seq)' = Arrived(seq)
              /\ (Full(seq)' <=> Full(seq))
    BY <1>3, FrameSent
  <2> PICK m : m = Len(frames) + 1
    OBVIOUS
  <2>3. Arrived(m)' = {}
    <3>1. ASSUME NEW i, <<m, i>> \in arrived PROVE FALSE
      <4>1. m \in 1 .. Len(frames)
        BY <3>1 DEF NetworkInv
      <4> QED
        BY <1>2, <4>1
    <3> QED
      BY <2>1, <3>1 DEF Arrived
  <2>4. PICK n : n = currentSequence /\ n = currentSequence'
    BY <2>1 DEF assemblyVars
  <2>5. ASSUME NEW seq \in 1 .. Len(frames'), Total(seq)' > 1, Arrived(seq)' # {}
        PROVE  seq <= n
    <3>1. seq # m
      BY <2>3, <2>5
    <3>2. seq \in 1 .. Len(frames)
      BY <1>2, <2>2, <3>1
    <3> QED
      BY <1>1, <2>2, <2>4, <2>5, <3>2 DEF Current
  <2>6. n # -1 => /\ Arrived(n)' # {}
                  /\ DOMAIN fragments' = IF Full(n)' THEN {} ELSE Arrived(n)'
    BY <1>1, <1>2, <2>1, <2>2, <2>4 DEF Current, assemblyVars
  <2>7. Arrived(currentSequence)' = Arrived(n)' /\ (Full(currentSequence)' <=> Full(n)')
    BY <2>4 DEF Arrived, Full, Total
  <2> QED
    BY <2>4, <2>5, <2>6, <2>7 DEF Current
<1>4. ASSUME NEW k \in DOMAIN network, Receive(k) PROVE Current'
  <2>1. PICK p :
           /\ p.seq \in 1 .. Len(frames) /\ frames' = frames /\ Total(p.seq) \in Nat \ {0}
           /\ Arrived(p.seq)' = Arrived(p.seq) \cup {p.index}
           /\ \A seq : seq # p.seq => Arrived(seq)' = Arrived(seq) /\ (Full(seq)' <=> Full(seq))
           /\ \A seq \in 1 .. Len(frames) : Arrived(seq) # {} => seq <= p.seq
           /\ \/ Total(p.seq) = 1 /\ UNCHANGED assemblyVars
              \/ /\ Total(p.seq) > 1 /\ currentSequence' = p.seq
                 /\ DOMAIN fragments' = IF Full(p.seq)' THEN {} ELSE Arrived(p.seq)'
    BY <1>1, <1>4, OrderlyWas, Outcome
  <2>2. \A seq : Total(seq)' = Total(seq)
    BY <2>1, SameFrames
  <2>3. PICK n : n = currentSequence'
    OBVIOUS
  <2>4. Arrived(currentSequence)' = Arrived(n)' /\ (Full(currentSequence)' <=> Full(n)')
    BY <2>3 DEF Arrived, Full, Total
  <2>5. CASE Total(p.seq) = 1 /\ UNCHANGED assemblyVars
    <3>1. n = currentSequence /\ (n # -1 => n # p.seq)
      <4>1. n = currentSequence
        BY <2>3, <2>5 DEF assemblyVars
      <4>2. currentSequence # -1 => Fits(currentSequence)
        BY <1>1, <1>2, OrderlyWas, OrderlyFits
      <4>3. currentSequence # -1 => Total(currentSequence) > 1
        BY <4>2 DEF AssemblyInv, Gathering
      <4> QED
        BY <2>5, <4>1, <4>3
    <3>2. \A seq \in 1 .. Len(frames') : Total(seq)' > 1 /\ Arrived(seq)' # {} => seq <= n
      <4> TAKE seq \in 1 .. Len(frames')
      <4>1. seq \in 1 .. Len(frames)
        BY <2>1
      <4>2. CASE seq = p.seq
        BY <2>2, <2>5, <4>2
      <4>3. CASE seq # p.seq
        BY <1>1, <2>1, <2>2, <3>1, <4>1, <4>3 DEF Current
      <4> QED
        BY <4>2, <4>3
    <3>3. n # -1 => /\ Arrived(n)' # {}
                    /\ DOMAIN fragments' = IF Full(n)' THEN {} ELSE Arrived(n)'
      BY <1>1, <2>1, <2>5, <3>1 DEF Current, assemblyVars
    <3> QED
      BY <2>3, <2>4, <3>2, <3>3 DEF Current
  <2>6. CASE /\ Total(p.seq) > 1 /\ currentSequence' = p.seq
             /\ DOMAIN fragments' = IF Full(p.seq)' THEN {} ELSE Arrived(p.seq)'
    <3>1. n = p.seq
      BY <2>3, <2>6
    <3>2. \A seq \in 1 .. Len(frames') : Total(seq)' > 1 /\ Arrived(seq)' # {} => seq <= n
      <4> TAKE seq \in 1 .. Len(frames')
      <4>1. CASE seq = p.seq
        BY <1>2, <2>1, <3>1, <4>1
      <4>2. CASE seq # p.seq
        BY <2>1, <3>1, <4>2
      <4> QED
        BY <4>1, <4>2
    <3>3. Arrived(n)' # {}
      BY <2>1, <3>1
    <3> QED
      BY <2>3, <2>4, <2>6, <3>1, <3>2, <3>3 DEF Current
  <2> QED
    BY <2>1, <2>5, <2>6
<1>5. CASE frames' = frames /\ UNCHANGED receiverVars
  BY <1>1, <1>5 DEF Current, receiverVars, assemblyVars, Arrived, Full, Total
<1> QED
  BY QuietSteps, <1>3, <1>4, <1>5

\* Without reordering, the full frames are submitted in order and once.
LEMMA DeliveryStep ==
  ASSUME SenderInv, NetworkInv, AssemblyInv, SubmittedInv, OrderInv, CurrentInv,
         DeliveryInv,
         [Next]_vars
  PROVE  DeliveryInv'
<1> SUFFICES ASSUME Orderly' PROVE Delivered'
  BY DEF DeliveryInv
<1>1. Current /\ InOrder /\ Delivered
  BY OrderlyWas DEF OrderInv, CurrentInv, DeliveryInv
<1>2. /\ Len(frames) \in Nat /\ Len(submitted) \in Nat /\ DOMAIN submitted = 1 .. Len(submitted)
      /\ \A k \in 1 .. Len(submitted) : submitted[k].seq \in 1 .. Len(frames)
  <2>1. PICK S : submitted \in Seq(S)
    BY DEF SubmittedInv
  <2>2. Len(submitted) \in Nat /\ DOMAIN submitted = 1 .. Len(submitted)
    BY <2>1, LenProperties
  <2> QED
    BY <2>2, FrameFacts DEF SubmittedInv, Sound
<1>3. ASSUME NEW kind \in Kinds, SendFrame(kind) PROVE Delivered'
  <2>1. submitted' = submitted /\ arrived' = arrived
    BY <1>3 DEF SendFrame, receiverVars
  <2>2. /\ Len(frames') = Len(frames) + 1
        /\ \A seq \in 1 .. Len(frames) : Full(seq)' <=> Full(seq)
    BY <1>3, FrameSent
  <2>3. PICK m : m = Len(frames) + 1
    OBVIOUS
  <2>4. ~Full(m)'
    <3>1. ASSUME NEW i, <<m, i>> \in arrived PROVE FALSE
      <4>1. m \in 1 .. Len(frames)
        BY <3>1 DEF NetworkInv
      <4> QED
        BY <1>2, <2>3, <4>1
    <3>2. Arrived(m)' = {}
      BY <2>1, <3>1 DEF Arrived
    <3>3. Total(m)' \in Nat \ {0}
      BY <1>3, <2>3, FrameSent
    <3>4. 0 \in 0 .. Total(m)' - 1
      BY <3>3
    <3> QED
      BY <3>2, <3>4 DEF Full
  <2>5. \A seq \in 1 .. Len(frames') : Full(seq)' => seq \in 1 .. Len(frames)
    BY <1>2, <2>2, <2>3, <2>4
  <2>6. \A k \in 1 .. Len(submitted) : \A seq : seq = submitted[k].seq => Full(seq)'
    BY <1>1, <1>2, <2>2 DEF Delivered
  <2>7. ASSUME NEW k \in 1 .. Len(submitted) PROVE Full(submitted[k].seq)'
    <3>1. PICK seq : seq = submitted[k].seq /\ Full(seq)'
      BY <2>6
    <3>2. seq = submitted'[k].seq
      BY <2>1, <3>1
    <3> QED
      BY <3>1, <3>2 DEF Full, Arrived, Total
  <2> QED
    BY <1>1, <1>2, <2>1, <2>2, <2>5, <2>7 DEF Delivered
<1>4. ASSUME NEW k \in DOMAIN network, Receive(k) PROVE Delivered'
  <2>1. PICK p :
           /\ p.seq \in 1 .. Len(frames) /\ frames' = frames
           /\ Arrived(p.seq)' = Arrived(p.seq) \cup {p.index}
           /\ \A seq : seq # p.seq => Arrived(seq)' = Arrived(seq) /\ (Full(seq)' <=> Full(seq))
           /\ ~Full(p.seq)
           /\ \A seq \in 1 .. Len(frames) : Arrived(seq) # {} => seq <= p.seq
           /\ Full(p.seq)' => submitted' = Append(submitted, Whole(p.seq))
           /\ ~Full(p.seq)' => submitted' = submitted
    BY <1>1, <1>4, OrderlyWas, Outcome
  <2>2. \A j \in 1 .. Len(submitted) : submitted[j].seq # p.seq
    BY <1>1, <1>2, <2>1 DEF Delivered
  <2>3. ASSUME NEW j \in 1 .. Len(submitted) PROVE submitted[j].seq < p.seq
    <3>1. PICK seq : seq = submitted[j].seq /\ seq \in 1 .. Len(frames) /\ seq # p.seq
      BY <1>2, <2>2
    <3>2. Full(seq) /\ Total(seq) \in Nat \ {0}
      BY <1>1, <1>2, <3>1, FrameFacts DEF Delivered
    <3>3. 0 \in Arrived(seq)
      BY <3>2 DEF Full
    <3>4. seq <= p.seq
      BY <2>1, <3>1, <3>3
    <3> QED
      BY <1>2, <2>1, <3>1, <3>4
  <2>4. PICK s : s = submitted'
    OBVIOUS
  <2>5. ASSUME NEW j \in DOMAIN s, NEW seq, seq = s[j].seq, Full(seq)'
        PROVE  Full(submitted[j].seq)'
    BY <2>4, <2>5 DEF Full, Arrived, Total
  <2>6. CASE Full(p.seq)'
    <3>1. s = Append(submitted, Whole(p.seq))
      BY <2>1, <2>4, <2>6
    <3>2. /\ Len(s) = Len(submitted) + 1 /\ DOMAIN s = 1 .. Len(submitted) + 1
          /\ \A j \in 1 .. Len(submitted) : s[j] = submitted[j]
          /\ s[Len(submitted) + 1] = Whole(p.seq)
      <4>1. PICK S : submitted \in Seq(S)
        BY DEF SubmittedInv
      <4>2. PICK nal : nal = Whole(p.seq) /\ submitted' = Append(submitted, nal)
        BY <2>4, <3>1
      <4> QED
        BY <2>4, <4>1, <4>2, SubmittedMore
    <3>3. s[Len(submitted) + 1].seq = p.seq
      BY <3>2 DEF Whole
    <3>4. \A i, j \in DOMAIN s : i < j => s[i].seq < s[j].seq
      <4> TAKE i, j \in DOMAIN s
      <4> HAVE i < j
      <4>1. CASE j \in 1 .. Len(submitted)
        <5>1. i \in 1 .. Len(submitted)
          BY <1>2, <3>2, <4>1
        <5> QED
          BY <1>1, <1>2, <3>2, <4>1, <5>1 DEF Delivered
      <4>2. CASE j = Len(submitted) + 1
        <5>1. i \in 1 .. Len(submitted)
          BY <1>2, <3>2, <4>2
        <5> QED
          BY <2>3, <3>2, <3>3, <4>2, <5>1
      <4> QED
        BY <1>2, <3>2, <4>1, <4>2
    <3>5. \A j \in DOMAIN s : \A seq : seq = s[j].seq => Full(seq)'
      <4> TAKE j \in DOMAIN s
      <4> TAKE seq
      <4> HAVE seq = s[j].seq
      <4>1. CASE j \in 1 .. Len(submitted)
        <5>1. seq = submitted[j].seq /\ seq # p.seq /\ Full(seq)
          BY <1>1, <1>2, <2>2, <3>2, <4>1 DEF Delivered
        <5> QED
          BY <2>1, <5>1
      <4>2. CASE j = Len(submitted) + 1
        BY <2>6, <3>3, <4>2
      <4> QED
        BY <1>2, <3>2, <4>1, <4>2
    <3>6. ASSUME NEW seq \in 1 .. Len(frames), Full(seq)'
          PROVE  \E j \in DOMAIN s : s[j].seq = seq
      <4>1. CASE seq = p.seq
        <5>1. Len(submitted) + 1 \in DOMAIN s
          BY <1>2, <3>2
        <5> QED
          BY <3>3, <4>1, <5>1
      <4>2. CASE seq # p.seq
        <5>1. PICK j \in 1 .. Len(submitted) : submitted[j].seq = seq
          BY <1>1, <1>2, <2>1, <3>6, <4>2 DEF Delivered
        <5>2. j \in DOMAIN s
          BY <1>2, <3>2
        <5> QED
          BY <3>2, <5>1, <5>2
      <4> QED
        BY <4>1, <4>2
    <3> QED
      BY <2>1, <2>4, <2>5, <3>4, <3>5, <3>6 DEF Delivered
  <2>7. CASE ~Full(p.seq)'
    <3>1. s = submitted
      BY <2>1, <2>4, <2>7
    <3>2. \A j \in DOMAIN s : \A seq : seq = s[j].seq => Full(seq)'
      BY <1>1, <1>2, <2>1, <2>2, <3>1 DEF Delivered
    <3>3. \A seq \in 1 .. Len(frames) : Full(seq)' => \E j \in DOMAIN s : s[j].seq = seq
      BY <1>1, <2>1, <2>7, <3>1 DEF Delivered
    <3>4. \A i, j \in DOMAIN s : i < j => s[i].seq < s[j].seq
      BY <1>1, <3>1 DEF Delivered
    <3> QED
      BY <2>1, <2>4, <2>5, <3>2, <3>3, <3>4 DEF Delivered
  <2> QED
    BY <2>6, <2>7
<1>5. CASE frames' = frames /\ UNCHANGED receiverVars
  BY <1>1, <1>5 DEF Delivered, receiverVars, Arrived, Full, Total
<1> QED
  BY QuietSteps, <1>3, <1>4, <1>5

(* The frames of which a part has arrived, and which were given up.        *)
GivenUp == {seq \in DOMAIN frames :
               seq < currentSequence /\ Arrived(seq) # {} /\ Arrived(seq) # 0 .. Total(seq) - 1}

\* Every frame that is given up is counted.
LEMMA CountedStep ==
  ASSUME SenderInv, NetworkInv, AssemblyInv, OrderInv, CurrentInv, PartialFramesCounted,
         [Next]_vars
  PROVE  PartialFramesCounted'
<1> SUFFICES ASSUME Orderly' PROVE dropCount' >= Cardinality(GivenUp')
  BY DEF PartialFramesCounted, GivenUp, Orderly
<1>1. Orderly /\ Current /\ InOrder /\ dropCount >= Cardinality(GivenUp)
  <2>1. Orderly
    BY OrderlyWas
  <2> QED
    BY <2>1 DEF OrderInv, CurrentInv, PartialFramesCounted, GivenUp, Orderly
<1>2. /\ Len(frames) \in Nat /\ DOMAIN frames = 1 .. Len(frames)
      /\ \A seq \in 1 .. Len(frames) : Total(seq) \in Nat \ {0}
      /\ currentSequence \in {-1} \cup 1 .. Len(frames) /\ dropCount \in Nat
  BY FrameFacts DEF AssemblyInv
<1>3. IsFiniteSet(GivenUp) /\ Cardinality(GivenUp) \in Nat
  <2>1. GivenUp \in SUBSET (1 .. Len(frames)) /\ IsFiniteSet(1 .. Len(frames))
    BY <1>2, FS_Interval DEF GivenUp
  <2> QED
    BY <2>1, FS_Subset, FS_CardinalityType
<1> DEFINE Grows(x) == GivenUp' \subseteq GivenUp \cup {x}
<1>4. ASSUME GivenUp' \subseteq GivenUp, dropCount' \in Nat, dropCount' >= dropCount
      PROVE  dropCount' >= Cardinality(GivenUp')
  <2>1. PICK T : T = GivenUp'
    OBVIOUS
  <2>2. Cardinality(T) \in Nat /\ Cardinality(T) <= Cardinality(GivenUp)
    BY <1>3, <1>4, <2>1, FS_Subset, FS_CardinalityType
  <2> QED
    BY <1>1, <1>2, <1>3, <1>4, <2>1, <2>2
<1>5. ASSUME NEW kind \in Kinds, SendFrame(kind) PROVE dropCount' >= Cardinality(GivenUp')
  <2>1. UNCHANGED assemblyVars
    BY <1>5 DEF SendFrame, receiverVars
  <2>2. /\ DOMAIN frames' = 1 .. Len(frames) + 1
        /\ \A seq \in 1 .. Len(frames) :
              Total(seq)' = Total(seq) /\ Arrived(seq)' = Arrived(seq)
    BY <1>5, FrameSent
  <2>3. ASSUME NEW seq \in GivenUp' PROVE seq \in GivenUp
    <3>1. /\ seq \in 1 .. Len(frames) + 1 /\ seq < currentSequence
          /\ Arrived(seq)' # {} /\ Arrived(seq)' # 0 .. Total(seq)' - 1
      BY <2>1, <2>2 DEF GivenUp, assemblyVars
    <3>2. seq \in 1 .. Len(frames)
      BY <1>2, <3>1
    <3> QED
      BY <1>2, <2>2, <3>1, <3>2 DEF GivenUp
  <2> QED
    BY <1>2, <1>4, <2>1, <2>3 DEF assemblyVars
<1>6. ASSUME NEW k \in DOMAIN network, Receive(k) PROVE dropCount' >= Cardinality(GivenUp')
  <2>1. PICK p :
           /\ p.seq \in 1 .. Len(frames) /\ frames' = frames
           /\ \A seq : seq # p.seq => Arrived(seq)' = Arrived(seq)
           /\ \A seq \in 1 .. Len(frames) : Arrived(seq) # {} => seq <= p.seq
           /\ \/ Total(p.seq) = 1 /\ Full(p.seq)' /\ UNCHANGED assemblyVars
              \/ /\ Total(p.seq) > 1 /\ currentSequence' = p.seq
                 /\ dropCount' = dropCount + (IF DropsCurrent(p) THEN 1 ELSE 0)
    BY <1>1, <1>6, OrderlyWas, Outcome
  <2>2. \A seq : Total(seq)' = Total(seq)
    BY <2>1, SameFrames
  <2>3. CASE Total(p.seq) = 1 /\ Full(p.seq)' /\ UNCHANGED assemblyVars
    <3>1. ASSUME NEW seq \in GivenUp' PROVE seq \in GivenUp
      <4>1. /\ seq \in DOMAIN frames /\ seq < currentSequence
            /\ Arrived(seq)' # {} /\ Arrived(seq)' # 0 .. Total(seq) - 1
        BY <2>1, <2>2, <2>3 DEF GivenUp, assemblyVars
      <4>2. seq # p.seq
        BY <2>2, <2>3, <4>1 DEF Full
      <4> QED
        BY <2>1, <4>1, <4>2 DEF GivenUp
    <3> QED
      BY <1>2, <1>4, <2>3, <3>1 DEF assemblyVars
  <2>4. CASE /\ Total(p.seq) > 1 /\ currentSequence' = p.seq
             /\ dropCount' = dropCount + (IF DropsCurrent(p) THEN 1 ELSE 0)
    <3>1. ASSUME NEW seq \in GivenUp'
          PROVE  /\ seq \in 1 .. Len(frames) /\ seq < p.seq /\ seq <= currentSequence
                 /\ Arrived(seq) # {} /\ Arrived(seq) # All(seq)
      <4>1. /\ seq \in 1 .. Len(frames) /\ seq < p.seq
            /\ Arrived(seq)' # {} /\ Arrived(seq)' # 0 .. Total(seq) - 1
        BY <1>2, <2>1, <2>2, <2>4 DEF GivenUp
      <4>2. Arrived(seq)' = Arrived(seq)
        BY <1>2, <2>1, <4>1
      <4>3. Arrived(seq) \subseteq 0 .. Total(seq) - 1
        BY DEF Arrived
      <4>4. Total(seq) # 1
        <5> SUFFICES ASSUME Total(seq) = 1 PROVE FALSE
          OBVIOUS
        <5>1. 0 .. Total(seq) - 1 = {0}
          OBVIOUS
        <5> QED
          BY <4>1, <4>2, <4>3, <5>1
      <4>5. Total(seq) > 1
        BY <1>2, <4>1, <4>4
      <4>6. seq <= currentSequence
        BY <1>1, <4>1, <4>2, <4>5 DEF Current
      <4> QED
        BY <4>1, <4>2, <4>6 DEF All
    <3>2. CASE currentSequence \in GivenUp'
      <4>1. /\ currentSequence \in 1 .. Len(frames) /\ currentSequence < p.seq
            /\ Arrived(currentSequence) # All(currentSequence) /\ currentSequence # -1
        BY <1>2, <3>1, <3>2
      <4>2. DOMAIN fragments = Arrived(currentSequence)
        BY <1>1, <4>1 DEF Current, Full, All
      <4>3. /\ expectedFragTotal = Total(currentSequence)
            /\ DOMAIN fragments \in SUBSET (0 .. expectedFragTotal - 1)
            /\ DOMAIN fragments # 0 .. expectedFragTotal - 1 /\ expectedFragTotal \in Nat
        <5>1. Orderly /\ Fits(currentSequence)
          BY <1>1, <4>1, OrderlyFits
        <5> QED
          BY <4>1, <5>1 DEF AssemblyInv, Gathering
      <4>4. PICK D : D = DOMAIN fragments
        OBVIOUS
      <4>5. /\ Cardinality(D) \in Nat /\ Cardinality(D) <= expectedFragTotal
            /\ Cardinality(D) # expectedFragTotal
        BY <4>3, <4>4, CountingSuffices
      <4>6. Cardinality(D) < expectedFragTotal
        BY <4>3, <4>5
      <4>7. DropsCurrent(p)
        BY <1>2, <4>1, <4>4, <4>6 DEF DropsCurrent
      <4>8. GivenUp' \subseteq GivenUp \cup {currentSequence}
        <5>1. ASSUME NEW seq \in GivenUp', seq # currentSequence PROVE seq \in GivenUp
          BY <1>2, <3>1, <5>1 DEF GivenUp, All
        <5> QED
          BY <5>1
      <4>9. PICK T : T = GivenUp'
        OBVIOUS
      <4>10. Cardinality(T) \in Nat /\ Cardinality(T) <= Cardinality(GivenUp) + 1
        BY <1>3, <4>8, <4>9, GrowsByOne
      <4>11. dropCount' = dropCount + 1
        BY <2>4, <4>7
      <4> QED
        BY <1>1, <1>2, <1>3, <4>9, <4>10, <4>11
    <3>3. CASE currentSequence \notin GivenUp'
      <4>1. ASSUME NEW seq \in GivenUp' PROVE seq \in GivenUp
        <5>1. seq # currentSequence
          BY <3>3
        <5> QED
          BY <1>2, <3>1, <5>1 DEF GivenUp, All
      <4>2. dropCount' \in Nat /\ dropCount' >= dropCount
        BY <1>2, <2>4
      <4> QED
        BY <1>4, <4>1, <4>2
    <3> QED
      BY <3>2, <3>3
  <2> QED
    BY <2>1, <2>3, <2>4
<1>7. CASE frames' = frames /\ UNCHANGED receiverVars
  <2>1. GivenUp' = GivenUp
    BY <1>7 DEF GivenUp, receiverVars, assemblyVars, Arrived, Total
  <2> QED
    BY <1>2, <1>4, <1>7, <2>1 DEF receiverVars, assemblyVars
<1> QED
  BY QuietSteps, <1>5, <1>6, <1>7

-----------------------------------------------------------------------------
(* The theorems.                                                           *)

\* The invariant holds before the first frame.
LEMMA SafeInit ==
  ASSUME Init
  PROVE  SafeInv
<1>1. MaxFrames \in Nat /\ MaxLost \in Nat /\ MaxDuplicated \in Nat /\ MaxReordered \in Nat
  BY UdpAssumption
<1>2. /\ <<>> \in Seq(Kinds) /\ <<>> \in Seq(Packets)
      /\ Len(<<>>) = 0 /\ 1 .. 0 = {} /\ DOMAIN <<>> = {}
  OBVIOUS
<1>3. Len(frames) = 0 /\ DOMAIN frames = {} /\ DOMAIN submitted = {} /\ DOMAIN fragments = {}
  BY DEF Init
<1>4. SenderInv
  BY <1>1, <1>2 DEF Init, SenderInv
<1>5. NetworkInv
  BY <1>1, <1>2 DEF Init, NetworkInv
<1>6. AssemblyInv
  BY <1>3 DEF Init, AssemblyInv
<1>7. SubmittedInv
  BY <1>2, <1>3 DEF Init, SubmittedInv
<1>8. OrderInv
  BY <1>2 DEF Init, OrderInv, InOrder, Ordered
<1>9. CurrentInv
  BY <1>3 DEF Init, CurrentInv, Current
<1>10. DeliveryInv
  BY <1>3 DEF Init, DeliveryInv, Delivered
<1>11. PartialFramesCounted
  <2>1. GivenUp = {} /\ Cardinality({}) = 0 /\ dropCount = 0
    BY <1>3, FS_EmptySet DEF Init, GivenUp
  <2>2. PartialFramesCounted <=> (Orderly => dropCount >= Cardinality(GivenUp))
    BY DEF PartialFramesCounted, GivenUp, Orderly
  <2> QED
    BY <2>1, <2>2
<1> QED
  BY <1>4, <1>5, <1>6, <1>7, <1>8, <1>9, <1>10, <1>11 DEF SafeInv

(* The inductive invariant holds in every reachable state, for any kinds   *)
(* of frames, packet size, and bounds on what the network does.            *)
THEOREM AssemblyIsSafe == Spec => []SafeInv
<1>1. Init => SafeInv
  BY SafeInit
<1>2. SafeInv /\ [Next]_vars => SafeInv'
  BY SenderStep, NetworkStep, AssemblyStep, SubmittedStep, OrderStep, CurrentStep,
     DeliveryStep, CountedStep DEF SafeInv
<1> QED
  BY <1>1, <1>2, PTL DEF Spec

(* The type invariant of UdpVideo.tla: a frame being put together is       *)
(* never complete, which handlePacket relies on when it counts fragments.  *)
THEOREM AssemblyTypeCorrect == Spec => []TypeOK
<1>1. SafeInv => TypeOK
  <2> SUFFICES ASSUME SafeInv PROVE TypeOK
    OBVIOUS
  <2> USE DEF SafeInv
  <2>1. Len(frames) \in Nat /\ MaxFrames \in Nat /\ Len(frames) <= MaxFrames
    BY FrameFacts, UdpAssumption DEF SenderInv
  <2>2. arrived \subseteq (1 .. MaxFrames) \X Nat
    <3>1. ASSUME NEW a \in arrived PROVE a \in (1 .. MaxFrames) \X Nat
      <4>1. a \in (1 .. Len(frames)) \X Nat
        BY DEF NetworkInv
      <4> QED
        BY <2>1, <4>1
    <3> QED
      BY <3>1
  <2>3. Cardinality(DOMAIN fragments) < expectedFragTotal \/ DOMAIN fragments = {}
    BY DEF AssemblyInv
  <2>4. currentSequence \in {-1} \cup 1 .. Len(frames) /\ expectedFragTotal \in Nat
    BY DEF AssemblyInv
  <2> QED
    BY <2>2, <2>3, <2>4 DEF TypeOK, SenderInv, NetworkInv, AssemblyInv
<1> QED
  BY <1>1, AssemblyIsSafe, PTL

(* SubmittedIntact (UdpVideo.tla): whatever the network loses, copies and  *)
(* reorders, handlePacket submits no NAL unit but the one sent under that  *)
(* sequence number, whole, unless it took more packets than FragTotal can  *)
(* count.                                                                  *)
THEOREM SubmissionsIntact == Spec => []SubmittedIntact
<1>1. SafeInv => SubmittedIntact
  BY DEF SafeInv, SubmittedInv, SubmittedIntact, Sound, Whole
<1> QED
  BY <1>1, AssemblyIsSafe, PTL

(* FifoDelivery (UdpVideo.tla): without copies and reordering, every frame *)
(* whose packets all arrive is submitted, once, and in the order of        *)
(* sending.                                                                *)
THEOREM FramesDeliveredInOrder == Spec => []FifoDelivery
<1>1. SafeInv => FifoDelivery
  <2> SUFFICES ASSUME SafeInv, Orderly PROVE
                  /\ \A j, k \in DOMAIN submitted : j < k => submitted[j].seq < submitted[k].seq
                  /\ \A seq \in DOMAIN frames :
                        Arrived(seq) = 0 .. Total(seq) - 1 => Copies(seq) = 1
    BY DEF FifoDelivery, Orderly
  <2>1. Delivered
    BY DEF SafeInv, DeliveryInv
  <2>2. DOMAIN frames = 1 .. Len(frames)
    BY FrameFacts DEF SafeInv
  <2>3. /\ DOMAIN submitted = 1 .. Len(submitted) /\ Len(submitted) \in Nat
        /\ \A k \in DOMAIN submitted : submitted[k].seq \in Int
    <3>1. PICK S : submitted \in Seq(S)
      BY DEF SafeInv, SubmittedInv
    <3>2. DOMAIN submitted = 1 .. Len(submitted) /\ Len(submitted) \in Nat
      BY <3>1, LenProperties
    <3>3. Len(frames) \in Nat
      BY FrameFacts DEF SafeInv
    <3> QED
      BY <3>2, <3>3 DEF SafeInv, SubmittedInv, Sound
  <2>4. ASSUME NEW seq \in DOMAIN frames, Full(seq) PROVE Copies(seq) = 1
    <3>1. PICK k \in DOMAIN submitted : submitted[k].seq = seq
      BY <2>1, <2>2, <2>4 DEF Delivered
    <3>2. ASSUME NEW j \in DOMAIN submitted, submitted[j].seq = seq PROVE j = k
      <4>1. j \in Int /\ k \in Int /\ ~(j < k) /\ ~(k < j)
        BY <2>1, <2>3, <3>1, <3>2 DEF Delivered
      <4> QED
        BY <4>1
    <3>3. {j \in DOMAIN submitted : submitted[j].seq = seq} = {k}
      BY <3>1, <3>2
    <3> QED
      BY <3>3, FS_Singleton DEF Copies
  <2> QED
    BY <2>1, <2>4 DEF Delivered, Full
<1> QED
  BY <1>1, AssemblyIsSafe, PTL

(* PartialFramesCounted (UdpVideo.tla): there, dropCount misses no frame   *)
(* that came in part and was given up for a later one.                     *)
THEOREM DropsAreCounted == Spec => []PartialFramesCounted
<1>1. SafeInv => PartialFramesCounted
  BY DEF SafeInv
<1> QED
  BY <1>1, AssemblyIsSafe, PTL

===============================================================================
