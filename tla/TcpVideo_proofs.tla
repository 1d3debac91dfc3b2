---------------------------- MODULE TcpVideo_proofs ----------------------------
(***************************************************************************)
(* What the receiver of the USB video makes of the stream, for frames of   *)
(* any length, buffers of any size and any number of frames.               *)
(***************************************************************************)
EXTENDS TcpVideo, SequenceTheorems, TLAPS

-----------------------------------------------------------------------------
(* The inductive invariant.                                                *)

(* The sender writes one frame after the other.                            *)
SenderInv ==
    /\ frames \in Seq(Lengths) /\ Len(frames) <= MaxFrames
    /\ sending \in {0, Len(frames)}
    /\ IF sending = 0 THEN written = 0 ELSE written \in 0 .. frames[sending]
    /\ conn \in {"open", "closed"}
    /\ complete \in Seq(Frames) /\ cut \subseteq 1 .. Len(frames)
    /\ \A k \in DOMAIN complete : complete[k] \in 1 .. Len(frames)
    /\ \A j, k \in DOMAIN complete : j < k => complete[j] < complete[k]
    /\ sending # 0 => sending \notin cut /\ \A k \in DOMAIN complete : complete[k] < sending

(* A unit on the wire is part of a frame; the last one is there when the   *)
(* frame is complete.                                                      *)
Unit(u) ==
    /\ u \in Units /\ u[1] \in 1 .. Len(frames) /\ u[2] <= frames[u[1]]
    /\ u[2] = frames[u[1]] => u[1] \in Range(complete)
WireInv ==
    /\ wire \in Seq(Units) /\ Len(wire) <= Capacity
    /\ \A i \in 1 .. Len(wire) : Unit(wire[i])

(* Units of a frame that does not derail the receiver follow each other,   *)
(* and its last one is followed by the prefix of the next frame, or by     *)
(* what the sender writes next.                                            *)
Follows(m, n) == m < n /\ \A c \in Range(complete) : m < c => n <= c
Adjacent(u, v) ==
    IF u[2] < frames[u[1]] THEN v[1] = u[1] /\ v[2] = u[2] + 1
                           ELSE v[2] = 0 /\ Follows(u[1], v[1])
LastUnit(u) ==
    IF u[2] < frames[u[1]] THEN sending = u[1] /\ written = u[2] + 1
                           ELSE written = 0 /\ \A k \in DOMAIN complete : complete[k] <= u[1]
StreamInv ==
    \A i \in 1 .. Len(wire) :
        ~Derails(wire[i][1]) =>
            IF i < Len(wire) THEN Adjacent(wire[i], wire[i + 1]) ELSE LastUnit(wire[i])

ReaderInv ==
    /\ reader \in {"length", "body", "ended", "closed"}
    /\ need \in 0 .. MaxLength
    /\ readBuf \in Seq(Units)
    /\ reader = "body" => Len(readBuf) < need
    /\ reader = "length" => readBuf = <<>>
    /\ delivered \in Seq(Seq(Units))

(* The receiver has its place in the stream: it has delivered the complete *)
(* frames before frame n, and is at the prefix of n, or inside its body.   *)
Before(n) == \A k \in DOMAIN complete : k <= Len(delivered) <=> complete[k] < n
AtPrefix ==
    IF wire = <<>> THEN written = 0 /\ Len(delivered) = Len(complete)
                   ELSE wire[1][2] = 0 /\ Before(wire[1][1])
InBody(n) ==
    /\ ~Derails(n) /\ Before(n)
    /\ need = frames[n]
    /\ \A i \in 1 .. Len(readBuf) : readBuf[i] = <<n, i>>
    /\ IF wire = <<>> THEN sending = n /\ written = Len(readBuf) + 1
                      ELSE wire[1] = <<n, Len(readBuf) + 1>>
InPlace ==
    /\ Len(delivered) <= Len(complete)
    /\ reader = "length" => AtPrefix
    /\ reader = "body" => \E n \in 1 .. Len(frames) : InBody(n)

(* Or frame m has derailed it, and it had all frames before m by then.     *)
LostAt(m) ==
    /\ Derails(m)
    /\ \A k \in DOMAIN complete : complete[k] < m => k <= Len(delivered)
PlaceInv == InPlace \/ \E m \in 1 .. Len(frames) : LostAt(m)

SafeInv ==
    /\ SenderInv /\ WireInv /\ StreamInv /\ ReaderInv /\ PlaceInv /\ IntactBeforeCut

-----------------------------------------------------------------------------
(* The steps, and sequences that grow and shrink.                          *)

\* The actions a step can be.
LEMMA StepCases ==
  ASSUME [Next]_vars
  PROVE  \/ \E length \in Lengths : SendFrame(length)
         \/ WriteUnit \/ WriteEnds \/ Close
         \/ ReadLength \/ ReadShortLength \/ ReadBody \/ EndOfStream
         \/ ClientCloses \/ UNCHANGED vars
BY DEF Next, WriteStep, ReadStep

\* What Append does to a sequence.
LEMMA Appended ==
  ASSUME NEW S, NEW s \in Seq(S), NEW x \in S
  PROVE  /\ Append(s, x) \in Seq(S) /\ Len(Append(s, x)) = Len(s) + 1 /\ Len(s) \in Nat
         /\ DOMAIN s = 1 .. Len(s) /\ DOMAIN Append(s, x) = 1 .. Len(s) + 1
         /\ \A k \in 1 .. Len(s) : Append(s, x)[k] = s[k]
         /\ Append(s, x)[Len(s) + 1] = x
         /\ Append(s, x) # <<>>
BY AppendProperties, LenProperties

\* What Tail and Head do to a sequence.
LEMMA Dropped ==
  ASSUME NEW S, NEW s \in Seq(S), s # <<>>
  PROVE  /\ Tail(s) \in Seq(S) /\ Len(Tail(s)) = Len(s) - 1 /\ Len(s) \in Nat \ {0}
         /\ \A k \in 1 .. Len(s) - 1 : Tail(s)[k] = s[k + 1]
         /\ Head(s) = s[1] /\ Head(s) \in S
         /\ Tail(s) = <<>> <=> Len(s) = 1
<1>1. /\ Tail(s) \in Seq(S) /\ Len(Tail(s)) = Len(s) - 1 /\ Len(s) \in Nat \ {0}
      /\ \A k \in 1 .. Len(s) - 1 : Tail(s)[k] = s[k + 1]
      /\ Head(s) = s[1] /\ Head(s) \in S
  BY HeadTailProperties, EmptySeq, LenProperties
<1>2. Tail(s) = <<>> <=> Len(Tail(s)) = 0
  BY <1>1, EmptySeq
<1> QED
  BY <1>1, <1>2

(* What the sender's state says of a frame.                                *)
LEMMA FrameFacts ==
  ASSUME SenderInv
  PROVE  /\ DOMAIN frames = 1 .. Len(frames) /\ Len(frames) \in Nat
         /\ DOMAIN complete = 1 .. Len(complete) /\ Len(complete) \in Nat
         /\ \A n \in 1 .. Len(frames) : frames[n] \in Lengths /\ frames[n] \in Nat /\ frames[n] > 0
<1>1. /\ DOMAIN frames = 1 .. Len(frames) /\ Len(frames) \in Nat
      /\ \A n \in 1 .. Len(frames) : frames[n] \in Lengths
  BY ElementOfSeq, LenProperties DEF SenderInv
<1>2. DOMAIN complete = 1 .. Len(complete) /\ Len(complete) \in Nat
  BY LenProperties DEF SenderInv
<1>3. \A length \in Lengths : length \in Nat /\ length > 0
  BY TcpAssumption
<1> QED
  BY <1>1, <1>2, <1>3

(* A frame begins, and is written to its end.                              *)
LEMMA FrameBegins ==
  ASSUME SenderInv, NEW length \in Lengths, SendFrame(length)
  PROVE  /\ Len(frames') = Len(frames) + 1 /\ sending' = Len(frames) + 1
         /\ frames' \in Seq(Lengths) /\ frames'[Len(frames) + 1] = length
         /\ \A n \in 1 .. Len(frames) :
               frames'[n] = frames[n] /\ Derails(n)' = Derails(n)
<1>1. frames \in Seq(Lengths) /\ frames' = Append(frames, length)
  BY DEF SenderInv, SendFrame
<1>2. /\ Len(frames') = Len(frames) + 1
      /\ frames' \in Seq(Lengths) /\ frames'[Len(frames) + 1] = length
      /\ \A n \in 1 .. Len(frames) : frames'[n] = frames[n]
  BY <1>1, Appended
<1>3. sending' = Len(frames')
  BY DEF SendFrame
<1>4. cut' = cut
  BY DEF SendFrame
<1>5. \A n \in 1 .. Len(frames) : Derails(n)' = Derails(n)
  BY <1>2, <1>4, Zenon DEF Derails
<1> QED
  BY <1>2, <1>3, <1>5

\* The frame that is through is the last of the complete ones.
LEMMA FrameCompletes ==
  ASSUME SenderInv, sending # 0, complete' = Append(complete, sending)
  PROVE  /\ complete' \in Seq(Frames) /\ Len(complete') = Len(complete) + 1
         /\ DOMAIN complete' = 1 .. Len(complete) + 1
         /\ \A k \in 1 .. Len(complete) : complete'[k] = complete[k]
         /\ complete'[Len(complete) + 1] = sending
         /\ Range(complete)' = Range(complete) \cup {sending}
<1>1. complete \in Seq(Frames) /\ sending \in Frames
  BY FrameFacts, TcpAssumption DEF SenderInv, Frames
<1>2. /\ complete' \in Seq(Frames) /\ Len(complete') = Len(complete) + 1 /\ Len(complete) \in Nat
      /\ DOMAIN complete' = 1 .. Len(complete) + 1 /\ DOMAIN complete = 1 .. Len(complete)
      /\ \A k \in 1 .. Len(complete) : complete'[k] = complete[k]
      /\ complete'[Len(complete) + 1] = sending
  BY <1>1, Appended
<1>3. Range(complete)' = Range(complete) \cup {sending}
  BY <1>2 DEF Range
<1> QED
  BY <1>2, <1>3

-----------------------------------------------------------------------------
(* The parts of the invariant, one by one.                                 *)

(* Frames are written one after the other.                                 *)
LEMMA SenderInvStep ==
  ASSUME SenderInv, [Next]_vars
  PROVE  SenderInv'
<1> USE DEF SenderInv, vars, senderVars, receiverVars
<1>1. ASSUME NEW length \in Lengths, SendFrame(length) PROVE SenderInv'
  <2>1. /\ Len(frames') = Len(frames) + 1 /\ sending' = Len(frames) + 1
        /\ frames' \in Seq(Lengths) /\ frames'[Len(frames) + 1] = length
    BY <1>1, FrameBegins
  <2>2. written' = 0 /\ conn' = conn /\ complete' = complete /\ cut' = cut /\ Len(frames) < MaxFrames
    BY <1>1 DEF SendFrame
  <2>3. length \in Nat
    BY TcpAssumption
  <2> QED
    BY <2>1, <2>2, <2>3, FrameFacts, TcpAssumption
<1>2. CASE WriteUnit
  <2>1. sending \in 1 .. Len(frames) /\ written \in 0 .. frames[sending] /\ frames[sending] \in Nat
    BY <1>2, FrameFacts DEF WriteUnit, Return, AllWritten
  <2>2. frames' = frames /\ conn' = conn /\ cut' = cut
    BY <1>2 DEF WriteUnit, Return, AllWritten
  <2>3. CASE AllWritten(sending, written + 1)
    <3>1. sending' = 0 /\ written' = 0 /\ complete' = Append(complete, sending)
      BY <1>2, <2>3 DEF WriteUnit, Return, AllWritten
    <3>2. /\ complete' \in Seq(Frames) /\ DOMAIN complete' = 1 .. Len(complete) + 1
          /\ \A k \in 1 .. Len(complete) : complete'[k] = complete[k]
          /\ complete'[Len(complete) + 1] = sending
          /\ DOMAIN complete = 1 .. Len(complete) /\ Len(complete) \in Nat
      BY <2>1, <3>1, FrameCompletes, FrameFacts
    <3>3. \A k \in DOMAIN complete' : complete'[k] \in 1 .. Len(frames)
      BY <2>1, <3>2
    <3>4. \A j, k \in DOMAIN complete' : j < k => complete'[j] < complete'[k]
      <4>1. \A k \in DOMAIN complete : complete[k] < sending
        BY <2>1
      <4> QED
        BY <3>2, <4>1
    <3> QED
      BY <2>2, <3>1, <3>2, <3>3, <3>4
  <2>4. CASE ~AllWritten(sending, written + 1)
    <3>1. sending' = sending /\ written' = written + 1 /\ complete' = complete
      BY <1>2, <2>4 DEF WriteUnit, Return, AllWritten
    <3>2. written + 1 \in 0 .. frames[sending]
      BY <2>1, <2>4 DEF AllWritten
    <3> QED
      BY <2>1, <2>2, <3>1, <3>2
  <2> QED
    BY <2>3, <2>4
<1>3. CASE WriteEnds
  BY <1>3 DEF WriteEnds, Return
<1>4. CASE Close
  BY <1>4 DEF Close
<1>5. CASE ReadLength
  BY <1>5 DEF ReadLength, Prefix
<1>6. CASE ReadShortLength
  BY <1>6 DEF ReadShortLength
<1>7. CASE ReadBody
  BY <1>7 DEF ReadBody, ReadFully
<1>8. CASE EndOfStream
  BY <1>8 DEF EndOfStream
<1>9. CASE ClientCloses
  BY <1>9 DEF ClientCloses
<1>10. CASE UNCHANGED vars
  BY <1>10 DEF vars
<1> QED
  BY StepCases, <1>1, <1>2, <1>3, <1>4, <1>5, <1>6, <1>7, <1>8, <1>9, <1>10

(* The receiver's own state.                                               *)
LEMMA ReaderInvStep ==
  ASSUME ReaderInv, SenderInv, WireInv, [Next]_vars
  PROVE  ReaderInv'
<1> USE DEF ReaderInv, vars, senderVars, receiverVars
<1>1. ASSUME NEW length \in Lengths, SendFrame(length) PROVE ReaderInv'
  BY <1>1 DEF SendFrame
<1>2. CASE WriteUnit
  BY <1>2 DEF WriteUnit, Return, AllWritten
<1>3. CASE WriteEnds
  BY <1>3 DEF WriteEnds, Return
<1>4. CASE Close
  BY <1>4 DEF Close
<1>5. CASE ReadLength
  <2>1. wire \in Seq(Units) /\ wire # <<>>
    BY <1>5 DEF ReadLength, Prefix, WireInv
  <2>2. Unit(Head(wire))
    BY <2>1, Dropped DEF WireInv
  <2>3. Prefix(Head(wire)) \subseteq Nat
    BY <2>2, FrameFacts, TcpAssumption DEF Unit, Prefix
  <2>4. PICK length \in Prefix(Head(wire)) :
           IF length = 0 \/ TooLong(length)
           THEN UNCHANGED <<reader, need>>
           ELSE reader' = "body" /\ need' = length
    BY <1>5 DEF ReadLength
  <2>5. readBuf' = readBuf /\ readBuf = <<>> /\ delivered' = delivered
    BY <1>5 DEF ReadLength
  <2>6. CASE length = 0 \/ TooLong(length)
    BY <1>5, <2>4, <2>5, <2>6 DEF ReadLength
  <2>7. CASE ~(length = 0 \/ TooLong(length))
    <3>1. length \in 1 .. MaxLength
      BY <2>3, <2>7, TcpAssumption DEF TooLong
    <3>2. Len(readBuf) = 0
      BY <2>5
    <3> QED
      BY <2>4, <2>5, <2>7, <3>1, <3>2, TcpAssumption
  <2> QED
    BY <2>6, <2>7
<1>6. CASE ReadShortLength
  BY <1>6 DEF ReadShortLength
<1>7. CASE ReadBody
  <2> DEFINE buf == Append(readBuf, Head(wire))
  <2>1. Head(wire) \in Units
    BY <1>7, Dropped DEF ReadBody, ReadFully, WireInv
  <2>2. buf \in Seq(Units) /\ Len(buf) = Len(readBuf) + 1 /\ Len(readBuf) \in Nat
    BY <2>1, Appended
  <2>3. CASE ReadFully(buf)
    <3>1. /\ delivered' = Append(delivered, buf) /\ readBuf' = <<>> /\ reader' = "length"
          /\ need' = need
      BY <1>7, <2>3 DEF ReadBody
    <3>2. delivered' \in Seq(Seq(Units))
      BY <2>2, <3>1, Appended
    <3>3. readBuf' \in Seq(Units)
      BY <3>1, EmptySeq
    <3> QED
      BY <3>1, <3>2, <3>3
  <2>4. CASE ~ReadFully(buf)
    <3>1. readBuf' = buf /\ delivered' = delivered /\ reader' = reader /\ need' = need /\ reader = "body"
      BY <1>7, <2>4 DEF ReadBody
    <3>2. Len(buf) < need
      <4>1. Len(readBuf) < need /\ Len(buf) # need
        BY <2>4, <3>1 DEF ReadFully
      <4> QED
        BY <2>2, <4>1
    <3> QED
      BY <2>2, <3>1, <3>2
  <2> QED
    BY <2>3, <2>4
<1>8. CASE EndOfStream
  BY <1>8 DEF EndOfStream
<1>9. CASE ClientCloses
  BY <1>9 DEF ClientCloses
<1>10. CASE UNCHANGED vars
  BY <1>10 DEF vars
<1> QED
  BY StepCases, <1>1, <1>2, <1>3, <1>4, <1>5, <1>6, <1>7, <1>8, <1>9, <1>10

(* What is read leaves the wire.                                           *)
LEMMA WireShrinks ==
  ASSUME WireInv, StreamInv, wire # <<>>, wire' = Tail(wire), UNCHANGED senderVars
  PROVE  WireInv' /\ StreamInv'
<1>1. wire \in Seq(Units)
  BY DEF WireInv
<1>2. /\ wire' \in Seq(Units) /\ Len(wire') = Len(wire) - 1 /\ Len(wire) \in Nat \ {0}
      /\ \A i \in 1 .. Len(wire') : wire'[i] = wire[i + 1]
  BY <1>1, Dropped
<1>3. /\ \A u : Unit(u)' = Unit(u) /\ LastUnit(u)' = LastUnit(u)
      /\ \A n : Derails(n)' = Derails(n)
      /\ \A u, v : Adjacent(u, v)' = Adjacent(u, v)
  BY DEF senderVars, Unit, LastUnit, Derails, Adjacent, Follows
<1>4. WireInv'
  <2>1. ASSUME NEW i \in 1 .. Len(wire') PROVE Unit(wire[i])'
    <3>1. PICK u : u = wire[i + 1]
      OBVIOUS
    <3>2. Unit(u)' /\ wire'[i] = u
      BY <1>2, <1>3, <3>1 DEF WireInv
    <3> QED
      BY <3>2 DEF Unit
  <2>2. Len(wire') <= Capacity
    BY <1>2, TcpAssumption DEF WireInv
  <2> QED
    BY <1>2, <2>1, <2>2 DEF WireInv
<1>5. StreamInv'
  <2> SUFFICES ASSUME NEW i \in 1 .. Len(wire'), (~Derails(wire[i][1]))'
               PROVE  (IF i < Len(wire) THEN Adjacent(wire[i], wire[i + 1]) ELSE LastUnit(wire[i]))'
    BY DEF StreamInv
  <2>1. /\ wire'[i] = wire[i + 1] /\ i + 1 \in 1 .. Len(wire)
        /\ i < Len(wire') => wire'[i + 1] = wire[(i + 1) + 1]
        /\ i < Len(wire') <=> i + 1 < Len(wire)
    BY <1>2
  <2>2. ~Derails(wire[i + 1][1])
    BY <2>1 DEF Derails, senderVars
  <2>3. IF i + 1 < Len(wire) THEN Adjacent(wire[i + 1], wire[(i + 1) + 1]) ELSE LastUnit(wire[i + 1])
    BY <2>1, <2>2 DEF StreamInv
  <2>4. PICK u, v : u = wire[i + 1] /\ v = wire[(i + 1) + 1]
    OBVIOUS
  <2>5. IF i + 1 < Len(wire) THEN Adjacent(u, v)' ELSE LastUnit(u)'
    BY <1>3, <2>3, <2>4
  <2>6. CASE i + 1 < Len(wire)
    <3>1. wire'[i] = u /\ wire'[i + 1] = v /\ Adjacent(u, v)' /\ i < Len(wire')
      BY <2>1, <2>4, <2>5, <2>6
    <3> QED
      BY <3>1 DEF Adjacent, Follows
  <2>7. CASE ~(i + 1 < Len(wire))
    <3>1. wire'[i] = u /\ LastUnit(u)' /\ ~(i < Len(wire'))
      BY <2>1, <2>4, <2>5, <2>7
    <3> QED
      BY <3>1 DEF LastUnit
  <2> QED
    BY <2>6, <2>7
<1> QED
  BY <1>4, <1>5

(* The wire holds parts of frames.                                         *)
LEMMA WireInvStep ==
  ASSUME WireInv, StreamInv, SenderInv, [Next]_vars
  PROVE  WireInv'
<1> USE DEF WireInv, vars, senderVars, receiverVars
<1>1. ASSUME NEW length \in Lengths, SendFrame(length) PROVE WireInv'
  <2>1. wire' = wire /\ complete' = complete
    BY <1>1 DEF SendFrame
  <2>2. \A u : Unit(u) => Unit(u)'
    BY <1>1, <2>1, FrameBegins, FrameFacts DEF Unit
  <2> QED
    BY <2>1, <2>2
<1>2. CASE WriteUnit
  <2>0. PICK new : new = <<sending, written>>
    OBVIOUS
  <2>1. /\ wire' = Append(wire, new) /\ frames' = frames /\ sending # 0 /\ Len(wire) < Capacity
    BY <2>0, <1>2 DEF WriteUnit, Return, AllWritten
  <2>2. sending \in 1 .. Len(frames) /\ written \in 0 .. frames[sending] /\ frames[sending] \in Nat
    BY <2>1, FrameFacts DEF SenderInv
  <2>3. new \in Units
    BY <2>0, <2>2, FrameFacts, TcpAssumption DEF Units, Frames, SenderInv
  <2>4. \/ complete' = complete /\ written # frames[sending]
        \/ complete' = Append(complete, sending)
    BY <1>2, <2>2 DEF WriteUnit, Return, AllWritten
  <2>5. \/ Range(complete)' = Range(complete) /\ written # frames[sending]
        \/ Range(complete)' = Range(complete) \cup {sending}
    BY <2>1, <2>4, FrameCompletes
  <2>6. \A u : Unit(u) => Unit(u)'
    BY <2>1, <2>5 DEF Unit
  <2>7. Unit(new)'
    BY <2>0, <2>1, <2>2, <2>3, <2>5 DEF Unit
  <2>8. /\ wire' \in Seq(Units) /\ Len(wire') = Len(wire) + 1 /\ Len(wire) \in Nat
        /\ \A k \in 1 .. Len(wire) : wire'[k] = wire[k]
        /\ wire'[Len(wire) + 1] = new
    BY <2>1, <2>3, Appended
  <2>9. ASSUME NEW i \in 1 .. Len(wire') PROVE Unit(wire[i])'
    <3>1. PICK u : u = wire'[i]
      OBVIOUS
    <3>2. Unit(u)'
      BY <2>6, <2>7, <2>8, <3>1
    <3> QED
      BY <3>1, <3>2 DEF Unit
  <2> QED
    BY <2>1, <2>8, <2>9, TcpAssumption
<1>3. CASE WriteEnds
  <2>1. wire' = wire /\ \A u : Unit(u)' = Unit(u)
    BY <1>3 DEF WriteEnds, Return, Unit
  <2> QED
    BY <2>1
<1>4. CASE Close
  <2>1. wire' = wire /\ \A u : Unit(u)' = Unit(u)
    BY <1>4 DEF Close, Unit
  <2> QED
    BY <2>1
<1>5. CASE ReadLength
  <2>1. wire # <<>> /\ wire' = Tail(wire) /\ UNCHANGED senderVars
    BY <1>5 DEF ReadLength, Prefix
  <2> QED
    BY <2>1, WireShrinks
<1>6. CASE ReadShortLength
  <2>1. wire # <<>> /\ wire' = Tail(wire) /\ UNCHANGED senderVars
    BY <1>6 DEF ReadShortLength
  <2> QED
    BY <2>1, WireShrinks
<1>7. CASE ReadBody
  <2>1. wire # <<>> /\ wire' = Tail(wire) /\ UNCHANGED senderVars
    BY <1>7 DEF ReadBody, ReadFully
  <2> QED
    BY <2>1, WireShrinks
<1>8. CASE EndOfStream
  <2>1. wire' = wire /\ senderVars' = senderVars
    BY <1>8 DEF EndOfStream, vars, senderVars, receiverVars
  <2>2. \A u : Unit(u)' = Unit(u)
    BY <2>1 DEF senderVars, Unit
  <2> QED
    BY <2>1, <2>2
<1>9. CASE ClientCloses
  <2>1. wire' = wire /\ senderVars' = senderVars
    BY <1>9 DEF ClientCloses, vars, senderVars, receiverVars
  <2>2. \A u : Unit(u)' = Unit(u)
    BY <2>1 DEF senderVars, Unit
  <2> QED
    BY <2>1, <2>2
<1>10. CASE UNCHANGED vars
  BY <1>10 DEF vars, Unit
<1> QED
  BY StepCases, <1>1, <1>2, <1>3, <1>4, <1>5, <1>6, <1>7, <1>8, <1>9, <1>10

(* Units follow each other on the wire.                                    *)
LEMMA StreamInvStep ==
  ASSUME WireInv, StreamInv, SenderInv, [Next]_vars
  PROVE  StreamInv'
<1> USE DEF StreamInv, vars, senderVars, receiverVars
<1>1. ASSUME NEW length \in Lengths, SendFrame(length) PROVE StreamInv'
  <2>1. wire' = wire /\ complete' = complete /\ sending = 0 /\ written' = written
    BY <1>1 DEF SendFrame
  <2>2. \A i \in 1 .. Len(wire) : Unit(wire[i])
    BY DEF WireInv
  <2>3. ASSUME NEW u, Unit(u)
        PROVE  /\ Derails(u[1])' = Derails(u[1])
               /\ LastUnit(u) => LastUnit(u)'
               /\ \A v : Adjacent(u, v) => Adjacent(u, v)'
    <3>1. u[1] \in 1 .. Len(frames) /\ frames'[u[1]] = frames[u[1]] /\ Derails(u[1])' = Derails(u[1])
      BY <2>3, <1>1, FrameBegins DEF Unit
    <3>2. LastUnit(u) => LastUnit(u)'
      BY <2>1, <3>1 DEF LastUnit
    <3>3. \A v : Adjacent(u, v) => Adjacent(u, v)'
      BY <2>1, <3>1 DEF Adjacent, Follows
    <3> QED
      BY <3>1, <3>2, <3>3
  <2> QED
    BY <2>1, <2>2, <2>3
<1>2. CASE WriteUnit
  <2>0. PICK new : new = <<sending, written>>
    OBVIOUS
  <2>1. wire' = Append(wire, new) /\ frames' = frames /\ cut' = cut /\ sending # 0
    BY <2>0, <1>2 DEF WriteUnit, Return, AllWritten
  <2>2. sending \in 1 .. Len(frames) /\ written \in 0 .. frames[sending] /\ frames[sending] \in Nat
    BY <2>1, FrameFacts DEF SenderInv
  <2>3. new \in Units
    BY <2>0, <2>2, FrameFacts, TcpAssumption DEF Units, Frames, SenderInv
  <2>4. /\ Len(wire') = Len(wire) + 1 /\ Len(wire) \in Nat
        /\ \A k \in 1 .. Len(wire) : wire'[k] = wire[k]
        /\ wire'[Len(wire) + 1] = new
    BY <2>1, <2>3, Appended DEF WireInv
  <2>5. \A n : Derails(n)' = Derails(n)
    BY <2>1 DEF Derails
  <2>6. LastUnit(new)'
    <3>1. new[1] = sending /\ new[2] = written
      BY <2>0
    <3>2. CASE written = frames[sending]
      <4>1. written' = 0 /\ complete' = Append(complete, sending)
        BY <1>2, <2>2, <3>2 DEF WriteUnit, Return, AllWritten
      <4>2. \A k \in DOMAIN complete' : complete'[k] <= sending
        <5>1. \A k \in 1 .. Len(complete) : complete[k] < sending
          BY <2>1, FrameFacts DEF SenderInv
        <5>2. \A k \in 1 .. Len(complete) : complete[k] \in Nat
          BY FrameFacts DEF SenderInv
        <5>3. /\ DOMAIN complete' = 1 .. Len(complete) + 1 /\ Len(complete) \in Nat
              /\ \A k \in 1 .. Len(complete) : complete'[k] = complete[k]
              /\ complete'[Len(complete) + 1] = sending
          BY <2>1, <4>1, FrameCompletes, FrameFacts
        <5> QED
          BY <2>2, <5>1, <5>2, <5>3
      <4> QED
        BY <2>1, <2>2, <3>1, <3>2, <4>1, <4>2 DEF LastUnit
    <3>3. CASE written # frames[sending]
      <4>1. sending' = sending /\ written' = written + 1
        BY <1>2, <2>2, <3>3 DEF WriteUnit, Return, AllWritten
      <4> QED
        BY <2>1, <2>2, <3>1, <3>3, <4>1 DEF LastUnit
    <3> QED
      BY <3>2, <3>3
  <2>7. ASSUME NEW u, Unit(u), LastUnit(u) PROVE Adjacent(u, new)'
    <3>1. new[1] = sending /\ new[2] = written
      BY <2>0
    <3>2. CASE u[2] < frames[u[1]]
      BY <2>1, <2>7, <3>1, <3>2 DEF Adjacent, LastUnit
    <3>3. CASE ~(u[2] < frames[u[1]])
      <4>1. written = 0 /\ \A k \in DOMAIN complete : complete[k] <= u[1]
        BY <2>7, <3>3 DEF LastUnit
      <4>2. u[1] \in Range(complete) /\ u[1] \in 1 .. Len(frames)
        BY <2>7, <3>3, FrameFacts DEF Unit, Units
      <4>3. u[1] < sending
        BY <2>1, <4>2 DEF SenderInv, Range
      <4>4. \A c \in Range(complete)' : u[1] < c => sending <= c
        <5>1. \A c \in Range(complete) : c <= u[1] /\ c \in Nat
          BY <4>1 DEF Range, SenderInv
        <5>2. Range(complete)' \subseteq Range(complete) \cup {sending}
          <6>1. complete' = complete \/ complete' = Append(complete, sending)
            BY <1>2 DEF WriteUnit, Return, AllWritten
          <6>2. complete' = complete => Range(complete)' = Range(complete)
            OBVIOUS
          <6> QED
            BY <2>1, <6>1, <6>2, FrameCompletes
        <5> QED
          BY <2>2, <4>2, <5>1, <5>2
      <4> QED
        BY <2>1, <3>1, <3>3, <4>1, <4>3, <4>4 DEF Adjacent, Follows
    <3> QED
      BY <3>2, <3>3
  <2>8. ASSUME NEW u, NEW v, Unit(u), Unit(v), Adjacent(u, v) PROVE Adjacent(u, v)'
    <3>1. CASE u[2] < frames[u[1]]
      BY <2>1, <2>8, <3>1 DEF Adjacent
    <3>2. CASE ~(u[2] < frames[u[1]])
      <4>1. v[2] = 0 /\ u[1] < v[1] /\ \A c \in Range(complete) : u[1] < c => v[1] <= c
        BY <2>8, <3>2 DEF Adjacent, Follows
      <4>2. v[1] <= sending
        BY <2>1, <2>8 DEF Unit, SenderInv
      <4>3. Range(complete)' \subseteq Range(complete) \cup {sending}
        <5>1. complete' = complete \/ complete' = Append(complete, sending)
          BY <1>2 DEF WriteUnit, Return, AllWritten
        <5>2. complete' = complete => Range(complete)' = Range(complete)
          OBVIOUS
        <5> QED
          BY <2>1, <5>1, <5>2, FrameCompletes
      <4> QED
        BY <2>1, <3>2, <4>1, <4>2, <4>3 DEF Adjacent, Follows
    <3> QED
      BY <3>1, <3>2
  <2>9. \A i \in 1 .. Len(wire) : Unit(wire[i])
    BY DEF WireInv
  <2> SUFFICES ASSUME NEW i \in 1 .. Len(wire'), (~Derails(wire[i][1]))'
               PROVE  (IF i < Len(wire) THEN Adjacent(wire[i], wire[i + 1]) ELSE LastUnit(wire[i]))'
    BY DEF StreamInv
  <2>10. CASE i = Len(wire) + 1
    <3>1. wire'[i] = new /\ ~(i < Len(wire'))
      BY <2>4, <2>10
    <3> QED
      BY <2>6, <3>1 DEF LastUnit
  <2>11. CASE i = Len(wire)
    <3>1. wire'[i] = wire[i] /\ wire'[i + 1] = new /\ i < Len(wire') /\ i \in 1 .. Len(wire)
      BY <2>4, <2>11
    <3>2. PICK u : u = wire[i]
      OBVIOUS
    <3>3. ~Derails(u[1])
      BY <2>1, <3>1, <3>2 DEF Derails
    <3>4. LastUnit(u) /\ Unit(u)
      BY <2>4, <2>9, <2>11, <3>1, <3>2, <3>3 DEF StreamInv
    <3>5. Adjacent(u, new)'
      BY <2>7, <3>4
    <3> QED
      BY <3>1, <3>2, <3>5 DEF Adjacent, Follows
  <2>12. CASE i < Len(wire)
    <3>1. /\ wire'[i] = wire[i] /\ wire'[i + 1] = wire[i + 1] /\ i < Len(wire')
          /\ i \in 1 .. Len(wire) /\ i + 1 \in 1 .. Len(wire)
      BY <2>4, <2>12
    <3>2. PICK u, v : u = wire[i] /\ v = wire[i + 1]
      OBVIOUS
    <3>3. ~Derails(u[1])
      BY <2>1, <3>1, <3>2 DEF Derails
    <3>4. Adjacent(u, v) /\ Unit(u) /\ Unit(v)
      BY <2>9, <2>12, <3>1, <3>2, <3>3 DEF StreamInv
    <3>5. Adjacent(u, v)'
      BY <2>8, <3>4
    <3> QED
      BY <3>1, <3>2, <3>5 DEF Adjacent, Follows
  <2> QED
    BY <2>4, <2>10, <2>11, <2>12
<1>3. CASE WriteEnds
  <2>1. wire' = wire /\ frames' = frames /\ complete' = complete
    BY <1>3 DEF WriteEnds, Return
  <2>2. cut' = IF written > 0 THEN cut \cup {sending} ELSE cut
    BY <1>3 DEF WriteEnds, Return
  <2>3. \A i \in 1 .. Len(wire) : Unit(wire[i])
    BY DEF WireInv
  <2>4. ASSUME NEW u, Unit(u), ~Derails(u[1])'
        PROVE  /\ ~Derails(u[1])
               /\ LastUnit(u) => LastUnit(u)'
               /\ \A v : Adjacent(u, v) => Adjacent(u, v)'
    <3>1. ~Derails(u[1])
      BY <2>1, <2>2, <2>4 DEF Derails
    <3>2. ASSUME LastUnit(u) PROVE LastUnit(u)'
      <4>1. written \in Nat /\ u[2] \in Nat
        BY <2>4, FrameFacts DEF SenderInv, Unit, Units
      <4>2. ~(u[2] < frames[u[1]])
        BY <2>1, <2>2, <2>4, <3>2, <4>1 DEF LastUnit, Derails
      <4>3. written = 0 /\ \A k \in DOMAIN complete : complete[k] <= u[1]
        BY <3>2, <4>2 DEF LastUnit
      <4>4. written' = 0
        BY <1>3 DEF WriteEnds, Return
      <4> QED
        BY <2>1, <4>2, <4>3, <4>4 DEF LastUnit
    <3>3. \A v : Adjacent(u, v) => Adjacent(u, v)'
      BY <2>1 DEF Adjacent, Follows
    <3> QED
      BY <3>1, <3>2, <3>3
  <2> QED
    BY <2>1, <2>3, <2>4
<1>4. CASE Close
  <2>1. wire' = wire
    BY <1>4 DEF Close
  <2>2. /\ \A u : LastUnit(u)' = LastUnit(u)
        /\ \A n : Derails(n)' = Derails(n)
        /\ \A u, v : Adjacent(u, v)' = Adjacent(u, v)
    BY <1>4 DEF Close, LastUnit, Derails, Adjacent, Follows
  <2> QED
    BY <2>1, <2>2
<1>5. CASE ReadLength
  <2>1. wire # <<>> /\ wire' = Tail(wire) /\ UNCHANGED senderVars
    BY <1>5 DEF ReadLength, Prefix
  <2> QED
    BY <2>1, WireShrinks
<1>6. CASE ReadShortLength
  <2>1. wire # <<>> /\ wire' = Tail(wire) /\ UNCHANGED senderVars
    BY <1>6 DEF ReadShortLength
  <2> QED
    BY <2>1, WireShrinks
<1>7. CASE ReadBody
  <2>1. wire # <<>> /\ wire' = Tail(wire) /\ UNCHANGED senderVars
    BY <1>7 DEF ReadBody, ReadFully
  <2> QED
    BY <2>1, WireShrinks
<1>8. CASE EndOfStream
  <2>1. wire' = wire /\ senderVars' = senderVars
    BY <1>8 DEF EndOfStream, vars, senderVars, receiverVars
  <2>2. /\ \A u : LastUnit(u)' = LastUnit(u)
        /\ \A n : Derails(n)' = Derails(n)
        /\ \A u, v : Adjacent(u, v)' = Adjacent(u, v)
    BY <2>1 DEF senderVars, LastUnit, Derails, Adjacent, Follows
  <2> QED
    BY <2>1, <2>2
<1>9. CASE ClientCloses
  <2>1. wire' = wire /\ senderVars' = senderVars
    BY <1>9 DEF ClientCloses, vars, senderVars, receiverVars
  <2>2. /\ \A u : LastUnit(u)' = LastUnit(u)
        /\ \A n : Derails(n)' = Derails(n)
        /\ \A u, v : Adjacent(u, v)' = Adjacent(u, v)
    BY <2>1 DEF senderVars, LastUnit, Derails, Adjacent, Follows
  <2> QED
    BY <2>1, <2>2
<1>10. CASE UNCHANGED vars
  BY <1>10 DEF vars, LastUnit, Derails, Adjacent, Follows
<1> QED
  BY StepCases, <1>1, <1>2, <1>3, <1>4, <1>5, <1>6, <1>7, <1>8, <1>9, <1>10

-----------------------------------------------------------------------------
(* The receiver's place in the stream.                                     *)

(* A receiver that is lost stays behind the frame it was lost at.          *)
LEMMA LostStays ==
  ASSUME SenderInv, ReaderInv, [Next]_vars, NEW m \in 1 .. Len(frames), LostAt(m)
  PROVE  m \in 1 .. Len(frames') /\ LostAt(m)'
<1> USE DEF vars, senderVars, receiverVars
<1>1. m \in 1 .. Len(frames') /\ (Derails(m))'
  <2>1. ASSUME NEW length \in Lengths, SendFrame(length) PROVE m \in 1 .. Len(frames') /\ (Derails(m))'
    BY <2>1, FrameBegins, FrameFacts DEF LostAt
  <2>2. CASE frames' = frames /\ cut \subseteq cut'
    BY <2>2 DEF LostAt, Derails
  <2>3. \/ \E length \in Lengths : SendFrame(length)
        \/ frames' = frames /\ cut \subseteq cut'
    BY StepCases
       DEF WriteUnit, WriteEnds, Close, ReadLength, ReadShortLength, ReadBody,
           EndOfStream, ClientCloses
  <2> QED
    BY <2>1, <2>2, <2>3
<1>2. Len(delivered) \in Nat /\ Len(delivered') \in Nat /\ Len(delivered) <= Len(delivered')
  <2>1. CASE delivered' = delivered
    BY <2>1, LenProperties DEF ReaderInv
  <2>2. CASE ReadBody
    <3>1. delivered' = delivered \/ delivered' = Append(delivered, Append(readBuf, Head(wire)))
      BY <2>2 DEF ReadBody
    <3>2. Append(delivered, Append(readBuf, Head(wire))) \in Seq(Seq(Units)) =>
             Len(Append(delivered, Append(readBuf, Head(wire)))) = Len(delivered) + 1
      OBVIOUS
    <3> QED
      BY <2>1, <3>1 DEF ReaderInv
  <2>3. delivered' = delivered \/ ReadBody
    BY StepCases
       DEF SendFrame, WriteUnit, WriteEnds, Close, ReadLength, ReadShortLength,
           EndOfStream, ClientCloses
  <2> QED
    BY <2>1, <2>2, <2>3
<1>3. \A k \in DOMAIN complete' : complete'[k] < m => k \in DOMAIN complete /\ complete'[k] = complete[k]
  <2>1. CASE complete' = complete
    BY <2>1
  <2>2. CASE sending # 0 /\ complete' = Append(complete, sending)
    <3>1. /\ DOMAIN complete' = 1 .. Len(complete) + 1 /\ Len(complete) \in Nat
          /\ DOMAIN complete = 1 .. Len(complete)
          /\ \A k \in 1 .. Len(complete) : complete'[k] = complete[k]
          /\ complete'[Len(complete) + 1] = sending
      BY <2>2, FrameCompletes, FrameFacts
    <3>2. ~(sending < m)
      BY <2>2, FrameFacts DEF SenderInv
    <3> QED
      BY <3>1, <3>2
  <2>3. complete' = complete \/ (sending # 0 /\ complete' = Append(complete, sending))
    BY StepCases
       DEF SendFrame, WriteUnit, WriteEnds, Close, ReadLength, ReadShortLength,
        ReadBody,
       EndOfStream, ClientCloses
  <2> QED
    BY <2>1, <2>2, <2>3
<1>4. \A k \in DOMAIN complete' : complete'[k] < m => k <= Len(delivered')
  <2> SUFFICES ASSUME NEW k \in DOMAIN complete', complete'[k] < m PROVE k <= Len(delivered')
    OBVIOUS
  <2>1. k \in DOMAIN complete /\ k <= Len(delivered)
    BY <1>3 DEF LostAt
  <2>2. k \in Nat
    BY <2>1, FrameFacts
  <2> QED
    BY <1>2, <2>1, <2>2
<1> QED
  BY <1>1, <1>4 DEF LostAt

(* The first unit on the wire, and what is left when it is read.           *)
LEMMA FirstUnit ==
  ASSUME WireInv, wire # <<>>
  PROVE  /\ Len(wire) \in Nat \ {0} /\ wire \in Seq(Units)
         /\ Unit(wire[1]) /\ Head(wire) = wire[1]
         /\ Tail(wire) = <<>> <=> Len(wire) = 1
         /\ Tail(wire) # <<>> => Unit(wire[2]) /\ Tail(wire)[1] = wire[2]
<1>1. wire \in Seq(Units)
  BY DEF WireInv
<1>2. /\ Len(wire) \in Nat \ {0} /\ Head(wire) = wire[1]
      /\ Tail(wire) = <<>> <=> Len(wire) = 1
      /\ \A k \in 1 .. Len(wire) - 1 : Tail(wire)[k] = wire[k + 1]
  BY <1>1, Dropped
<1>3. Unit(wire[1])
  BY <1>2 DEF WireInv
<1>4. ASSUME Tail(wire) # <<>> PROVE Unit(wire[2]) /\ Tail(wire)[1] = wire[2]
  <2>1. 1 \in 1 .. Len(wire) - 1 /\ 2 \in 1 .. Len(wire)
    BY <1>2, <1>4
  <2> QED
    BY <1>2, <2>1 DEF WireInv
<1> QED
  BY <1>1, <1>2, <1>3, <1>4

(* A receiver at its place that has read the unit <<n, j>> finds the next  *)
(* one, or the sender has still to write it.                               *)
LEMMA NextUnit ==
  ASSUME SenderInv, WireInv, StreamInv, wire # <<>>, NEW n, NEW j, wire[1] = <<n, j>>,
         ~Derails(n)
  PROVE  /\ j < frames[n] =>
               IF Tail(wire) = <<>> THEN sending = n /\ written = j + 1
                                    ELSE Tail(wire)[1] = <<n, j + 1>>
         /\ ~(j < frames[n]) =>
               IF Tail(wire) = <<>> THEN written = 0 /\ \A k \in DOMAIN complete : complete[k] <= n
                                    ELSE Tail(wire)[1][2] = 0 /\ Follows(n, Tail(wire)[1][1])
<1>1. /\ Len(wire) \in Nat \ {0}
      /\ Tail(wire) = <<>> <=> Len(wire) = 1
      /\ Tail(wire) # <<>> => Unit(wire[2]) /\ Tail(wire)[1] = wire[2]
  BY FirstUnit
<1>2. wire[1][1] = n /\ wire[1][2] = j
  OBVIOUS
<1>3. IF 1 < Len(wire) THEN Adjacent(wire[1], wire[2]) ELSE LastUnit(wire[1])
  BY <1>1, <1>2 DEF StreamInv
<1>4. CASE Tail(wire) = <<>>
  <2>1. LastUnit(wire[1])
    BY <1>1, <1>3, <1>4
  <2> QED
    BY <1>2, <1>4, <2>1 DEF LastUnit
<1>5. CASE Tail(wire) # <<>>
  <2>1. Adjacent(wire[1], wire[2])
    BY <1>1, <1>3, <1>5
  <2>2. wire[2] = <<wire[2][1], wire[2][2]>>
    BY <1>1, <1>5 DEF Unit, Units
  <2> QED
    BY <1>1, <1>2, <1>5, <2>1, <2>2 DEF Adjacent
<1> QED
  BY <1>4, <1>5

(* The body that is read in full is the next complete frame.               *)
LEMMA BodyRead ==
  ASSUME SenderInv, WireInv, ReaderInv, InPlace, ReadBody,
         NEW n \in 1 .. Len(frames), InBody(n), ReadFully(Append(readBuf, Head(wire)))
  PROVE  /\ Append(readBuf, Head(wire)) = Body(n)
         /\ Len(delivered) + 1 \in DOMAIN complete /\ complete[Len(delivered) + 1] = n
         /\ wire[1] = <<n, frames[n]>>
<1>1. /\ wire # <<>> /\ wire[1] = <<n, Len(readBuf) + 1>> /\ Head(wire) = wire[1]
      /\ Unit(wire[1]) /\ need = frames[n]
  BY FirstUnit DEF ReadBody, InBody
<1>2. /\ Append(readBuf, Head(wire)) \in Seq(Units)
      /\ Len(Append(readBuf, Head(wire))) = Len(readBuf) + 1 /\ Len(readBuf) \in Nat
      /\ \A i \in 1 .. Len(readBuf) : Append(readBuf, Head(wire))[i] = readBuf[i]
      /\ Append(readBuf, Head(wire))[Len(readBuf) + 1] = Head(wire)
  <2>1. readBuf \in Seq(Units) /\ Head(wire) \in Units
    BY <1>1 DEF ReaderInv, Unit
  <2> QED
    BY <2>1, Appended
<1>3. Len(readBuf) + 1 = frames[n] /\ frames[n] \in Nat
  BY <1>1, <1>2, FrameFacts DEF ReadFully
<1>4. Append(readBuf, Head(wire)) = Body(n)
  <2>1. \A i \in 1 .. frames[n] : Append(readBuf, Head(wire))[i] = <<n, i>>
    BY <1>1, <1>2, <1>3 DEF InBody
  <2>2. Body(n) \in Seq(Units) /\ Len(Body(n)) = frames[n]
    <3>1. n \in Frames
      BY FrameFacts, TcpAssumption DEF SenderInv, Frames
    <3> QED
      BY <1>3, <3>1 DEF Body, Units
  <2>3. \A i \in 1 .. frames[n] : Body(n)[i] = <<n, i>>
    BY DEF Body
  <2> QED
    BY <1>2, <1>3, <2>1, <2>2, <2>3, SeqEqual
<1>5. n \in Range(complete)
  BY <1>1, <1>3 DEF Unit
<1>6. PICK k \in 1 .. Len(complete) : complete[k] = n
  BY <1>5, FrameFacts DEF Range
<1>7. Len(delivered) \in Nat /\ Len(delivered) < k
  <2>1. ~(k <= Len(delivered))
    BY <1>6, FrameFacts DEF InBody, Before
  <2> QED
    BY <1>6, <2>1, LenProperties, FrameFacts DEF ReaderInv
<1>8. k = Len(delivered) + 1
  <2> SUFFICES ASSUME Len(delivered) + 1 < k PROVE FALSE
    BY <1>6, <1>7, FrameFacts
  <2>1. Len(delivered) + 1 \in 1 .. Len(complete)
    BY <1>6, <1>7, FrameFacts
  <2>2. complete[Len(delivered) + 1] < n
    BY <1>6, <2>1, FrameFacts DEF SenderInv
  <2>3. Len(delivered) + 1 <= Len(delivered)
    BY <2>1, <2>2, FrameFacts DEF InBody, Before
  <2> QED
    BY <1>7, <2>3
<1> QED
  BY <1>1, <1>3, <1>4, <1>6, <1>8, FrameFacts

(* A new frame does not disturb the receiver.                              *)
LEMMA PlaceSendFrame ==
  ASSUME SenderInv, WireInv, StreamInv, ReaderInv, InPlace, NEW length \in Lengths,
         SendFrame(length)
  PROVE  PlaceInv'
<1>1. /\ wire' = wire /\ complete' = complete /\ sending = 0 /\ written' = written
      /\ receiverVars' = receiverVars
  BY DEF SendFrame
<1>2. /\ reader' = reader /\ delivered' = delivered /\ need' = need /\ readBuf' = readBuf
  BY <1>1 DEF receiverVars
<1>3. AtPrefix => AtPrefix'
  BY <1>1, <1>2 DEF AtPrefix, Before
<1>4. ASSUME NEW n \in 1 .. Len(frames), InBody(n)
      PROVE  n \in 1 .. Len(frames') /\ InBody(n)'
  <2>1. n \in 1 .. Len(frames') /\ frames'[n] = frames[n] /\ Derails(n)' = Derails(n)
    BY FrameBegins, FrameFacts
  <2>2. wire # <<>>
    BY <1>1, <1>4 DEF InBody
  <2> QED
    BY <1>1, <1>2, <1>4, <2>1, <2>2 DEF InBody, Before
<1> QED
  BY <1>1, <1>2, <1>3, <1>4 DEF InPlace, PlaceInv

(* A unit is written behind those on the wire.                             *)
LEMMA PlaceWriteUnit ==
  ASSUME SenderInv, WireInv, StreamInv, ReaderInv, InPlace, WriteUnit
  PROVE  PlaceInv'
<1>1. PICK new : new = <<sending, written>>
  OBVIOUS
<1>2. /\ wire' = Append(wire, new) /\ frames' = frames /\ cut' = cut /\ sending # 0
      /\ receiverVars' = receiverVars
      /\ complete' = complete \/ complete' = Append(complete, sending)
  BY <1>1 DEF WriteUnit
<1>3. reader' = reader /\ delivered' = delivered /\ need' = need /\ readBuf' = readBuf
  BY <1>2 DEF receiverVars
<1>4. /\ sending \in 1 .. Len(frames) /\ new[1] = sending /\ new[2] = written
      /\ new \in Units
  <2>1. sending \in 1 .. Len(frames) /\ written \in Nat
    BY <1>2, FrameFacts DEF SenderInv
  <2> QED
    BY <1>1, <2>1, TcpAssumption, FrameFacts DEF SenderInv, Units, Frames
<1>5. /\ wire = <<>> => wire'[1] = new
      /\ wire # <<>> => wire'[1] = wire[1]
      /\ wire' # <<>>
  <2>1. wire \in Seq(Units)
    BY DEF WireInv
  <2>2. /\ Len(wire) \in Nat /\ wire'[Len(wire) + 1] = new /\ wire' # <<>>
        /\ \A k \in 1 .. Len(wire) : wire'[k] = wire[k]
    BY <1>2, <1>4, <2>1, Appended
  <2>3. wire = <<>> => Len(wire) = 0
    OBVIOUS
  <2>4. wire # <<>> => Len(wire) # 0
    BY <2>1, EmptySeq
  <2> QED
    BY <2>2, <2>3, <2>4
<1>6. /\ Len(delivered) \in Nat /\ Len(delivered) <= Len(complete)
      /\ Len(complete) \in Nat /\ DOMAIN complete = 1 .. Len(complete)
  BY FrameFacts, LenProperties DEF ReaderInv, InPlace
<1>7. \/ complete' = complete
      \/ /\ DOMAIN complete' = 1 .. Len(complete) + 1 /\ Len(complete') = Len(complete) + 1
         /\ \A k \in 1 .. Len(complete) : complete'[k] = complete[k]
         /\ complete'[Len(complete) + 1] = sending
  BY <1>2, FrameCompletes
<1>8. ASSUME NEW n \in 1 .. sending, Before(n) PROVE Before(n)'
  <2>1. ~(Len(complete) + 1 <= Len(delivered)) /\ ~(sending < n)
    BY <1>4, <1>6, FrameFacts
  <2> QED
    BY <1>3, <1>6, <1>7, <1>8, <2>1 DEF Before
<1>9. sending = Len(frames)
  BY <1>2 DEF SenderInv
<1>10. AtPrefix => AtPrefix'
  <2>1. CASE wire = <<>>
    <3>1. AtPrefix => written = 0 /\ Len(delivered) = Len(complete)
      BY <2>1 DEF AtPrefix
    <3>2. Len(delivered) = Len(complete) => Before(sending)
      <4>1. \A k \in DOMAIN complete : complete[k] < sending
        BY <1>2 DEF SenderInv
      <4> QED
        BY <1>6, <4>1 DEF Before
    <3>3. wire'[1][1] = sending /\ wire'[1][2] = written
      BY <1>4, <1>5, <2>1
    <3>4. PICK n : n = sending
      OBVIOUS
    <3>5. AtPrefix => Before(n)'
      <4>1. AtPrefix => Before(n)
        BY <3>1, <3>2, <3>4
      <4> QED
        BY <1>4, <1>8, <3>4, <4>1
    <3> QED
      BY <1>5, <3>1, <3>3, <3>4, <3>5 DEF AtPrefix, Before
  <2>2. CASE wire # <<>>
    <3>1. PICK n : n = wire[1][1]
      OBVIOUS
    <3>2. n \in 1 .. sending
      BY <1>9, <2>2, <3>1, FirstUnit DEF Unit
    <3>3. Before(n) => Before(n)'
      BY <1>8, <3>2
    <3> QED
      BY <1>5, <2>2, <3>1, <3>3 DEF AtPrefix, Before
  <2> QED
    BY <2>1, <2>2
<1>11. ASSUME NEW n \in 1 .. Len(frames), InBody(n) PROVE InBody(n)'
  <2>1. Before(n)'
    BY <1>8, <1>9, <1>11 DEF InBody
  <2>2. ~Derails(n)'
    BY <1>2, <1>11 DEF InBody, Derails
  <2>3. wire'[1] = <<n, Len(readBuf) + 1>>
    BY <1>1, <1>5, <1>11 DEF InBody
  <2> QED
    BY <1>2, <1>3, <1>5, <1>11, <2>1, <2>2, <2>3 DEF InBody
<1>12. Len(delivered') <= Len(complete')
  BY <1>3, <1>6, <1>7
<1> QED
  BY <1>2, <1>3, <1>10, <1>11, <1>12 DEF InPlace, PlaceInv

(* A frame that is cut off loses the receiver its place if it is inside    *)
(* that frame; if not, it will when it gets there.                         *)
LEMMA PlaceWriteEnds ==
  ASSUME SenderInv, WireInv, StreamInv, ReaderInv, InPlace, WriteEnds
  PROVE  PlaceInv'
<1>1. /\ wire' = wire /\ frames' = frames /\ complete' = complete /\ written' = 0 /\ sending' = 0
      /\ receiverVars' = receiverVars /\ sending # 0
      /\ cut' = IF written > 0 THEN cut \cup {sending} ELSE cut
  BY DEF WriteEnds, Return
<1>2. reader' = reader /\ delivered' = delivered /\ need' = need /\ readBuf' = readBuf
  BY <1>1 DEF receiverVars
<1>3. AtPrefix => AtPrefix'
  BY <1>1, <1>2 DEF AtPrefix, Before
<1>4. ASSUME NEW n \in 1 .. Len(frames), InBody(n)
      PROVE  InBody(n)' \/ LostAt(n)'
  <2>1. Len(readBuf) \in Nat
    BY LenProperties DEF ReaderInv
  <2>2. ~Derails(n) /\ Before(n) /\ (wire = <<>> => sending = n /\ written = Len(readBuf) + 1)
    BY <1>4 DEF InBody
  <2>3. CASE Derails(n)'
    <3>1. \A k \in DOMAIN complete : complete[k] < n => k <= Len(delivered)
      BY <2>2 DEF Before
    <3> QED
      BY <1>1, <1>2, <2>3, <3>1 DEF LostAt
  <2>4. CASE ~Derails(n)'
    <3>1. wire # <<>>
      <4> SUFFICES ASSUME wire = <<>> PROVE FALSE
        OBVIOUS
      <4>1. sending = n /\ written > 0
        BY <2>1, <2>2
      <4> QED
        BY <1>1, <2>4, <4>1 DEF Derails
    <3> QED
      BY <1>1, <1>2, <1>4, <2>4, <3>1 DEF InBody, Before
  <2> QED
    BY <2>3, <2>4
<1> QED
  BY <1>1, <1>2, <1>3, <1>4 DEF InPlace, PlaceInv

(* The receiver reads a prefix.                                            *)
LEMMA PlaceReadLength ==
  ASSUME SenderInv, WireInv, StreamInv, ReaderInv, InPlace, ReadLength
  PROVE  PlaceInv'
<1>1. /\ wire # <<>> /\ wire' = Tail(wire) /\ senderVars' = senderVars
      /\ readBuf' = readBuf /\ delivered' = delivered /\ reader = "length"
  BY DEF ReadLength
<1>2. frames' = frames /\ complete' = complete /\ cut' = cut /\ sending' = sending /\ written' = written
  BY <1>1 DEF senderVars
<1>3. PICK n : n = wire[1][1]
  OBVIOUS
<1>4. /\ wire[1] = <<n, 0>> /\ Before(n) /\ n \in 1 .. Len(frames)
      /\ Head(wire) = wire[1] /\ readBuf = <<>>
  <2>1. wire[1][2] = 0 /\ Before(n)
    BY <1>1, <1>3 DEF InPlace, AtPrefix
  <2>2. Unit(wire[1]) /\ Head(wire) = wire[1]
    BY <1>1, FirstUnit
  <2>3. wire[1] = <<wire[1][1], wire[1][2]>>
    BY <2>2 DEF Unit, Units
  <2> QED
    BY <1>1, <1>3, <2>1, <2>2, <2>3 DEF Unit, ReaderInv
<1>5. frames[n] \in Nat /\ frames[n] > 0
  BY <1>4, FrameFacts
<1>6. IF TooLong(frames[n]) THEN UNCHANGED <<reader, need>>
                            ELSE reader' = "body" /\ need' = frames[n]
  <2>1. Prefix(Head(wire)) = {frames[n]}
    BY <1>4 DEF Prefix
  <2>2. \E length \in Prefix(Head(wire)) :
           IF length = 0 \/ TooLong(length)
           THEN UNCHANGED <<reader, need>>
           ELSE reader' = "body" /\ need' = length
    BY DEF ReadLength
  <2> QED
    BY <1>5, <2>1, <2>2
<1>7. CASE Derails(n)
  <2>1. LostAt(n)'
    <3>1. \A k \in DOMAIN complete : complete[k] < n => k <= Len(delivered)
      BY <1>4 DEF Before
    <3> QED
      BY <1>1, <1>2, <1>7, <3>1 DEF LostAt, Derails
  <2> QED
    BY <1>2, <1>4, <2>1 DEF PlaceInv
<1>8. CASE ~Derails(n)
  <2>1. reader' = "body" /\ need' = frames[n]
    BY <1>6, <1>8 DEF Derails, TooLong
  <2>2. IF Tail(wire) = <<>> THEN sending = n /\ written = 0 + 1
                             ELSE Tail(wire)[1] = <<n, 0 + 1>>
    BY <1>1, <1>4, <1>5, <1>8, NextUnit
  <2>3. Len(readBuf) = 0
    BY <1>4
  <2>4. ~Derails(n)' /\ Before(n)'
    BY <1>1, <1>2, <1>4, <1>8 DEF Derails, Before
  <2>5. InBody(n)'
    BY <1>1, <1>2, <2>1, <2>2, <2>3, <2>4 DEF InBody
  <2> QED
    BY <1>1, <1>2, <1>4, <2>1, <2>5 DEF InPlace, PlaceInv
<1> QED
  BY <1>7, <1>8

(* The receiver reads of a body.                                           *)
LEMMA PlaceReadBody ==
  ASSUME SenderInv, WireInv, StreamInv, ReaderInv, InPlace, ReadBody
  PROVE  PlaceInv'
<1>1. /\ wire # <<>> /\ wire' = Tail(wire) /\ senderVars' = senderVars
      /\ need' = need /\ reader = "body"
  BY DEF ReadBody
<1>2. frames' = frames /\ complete' = complete /\ cut' = cut /\ sending' = sending /\ written' = written
  BY <1>1 DEF senderVars
<1>3. PICK n \in 1 .. Len(frames) : InBody(n)
  BY <1>1 DEF InPlace
<1>4. /\ wire[1] = <<n, Len(readBuf) + 1>> /\ Head(wire) = wire[1] /\ Unit(wire[1])
      /\ ~Derails(n) /\ Before(n) /\ need = frames[n]
      /\ \A i \in 1 .. Len(readBuf) : readBuf[i] = <<n, i>>
  BY <1>1, <1>3, FirstUnit DEF InBody
<1>5. PICK buf : buf = Append(readBuf, Head(wire))
  OBVIOUS
<1>6. /\ Len(buf) = Len(readBuf) + 1 /\ Len(readBuf) \in Nat
      /\ \A i \in 1 .. Len(readBuf) : buf[i] = readBuf[i]
      /\ buf[Len(readBuf) + 1] = Head(wire)
      /\ buf \in Seq(Units)
  <2>1. readBuf \in Seq(Units) /\ Head(wire) \in Units
    BY <1>4 DEF ReaderInv, Unit
  <2> QED
    BY <1>5, <2>1, Appended
<1>7. frames[n] \in Nat /\ Len(readBuf) < frames[n]
  BY <1>1, <1>4, FrameFacts DEF ReaderInv
<1>8. Len(delivered) \in Nat /\ Len(complete) \in Nat /\ DOMAIN complete = 1 .. Len(complete)
  BY FrameFacts, LenProperties DEF ReaderInv
<1>9. CASE ReadFully(buf)
  <2>1. /\ delivered' = Append(delivered, buf) /\ readBuf' = <<>> /\ reader' = "length"
    BY <1>5, <1>9 DEF ReadBody
  <2>2. Len(delivered') = Len(delivered) + 1
    BY <1>6, <2>1, Appended DEF ReaderInv
  <2>3. /\ Len(delivered) + 1 \in DOMAIN complete /\ complete[Len(delivered) + 1] = n
        /\ wire[1] = <<n, frames[n]>>
    BY <1>3, <1>5, <1>9, BodyRead
  <2>4. IF Tail(wire) = <<>> THEN written = 0 /\ \A k \in DOMAIN complete : complete[k] <= n
                             ELSE Tail(wire)[1][2] = 0 /\ Follows(n, Tail(wire)[1][1])
    BY <1>1, <1>4, <1>7, <2>3, NextUnit
  <2>5. \A j, k \in DOMAIN complete : j < k => complete[j] < complete[k]
    BY DEF SenderInv
  <2>6. \A k \in DOMAIN complete : complete[k] \in Nat
    BY FrameFacts DEF SenderInv
  <2>7. Len(delivered') <= Len(complete')
    BY <1>2, <1>8, <2>2, <2>3
  <2>8. CASE Tail(wire) = <<>>
    <3>1. Len(delivered) + 1 = Len(complete)
      <4>0. Len(delivered) + 1 <= Len(complete)
        BY <1>2, <2>2, <2>7
      <4>3. \A d, c \in Nat : d + 1 <= c /\ ~(d + 1 < c) => d + 1 = c
        OBVIOUS
      <4> SUFFICES ASSUME Len(delivered) + 1 < Len(complete) PROVE FALSE
        BY <1>8, <4>0, <4>3, Zenon
      <4>1. Len(complete) \in DOMAIN complete /\ n < complete[Len(complete)]
        BY <1>8, <2>3, <2>5
      <4>2. complete[Len(complete)] <= n
        BY <2>4, <2>8, <4>1
      <4> QED
        BY <2>3, <2>6, <4>1, <4>2
    <3> QED
      BY <1>1, <1>2, <2>1, <2>2, <2>4, <2>7, <2>8, <3>1 DEF InPlace, AtPrefix, PlaceInv
  <2>9. CASE Tail(wire) # <<>>
    <3>1. PICK m : m = Tail(wire)[1][1]
      OBVIOUS
    <3>2. Tail(wire)[1][2] = 0 /\ n < m /\ \A c \in Range(complete) : n < c => m <= c
      BY <2>4, <2>9, <3>1 DEF Follows
    <3>3. m \in Nat
      BY <1>1, <2>9, <3>1, FirstUnit DEF Unit
    <3>4. \A k \in DOMAIN complete : k <= Len(delivered) + 1 <=> complete[k] < m
      <4> TAKE k \in DOMAIN complete
      <4>1. CASE k <= Len(delivered) + 1
        <5>1. complete[k] <= n
          BY <1>8, <2>3, <2>5, <2>6, <4>1
        <5> QED
          BY <2>3, <2>6, <3>2, <3>3, <4>1, <5>1
      <4>2. CASE ~(k <= Len(delivered) + 1)
        <5>1. n < complete[k] /\ complete[k] \in Range(complete)
          BY <1>8, <2>3, <2>5, <4>2 DEF Range
        <5> QED
          BY <2>6, <3>2, <3>3, <4>2, <5>1
      <4> QED
        BY <4>1, <4>2
    <3> QED
      BY <1>1, <1>2, <2>1, <2>2, <2>7, <2>9, <3>1, <3>2, <3>4
         DEF InPlace, AtPrefix, Before, PlaceInv
  <2> QED
    BY <2>8, <2>9
<1>10. CASE ~ReadFully(buf)
  <2>1. readBuf' = buf /\ delivered' = delivered /\ reader' = reader
    BY <1>5, <1>10 DEF ReadBody
  <2>2. Len(readBuf) + 1 < frames[n]
    BY <1>4, <1>6, <1>7, <1>10 DEF ReadFully
  <2>3. IF Tail(wire) = <<>> THEN sending = n /\ written = (Len(readBuf) + 1) + 1
                             ELSE Tail(wire)[1] = <<n, (Len(readBuf) + 1) + 1>>
    BY <1>1, <1>4, <2>2, NextUnit
  <2>4. \A i \in 1 .. Len(buf) : buf[i] = <<n, i>>
    BY <1>4, <1>6
  <2>5. ~Derails(n)' /\ Before(n)'
    BY <1>2, <1>4, <2>1 DEF Derails, Before
  <2>6. InBody(n)'
    BY <1>1, <1>2, <1>4, <1>6, <2>1, <2>3, <2>4, <2>5 DEF InBody
  <2> QED
    BY <1>1, <1>2, <1>3, <2>1, <2>6 DEF InPlace, PlaceInv
<1> QED
  BY <1>9, <1>10

(* Keeping its place, or being lost.                                       *)
LEMMA PlaceInvStep ==
  ASSUME SenderInv, WireInv, StreamInv, ReaderInv, PlaceInv, [Next]_vars
  PROVE  PlaceInv'
<1>1. CASE InPlace
  <2>1. ASSUME NEW length \in Lengths, SendFrame(length) PROVE PlaceInv'
    BY <1>1, <2>1, PlaceSendFrame
  <2>2. CASE WriteUnit \/ WriteEnds \/ ReadLength \/ ReadBody
    BY <1>1, <2>2, PlaceWriteUnit, PlaceWriteEnds, PlaceReadLength, PlaceReadBody
  <2>3. CASE Close \/ UNCHANGED vars
    BY <1>1, <2>3
       DEF Close, vars, senderVars, receiverVars, PlaceInv, InPlace, AtPrefix, Before,
           InBody, Derails
  <2>4. CASE ReadShortLength \/ EndOfStream \/ ClientCloses
    <3>1. /\ reader' \in {"ended", "closed"} /\ delivered' = delivered /\ senderVars' = senderVars
      BY <2>4 DEF ReadShortLength, EndOfStream, ClientCloses
    <3> QED
      BY <1>1, <3>1 DEF senderVars, PlaceInv, InPlace
  <2> QED
    BY StepCases, <2>1, <2>2, <2>3, <2>4
<1>2. ASSUME NEW m \in 1 .. Len(frames), LostAt(m) PROVE PlaceInv'
  BY <1>2, LostStays DEF PlaceInv
<1> QED
  BY <1>1, <1>2 DEF PlaceInv

(* A frame that derails the receiver takes all later ones off the track.   *)
LEMMA LostFrames ==
  ASSUME NEW m \in 1 .. Len(frames), LostAt(m), Len(frames) \in Nat,
         NEW k \in DOMAIN complete, complete[k] \in Nat, OnTrack(complete[k])
  PROVE  k <= Len(delivered)
<1>1. complete[k] < m
  <2> SUFFICES ASSUME m <= complete[k] PROVE FALSE
    OBVIOUS
  <2>1. m \in 1 .. complete[k]
    OBVIOUS
  <2> QED
    BY <2>1 DEF OnTrack, LostAt
<1> QED
  BY <1>1 DEF LostAt

(* Packets delivered so far remain the frames they are.                    *)
LEMMA IntactStep ==
  ASSUME SenderInv, WireInv, StreamInv, ReaderInv, PlaceInv, IntactBeforeCut,
         [Next]_vars
  PROVE  IntactBeforeCut'
<1> USE DEF vars, senderVars, receiverVars
<1>1. /\ DOMAIN complete = 1 .. Len(complete) /\ Len(complete) \in Nat
      /\ DOMAIN delivered = 1 .. Len(delivered) /\ Len(delivered) \in Nat
      /\ Len(frames) \in Nat
      /\ \A k \in DOMAIN complete : complete[k] \in 1 .. Len(frames)
  BY FrameFacts, LenProperties DEF ReaderInv, SenderInv
<1>2. ASSUME NEW n \in 1 .. Len(frames)
      PROVE  /\ OnTrack(n)' => OnTrack(n)
             /\ Body(n)' = Body(n)
  <2>1. \/ \E length \in Lengths : SendFrame(length)
        \/ frames' = frames /\ cut \subseteq cut'
    BY StepCases
       DEF WriteUnit, WriteEnds, Close, ReadLength, ReadShortLength, ReadBody,
           EndOfStream, ClientCloses
  <2>2. \A m \in 1 .. n : Derails(m) => Derails(m)'
    <3>1. \A m \in 1 .. n : m \in 1 .. Len(frames)
      BY <1>1
    <3>2. CASE \E length \in Lengths : SendFrame(length)
      BY <3>1, <3>2, FrameBegins
    <3>3. CASE frames' = frames /\ cut \subseteq cut'
      BY <3>3 DEF Derails
    <3> QED
      BY <2>1, <3>2, <3>3
  <2>3. frames'[n] = frames[n]
    BY <2>1, FrameBegins
  <2> QED
    BY <2>2, <2>3 DEF OnTrack, Body
<1>3. CASE complete' = complete /\ delivered' = delivered
  <2> SUFFICES ASSUME NEW k \in DOMAIN delivered \cap DOMAIN complete, (OnTrack(complete[k]))'
               PROVE  (delivered[k] = Body(complete[k]))'
    BY <1>3 DEF IntactBeforeCut
  <2>1. PICK n \in 1 .. Len(frames) : n = complete[k]
    BY <1>1
  <2>2. OnTrack(n)' /\ complete'[k] = n
    BY <1>3, <2>1 DEF OnTrack, Derails
  <2>3. delivered[k] = Body(n)
    BY <1>2, <2>1, <2>2 DEF IntactBeforeCut
  <2>4. delivered'[k] = Body(n)'
    BY <1>2, <1>3, <2>3
  <2> QED
    BY <2>2, <2>4 DEF Body
<1>4. CASE WriteUnit /\ complete' # complete
  <2>1. sending # 0 /\ complete' = Append(complete, sending) /\ delivered' = delivered
    BY <1>4 DEF WriteUnit
  <2>2. /\ DOMAIN complete' = 1 .. Len(complete) + 1
        /\ \A k \in 1 .. Len(complete) : complete'[k] = complete[k]
        /\ complete'[Len(complete) + 1] = sending
    BY <2>1, FrameCompletes
  <2> SUFFICES ASSUME NEW k \in DOMAIN delivered \cap DOMAIN complete', (OnTrack(complete[k]))'
               PROVE  (delivered[k] = Body(complete[k]))'
    BY <2>1 DEF IntactBeforeCut
  <2>3. PICK n \in 1 .. Len(frames) : n = complete'[k]
    <3>1. sending \in 1 .. Len(frames)
      BY <2>1, FrameFacts DEF SenderInv
    <3>2. complete'[k] \in 1 .. Len(frames)
      BY <1>1, <2>2, <3>1
    <3> QED
      BY <3>2
  <2>4. OnTrack(n)'
    BY <2>3 DEF OnTrack, Derails
  <2>5. OnTrack(n)
    BY <1>2, <2>4
  <2>6. k \in DOMAIN complete
    <3> SUFFICES ASSUME k = Len(complete) + 1 PROVE FALSE
      BY <1>1, <2>2
    <3>1. Len(complete) < Len(delivered) /\ n = sending
      BY <1>1, <2>2, <2>3
    <3>2. PICK m \in 1 .. Len(frames) : LostAt(m)
      BY <1>1, <3>1 DEF PlaceInv, InPlace
    <3>3. m \in 1 .. n
      BY <1>1, <2>1, <2>3, <3>1 DEF SenderInv
    <3> QED
      BY <2>5, <3>2, <3>3 DEF OnTrack, LostAt
  <2>7. delivered[k] = Body(n)
    BY <1>1, <2>2, <2>3, <2>5, <2>6 DEF IntactBeforeCut
  <2>8. delivered'[k] = Body(n)'
    BY <1>2, <2>1, <2>7
  <2> QED
    BY <2>3, <2>8 DEF Body
<1>5. CASE ReadBody /\ delivered' # delivered
  <2>1. PICK buf : buf = Append(readBuf, Head(wire))
    OBVIOUS
  <2>2. delivered' = Append(delivered, buf) /\ complete' = complete /\ ReadFully(buf)
    BY <1>5, <2>1 DEF ReadBody
  <2>3. buf \in Seq(Units)
    <3>1. readBuf \in Seq(Units) /\ Head(wire) \in Units
      BY <1>5, FirstUnit DEF ReaderInv, ReadBody, Unit
    <3> QED
      BY <2>1, <3>1, Appended
  <2>4. /\ DOMAIN delivered' = 1 .. Len(delivered) + 1
        /\ \A k \in 1 .. Len(delivered) : delivered'[k] = delivered[k]
        /\ delivered'[Len(delivered) + 1] = buf
    BY <2>2, <2>3, Appended DEF ReaderInv
  <2> SUFFICES ASSUME NEW k \in DOMAIN delivered' \cap DOMAIN complete, (OnTrack(complete[k]))'
               PROVE  (delivered[k] = Body(complete[k]))'
    BY <2>2 DEF IntactBeforeCut
  <2>5. PICK n \in 1 .. Len(frames) : n = complete[k]
    BY <1>1
  <2>6. OnTrack(n)' /\ complete'[k] = n
    BY <2>2, <2>5 DEF OnTrack, Derails
  <2>7. OnTrack(n)
    BY <1>2, <2>6
  <2>8. CASE k \in DOMAIN delivered
    <3>1. delivered[k] = Body(n)
      BY <2>5, <2>7, <2>8 DEF IntactBeforeCut
    <3>2. delivered'[k] = Body(n)'
      BY <1>1, <1>2, <2>4, <2>8, <3>1
    <3> QED
      BY <2>6, <3>2 DEF Body
  <2>9. CASE k = Len(delivered) + 1
    <3>1. ~(k <= Len(delivered))
      BY <1>1, <2>9
    <3>2. InPlace
      BY <1>1, <2>5, <2>7, <3>1, LostFrames DEF PlaceInv
    <3>3. PICK m \in 1 .. Len(frames) : InBody(m)
      BY <1>5, <3>2 DEF InPlace, ReadBody
    <3>4. buf = Body(m) /\ m = n
      BY <1>5, <2>1, <2>2, <2>5, <2>9, <3>2, <3>3, BodyRead
    <3>5. delivered'[k] = Body(n)'
      BY <1>2, <2>4, <2>9, <3>4
    <3> QED
      BY <2>6, <3>5 DEF Body
  <2> QED
    BY <1>1, <2>4, <2>8, <2>9
<1>6. \/ complete' = complete /\ delivered' = delivered
      \/ WriteUnit /\ complete' # complete
      \/ ReadBody /\ delivered' # delivered
  <2>1. WriteUnit => delivered' = delivered
    BY DEF WriteUnit
  <2>2. ReadBody => complete' = complete
    BY DEF ReadBody
  <2>3. WriteUnit \/ ReadBody \/ (complete' = complete /\ delivered' = delivered)
    BY StepCases
       DEF SendFrame, WriteEnds, Close, ReadLength, ReadShortLength, EndOfStream,
        ClientCloses
  <2> QED
    BY <2>1, <2>2, <2>3
<1> QED
  BY <1>3, <1>4, <1>5, <1>6

-----------------------------------------------------------------------------
(* The theorems.                                                           *)

\* The invariant holds before the first frame.
LEMMA InitiallySafe ==
  ASSUME Init
  PROVE  SafeInv
<1>1. /\ frames = <<>> /\ wire = <<>> /\ complete = <<>> /\ delivered = <<>> /\ readBuf = <<>>
      /\ sending = 0 /\ written = 0 /\ cut = {} /\ conn = "open" /\ reader = "length" /\ need = 0
  BY DEF Init
<1>2. \A S : <<>> \in Seq(S) /\ Len(<<>>) = 0 /\ DOMAIN <<>> = {}
  OBVIOUS
<1>3. SenderInv
  BY <1>1, <1>2, TcpAssumption DEF SenderInv
<1>4. WireInv /\ StreamInv
  BY <1>1, <1>2, TcpAssumption DEF WireInv, StreamInv
<1>5. ReaderInv
  BY <1>1, <1>2, TcpAssumption DEF ReaderInv
<1>6. PlaceInv
  BY <1>1, <1>2 DEF PlaceInv, InPlace, AtPrefix
<1>7. IntactBeforeCut
  BY <1>1, <1>2 DEF IntactBeforeCut
<1> QED
  BY <1>3, <1>4, <1>5, <1>6, <1>7 DEF SafeInv

(* However the kernel, the deadline and the receiver meet, the stream and  *)
(* the receiver's place in it keep their invariant.                        *)
THEOREM StreamIsSafe == Spec => []SafeInv
<1>1. ASSUME SafeInv, [Next]_vars PROVE SafeInv'
  BY <1>1, SenderInvStep, WireInvStep, StreamInvStep, ReaderInvStep, PlaceInvStep,
     IntactStep
     DEF SafeInv
<1> QED
  BY InitiallySafe, <1>1, PTL DEF Spec

(* Both ends and the stream stay in their types; the stream never holds    *)
(* more than the buffers take.                                             *)
THEOREM StreamTypeCorrect == Spec => []TypeOK
<1>1. ASSUME SafeInv PROVE TypeOK
  <2>1. sending \in 0 .. Len(frames) /\ (sending = 0 \/ sending = Len(frames))
    BY <1>1, FrameFacts DEF SafeInv, SenderInv
  <2>2. cut \subseteq Frames
    BY <1>1, FrameFacts, TcpAssumption DEF SafeInv, SenderInv, Frames
  <2> QED
    BY <1>1, <2>1, <2>2 DEF SafeInv, SenderInv, WireInv, ReaderInv, TypeOK
<1> QED
  BY <1>1, StreamIsSafe, PTL

(* Until a frame is cut off by its deadline or too long, the packets the   *)
(* receiver delivers are the frames the server wrote in full, byte for     *)
(* byte, in order and none missing.                                        *)
THEOREM FramesArriveIntact == Spec => []IntactBeforeCut
<1>1. ASSUME SafeInv PROVE IntactBeforeCut
  BY <1>1 DEF SafeInv
<1> QED
  BY <1>1, StreamIsSafe, PTL

===============================================================================
