------------------------ MODULE MediaPipeline_proofs -------------------------
(***************************************************************************)
(* The safety of the media pipelines, for any set of sessions, any number  *)
(* of attempts, frames and overdue callbacks, and any samples.             *)
(***************************************************************************)
EXTENDS MediaPipeline, SequenceTheorems, TLAPS

-----------------------------------------------------------------------------
(* The inductive invariant.                                                *)

\* What exists at each place of the pipeline goroutine.
PhaseInv ==
    \A s \in Sessions :
       /\ pc[s] \in {"new", "start"} => stream[s] = "none" /\ attempt[s] < MaxAttempts
       /\ stream[s] = "running" <=> pc[s] = "active"
       /\ stream[s] = "freed" =>
             pc[s] \in {"unregister", "complete", "invalidate", "forget", "ended"}
       /\ encoder[s] = "live" <=>
             pc[s] \in {"start", "active", "wait", "unregister", "complete", "invalidate"}
       /\ encoder[s] = "released" => pc[s] = "forget"

\* The handlers in the maps are those of started captures and live encoders.
HandlerInv ==
    \A s \in Sessions :
       /\ s \in nalHandlers <=> pc[s] \notin {"new", "ended"}
       /\ pc[s] \in {"active", "wait", "unregister"} => <<s, attempt[s]>> \in handlers
       /\ \A k \in 1 .. MaxAttempts :
             <<s, k>> \in handlers =>
                k = attempt[s] /\ pc[s] \in {"active", "wait", "unregister"}

\* Frames are on the capture queue while the stream lives, or are overdue.
QueueInv ==
    \A s \in Sessions :
       queued[s] > 0 \/ capture[s] # "idle" => pc[s] \in {"active", "wait"} \/ s \in overdue

\* A frame is queued or wrapped at most once, and the one in hand is wrapped.
CountInv ==
    \A s \in Sessions :
       /\ queued[s] + retained[s] <= frames
       /\ capture[s] # "idle" => retained[s] > 0

\* Units are in the encoder until Close has completed them, or are overdue.
OutputInv ==
    /\ \A s \in Sessions :
          output[s] # << >> =>
             pc[s] \in {"active", "wait", "unregister", "complete"} \/ s \in overdue
    /\ \A s \in filled : output[s] # << >>
    /\ filled # {} => annex \in [from : Sessions, nal : NALs]

\* The encoder holds units as long as it lives, and two output callbacks that
\* do not clash find their own bytes in the Annex-B buffer.
EncoderInv == \A s \in Sessions : output[s] # << >> => encoder[s] = "live"
AnnexInv ==
    ~clash => /\ \A s, t \in filled : s = t
              /\ \A s \in filled : annex = Unit(s)

\* What the encoder has produced is what was sent and what is still to come.
UnitsCounted ==
    \A s \in Sessions \ overdue : Len(emitted[s]) = Len(sent[s]) + Len(output[s])
Pending(calls, units, made) ==
    \A i \in 1 .. Len(units) : units[i] = made[Len(calls) + i]
Own(s, calls, made) ==
    \A i \in 1 .. Len(calls) : calls[i].from = s /\ calls[i].nal = made[i].nal
OrderInv ==
    \A s \in Sessions \ overdue :
       /\ Pending(sent[s], output[s], emitted[s])
       /\ ~clash => Own(s, sent[s], emitted[s])

IInv ==
    /\ TypeOK /\ PhaseInv /\ HandlerInv /\ QueueInv /\ CountInv /\ OutputInv
    /\ NoUseAfterFree /\ PixelBuffersReleased /\ UnitsCounted
    /\ EncoderInv /\ AnnexInv /\ OrderInv

-----------------------------------------------------------------------------
(* Types.                                                                  *)

\* The units of a sample, with or without parameter sets, are a sequence.
LEMMA UnitsAreASequence ==
  \A sample \in Samples :
     UnitsOf(sample) \in Seq(Units) /\ Len(UnitsOf(sample)) \in Nat
<1> TAKE sample \in Samples
<1> DEFINE nals == IF sample.key THEN sample.parameters \o sample.picture ELSE sample.picture
<1>1. /\ sample.picture \in Seq(NALs) /\ sample.parameters \in Seq(NALs)
      /\ sample.key \in BOOLEAN
  <2>1. sample \in SampleType
    BY MediaAssumption
  <2>2. Seq({"SPS", "PPS"}) \subseteq Seq(NALs)
    BY DEF NALs
  <2> QED
    BY <2>1, <2>2 DEF SampleType
<1>2. nals \in Seq(NALs)
  BY <1>1, ConcatProperties
<1>3. Len(nals) \in Nat /\ DOMAIN nals = 1 .. Len(nals) /\ \A i \in 1 .. Len(nals) : nals[i] \in NALs
  BY <1>2, LenProperties, ElementOfSeq
<1>4. UnitsOf(sample) = [i \in DOMAIN nals |-> [nal |-> nals[i], key |-> sample.key]]
  BY DEF UnitsOf
<1> HIDE DEF nals
<1>5. UnitsOf(sample) \in [1 .. Len(nals) -> Units]
  BY <1>1, <1>3, <1>4 DEF Units
<1>6. UnitsOf(sample) \in Seq(Units)
  BY <1>3, <1>5, SeqDef
<1> QED
  BY <1>6, LenProperties

\* What exists at each place of the goroutine.
LEMMA PhaseStep ==
  ASSUME TypeOK, PhaseInv, [Next]_vars
  PROVE  PhaseInv'
<1> USE DEF PhaseInv, pipelineVars, mapVars, captureVars, encoderVars,
            faultVars, vars, Go, Block, FrameHandler
<1> DEFINE types ==
             /\ pc \in [Sessions -> PCs] /\ attempt \in [Sessions -> 0 .. MaxAttempts]
             /\ stream \in [Sessions -> {"none", "running", "stopped", "freed"}]
             /\ encoder \in [Sessions -> {"none", "live", "released", "nil"}]
<1>t. types
  BY DEF TypeOK
<1>1. ASSUME NEW s \in Sessions, Cancel(s) PROVE PhaseInv'
  BY <1>t, <1>1 DEF Cancel
<1>2. ASSUME NEW s \in Sessions, Pipeline(s) PROVE PhaseInv'
  <2>1. CASE NewEncoder(s)
    BY <1>t, <2>1 DEF NewEncoder
  <2>2. CASE NewEncoderFails(s)
    BY <1>t, <2>2 DEF NewEncoderFails
  <2>3. CASE StartCapture(s)
    BY <1>t, <2>3 DEF StartCapture
  <2>4. CASE StartCaptureFails(s)
    BY <1>t, MediaAssumption, <2>4 DEF StartCaptureFails
  <2>5. CASE StopStream(s)
    BY <1>t, <2>5 DEF StopStream
  <2>6. CASE FreeContext(s)
    BY <1>t, <2>6 DEF FreeContext
  <2>7. CASE UnregisterHandler(s)
    BY <1>t, <2>7 DEF UnregisterHandler
  <2>8. CASE CompleteFrames(s)
    BY <1>t, <2>8 DEF CompleteFrames
  <2>9. CASE InvalidateSession(s)
    BY <1>t, <2>9 DEF InvalidateSession
  <2>10. CASE ForgetSession(s)
    BY <1>t, <2>10 DEF ForgetSession
  <2> QED
    BY <1>2, <2>1, <2>2, <2>3, <2>4, <2>5, <2>6, <2>7, <2>8, <2>9, <2>10 DEF Pipeline
<1>3. ASSUME NEW s \in Sessions, DisplayFrame(s) PROVE PhaseInv'
  BY <1>t, <1>3 DEF DisplayFrame
<1>4. ASSUME NEW s \in Sessions, CaptureQueue(s) PROVE PhaseInv'
  <2>1. CASE WrapFrame(s)
    BY <1>t, <2>1 DEF WrapFrame
  <2>2. CASE WrapFrameOfFreedContext(s)
    BY <1>t, <2>2 DEF WrapFrameOfFreedContext
  <2>3. CASE FindHandler(s)
    BY <1>t, <2>3 DEF FindHandler
  <2>4. CASE Encode(s)
    BY <1>t, <2>4 DEF Encode
  <2>5. CASE EncodeFails(s)
    BY <1>t, <2>5 DEF EncodeFails
  <2> QED
    BY <1>4, <2>1, <2>2, <2>3, <2>4, <2>5 DEF CaptureQueue
<1>5. ASSUME NEW s \in Sessions, OutputThread(s) PROVE PhaseInv'
  <2>1. CASE FillAnnexBuffer(s)
    BY <1>t, <2>1 DEF FillAnnexBuffer
  <2>2. CASE SendUnit(s)
    BY <1>t, <2>2 DEF SendUnit
  <2> QED
    BY <1>5, <2>1, <2>2 DEF OutputThread
<1>6. CASE Done \/ UNCHANGED vars
  BY <1>6 DEF Done
<1> QED
  BY <1>1, <1>2, <1>3, <1>4, <1>5, <1>6 DEF Next

\* Whose handlers are in the maps.
LEMMA HandlerStep ==
  ASSUME TypeOK, PhaseInv, HandlerInv, [Next]_vars
  PROVE  HandlerInv'
<1> USE DEF HandlerInv, pipelineVars, mapVars, captureVars, encoderVars,
            faultVars, vars, Go, Block, FrameHandler
<1> DEFINE types ==
             /\ pc \in [Sessions -> PCs] /\ attempt \in [Sessions -> 0 .. MaxAttempts]
<1>t. types
  BY DEF TypeOK
<1>1. ASSUME NEW s \in Sessions, Cancel(s) PROVE HandlerInv'
  BY <1>t, <1>1 DEF Cancel
<1>2. ASSUME NEW s \in Sessions, Pipeline(s) PROVE HandlerInv'
  <2>1. CASE NewEncoder(s)
    BY <1>t, <2>1 DEF NewEncoder
  <2>2. CASE NewEncoderFails(s)
    BY <1>t, <2>2 DEF NewEncoderFails
  <2>3. CASE StartCapture(s)
    <3>1. attempt[s] + 1 \in 1 .. MaxAttempts
      BY <1>t, MediaAssumption, <2>3 DEF StartCapture, PhaseInv
    <3>2. attempt' = [attempt EXCEPT ![s] = attempt[s] + 1] /\ attempt'[s] = attempt[s] + 1
      BY <1>t, <2>3 DEF StartCapture
    <3>3. handlers' = handlers \cup {<<s, attempt[s] + 1>>}
      BY <3>2, <2>3 DEF StartCapture
    <3>4. \A k \in 1 .. MaxAttempts : <<s, k>> \notin handlers
      BY <2>3 DEF StartCapture
    <3> QED
      BY <1>t, <3>1, <3>2, <3>3, <3>4, <2>3 DEF StartCapture
  <2>4. CASE StartCaptureFails(s)
    BY <1>t, <2>4 DEF StartCaptureFails
  <2>5. CASE StopStream(s)
    BY <1>t, <2>5 DEF StopStream
  <2>6. CASE FreeContext(s)
    BY <1>t, <2>6 DEF FreeContext
  <2>7. CASE UnregisterHandler(s)
    BY <1>t, <2>7 DEF UnregisterHandler
  <2>8. CASE CompleteFrames(s)
    BY <1>t, <2>8 DEF CompleteFrames
  <2>9. CASE InvalidateSession(s)
    BY <1>t, <2>9 DEF InvalidateSession
  <2>10. CASE ForgetSession(s)
    BY <1>t, <2>10 DEF ForgetSession
  <2> QED
    BY <1>2, <2>1, <2>2, <2>3, <2>4, <2>5, <2>6, <2>7, <2>8, <2>9, <2>10 DEF Pipeline
<1>3. ASSUME NEW s \in Sessions, DisplayFrame(s) PROVE HandlerInv'
  BY <1>t, <1>3 DEF DisplayFrame
<1>4. ASSUME NEW s \in Sessions, CaptureQueue(s) PROVE HandlerInv'
  <2>1. CASE WrapFrame(s)
    BY <1>t, <2>1 DEF WrapFrame
  <2>2. CASE WrapFrameOfFreedContext(s)
    BY <1>t, <2>2 DEF WrapFrameOfFreedContext
  <2>3. CASE FindHandler(s)
    BY <1>t, <2>3 DEF FindHandler
  <2>4. CASE Encode(s)
    BY <1>t, <2>4 DEF Encode
  <2>5. CASE EncodeFails(s)
    BY <1>t, <2>5 DEF EncodeFails
  <2> QED
    BY <1>4, <2>1, <2>2, <2>3, <2>4, <2>5 DEF CaptureQueue
<1>5. ASSUME NEW s \in Sessions, OutputThread(s) PROVE HandlerInv'
  <2>1. CASE FillAnnexBuffer(s)
    BY <1>t, <2>1 DEF FillAnnexBuffer
  <2>2. CASE SendUnit(s)
    BY <1>t, <2>2 DEF SendUnit
  <2> QED
    BY <1>5, <2>1, <2>2 DEF OutputThread
<1>6. CASE Done \/ UNCHANGED vars
  BY <1>6 DEF Done
<1> QED
  BY <1>1, <1>2, <1>3, <1>4, <1>5, <1>6 DEF Next

\* Frames on the capture queue, and the pixel buffers made of them.
LEMMA QueueStep ==
  ASSUME TypeOK, PhaseInv, HandlerInv, QueueInv, CountInv, PixelBuffersReleased,
         [Next]_vars
  PROVE  (QueueInv /\ CountInv /\ PixelBuffersReleased)'
<1> USE DEF QueueInv, CountInv, PixelBuffersReleased, pipelineVars, mapVars,
            captureVars, encoderVars, faultVars, vars, Go, Block, FrameHandler
<1> DEFINE types ==
             /\ pc \in [Sessions -> PCs] /\ queued \in [Sessions -> Nat]
             /\ capture \in [Sessions -> {"idle", "wrapped", "found"}]
             /\ retained \in [Sessions -> Nat] /\ frames \in Nat
<1>t. types
  BY MediaAssumption DEF TypeOK
<1>1. ASSUME NEW s \in Sessions, Cancel(s)
      PROVE (QueueInv /\ CountInv /\ PixelBuffersReleased)'
  BY <1>1 DEF Cancel
<1>2. ASSUME NEW s \in Sessions, Pipeline(s)
      PROVE (QueueInv /\ CountInv /\ PixelBuffersReleased)'
  <2>1. CASE NewEncoder(s)
    BY <1>t, <2>1 DEF NewEncoder
  <2>2. CASE NewEncoderFails(s)
    BY <1>t, <2>2 DEF NewEncoderFails
  <2>3. CASE StartCapture(s)
    BY <1>t, <2>3 DEF StartCapture
  <2>4. CASE StartCaptureFails(s)
    BY <1>t, <2>4 DEF StartCaptureFails
  <2>5. CASE StopStream(s)
    BY <1>t, <2>5 DEF StopStream
  <2>6. CASE FreeContext(s)
    BY <1>t, <2>6 DEF FreeContext
  <2>7. CASE UnregisterHandler(s)
    BY <1>t, <2>7 DEF UnregisterHandler
  <2>8. CASE CompleteFrames(s)
    BY <1>t, <2>8 DEF CompleteFrames
  <2>9. CASE InvalidateSession(s)
    BY <1>t, <2>9 DEF InvalidateSession
  <2>10. CASE ForgetSession(s)
    BY <1>t, <2>10 DEF ForgetSession
  <2> QED
    BY <1>2, <2>1, <2>2, <2>3, <2>4, <2>5, <2>6, <2>7, <2>8, <2>9, <2>10 DEF Pipeline
<1>3. ASSUME NEW s \in Sessions, DisplayFrame(s)
      PROVE (QueueInv /\ CountInv /\ PixelBuffersReleased)'
  BY <1>t, <1>3 DEF DisplayFrame, PhaseInv
<1>4. ASSUME NEW s \in Sessions, CaptureQueue(s)
      PROVE (QueueInv /\ CountInv /\ PixelBuffersReleased)'
  <2>1. CASE WrapFrame(s)
    <3>1. QueueInv'
      BY <1>t, <2>1 DEF WrapFrame
    <3>2. CountInv'
      BY <1>t, <2>1 DEF WrapFrame
    <3>3. PixelBuffersReleased'
      BY <1>t, <2>1 DEF WrapFrame
    <3> QED
      BY <3>1, <3>2, <3>3
  <2>2. CASE WrapFrameOfFreedContext(s)
    <3>1. QueueInv'
      BY <1>t, <2>2 DEF WrapFrameOfFreedContext
    <3>2. CountInv'
      BY <1>t, <2>2 DEF WrapFrameOfFreedContext
    <3>3. PixelBuffersReleased'
      BY <1>t, <2>2 DEF WrapFrameOfFreedContext
    <3> QED
      BY <3>1, <3>2, <3>3
  <2>3. CASE FindHandler(s)
    BY <1>t, <2>3 DEF FindHandler, HandlerInv
  <2>4. CASE Encode(s)
    <3>1. QueueInv'
      BY <1>t, <2>4 DEF Encode
    <3>2. CountInv'
      BY <1>t, <2>4 DEF Encode
    <3>3. PixelBuffersReleased'
      BY <1>t, <2>4 DEF Encode
    <3> QED
      BY <3>1, <3>2, <3>3
  <2>5. CASE EncodeFails(s)
    <3>1. QueueInv'
      BY <1>t, <2>5 DEF EncodeFails
    <3>2. CountInv'
      BY <1>t, <2>5 DEF EncodeFails
    <3>3. PixelBuffersReleased'
      BY <1>t, <2>5 DEF EncodeFails
    <3> QED
      BY <3>1, <3>2, <3>3
  <2> QED
    BY <1>4, <2>1, <2>2, <2>3, <2>4, <2>5 DEF CaptureQueue
<1>5. ASSUME NEW s \in Sessions, OutputThread(s)
      PROVE (QueueInv /\ CountInv /\ PixelBuffersReleased)'
  <2>1. CASE FillAnnexBuffer(s)
    BY <2>1 DEF FillAnnexBuffer
  <2>2. CASE SendUnit(s)
    BY <2>2 DEF SendUnit
  <2> QED
    BY <1>5, <2>1, <2>2 DEF OutputThread
<1>6. CASE Done \/ UNCHANGED vars
  BY <1>6 DEF Done
<1> QED
  BY <1>1, <1>2, <1>3, <1>4, <1>5, <1>6 DEF Next

\* The NAL units in the encoder, in the Annex-B buffer and sent.
LEMMA OutputStep ==
  ASSUME TypeOK, PhaseInv, HandlerInv, QueueInv, OutputInv, UnitsCounted, [Next]_vars
  PROVE  (OutputInv /\ UnitsCounted)'
<1> USE DEF OutputInv, UnitsCounted, pipelineVars, mapVars, captureVars,
            encoderVars, faultVars, vars, Go, Block, FrameHandler
<1> DEFINE calls == [from : Sessions, nal : NALs, type : NALs \ {"SEI"}]
           types ==
             /\ pc \in [Sessions -> PCs] /\ filled \subseteq Sessions
             /\ output \in [Sessions -> Seq(Units)] /\ sent \in [Sessions -> Seq(calls)]
             /\ emitted \in [Sessions -> Seq(Units)]
<1>t. types
  BY DEF TypeOK
<1>l. \A t \in Sessions :
         /\ Len(output[t]) \in Nat /\ Len(sent[t]) \in Nat
         /\ output[t] = << >> <=> Len(output[t]) = 0
  BY <1>t, LenProperties, EmptySeq
<1>1. ASSUME NEW s \in Sessions, Cancel(s) PROVE (OutputInv /\ UnitsCounted)'
  BY <1>t, <1>1 DEF Cancel
<1>2. ASSUME NEW s \in Sessions, Pipeline(s) PROVE (OutputInv /\ UnitsCounted)'
  <2>1. CASE NewEncoder(s)
    BY <1>t, <2>1 DEF NewEncoder
  <2>2. CASE NewEncoderFails(s)
    BY <1>t, <2>2 DEF NewEncoderFails
  <2>3. CASE StartCapture(s)
    BY <1>t, <2>3 DEF StartCapture
  <2>4. CASE StartCaptureFails(s)
    BY <1>t, <2>4 DEF StartCaptureFails
  <2>5. CASE StopStream(s)
    BY <1>t, <2>5 DEF StopStream
  <2>6. CASE FreeContext(s)
    BY <1>t, <2>6 DEF FreeContext
  <2>7. CASE UnregisterHandler(s)
    BY <1>t, <2>7 DEF UnregisterHandler
  <2>8. CASE CompleteFrames(s)
    <3>1. OutputInv'
      BY <1>t, <2>8 DEF CompleteFrames
    <3>2. UnitsCounted'
      BY <1>t, <2>8 DEF CompleteFrames
    <3> QED
      BY <3>1, <3>2
  <2>9. CASE InvalidateSession(s)
    <3>1. OutputInv'
      BY <1>t, <1>l, <2>9 DEF InvalidateSession
    <3>2. UnitsCounted'
      BY <1>t, <1>l, <2>9 DEF InvalidateSession
    <3> QED
      BY <3>1, <3>2
  <2>10. CASE ForgetSession(s)
    BY <1>t, <2>10 DEF ForgetSession
  <2> QED
    BY <1>2, <2>1, <2>2, <2>3, <2>4, <2>5, <2>6, <2>7, <2>8, <2>9, <2>10 DEF Pipeline
<1>3. ASSUME NEW s \in Sessions, DisplayFrame(s) PROVE (OutputInv /\ UnitsCounted)'
  BY <1>3 DEF DisplayFrame
<1>4. ASSUME NEW s \in Sessions, CaptureQueue(s) PROVE (OutputInv /\ UnitsCounted)'
  <2>1. CASE WrapFrame(s)
    BY <1>t, <2>1 DEF WrapFrame
  <2>2. CASE WrapFrameOfFreedContext(s)
    BY <1>t, <2>2 DEF WrapFrameOfFreedContext
  <2>3. CASE FindHandler(s)
    BY <1>t, <2>3 DEF FindHandler
  <2>4. CASE Encode(s)
    <3>1. PICK sample \in Samples :
                /\ output' = [output EXCEPT ![s] = output[s] \o UnitsOf(sample)]
                /\ emitted' = [emitted EXCEPT ![s] = emitted[s] \o UnitsOf(sample)]
      BY <2>4 DEF Encode
    <3>2. /\ Len(UnitsOf(sample)) \in Nat /\ output'[s] \in Seq(Units)
          /\ Len(output'[s]) = Len(output[s]) + Len(UnitsOf(sample))
      BY <1>t, <3>1, UnitsAreASequence, ConcatProperties
    <3>3. output[s] # << >> => output'[s] # << >>
      BY <1>l, <3>2, LenProperties, EmptySeq
    <3>4. pc[s] \in {"active", "wait"} \/ s \in overdue
      BY <2>4 DEF Encode, QueueInv
    <3>5. OutputInv'
      BY <1>t, <2>4, <3>1, <3>3, <3>4 DEF Encode
    <3>6. sent' = sent /\ overdue' = overdue
      BY <2>4 DEF Encode
    <3>7. \A t \in Sessions : t # s => emitted'[t] = emitted[t] /\ output'[t] = output[t]
      BY <1>t, <3>1
    <3>8. Len(emitted'[s]) = Len(emitted[s]) + Len(UnitsOf(sample))
      BY <1>t, <3>1, UnitsAreASequence, ConcatProperties
    <3>9. UnitsCounted'
      <4> SUFFICES ASSUME NEW t \in Sessions, t \notin overdue'
                   PROVE  Len(emitted'[t]) = Len(sent'[t]) + Len(output'[t])
        BY DEF UnitsCounted
      <4>1. t \notin overdue /\ Len(emitted[t]) = Len(sent[t]) + Len(output[t])
        BY <3>6 DEF UnitsCounted
      <4>2. CASE t = s
        <5>1. Len(output[s]) \in Nat /\ Len(sent[s]) \in Nat
          BY <1>l
        <5>2. s \notin overdue /\ Len(emitted[s]) = Len(sent[s]) + Len(output[s])
          BY <4>1, <4>2
        <5>3. \A a, b, c \in Nat : (a + b) + c = a + (b + c)
          OBVIOUS
        <5>4. Len(emitted'[s]) = (Len(sent[s]) + Len(output[s])) + Len(UnitsOf(sample))
          BY <5>2, <3>8, Zenon
        <5>5. @ = Len(sent[s]) + (Len(output[s]) + Len(UnitsOf(sample)))
          BY <5>1, <5>3, <3>2, Zenon
        <5>6. @ = Len(sent'[s]) + Len(output'[s])
          BY <3>2, <3>6, Zenon
        <5> QED
          BY <4>2, <5>4, <5>5, <5>6, Zenon
      <4>3. CASE t # s
        BY <4>1, <4>3, <3>6, <3>7
      <4> QED
        BY <4>2, <4>3
    <3> QED
      BY <3>5, <3>9
  <2>5. CASE EncodeFails(s)
    BY <1>t, <2>5 DEF EncodeFails
  <2> QED
    BY <1>4, <2>1, <2>2, <2>3, <2>4, <2>5 DEF CaptureQueue
<1>5. ASSUME NEW s \in Sessions, OutputThread(s) PROVE (OutputInv /\ UnitsCounted)'
  <2>1. CASE FillAnnexBuffer(s)
    <3>1. output[s] # << >> /\ Head(output[s]).nal \in NALs
      <4>1. output[s] # << >> /\ Head(output[s]) \in Units
        BY <1>t, <2>1, HeadTailProperties DEF FillAnnexBuffer
      <4> QED
        BY <4>1 DEF Units
    <3> QED
      BY <1>t, <2>1, <3>1 DEF FillAnnexBuffer, Unit
  <2>2. CASE SendUnit(s)
    <3>1. output[s] # << >>
      BY <2>2 DEF SendUnit
    <3>2. /\ Tail(output[s]) \in Seq(Units) /\ Len(Tail(output[s])) = Len(output[s]) - 1
      BY <1>t, <3>1, HeadTailProperties
    <3>3. s \in overdue \/ s \in nalHandlers
      BY <3>1 DEF HandlerInv
    <3>4. PICK call :
             sent' = [sent EXCEPT ![s] = IF s \in nalHandlers THEN Append(sent[s], call)
                                                              ELSE sent[s]]
      BY <2>2 DEF SendUnit
    <3>5. Len(Append(sent[s], call)) = Len(sent[s]) + 1
      BY <1>t
    <3>6. OutputInv'
      BY <1>t, <1>l, <2>2, <3>2 DEF SendUnit
    <3>7. emitted' = emitted /\ overdue' = overdue
      BY <2>2 DEF SendUnit
    <3>8. \A t \in Sessions : t # s => sent'[t] = sent[t] /\ output'[t] = output[t]
      BY <1>t, <3>4, <2>2 DEF SendUnit
    <3>9. s \notin overdue =>
             Len(sent'[s]) = Len(sent[s]) + 1 /\ Len(output'[s]) = Len(output[s]) - 1
      BY <1>t, <3>2, <3>3, <3>4, <3>5, <2>2 DEF SendUnit
    <3>10. UnitsCounted'
      <4> SUFFICES ASSUME NEW t \in Sessions, t \notin overdue'
                   PROVE  Len(emitted'[t]) = Len(sent'[t]) + Len(output'[t])
        BY DEF UnitsCounted
      <4>1. t \notin overdue /\ Len(emitted[t]) = Len(sent[t]) + Len(output[t])
        BY <3>7 DEF UnitsCounted
      <4>2. CASE t = s
        <5>1. Len(output[s]) \in Nat /\ Len(sent[s]) \in Nat
          BY <1>l
        <5>2. s \notin overdue /\ Len(emitted[s]) = Len(sent[s]) + Len(output[s])
          BY <4>1, <4>2
        <5>3. \A a, b \in Nat : a + b = (a + 1) + (b - 1)
          OBVIOUS
        <5>4. Len(emitted'[s]) = Len(sent[s]) + Len(output[s])
          BY <5>2, <3>7, Zenon
        <5>5. @ = (Len(sent[s]) + 1) + (Len(output[s]) - 1)
          BY <5>1, <5>3, Zenon
        <5>6. @ = Len(sent'[s]) + Len(output'[s])
          BY <5>2, <3>9, Zenon
        <5> QED
          BY <4>2, <5>4, <5>5, <5>6, Zenon
      <4>3. CASE t # s
        BY <4>1, <4>3, <3>7, <3>8
      <4> QED
        BY <4>2, <4>3
    <3> QED
      BY <3>6, <3>10
  <2> QED
    BY <1>5, <2>1, <2>2 DEF OutputThread
<1>6. CASE Done \/ UNCHANGED vars
  BY <1>6 DEF Done
<1> QED
  BY <1>1, <1>2, <1>3, <1>4, <1>5, <1>6 DEF Next

\* Nothing freed is used, but by what is overdue or after a clash.
LEMMA FreedStep ==
  ASSUME TypeOK, PhaseInv, QueueInv, NoUseAfterFree, [Next]_vars
  PROVE  NoUseAfterFree'
<1> USE DEF NoUseAfterFree, pipelineVars, mapVars, captureVars, encoderVars,
            faultVars, vars, Go, Block, FrameHandler
<1>1. ASSUME NEW s \in Sessions, Cancel(s) PROVE NoUseAfterFree'
  BY <1>1 DEF Cancel
<1>2. ASSUME NEW s \in Sessions, Pipeline(s) PROVE NoUseAfterFree'
  <2>1. CASE NewEncoder(s)
    BY <2>1 DEF NewEncoder
  <2>2. CASE NewEncoderFails(s)
    BY <2>2 DEF NewEncoderFails
  <2>3. CASE StartCapture(s)
    BY <2>3 DEF StartCapture
  <2>4. CASE StartCaptureFails(s)
    BY <2>4 DEF StartCaptureFails
  <2>5. CASE StopStream(s)
    BY <2>5 DEF StopStream
  <2>6. CASE FreeContext(s)
    BY <2>6 DEF FreeContext
  <2>7. CASE UnregisterHandler(s)
    BY <2>7 DEF UnregisterHandler
  <2>8. CASE CompleteFrames(s)
    BY <2>8 DEF CompleteFrames
  <2>9. CASE InvalidateSession(s)
    BY <2>9 DEF InvalidateSession
  <2>10. CASE ForgetSession(s)
    BY <2>10 DEF ForgetSession
  <2> QED
    BY <1>2, <2>1, <2>2, <2>3, <2>4, <2>5, <2>6, <2>7, <2>8, <2>9, <2>10 DEF Pipeline
<1>3. ASSUME NEW s \in Sessions, DisplayFrame(s) PROVE NoUseAfterFree'
  BY <1>3 DEF DisplayFrame
<1>4. ASSUME NEW s \in Sessions, CaptureQueue(s) PROVE NoUseAfterFree'
  <2>1. CASE WrapFrame(s)
    BY <2>1 DEF WrapFrame
  <2>2. CASE WrapFrameOfFreedContext(s)
    BY <2>2 DEF WrapFrameOfFreedContext, TypeOK, PhaseInv, QueueInv
  <2>3. CASE FindHandler(s)
    BY <2>3 DEF FindHandler
  <2>4. CASE Encode(s)
    BY <2>4 DEF Encode
  <2>5. CASE EncodeFails(s)
    BY <2>5 DEF EncodeFails, TypeOK, PhaseInv, QueueInv
  <2> QED
    BY <1>4, <2>1, <2>2, <2>3, <2>4, <2>5 DEF CaptureQueue
<1>5. ASSUME NEW s \in Sessions, OutputThread(s) PROVE NoUseAfterFree'
  <2>1. CASE FillAnnexBuffer(s)
    BY <2>1 DEF FillAnnexBuffer
  <2>2. CASE SendUnit(s)
    BY <2>2 DEF SendUnit
  <2> QED
    BY <1>5, <2>1, <2>2 DEF OutputThread
<1>6. CASE Done \/ UNCHANGED vars
  BY <1>6 DEF Done
<1> QED
  BY <1>1, <1>2, <1>3, <1>4, <1>5, <1>6 DEF Next

\* Every variable keeps its type.
LEMMA TypeStep ==
  ASSUME TypeOK, PhaseInv, QueueInv, CountInv, OutputInv, [Next]_vars
  PROVE  TypeOK'
<1> USE MediaAssumption
        DEF TypeOK, PCs, CountInv, pipelineVars, mapVars, captureVars, encoderVars,
            faultVars, vars, Go, Block, FrameHandler
<1>1. ASSUME NEW s \in Sessions, Cancel(s) PROVE TypeOK'
  BY <1>1 DEF Cancel
<1>2. ASSUME NEW s \in Sessions, Pipeline(s) PROVE TypeOK'
  <2>1. CASE NewEncoder(s)
    BY <2>1 DEF NewEncoder
  <2>2. CASE NewEncoderFails(s)
    BY <2>2 DEF NewEncoderFails
  <2>3. CASE StartCapture(s)
    <3>1. attempt[s] + 1 \in 1 .. MaxAttempts /\ attempt'[s] = attempt[s] + 1
      BY <2>3 DEF StartCapture, PhaseInv
    <3>2. attempt' \in [Sessions -> 0 .. MaxAttempts]
      BY <3>1, <2>3 DEF StartCapture
    <3>3. /\ pc' \in [Sessions -> PCs]
          /\ stream' \in [Sessions -> {"none", "running", "stopped", "freed"}]
      BY <2>3 DEF StartCapture
    <3>4. handlers' \subseteq Sessions \X (1 .. MaxAttempts)
      BY <3>1, <2>3 DEF StartCapture
    <3> QED
      BY <2>3, <3>1, <3>2, <3>3, <3>4 DEF StartCapture
  <2>4. CASE StartCaptureFails(s)
    <3>1. attempt[s] + 1 \in 1 .. MaxAttempts /\ attempt'[s] = attempt[s] + 1
      BY <2>4 DEF StartCaptureFails, PhaseInv
    <3>2. attempt' \in [Sessions -> 0 .. MaxAttempts]
      BY <3>1, <2>4 DEF StartCaptureFails
    <3>3. pc' \in [Sessions -> PCs]
      BY <2>4 DEF StartCaptureFails
    <3> QED
      BY <2>4, <3>1, <3>2, <3>3 DEF StartCaptureFails
  <2>5. CASE StopStream(s)
    BY <2>5 DEF StopStream
  <2>6. CASE FreeContext(s)
    BY <2>6 DEF FreeContext
  <2>7. CASE UnregisterHandler(s)
    BY <2>7 DEF UnregisterHandler
  <2>8. CASE CompleteFrames(s)
    BY <2>8 DEF CompleteFrames
  <2>9. CASE InvalidateSession(s)
    <3>1. /\ pc' \in [Sessions -> PCs]
          /\ encoder' \in [Sessions -> {"none", "live", "released", "nil"}]
      BY <2>9 DEF InvalidateSession
    <3>2. output' \in [Sessions -> Seq(Units)] /\ filled' \subseteq Sessions
      BY <2>9, EmptySeq DEF InvalidateSession
    <3> QED
      BY <2>9, <3>1, <3>2 DEF InvalidateSession
  <2>10. CASE ForgetSession(s)
    BY <2>10 DEF ForgetSession
  <2> QED
    BY <1>2, <2>1, <2>2, <2>3, <2>4, <2>5, <2>6, <2>7, <2>8, <2>9, <2>10 DEF Pipeline
<1>3. ASSUME NEW s \in Sessions, DisplayFrame(s) PROVE TypeOK'
  <2>1. frames + 1 \in 0 .. MaxFrames /\ queued[s] + 1 \in 0 .. MaxFrames
    <3>1. frames < MaxFrames /\ queued[s] + retained[s] <= frames
      BY <1>3 DEF DisplayFrame
    <3>2. \A q, r, f \in 0 .. MaxFrames :
             f < MaxFrames /\ q + r <= f => f + 1 \in 0 .. MaxFrames /\ q + 1 \in 0 .. MaxFrames
      <4> HIDE DEF TypeOK, CountInv
      <4>1. MaxFrames \in Nat
        OBVIOUS
      <4> QED
        BY <4>1
    <3>3. /\ queued[s] \in 0 .. MaxFrames /\ retained[s] \in 0 .. MaxFrames
          /\ frames \in 0 .. MaxFrames
      OBVIOUS
    <3> QED
      BY <3>1, <3>2, <3>3, Zenon
  <2>2. queued' \in [Sessions -> 0 .. MaxFrames]
    BY <2>1, <1>3 DEF DisplayFrame
  <2> QED
    BY <2>1, <2>2, <1>3 DEF DisplayFrame
<1>4. ASSUME NEW s \in Sessions, CaptureQueue(s) PROVE TypeOK'
  <2>1. CASE WrapFrame(s)
    <3>1. capture' \in [Sessions -> {"idle", "wrapped", "found"}]
      BY <2>1 DEF WrapFrame
    <3>2. queued[s] - 1 \in 0 .. MaxFrames /\ retained[s] + 1 \in 0 .. MaxFrames
      <4>1. queued[s] > 0 /\ queued[s] + retained[s] <= frames
        BY <2>1 DEF WrapFrame
      <4>2. \A q, r, f \in 0 .. MaxFrames :
               q > 0 /\ q + r <= f => q - 1 \in 0 .. MaxFrames /\ r + 1 \in 0 .. MaxFrames
        <5> HIDE DEF TypeOK, CountInv
        <5>1. MaxFrames \in Nat
          OBVIOUS
        <5> QED
          BY <5>1
      <4>3. queued[s] \in 0 .. MaxFrames /\ retained[s] \in 0 .. MaxFrames
        OBVIOUS
      <4> QED
        BY <4>1, <4>2, <4>3, Zenon
    <3>3. queued' \in [Sessions -> 0 .. MaxFrames] /\ retained' \in [Sessions -> 0 .. MaxFrames]
      BY <3>2, <2>1 DEF WrapFrame
    <3> QED
      BY <2>1, <3>1, <3>2, <3>3 DEF WrapFrame
  <2>2. CASE WrapFrameOfFreedContext(s)
    <3>1. queued[s] - 1 \in 0 .. MaxFrames
      BY <2>2 DEF WrapFrameOfFreedContext
    <3>2. queued' \in [Sessions -> 0 .. MaxFrames]
      BY <3>1, <2>2 DEF WrapFrameOfFreedContext
    <3> QED
      BY <2>2, <3>1, <3>2 DEF WrapFrameOfFreedContext
  <2>3. CASE FindHandler(s)
    BY <2>3 DEF FindHandler
  <2>4. CASE Encode(s)
    <3>1. PICK sample \in Samples :
                /\ output' = [output EXCEPT ![s] = output[s] \o UnitsOf(sample)]
                /\ emitted' = [emitted EXCEPT ![s] = emitted[s] \o UnitsOf(sample)]
      BY <2>4 DEF Encode
    <3>2. /\ output[s] \o UnitsOf(sample) \in Seq(Units)
          /\ emitted[s] \o UnitsOf(sample) \in Seq(Units)
      <4>1. output[s] \in Seq(Units) /\ emitted[s] \in Seq(Units)
        OBVIOUS
      <4> QED
        BY <4>1, UnitsAreASequence, ConcatProperties, Zenon
    <3>3. output' \in [Sessions -> Seq(Units)] /\ emitted' \in [Sessions -> Seq(Units)]
      BY <3>1, <3>2
    <3>4. retained[s] - 1 \in 0 .. MaxFrames
      <4>1. retained[s] \in 0 .. MaxFrames /\ retained[s] > 0
        BY <2>4 DEF Encode
      <4>2. \A n \in 0 .. MaxFrames : n > 0 => n - 1 \in 0 .. MaxFrames
        OBVIOUS
      <4> QED
        BY <4>1, <4>2, Zenon
    <3>5. retained' \in [Sessions -> 0 .. MaxFrames]
      BY <3>4, <2>4 DEF Encode
    <3>6. capture' \in [Sessions -> {"idle", "wrapped", "found"}]
      BY <2>4 DEF Encode
    <3> QED
      BY <3>3, <3>5, <3>6, <2>4 DEF Encode
  <2>5. CASE EncodeFails(s)
    <3>1. retained[s] - 1 \in 0 .. MaxFrames
      <4>1. retained[s] \in 0 .. MaxFrames /\ retained[s] > 0
        BY <2>5 DEF EncodeFails
      <4>2. \A n \in 0 .. MaxFrames : n > 0 => n - 1 \in 0 .. MaxFrames
        OBVIOUS
      <4> QED
        BY <4>1, <4>2, Zenon
    <3>2. retained' \in [Sessions -> 0 .. MaxFrames]
      BY <3>1, <2>5 DEF EncodeFails
    <3>3. capture' \in [Sessions -> {"idle", "wrapped", "found"}]
      BY <2>5 DEF EncodeFails
    <3> QED
      BY <2>5, <3>1, <3>2, <3>3 DEF EncodeFails
  <2> QED
    BY <1>4, <2>1, <2>2, <2>3, <2>4, <2>5 DEF CaptureQueue
<1>5. ASSUME NEW s \in Sessions, OutputThread(s) PROVE TypeOK'
  <2>1. CASE FillAnnexBuffer(s)
    <3>1. Head(output[s]).nal \in NALs
      <4>1. Head(output[s]) \in Units
        BY <2>1, HeadTailProperties DEF FillAnnexBuffer
      <4> QED
        BY <4>1 DEF Units
    <3>2. annex' \in [from : Sessions, nal : NALs]
      BY <3>1, <2>1 DEF FillAnnexBuffer, Unit
    <3> QED
      BY <2>1, <3>1, <3>2 DEF FillAnnexBuffer
  <2>2. CASE SendUnit(s)
    <3> DEFINE call(bytes) == [from |-> bytes.from, nal |-> bytes.nal,
                               type |-> FrameType(bytes.nal, Head(output[s]).key)]
               calls == [from : Sessions, nal : NALs, type : NALs \ {"SEI"}]
    <3>1. output[s] # << >> /\ annex \in [from : Sessions, nal : NALs]
      BY <2>2 DEF SendUnit, OutputInv
    <3>2. Head(output[s]).nal \in NALs /\ Tail(output[s]) \in Seq(Units)
      <4>1. Head(output[s]) \in Units /\ Tail(output[s]) \in Seq(Units)
        BY <3>1, HeadTailProperties
      <4> QED
        BY <4>1 DEF Units
    <3>3. \A bytes \in {annex, Unit(s)} : bytes \in [from : Sessions, nal : NALs]
      <4>1. Unit(s) \in [from : Sessions, nal : NALs]
        BY <3>2 DEF Unit
      <4> QED
        BY <3>1, <4>1, Zenon
    <3>4. PICK bytes \in {annex, Unit(s)} :
             sent' = [sent EXCEPT ![s] = IF s \in nalHandlers THEN Append(sent[s], call(bytes))
                                                              ELSE sent[s]]
      BY <2>2 DEF SendUnit
    <3>5. call(bytes) \in calls
      BY <3>3, <3>4 DEF FrameType, NALs
    <3>6. Append(sent[s], call(bytes)) \in Seq(calls)
      BY <3>5, AppendProperties
    <3>7. sent' \in [Sessions -> Seq(calls)]
      BY <3>4, <3>6
    <3>8. output' \in [Sessions -> Seq(Units)] /\ filled' \subseteq Sessions
      BY <3>2, <2>2 DEF SendUnit
    <3> QED
      BY <3>7, <3>8, <2>2 DEF SendUnit
  <2> QED
    BY <1>5, <2>1, <2>2 DEF OutputThread
<1>6. CASE Done \/ UNCHANGED vars
  BY <1>6 DEF Done
<1> QED
  BY <1>1, <1>2, <1>3, <1>4, <1>5, <1>6 DEF Next

-----------------------------------------------------------------------------
(* What a session sends.                                                   *)

\* The actions a step can be.
LEMMA StepCases ==
  ASSUME [Next]_vars
  PROVE  \/ \E s \in Sessions :
               \/ Cancel(s) \/ NewEncoder(s) \/ NewEncoderFails(s) \/ StartCapture(s)
               \/ StartCaptureFails(s) \/ StopStream(s) \/ FreeContext(s)
               \/ UnregisterHandler(s) \/ CompleteFrames(s) \/ InvalidateSession(s)
               \/ ForgetSession(s) \/ DisplayFrame(s) \/ WrapFrame(s)
               \/ WrapFrameOfFreedContext(s) \/ FindHandler(s) \/ Encode(s) \/ EncodeFails(s)
               \/ FillAnnexBuffer(s) \/ SendUnit(s)
         \/ Done \/ UNCHANGED vars
BY DEF Next, Pipeline, CaptureQueue, OutputThread

Calls == [from : Sessions, nal : NALs, type : NALs \ {"SEI"}]

\* The parts of the types these invariants need.
Streams ==
    /\ output \in [Sessions -> Seq(Units)] /\ emitted \in [Sessions -> Seq(Units)]
    /\ filled \subseteq Sessions
    /\ encoder \in [Sessions -> {"none", "live", "released", "nil"}]
    /\ sent \in [Sessions -> Seq(Calls)]

\* They follow from TypeOK.
LEMMA StreamTypes == ASSUME TypeOK PROVE Streams
BY DEF TypeOK, Streams, Calls

\* Units stay with a live encoder.
LEMMA EncoderStep ==
  ASSUME TypeOK, PhaseInv, OutputInv, EncoderInv, [Next]_vars
  PROVE  EncoderInv'
<1>0. Streams
  BY StreamTypes
<1>1. ASSUME NEW s \in Sessions, Cancel(s) PROVE EncoderInv'
  BY <1>0, <1>1
     DEF Cancel, EncoderInv, Streams, vars, pipelineVars, mapVars, captureVars,
      encoderVars, faultVars
<1>2. ASSUME NEW s \in Sessions, NewEncoder(s) PROVE EncoderInv'
  BY <1>0, <1>2
     DEF NewEncoder, Go, PhaseInv, EncoderInv, Streams, vars, pipelineVars, mapVars,
      captureVars, encoderVars, faultVars
<1>3. ASSUME NEW s \in Sessions, NewEncoderFails(s) PROVE EncoderInv'
  BY <1>0, <1>3
     DEF NewEncoderFails, Go, EncoderInv, Streams, vars, pipelineVars, mapVars,
      captureVars, encoderVars, faultVars
<1>4. ASSUME NEW s \in Sessions, StartCapture(s) PROVE EncoderInv'
  BY <1>0, <1>4
     DEF StartCapture, Go, EncoderInv, Streams, vars, pipelineVars, mapVars,
      captureVars, encoderVars, faultVars
<1>5. ASSUME NEW s \in Sessions, StartCaptureFails(s) PROVE EncoderInv'
  BY <1>0, <1>5
     DEF StartCaptureFails, Go, EncoderInv, Streams, vars, pipelineVars, mapVars,
      captureVars, encoderVars, faultVars
<1>6. ASSUME NEW s \in Sessions, StopStream(s) PROVE EncoderInv'
  BY <1>0, <1>6
     DEF StopStream, Go, EncoderInv, Streams, vars, pipelineVars, mapVars, captureVars,
      encoderVars, faultVars
<1>7. ASSUME NEW s \in Sessions, FreeContext(s) PROVE EncoderInv'
  BY <1>0, <1>7
     DEF FreeContext, Go, EncoderInv, Streams, vars, pipelineVars, mapVars,
      captureVars, encoderVars, faultVars
<1>8. ASSUME NEW s \in Sessions, UnregisterHandler(s) PROVE EncoderInv'
  BY <1>0, <1>8
     DEF UnregisterHandler, Go, EncoderInv, Streams, vars, pipelineVars, mapVars,
      captureVars, encoderVars, faultVars
<1>9. ASSUME NEW s \in Sessions, CompleteFrames(s) PROVE EncoderInv'
  BY <1>0, <1>9
     DEF CompleteFrames, Go, EncoderInv, Streams, vars, pipelineVars, mapVars,
      captureVars, encoderVars, faultVars
<1>10. ASSUME NEW s \in Sessions, InvalidateSession(s) PROVE EncoderInv'
  BY <1>0, <1>10
     DEF InvalidateSession, Go, EncoderInv, Streams, vars, pipelineVars, mapVars,
      captureVars, encoderVars, faultVars
<1>11. ASSUME NEW s \in Sessions, ForgetSession(s) PROVE EncoderInv'
  BY <1>0, <1>11
     DEF ForgetSession, Go, PhaseInv, EncoderInv, Streams, vars, pipelineVars, mapVars,
      captureVars, encoderVars, faultVars
<1>12. ASSUME NEW s \in Sessions, DisplayFrame(s) PROVE EncoderInv'
  BY <1>0, <1>12
     DEF DisplayFrame, EncoderInv, Streams, vars, pipelineVars, mapVars, captureVars,
      encoderVars, faultVars
<1>13. ASSUME NEW s \in Sessions, WrapFrame(s) PROVE EncoderInv'
  BY <1>0, <1>13
     DEF WrapFrame, Block, EncoderInv, Streams, vars, pipelineVars, mapVars,
      captureVars, encoderVars, faultVars
<1>14. ASSUME NEW s \in Sessions, WrapFrameOfFreedContext(s) PROVE EncoderInv'
  BY <1>0, <1>14
     DEF WrapFrameOfFreedContext, EncoderInv, Streams, vars, pipelineVars, mapVars,
      captureVars, encoderVars, faultVars
<1>15. ASSUME NEW s \in Sessions, FindHandler(s) PROVE EncoderInv'
  BY <1>0, <1>15
     DEF FindHandler, Block, EncoderInv, Streams, vars, pipelineVars, mapVars,
      captureVars, encoderVars, faultVars
<1>16. ASSUME NEW s \in Sessions, Encode(s) PROVE EncoderInv'
  BY <1>0, <1>16
     DEF Encode, FrameHandler, Block, EncoderInv, Streams, vars, pipelineVars, mapVars,
      captureVars, encoderVars, faultVars
<1>17. ASSUME NEW s \in Sessions, EncodeFails(s) PROVE EncoderInv'
  BY <1>0, <1>17
     DEF EncodeFails, FrameHandler, Block, EncoderInv, Streams, vars, pipelineVars,
      mapVars, captureVars, encoderVars, faultVars
<1>18. ASSUME NEW s \in Sessions, FillAnnexBuffer(s) PROVE EncoderInv'
  BY <1>0, <1>18
     DEF FillAnnexBuffer, EncoderInv, Streams, vars, pipelineVars, mapVars,
      captureVars, encoderVars, faultVars
<1>19. ASSUME NEW s \in Sessions, SendUnit(s) PROVE EncoderInv'
  <2>1. output' = [output EXCEPT ![s] = Tail(output[s])] /\ encoder' = encoder /\ output[s] # << >>
    BY <1>19 DEF SendUnit, encoderVars, OutputInv
  <2> QED
    BY <1>0, <2>1 DEF EncoderInv, Streams
<1>20. CASE Done \/ UNCHANGED vars
  BY <1>20
     DEF Done, vars, pipelineVars, mapVars, captureVars, encoderVars, faultVars,
      EncoderInv, Streams
<1> QED
  BY StepCases, <1>1, <1>2, <1>3, <1>4, <1>5, <1>6, <1>7, <1>8, <1>9, <1>10, <1>11,
     <1>12, <1>13, <1>14, <1>15, <1>16, <1>17, <1>18, <1>19, <1>20

\* Without a clash, the buffer holds the unit that was written last.
LEMMA AnnexStep ==
  ASSUME TypeOK, OutputInv, AnnexInv, [Next]_vars
  PROVE  AnnexInv'
<1>0. Streams
  BY StreamTypes
<1>1. ASSUME NEW s \in Sessions, Cancel(s) PROVE AnnexInv'
  BY <1>0, <1>1
     DEF Cancel, AnnexInv, Streams, Unit, vars, pipelineVars, mapVars, captureVars,
      encoderVars, faultVars
<1>2. ASSUME NEW s \in Sessions, NewEncoder(s) PROVE AnnexInv'
  BY <1>0, <1>2
     DEF NewEncoder, Go, AnnexInv, Streams, Unit, vars, pipelineVars, mapVars,
      captureVars, encoderVars, faultVars
<1>3. ASSUME NEW s \in Sessions, NewEncoderFails(s) PROVE AnnexInv'
  BY <1>0, <1>3
     DEF NewEncoderFails, Go, AnnexInv, Streams, Unit, vars, pipelineVars, mapVars,
      captureVars, encoderVars, faultVars
<1>4. ASSUME NEW s \in Sessions, StartCapture(s) PROVE AnnexInv'
  BY <1>0, <1>4
     DEF StartCapture, Go, AnnexInv, Streams, Unit, vars, pipelineVars, mapVars,
      captureVars, encoderVars, faultVars
<1>5. ASSUME NEW s \in Sessions, StartCaptureFails(s) PROVE AnnexInv'
  BY <1>0, <1>5
     DEF StartCaptureFails, Go, AnnexInv, Streams, Unit, vars, pipelineVars, mapVars,
      captureVars, encoderVars, faultVars
<1>6. ASSUME NEW s \in Sessions, StopStream(s) PROVE AnnexInv'
  BY <1>0, <1>6
     DEF StopStream, Go, AnnexInv, Streams, Unit, vars, pipelineVars, mapVars,
      captureVars, encoderVars, faultVars
<1>7. ASSUME NEW s \in Sessions, FreeContext(s) PROVE AnnexInv'
  BY <1>0, <1>7
     DEF FreeContext, Go, AnnexInv, Streams, Unit, vars, pipelineVars, mapVars,
      captureVars, encoderVars, faultVars
<1>8. ASSUME NEW s \in Sessions, UnregisterHandler(s) PROVE AnnexInv'
  BY <1>0, <1>8
     DEF UnregisterHandler, Go, AnnexInv, Streams, Unit, vars, pipelineVars, mapVars,
      captureVars, encoderVars, faultVars
<1>9. ASSUME NEW s \in Sessions, CompleteFrames(s) PROVE AnnexInv'
  BY <1>0, <1>9
     DEF CompleteFrames, Go, AnnexInv, Streams, Unit, vars, pipelineVars, mapVars,
      captureVars, encoderVars, faultVars
<1>10. ASSUME NEW s \in Sessions, InvalidateSession(s) PROVE AnnexInv'
  BY <1>0, <1>10
     DEF InvalidateSession, Go, AnnexInv, Streams, Unit, vars, pipelineVars, mapVars,
      captureVars, encoderVars, faultVars
<1>11. ASSUME NEW s \in Sessions, ForgetSession(s) PROVE AnnexInv'
  BY <1>0, <1>11
     DEF ForgetSession, Go, AnnexInv, Streams, Unit, vars, pipelineVars, mapVars,
      captureVars, encoderVars, faultVars
<1>12. ASSUME NEW s \in Sessions, DisplayFrame(s) PROVE AnnexInv'
  BY <1>0, <1>12
     DEF DisplayFrame, AnnexInv, Streams, Unit, vars, pipelineVars, mapVars,
      captureVars, encoderVars, faultVars
<1>13. ASSUME NEW s \in Sessions, WrapFrame(s) PROVE AnnexInv'
  BY <1>0, <1>13
     DEF WrapFrame, Block, AnnexInv, Streams, Unit, vars, pipelineVars, mapVars,
      captureVars, encoderVars, faultVars
<1>14. ASSUME NEW s \in Sessions, WrapFrameOfFreedContext(s) PROVE AnnexInv'
  BY <1>0, <1>14
     DEF WrapFrameOfFreedContext, AnnexInv, Streams, Unit, vars, pipelineVars, mapVars,
      captureVars, encoderVars, faultVars
<1>15. ASSUME NEW s \in Sessions, FindHandler(s) PROVE AnnexInv'
  BY <1>0, <1>15
     DEF FindHandler, Block, AnnexInv, Streams, Unit, vars, pipelineVars, mapVars,
      captureVars, encoderVars, faultVars
<1>16. ASSUME NEW s \in Sessions, Encode(s) PROVE AnnexInv'
  <2>1. PICK sample \in Samples : output' = [output EXCEPT ![s] = output[s] \o UnitsOf(sample)]
    BY <1>16 DEF Encode
  <2>2. /\ filled' = filled /\ clash' = clash /\ annex' = annex
    BY <1>16 DEF Encode, FrameHandler
  <2>3. output[s] # << >> => Head(output'[s]) = Head(output[s])
    <3>1. UnitsOf(sample) \in Seq(Units) /\ output[s] \in Seq(Units)
      BY <1>0, UnitsAreASequence DEF Streams
    <3> SUFFICES ASSUME output[s] # << >> PROVE Head(output[s] \o UnitsOf(sample)) = Head(output[s])
      BY <1>0, <2>1 DEF Streams
    <3>2. /\ Len(output[s]) \in Nat \ {0} /\ Len(output[s] \o UnitsOf(sample)) # 0
          /\ output[s] \o UnitsOf(sample) \in Seq(Units)
          /\ 1 \in 1 .. Len(output[s])
      BY <3>1, ConcatProperties, EmptySeq, LenProperties
    <3>3. (output[s] \o UnitsOf(sample))[1] = output[s][1]
      BY <3>1, <3>2, ConcatProperties
    <3> QED
      BY <3>1, <3>2, <3>3, HeadTailProperties, EmptySeq
  <2>4. \A t \in filled : Unit(t)' = Unit(t)
    BY <1>0, <2>1, <2>3 DEF Unit, OutputInv, Streams
  <2> QED
    BY <2>2, <2>4 DEF AnnexInv
<1>17. ASSUME NEW s \in Sessions, EncodeFails(s) PROVE AnnexInv'
  BY <1>0, <1>17 DEF EncodeFails, FrameHandler, Block, AnnexInv, Streams, Unit, vars,
     pipelineVars, mapVars, captureVars, encoderVars, faultVars
<1>18. ASSUME NEW s \in Sessions, FillAnnexBuffer(s) PROVE AnnexInv'
  <2>1. /\ filled' = filled \cup {s} /\ annex' = Unit(s) /\ clash' = (clash \/ filled # {})
        /\ output' = output
    BY <1>18 DEF FillAnnexBuffer
  <2> QED
    BY <2>1 DEF AnnexInv, Unit
<1>19. ASSUME NEW s \in Sessions, SendUnit(s) PROVE AnnexInv'
  <2>1. /\ filled' = filled \ {s} /\ clash' = clash /\ s \in filled
    BY <1>19 DEF SendUnit, faultVars
  <2>2. ~clash' => filled' = {}
    BY <2>1 DEF AnnexInv
  <2> QED
    BY <2>2 DEF AnnexInv
<1>20. CASE Done \/ UNCHANGED vars
  BY <1>20
     DEF Done, vars, pipelineVars, mapVars, captureVars, encoderVars, faultVars,
      AnnexInv, Streams, Unit
<1> QED
  BY StepCases, <1>1, <1>2, <1>3, <1>4, <1>5, <1>6, <1>7, <1>8, <1>9, <1>10, <1>11,
     <1>12, <1>13, <1>14, <1>15, <1>16, <1>17, <1>18, <1>19, <1>20

\* Where the members of a sequence that was made of two are.
LEMMA Joined ==
  ASSUME NEW S, NEW a \in Seq(S), NEW b \in Seq(S), NEW n, n = Len(a), NEW m, m = Len(b)
  PROVE  /\ Len(a \o b) = n + m /\ n \in Nat /\ m \in Nat
         /\ \A i \in 1 .. n : (a \o b)[i] = a[i]
         /\ \A i \in n + 1 .. n + m : (a \o b)[i] = b[i - n]
BY ConcatProperties, LenProperties

\* The encoder adds a sample's units.
LEMMA UnitsAdded ==
  ASSUME NEW s, NEW calls \in Seq(Calls), NEW units \in Seq(Units), NEW made \in Seq(Units),
         NEW added \in Seq(Units), Len(made) = Len(calls) + Len(units),
         Pending(calls, units, made)
  PROVE  /\ Pending(calls, units \o added, made \o added)
         /\ Own(s, calls, made) => Own(s, calls, made \o added)
<1> DEFINE n == Len(calls)
           m == Len(units)
           u == Len(added)
<1>1. /\ n \in Nat /\ m \in Nat /\ u \in Nat
      /\ Len(units) = m /\ Len(added) = u /\ Len(made) = n + m
  BY LenProperties
<1>4. \A i \in 1 .. m : units[i] = made[n + i]
  BY DEF Pending
<1> HIDE DEF n, m, u
<1>2. /\ Len(units \o added) = m + u
      /\ \A i \in 1 .. m : (units \o added)[i] = units[i]
      /\ \A i \in m + 1 .. m + u : (units \o added)[i] = added[i - m]
  <2>1. PICK S : S = Units
    OBVIOUS
  <2>2. units \in Seq(S) /\ added \in Seq(S) /\ m = Len(units) /\ u = Len(added)
    BY <1>1, <2>1
  <2> QED
    BY ONLY <2>2, Joined
<1>3. /\ \A i \in 1 .. n + m : (made \o added)[i] = made[i]
      /\ \A i \in (n + m) + 1 .. (n + m) + u : (made \o added)[i] = added[i - (n + m)]
  <2>1. PICK l : l = n + m
    OBVIOUS
  <2>2. /\ \A i \in 1 .. l : (made \o added)[i] = made[i]
        /\ \A i \in l + 1 .. l + u : (made \o added)[i] = added[i - l]
    BY <1>1, <2>1, Joined
  <2> QED
    BY <2>1, <2>2
<1>5. PICK longer, more : longer = units \o added /\ more = made \o added
  OBVIOUS
<1>6. ASSUME NEW i \in 1 .. m + u PROVE longer[i] = more[n + i]
  <2>1. CASE i \in 1 .. m
    <3>1. n + i \in 1 .. n + m
      BY <1>1, <2>1
    <3> QED
      BY <1>2, <1>3, <1>4, <1>5, <2>1, <3>1
  <2>2. CASE i \notin 1 .. m
    <3>1. /\ i \in m + 1 .. m + u /\ n + i \in (n + m) + 1 .. (n + m) + u
          /\ (n + i) - (n + m) = i - m
      BY <1>1, <2>2
    <3> QED
      BY <1>2, <1>3, <1>5, <3>1
  <2> QED
    BY <2>1, <2>2
<1>7. \A i \in 1 .. n : i \in 1 .. n + m
  BY <1>1
<1>8. Own(s, calls, made) => Own(s, calls, more)
  BY <1>3, <1>5, <1>7 DEF Own, n
<1> QED
  BY <1>2, <1>5, <1>6, <1>8 DEF Pending, n

\* The next unit goes from the encoder to SendFrame.
LEMMA UnitMoved ==
  ASSUME NEW s, NEW calls \in Seq(Calls), NEW units \in Seq(Units), NEW made, NEW call,
         units # << >>, Pending(calls, units, made)
  PROVE  /\ Pending(Append(calls, call), Tail(units), made)
         /\ Own(s, calls, made) /\ call.from = s /\ call.nal = Head(units).nal =>
               Own(s, Append(calls, call), made)
<1> DEFINE n == Len(calls)
           m == Len(units)
<1>1. n \in Nat /\ m \in Nat \ {0}
  BY LenProperties, EmptySeq
<1>2. PICK sentNow, rest : sentNow = Append(calls, call) /\ rest = Tail(units)
  OBVIOUS
<1>3. /\ Head(units) = units[1] /\ Len(rest) = m - 1
      /\ \A i \in 1 .. m - 1 : rest[i] = units[i + 1]
  BY <1>2, HeadTailProperties
<1>4. /\ Len(sentNow) = n + 1 /\ sentNow[n + 1] = call
      /\ \A i \in 1 .. n : sentNow[i] = calls[i]
  BY <1>2, AppendProperties
<1>5. \A i \in 1 .. m : units[i] = made[n + i]
  BY DEF Pending
<1> HIDE DEF n, m
<1>6. ASSUME NEW i \in 1 .. m - 1 PROVE rest[i] = made[(n + 1) + i]
  <2>1. i + 1 \in 1 .. m /\ n + (i + 1) = (n + 1) + i
    BY <1>1
  <2> QED
    BY <1>3, <1>5, <2>1
<1>7. ASSUME Own(s, calls, made), call.from = s, call.nal = Head(units).nal,
             NEW i \in 1 .. n + 1
      PROVE  sentNow[i].from = s /\ sentNow[i].nal = made[i].nal
  <2>1. i \in 1 .. n \/ i = n + 1
    BY <1>1
  <2>2. 1 \in 1 .. m
    BY <1>1
  <2> QED
    BY <1>3, <1>4, <1>5, <1>7, <2>1, <2>2 DEF Own, n
<1> QED
  BY <1>2, <1>3, <1>4, <1>6, <1>7 DEF Pending, Own

\* What was produced, sent and is still to come, when nothing is added.
LEMMA OrderKept ==
  ASSUME OrderInv, emitted' = emitted, sent' = sent, overdue \subseteq overdue',
         clash => clash',
         \A s \in Sessions : output'[s] = output[s] \/ output'[s] = << >>
  PROVE  OrderInv'
<1>1. \A calls, made : Pending(calls, << >>, made)
  BY DEF Pending
<1> QED
  BY <1>1 DEF OrderInv

\* Units go through the encoder in order, and no callback changes one of its
\* session without a clash.
LEMMA OrderStep ==
  ASSUME TypeOK, HandlerInv, OutputInv, AnnexInv, UnitsCounted, OrderInv, [Next]_vars
  PROVE  OrderInv'
<1>0. Streams
  BY StreamTypes
<1>1. ASSUME NEW s \in Sessions, Encode(s) PROVE OrderInv'
  <2>1. PICK sample \in Samples :
              /\ output' = [output EXCEPT ![s] = output[s] \o UnitsOf(sample)]
              /\ emitted' = [emitted EXCEPT ![s] = emitted[s] \o UnitsOf(sample)]
    BY <1>1 DEF Encode
  <2>2. sent' = sent /\ overdue' = overdue /\ clash' = clash
    BY <1>1 DEF Encode, FrameHandler
  <2>3. /\ output'[s] = output[s] \o UnitsOf(sample)
        /\ emitted'[s] = emitted[s] \o UnitsOf(sample)
        /\ \A t \in Sessions \ {s} : output'[t] = output[t] /\ emitted'[t] = emitted[t]
    BY <1>0, <2>1 DEF Streams
  <2>4. s \notin overdue =>
           /\ Pending(sent[s], output'[s], emitted'[s])
           /\ ~clash => Own(s, sent[s], emitted'[s])
    <3>1. /\ output[s] \in Seq(Units) /\ emitted[s] \in Seq(Units)
          /\ UnitsOf(sample) \in Seq(Units) /\ sent[s] \in Seq(Calls)
      BY <1>0, UnitsAreASequence DEF Streams
    <3> SUFFICES ASSUME s \notin overdue
                 PROVE  /\ Pending(sent[s], output'[s], emitted'[s])
                        /\ ~clash => Own(s, sent[s], emitted'[s])
      OBVIOUS
    <3>2. /\ Pending(sent[s], output[s], emitted[s])
          /\ Len(emitted[s]) = Len(sent[s]) + Len(output[s])
          /\ ~clash => Own(s, sent[s], emitted[s])
      BY DEF OrderInv, UnitsCounted
    <3>3. PICK calls, units, made, added :
             calls = sent[s] /\ units = output[s] /\ made = emitted[s] /\ added = UnitsOf(sample)
      OBVIOUS
    <3>4. /\ Pending(calls, units \o added, made \o added)
          /\ Own(s, calls, made) => Own(s, calls, made \o added)
      BY <3>1, <3>2, <3>3, UnitsAdded
    <3> QED
      BY <2>3, <3>2, <3>3, <3>4
  <2> QED
    BY <2>2, <2>3, <2>4 DEF OrderInv
<1>2. ASSUME NEW s \in Sessions, SendUnit(s) PROVE OrderInv'
  <2> DEFINE call(bytes) == [from |-> bytes.from, nal |-> bytes.nal,
                             type |-> FrameType(bytes.nal, Head(output[s]).key)]
  <2>1. PICK bytes \in {annex, Unit(s)} :
           sent' = [sent EXCEPT ![s] = IF s \in nalHandlers THEN Append(sent[s], call(bytes))
                                                            ELSE sent[s]]
    BY <1>2 DEF SendUnit
  <2>2. /\ output' = [output EXCEPT ![s] = Tail(output[s])] /\ s \in filled
        /\ emitted' = emitted /\ overdue' = overdue /\ clash' = clash
    BY <1>2 DEF SendUnit, faultVars
  <2>3. output[s] # << >> /\ (s \in overdue \/ s \in nalHandlers)
    BY <2>2 DEF OutputInv, HandlerInv
  <2>4. ~clash => call(bytes).from = s /\ call(bytes).nal = Head(output[s]).nal
    BY <2>1, <2>2 DEF AnnexInv, Unit
  <2>5. \A t \in Sessions \ {s} : output'[t] = output[t] /\ sent'[t] = sent[t]
    BY <1>0, <2>1, <2>2 DEF Streams
  <2>6. /\ output'[s] = Tail(output[s])
        /\ s \notin overdue => sent'[s] = Append(sent[s], call(bytes))
    BY <1>0, <2>1, <2>2, <2>3 DEF Streams
  <2> HIDE DEF call
  <2>7. s \notin overdue =>
           /\ Pending(sent'[s], output'[s], emitted[s])
           /\ ~clash => Own(s, sent'[s], emitted[s])
    <3>1. output[s] \in Seq(Units) /\ sent[s] \in Seq(Calls)
      BY <1>0 DEF Streams
    <3> QED
      BY <2>3, <2>4, <2>6, <3>1, UnitMoved DEF OrderInv
  <2> QED
    BY <2>2, <2>5, <2>7 DEF OrderInv
<1> USE DEF vars, pipelineVars, mapVars, captureVars, encoderVars, faultVars
<1>3. ASSUME NEW s \in Sessions, InvalidateSession(s) PROVE OrderInv'
  <2>1. \A t \in Sessions : output'[t] = output[t] \/ output'[t] = << >>
    BY <1>0, <1>3 DEF InvalidateSession, Streams
  <2> QED
    BY <1>3, <2>1, OrderKept DEF InvalidateSession
<1>4. ASSUME NEW s \in Sessions, FreeContext(s) PROVE OrderInv'
  BY <1>4, OrderKept DEF FreeContext
<1>5. ASSUME NEW s \in Sessions, FillAnnexBuffer(s) PROVE OrderInv'
  BY <1>5, OrderKept DEF FillAnnexBuffer
<1>6. ASSUME NEW s \in Sessions,
             \/ Cancel(s) \/ NewEncoder(s) \/ NewEncoderFails(s) \/ StartCapture(s)
             \/ StartCaptureFails(s) \/ StopStream(s) \/ UnregisterHandler(s)
             \/ CompleteFrames(s) \/ ForgetSession(s)
      PROVE  OrderInv'
  BY <1>6, OrderKept
     DEF Cancel, NewEncoder, NewEncoderFails, StartCapture, StartCaptureFails, StopStream,
      UnregisterHandler, CompleteFrames, ForgetSession
<1>7. ASSUME NEW s \in Sessions,
             \/ DisplayFrame(s) \/ WrapFrame(s) \/ WrapFrameOfFreedContext(s)
             \/ FindHandler(s) \/ EncodeFails(s)
      PROVE  OrderInv'
  BY <1>7, OrderKept
     DEF DisplayFrame, WrapFrame, WrapFrameOfFreedContext, FindHandler, EncodeFails,
      FrameHandler
<1>8. CASE Done \/ UNCHANGED vars
  BY <1>8, OrderKept DEF Done
<1> QED
  BY StepCases, <1>1, <1>2, <1>3, <1>4, <1>5, <1>6, <1>7, <1>8

-----------------------------------------------------------------------------
(* The theorems.                                                           *)

\* The invariant holds before any pipeline has started.
LEMMA InvInit == Init => IInv
<1> SUFFICES ASSUME Init PROVE IInv
  OBVIOUS
<1> USE MediaAssumption DEF Init
<1>1. TypeOK
  <2>1. /\ << >> \in Seq(Units)
        /\ << >> \in Seq([from : Sessions, nal : NALs, type : NALs \ {"SEI"}])
    BY EmptySeq
  <2>2. output \in [Sessions -> Seq(Units)] /\ emitted \in [Sessions -> Seq(Units)]
    BY <2>1
  <2>3. sent \in [Sessions -> Seq([from : Sessions, nal : NALs, type : NALs \ {"SEI"}])]
    BY <2>1
  <2>4. 0 \in 0 .. MaxFrames /\ 0 \in 0 .. MaxAttempts
    OBVIOUS
  <2> QED
    BY <2>2, <2>3, <2>4 DEF TypeOK, PCs
<1>2. PhaseInv /\ HandlerInv
  BY DEF PhaseInv, HandlerInv
<1>3. QueueInv /\ CountInv /\ PixelBuffersReleased
  BY DEF QueueInv, CountInv, PixelBuffersReleased
<1>4. OutputInv /\ NoUseAfterFree
  BY DEF OutputInv, NoUseAfterFree
<1>5. UnitsCounted
  BY EmptySeq DEF UnitsCounted
<1>6. EncoderInv /\ AnnexInv
  BY DEF EncoderInv, AnnexInv
<1>7. OrderInv
  BY DEF OrderInv, Pending, Own
<1> QED
  BY <1>1, <1>2, <1>3, <1>4, <1>5, <1>6, <1>7 DEF IInv

\* Every step of every thread keeps it.
LEMMA InvStep == IInv /\ [Next]_vars => IInv'
BY PhaseStep, HandlerStep, QueueStep, OutputStep, FreedStep, TypeStep, EncoderStep,
   AnnexStep, OrderStep DEF IInv

\* It holds always.
LEMMA InvAlways == Spec => []IInv
BY InvInit, InvStep, PTL DEF Spec

\* The variables keep their types: no counter runs below zero, nor past the
\* frames the displays have produced.
THEOREM MediaTypeCorrect == Spec => []TypeOK
<1>1. IInv => TypeOK
  BY DEF IInv
<1> QED
  BY <1>1, InvAlways, PTL

\* The process dies of a freed context or session only after a callback has
\* outlived StopCapture's wait, or two output callbacks have clashed.
THEOREM NothingFreedIsUsed == Spec => []NoUseAfterFree
<1>1. IInv => NoUseAfterFree
  BY DEF IInv
<1> QED
  BY <1>1, InvAlways, PTL

\* A session keeps one pixel buffer while a frame is handled, and none else.
THEOREM BuffersAreReleased == Spec => []PixelBuffersReleased
<1>1. IInv => PixelBuffersReleased
  BY DEF IInv
<1> QED
  BY <1>1, InvAlways, PTL

\* Close flushes: no NAL unit the encoder has produced is lost on the way, and
\* without a clash a session sends just what its own encoder has produced, in
\* order, through the whole teardown.
THEOREM CloseFlushes == Spec => []EveryUnitIsSent
<1>1. IInv => EveryUnitIsSent
  <2> SUFFICES ASSUME IInv, NEW s \in Sessions \ overdue
               PROVE  /\ Len(emitted[s]) = Len(sent[s]) + Len(output[s])
                      /\ ~clash => \A i \in DOMAIN sent[s] :
                            sent[s][i].from = s /\ sent[s][i].nal = emitted[s][i].nal
    BY DEF EveryUnitIsSent
  <2>1. DOMAIN sent[s] = 1 .. Len(sent[s])
    BY StreamTypes, LenProperties DEF IInv, Streams
  <2> QED
    BY <2>1 DEF IInv, UnitsCounted, OrderInv, Own
<1> QED
  BY <1>1, InvAlways, PTL

\* An ended pipeline, whichever step failed, is in neither handler map.
THEOREM MapsAreCleared == Spec => []EndedPipelineLeavesNoHandler
<1>1. IInv => EndedPipelineLeavesNoHandler
  <2> SUFFICES ASSUME IInv, NEW s \in Sessions, pc[s] = "ended"
               PROVE  s \notin nalHandlers /\ \A id \in handlers : id[1] # s
    BY DEF EndedPipelineLeavesNoHandler
  <2>1. s \notin nalHandlers
    BY DEF IInv, HandlerInv
  <2>2. ASSUME NEW id \in handlers, id[1] = s PROVE FALSE
    <3>1. PICK k \in 1 .. MaxAttempts : id = <<s, k>>
      BY <2>2 DEF IInv, TypeOK
    <3> QED
      BY <2>2, <3>1 DEF IInv, HandlerInv
  <2> QED
    BY <2>1, <2>2
<1> QED
  BY <1>1, InvAlways, PTL

===============================================================================
