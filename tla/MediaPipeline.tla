---------------------------- MODULE MediaPipeline ----------------------------
(***************************************************************************)
(* The video half of a session: screen capture -> H.264 encoder ->         *)
(* SendFrame (startPipelineCommon, packages capture and encoder with their *)
(* Objective-C bridges).                                                   *)
(*                                                                         *)
(* Three threads work for a session s: its pipeline goroutine (pc), the    *)
(* serial dispatch queue that delivers captured frames (queued, capture)   *)
(* and VideoToolbox's output thread (output, filled).  They meet in the    *)
(* handler maps, the encoder's session and the static Annex-B buffer.      *)
(*                                                                         *)
(* A frame is encoded to a sample: the parameter sets VideoToolbox hands   *)
(* out with it and the NAL units of its data block.                        *)
(***************************************************************************)
EXTENDS Integers, Sequences, FiniteSets

CONSTANTS
    Sessions,      \* sessions with a pipeline
    MaxAttempts,   \* capture.Start's maxRetries
    Samples,       \* what frames may be encoded to
    MaxFrames,     \* bound: frames all the displays produce
    MaxOverdue     \* bound: sessions whose callbacks outlive StopCapture's wait

NALs == {"SPS", "PPS", "SEI", "IDR", "P"}

\* key: no NotSync attachment says otherwise.  parameters: the sets that the
\* format description yields without an error, none if there is no description.
\* picture: the well-formed NAL units of the data block, none if there is no
\* block or the frame failed.
SampleType == [key : BOOLEAN, parameters : Seq({"SPS", "PPS"}), picture : Seq(NALs)]

ASSUME MediaAssumption ==
    /\ MaxAttempts \in Nat \ {0}
    /\ {MaxFrames, MaxOverdue} \subseteq Nat
    /\ Samples \subseteq SampleType

VARIABLES
    pc,            \* the pipeline goroutine
    attempt,       \* capture.Start's attempts so far
    cancelled,     \* sessions whose context is cancelled
    handlers,      \* capture's handlers: ids <<s, attempt>>
    nalHandlers,   \* encoder's nalHandlers: one id for each session
    stream,        \* CaptureContext and its display stream
    encoder,       \* the VTCompressionSession behind Encoder.session
    queued,        \* captured frames on the capture queue, not yet handled
    capture,       \* what the block on the capture queue is doing
    retained,      \* pixel buffers wrapped for Go and not released
    output,        \* units of the samples the encoder still has to hand out
    filled,        \* sessions whose output callback is between fill and copy
    annex,         \* sAnnexBuf: the session and the NAL unit written last
    emitted,       \* units the encoder has produced, in order
    sent,          \* the calls of SendFrame
    frames,        \* frames the displays have produced
    overdue,       \* sessions whose callbacks took longer than StopCapture waits
    clash,         \* two output callbacks have used sAnnexBuf at the same time
    crashed        \* memory was used after it was freed, and the process died

pipelineVars == <<pc, attempt, cancelled>>
mapVars      == <<handlers, nalHandlers>>
captureVars  == <<stream, queued, capture, retained, frames>>
encoderVars  == <<encoder, output, filled, annex, emitted, sent>>
faultVars    == <<overdue, clash, crashed>>
vars == <<pipelineVars, mapVars, captureVars, encoderVars, faultVars>>

-----------------------------------------------------------------------------
(* Types.                                                                  *)

Units == [nal : NALs, key : BOOLEAN]
PCs == {"new", "start", "active", "wait", "unregister", "complete", "invalidate",
        "forget", "ended"}

TypeOK ==
    /\ pc \in [Sessions -> PCs]
    /\ attempt \in [Sessions -> 0 .. MaxAttempts]
    /\ cancelled \subseteq Sessions
    /\ handlers \subseteq Sessions \X (1 .. MaxAttempts)
    /\ nalHandlers \subseteq Sessions
    /\ stream \in [Sessions -> {"none", "running", "stopped", "freed"}]
    /\ encoder \in [Sessions -> {"none", "live", "released", "nil"}]
    /\ queued \in [Sessions -> 0 .. MaxFrames]
    /\ capture \in [Sessions -> {"idle", "wrapped", "found"}]
    /\ retained \in [Sessions -> 0 .. MaxFrames]
    /\ output \in [Sessions -> Seq(Units)]
    /\ filled \subseteq Sessions
    /\ annex \in [from : Sessions, nal : NALs] \cup {[from |-> "nobody", nal |-> "none"]}
    /\ emitted \in [Sessions -> Seq(Units)]
    /\ sent \in [Sessions -> Seq([from : Sessions, nal : NALs, type : NALs \ {"SEI"}])]
    /\ frames \in 0 .. MaxFrames
    /\ overdue \subseteq Sessions
    /\ clash \in BOOLEAN
    /\ crashed \in BOOLEAN

Init ==
    /\ pc = [s \in Sessions |-> "new"]
    /\ attempt = [s \in Sessions |-> 0]
    /\ cancelled = {}
    /\ handlers = {}
    /\ nalHandlers = {}
    /\ stream = [s \in Sessions |-> "none"]
    /\ encoder = [s \in Sessions |-> "none"]
    /\ queued = [s \in Sessions |-> 0]
    /\ capture = [s \in Sessions |-> "idle"]
    /\ retained = [s \in Sessions |-> 0]
    /\ output = [s \in Sessions |-> << >>]
    /\ filled = {}
    /\ annex = [from |-> "nobody", nal |-> "none"]
    /\ emitted = [s \in Sessions |-> << >>]
    /\ sent = [s \in Sessions |-> << >>]
    /\ frames = 0
    /\ overdue = {}
    /\ clash = FALSE
    /\ crashed = FALSE

-----------------------------------------------------------------------------
(* The pipeline goroutine.                                                 *)

Go(s, from, to) ==
    /\ ~crashed
    /\ pc[s] = from
    /\ pc' = [pc EXCEPT ![s] = to]

\* The session's context is cancelled: its client has left.
Cancel(s) ==
    /\ ~crashed
    /\ cancelled' = cancelled \cup {s}
    /\ s \notin cancelled
    /\ UNCHANGED <<pc, attempt, mapVars, captureVars, encoderVars, faultVars>>

\* encoder.New: the handler is registered before the compression session is
\* created, and unregistered when that fails.
NewEncoder(s) ==
    /\ Go(s, "new", "start")
    /\ nalHandlers' = nalHandlers \cup {s}
    /\ encoder' = [encoder EXCEPT ![s] = "live"]
    /\ UNCHANGED <<attempt, cancelled, handlers, captureVars, output, filled, annex,
                   emitted, sent, faultVars>>

NewEncoderFails(s) ==
    /\ Go(s, "new", "ended")
    /\ UNCHANGED <<attempt, cancelled, mapVars, captureVars, encoderVars, faultVars>>

\* One attempt of capture.Start: a fresh id is registered and the stream
\* started, after which frames may come ...
StartCapture(s) ==
    /\ Go(s, "start", "active")
    /\ attempt' = [attempt EXCEPT ![s] = @ + 1]
    /\ handlers' = handlers \cup {<<s, attempt'[s]>>}
    /\ stream' = [stream EXCEPT ![s] = "running"]
    /\ UNCHANGED <<cancelled, nalHandlers, queued, capture, retained, frames, encoderVars,
                   faultVars>>

KeepFailedHandler(s) ==
    /\ attempt' = [attempt EXCEPT ![s] = @ + 1]
    /\ Go(s, "start", IF attempt'[s] < MaxAttempts THEN "start" ELSE "complete")
    /\ handlers' = handlers \cup {<<s, attempt'[s]>>}
    /\ UNCHANGED <<cancelled, nalHandlers, captureVars, encoderVars, faultVars>>

\* ... or not: the id is unregistered again, and capture.Start tries once more
\* (whether or not the client is still there) or gives up.
StartCaptureFails(s) ==
    /\ attempt' = [attempt EXCEPT ![s] = @ + 1]
    /\ Go(s, "start", IF attempt'[s] < MaxAttempts THEN "start" ELSE "complete")
    /\ UNCHANGED <<cancelled, mapVars, captureVars, encoderVars, faultVars>>

CloseEncoderFirst(s) ==
    /\ Go(s, "active", "complete")
    /\ s \in cancelled
    /\ stream' = [stream EXCEPT ![s] = "stopped"]
    /\ UNCHANGED <<attempt, cancelled, mapVars, queued, capture, retained, frames,
                   encoderVars, faultVars>>

UnregisterFirst(s) ==
    /\ Go(s, "active", "wait")
    /\ s \in cancelled
    /\ stream' = [stream EXCEPT ![s] = "stopped"]
    /\ handlers' = handlers \ {<<s, attempt[s]>>}
    /\ UNCHANGED <<attempt, cancelled, nalHandlers, queued, capture, retained, frames,
                   encoderVars, faultVars>>

\* <-ctx.Done(), then the deferred cap.Stop: CGDisplayStreamStop ...
StopStream(s) ==
    /\ Go(s, "active", "wait")
    /\ s \in cancelled
    /\ stream' = [stream EXCEPT ![s] = "stopped"]
    /\ UNCHANGED <<attempt, cancelled, mapVars, queued, capture, retained, frames,
                   encoderVars, faultVars>>

\* ... usleep(100000), a wait for time and not for the callbacks; then
\* CFRelease(stream) and free(ctx) ...
FreeContext(s) ==
    /\ Go(s, "wait", "unregister")
    /\ stream' = [stream EXCEPT ![s] = "freed"]
    /\ overdue' = IF queued[s] > 0 \/ capture[s] # "idle" THEN overdue \cup {s} ELSE overdue
    /\ Cardinality(overdue') <= MaxOverdue
    /\ UNCHANGED <<attempt, cancelled, mapVars, queued, capture, retained, frames,
                   encoderVars, clash, crashed>>

\* ... and unregisterHandler.
UnregisterHandler(s) ==
    /\ Go(s, "unregister", "complete")
    /\ handlers' = handlers \ {<<s, attempt[s]>>}
    /\ UNCHANGED <<attempt, cancelled, nalHandlers, captureVars, encoderVars, faultVars>>

CompleteNothing(s) ==
    /\ Go(s, "complete", "invalidate")
    /\ UNCHANGED <<attempt, cancelled, mapVars, captureVars, encoderVars, faultVars>>

\* The deferred enc.Close: CompleteFrames returns when every frame submitted
\* so far has been handed out ...
CompleteFrames(s) ==
    /\ Go(s, "complete", "invalidate")
    /\ output[s] = << >>
    /\ UNCHANGED <<attempt, cancelled, mapVars, captureVars, encoderVars, faultVars>>

\* ... the session is invalidated and released, with what it still holds ...
InvalidateSession(s) ==
    /\ Go(s, "invalidate", "forget")
    /\ encoder' = [encoder EXCEPT ![s] = "released"]
    /\ output' = [output EXCEPT ![s] = << >>]
    /\ filled' = filled \ {s}
    /\ UNCHANGED <<attempt, cancelled, mapVars, captureVars, annex, emitted, sent, faultVars>>

\* ... e.session = nil and unregisterNALHandler.
ForgetSession(s) ==
    /\ Go(s, "forget", "ended")
    /\ encoder' = [encoder EXCEPT ![s] = "nil"]
    /\ nalHandlers' = nalHandlers \ {s}
    /\ UNCHANGED <<attempt, cancelled, handlers, captureVars, output, filled, annex,
                   emitted, sent, faultVars>>

Pipeline(s) ==
    \/ NewEncoder(s) \/ NewEncoderFails(s)
    \/ StartCapture(s) \/ StartCaptureFails(s)
    \/ StopStream(s) \/ FreeContext(s) \/ UnregisterHandler(s)
    \/ CompleteFrames(s) \/ InvalidateSession(s) \/ ForgetSession(s)

-----------------------------------------------------------------------------
(* The capture queue.                                                      *)

Block(s, from, to) ==
    /\ ~crashed
    /\ capture[s] = from
    /\ capture' = [capture EXCEPT ![s] = to]

\* The display has changed: its stream puts a frame on the queue.
DisplayFrame(s) ==
    /\ ~crashed
    /\ stream[s] = "running"
    /\ frames < MaxFrames
    /\ frames' = frames + 1
    /\ queued' = [queued EXCEPT ![s] = @ + 1]
    /\ UNCHANGED <<pipelineVars, mapVars, stream, capture, retained, encoderVars, faultVars>>

\* The block wraps the frame in a pixel buffer and calls ctx->callback.  Of a
\* context that is freed it may still read the old values.
WrapFrame(s) ==
    /\ Block(s, "idle", "wrapped")
    /\ queued[s] > 0
    /\ queued' = [queued EXCEPT ![s] = @ - 1]
    /\ retained' = [retained EXCEPT ![s] = @ + 1]
    /\ UNCHANGED <<pipelineVars, mapVars, stream, frames, encoderVars, faultVars>>

\* It may also read no callback, and releases the pixel buffer itself, or die.
WrapFrameOfFreedContext(s) ==
    /\ ~crashed
    /\ queued[s] > 0 /\ capture[s] = "idle" /\ stream[s] = "freed"
    /\ queued' = [queued EXCEPT ![s] = @ - 1]
    /\ crashed' \in BOOLEAN
    /\ UNCHANGED <<pipelineVars, mapVars, stream, capture, retained, frames, encoderVars,
                   overdue, clash>>

\* goFrameCallback: without a handler it returns, and nobody releases the
\* pixel buffer.
FindHandler(s) ==
    /\ Block(s, "wrapped", IF <<s, attempt[s]>> \in handlers THEN "found" ELSE "idle")
    /\ UNCHANGED <<pipelineVars, mapVars, stream, queued, retained, frames, encoderVars,
                   faultVars>>

\* What outputCallback hands out for a sample: of a key frame the parameter sets
\* it got, few or none, and then the data block in any case.
UnitsOf(sample) ==
    LET nals == IF sample.key THEN sample.parameters \o sample.picture ELSE sample.picture
    IN  [i \in DOMAIN nals |-> [nal |-> nals[i], key |-> sample.key]]

\* The frame handler: enc.Encode is accepted or fails (of a session that is
\* released the process may also die), then the deferred ReleasePixelBuffer.
FrameHandler(s) ==
    /\ Block(s, "found", "idle")
    /\ retained' = [retained EXCEPT ![s] = @ - 1]
    /\ UNCHANGED <<pipelineVars, mapVars, stream, queued, frames, encoder, filled, annex,
                   sent, overdue, clash>>

Encode(s) ==
    /\ FrameHandler(s)
    /\ encoder[s] = "live"
    /\ \E sample \in Samples :
          /\ output' = [output EXCEPT ![s] = @ \o UnitsOf(sample)]
          /\ emitted' = [emitted EXCEPT ![s] = @ \o UnitsOf(sample)]
    /\ UNCHANGED crashed

EncodeFails(s) ==
    /\ FrameHandler(s)
    /\ \/ UNCHANGED crashed
       \/ encoder[s] = "released" /\ crashed' = TRUE
    /\ UNCHANGED <<output, emitted>>

CaptureQueue(s) ==
    \/ WrapFrame(s) \/ WrapFrameOfFreedContext(s) \/ FindHandler(s)
    \/ Encode(s) \/ EncodeFails(s)

-----------------------------------------------------------------------------
(* VideoToolbox's output thread.                                           *)

Unit(s) == [from |-> s, nal |-> Head(output[s]).nal]

\* outputCallback writes the next NAL unit into sAnnexBuf.  EnsureAnnexBuffer
\* may free the buffer another callback is reading.
FillAnnexBuffer(s) ==
    /\ ~crashed
    /\ output[s] # << >> /\ s \notin filled
    /\ filled' = filled \cup {s}
    /\ annex' = Unit(s)
    /\ clash' = (clash \/ filled # {})
    /\ \/ crashed' = FALSE
       \/ filled # {} /\ crashed' = TRUE
    /\ UNCHANGED <<pipelineVars, mapVars, captureVars, encoder, output, emitted, sent, overdue>>

UnitAsType(bytes, isKeyframe) == bytes

\* The frame handler's switch: parameter sets by the type in the bytes, IDR by
\* the isKeyframe of the callback.
FrameType(bytes, isKeyframe) ==
    IF bytes \in {"SPS", "PPS"} THEN bytes ELSE IF isKeyframe THEN "IDR" ELSE "P"

\* goEncodedCallback: with a handler, the bytes are copied from sAnnexBuf (or
\* from the buffer that was there before it grew) and sent.
SendUnit(s) ==
    /\ ~crashed
    /\ s \in filled
    /\ filled' = filled \ {s}
    /\ output' = [output EXCEPT ![s] = Tail(@)]
    /\ \E bytes \in {annex, Unit(s)} :
          LET call == [from |-> bytes.from, nal |-> bytes.nal,
                       type |-> FrameType(bytes.nal, Head(output[s]).key)]
          IN  sent' = [sent EXCEPT ![s] = IF s \in nalHandlers THEN Append(@, call) ELSE @]
    /\ UNCHANGED <<pipelineVars, mapVars, captureVars, encoder, annex, emitted, faultVars>>

OutputThread(s) == FillAnnexBuffer(s) \/ SendUnit(s)

-----------------------------------------------------------------------------
(* The specification.                                                      *)

\* The only states the system may stop in: every pipeline has been cancelled
\* and has ended, and no callback is left (or the process has died).
Done ==
    /\ \/ crashed
       \/ /\ cancelled = Sessions
          /\ \A s \in Sessions : pc[s] = "ended" /\ queued[s] = 0 /\ capture[s] = "idle"
    /\ UNCHANGED vars

Next ==
    \/ \E s \in Sessions :
          Cancel(s) \/ Pipeline(s) \/ DisplayFrame(s) \/ CaptureQueue(s) \/ OutputThread(s)
    \/ Done

Spec == Init /\ [][Next]_vars

-----------------------------------------------------------------------------
(* Properties.                                                             *)

\* The process never uses a capture context or a compression session it has
\* freed, except when a capture callback outlives StopCapture's 100 ms
\* (capture_bridge.m:130-132) or two output callbacks clash (EnsureAnnexBuffer).
NoUseAfterFree == crashed => overdue # {} \/ clash

\* The pixel buffers wrapped for Go are released by the frame handler: a
\* session keeps one at most, while a frame is being handled, and none
\* afterwards (unless it has outlived StopCapture's wait).
PixelBuffersReleased ==
    \A s \in Sessions \ overdue :
       retained[s] = IF capture[s] = "idle" THEN 0 ELSE 1

\* "Close flushes any pending frames" (h264.go:158): a NAL unit the encoder
\* has produced is still to come or was sent, through the whole teardown; and
\* as long as no two callbacks have clashed, what a session sends is what its
\* own encoder has produced, unit for unit and in order.
EveryUnitIsSent ==
    \A s \in Sessions \ overdue :
       /\ Len(emitted[s]) = Len(sent[s]) + Len(output[s])
       /\ ~clash => \A i \in DOMAIN sent[s] :
             sent[s][i].from = s /\ sent[s][i].nal = emitted[s][i].nal

\* An ended pipeline leaves no handler in the global maps, whichever step of
\* encoder.New and capture.Start failed.
EndedPipelineLeavesNoHandler ==
    \A s \in Sessions :
       pc[s] = "ended" => s \notin nalHandlers /\ \A id \in handlers : id[1] # s

\* encoder_bridge.m:17-18 says of sAnnexBuf "Only accessed from the
\* VideoToolbox callback thread, so no synchronization needed": then a session
\* sends its own bytes only.
SessionSendsOwnBytes ==
    \A s \in Sessions : \A i \in DOMAIN sent[s] : sent[s][i].from = s
=============================================================================
