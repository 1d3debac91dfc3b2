----------------------------- MODULE VideoDecoder -----------------------------
(***************************************************************************)
(* The decoder of the Android client (VideoDecoder.kt) and the activity    *)
(* that starts and stops it with its surface (DisplayActivity).            *)
(*                                                                         *)
(* NAL units come from the receiving coroutine, through the service's      *)
(* callback, and from the UI thread, which injects the cached SPS and PPS  *)
(* into a new decoder.  Input buffers come from the codec, on the callback *)
(* thread of the decoder.  The two meet in nalQueue and bufferQueue, under *)
(* feedLock.  A stopped decoder lives on for the threads that hold it.     *)
(*                                                                         *)
(* Input buffers are only counted.  A NAL unit is its kind and its place   *)
(* in the stream, 0 for an injected one.                                   *)
(***************************************************************************)
EXTENDS Naturals, Sequences, FiniteSets, SequencesExt

CONSTANTS
    Stream,            \* kinds of the NAL units the service receives
    MaxDecoders,       \* bound: decoders the activity starts
    InputBuffers,      \* input buffers of a codec
    MaxQueueDepth,     \* MAX_QUEUE_DEPTH
    MaxFeedFailures    \* bound: input buffers the codec fails to take

Kinds == {"sps", "pps", "idr", "p"}

ASSUME DecoderAssumption ==
    /\ Stream \in Seq(Kinds)
    /\ {MaxDecoders, InputBuffers, MaxQueueDepth, MaxFeedFailures} \subseteq Nat

VARIABLES
    received,       \* NAL units of the stream the service has handled
    cached,         \* cachedSPS and cachedPPS: the kinds that are not null
    callback,       \* videoCallback is set
    bound,          \* displayService is set
    videoDecoder,   \* the decoder the activity points to, 0 for null
    ui,             \* what the UI thread does
    decoders,       \* decoders started so far
    codec,          \* the codec of each: none, running, stopped, or null once
                    \* stop() has forgotten it
    nalQueue,
    bufferQueue,    \* buffers that wait for a NAL unit
    available,      \* buffers the codec announces to its callback thread
    queued,         \* buffers in the codec
    feedLock,       \* the threads inside
    thread,         \* where each thread is in submitNAL or in the callback,
                    \* and what it holds
    \* What the properties speak of.
    lastFed,        \* place of the last NAL unit of the stream a codec took
    feedFailures

serviceVars == <<received, cached, callback, bound>>
uiVars      == <<videoDecoder, ui, decoders>>
queueVars   == <<nalQueue, bufferQueue>>
codecVars   == <<codec, available, queued>>
fedVars     == <<lastFed, feedFailures>>
threadVars  == <<feedLock, thread>>
vars == <<serviceVars, uiVars, queueVars, codecVars, fedVars, threadVars>>

Decoders == 1 .. MaxDecoders
Config == {"sps", "pps"}
NALs == [kind : Kinds, place : 0 .. Len(Stream)]
NoNAL == [kind |-> "none"]

Receiver == <<"receiver", 0>>
Ui == <<"ui", 0>>
Callback(d) == <<"callback", d>>
Threads == {Receiver, Ui} \cup {Callback(d) : d \in Decoders}

At(step, d, nal, buffer) == [step |-> step, decoder |-> d, nal |-> nal, buffer |-> buffer]
Idle == At("idle", 0, NoNAL, FALSE)

TypeOK ==
    /\ received \in 0 .. Len(Stream) /\ cached \subseteq Config
    /\ callback \in BOOLEAN /\ bound \in BOOLEAN
    /\ videoDecoder \in 0 .. decoders /\ decoders \in 0 .. MaxDecoders
    /\ ui \in {"noSurface", "publish", "sps", "pps", "surface", "forgetCodec", "clearNALs",
               "clearBuffers"}
    /\ videoDecoder = 0 <=> ui \in {"noSurface", "publish"}
    /\ codec \in [Decoders -> {"none", "running", "stopped", "null"}]
    /\ nalQueue \in [Decoders -> Seq(NALs)]
    /\ \A d \in Decoders :
          bufferQueue[d] + available[d] + queued[d] <= InputBuffers
    /\ feedLock \in [Decoders -> SUBSET Threads]
    /\ \A d \in Decoders : Cardinality(feedLock[d]) <= 1
    /\ thread \in [Threads -> [step : {"idle", "callback", "lock", "act"},
                               decoder : 0 .. MaxDecoders,
                               nal : NALs \cup {NoNAL}, buffer : BOOLEAN]]
    /\ lastFed \in [Decoders -> 0 .. Len(Stream)]
    /\ feedFailures \in 0 .. MaxFeedFailures

Init ==
    /\ received = 0 /\ cached = {} /\ callback = FALSE /\ bound = FALSE
    /\ videoDecoder = 0 /\ ui = "noSurface" /\ decoders = 0
    /\ codec = [d \in Decoders |-> "none"]
    /\ nalQueue = [d \in Decoders |-> <<>>]
    /\ bufferQueue = [d \in Decoders |-> 0]
    /\ available = [d \in Decoders |-> 0] /\ queued = [d \in Decoders |-> 0]
    /\ feedLock = [d \in Decoders |-> {}]
    /\ thread = [t \in Threads |-> Idle]
    /\ lastFed = [d \in Decoders |-> 0]
    /\ feedFailures = 0

-----------------------------------------------------------------------------
(* The service: handlePacket keeps SPS and PPS and calls the callback.     *)

Becomes(t, state) == thread' = [thread EXCEPT ![t] = state]

ReceiveNAL ==
    /\ thread[Receiver] = Idle /\ received < Len(Stream)
    /\ received' = received + 1
    /\ LET kind == Stream[received'] IN
          /\ cached' = cached \cup ({kind} \cap Config)
          /\ IF callback
             THEN Becomes(Receiver, At("callback", 0, [kind |-> kind, place |-> received'], FALSE))
             ELSE UNCHANGED thread
    /\ UNCHANGED <<callback, bound, uiVars, queueVars, codecVars, fedVars, feedLock>>

OnServiceConnected ==
    /\ ~bound
    /\ bound' = TRUE /\ callback' = TRUE
    /\ UNCHANGED <<received, cached, uiVars, queueVars, codecVars, fedVars, threadVars>>

(* cleanupConnections of the service.                                      *)
Disconnect ==
    /\ callback
    /\ callback' = FALSE
    /\ UNCHANGED <<received, cached, bound, uiVars, queueVars, codecVars, fedVars, threadVars>>

-----------------------------------------------------------------------------
(* submitNAL.  Without a decoder, or with one that has forgotten its       *)
(* codec, the NAL unit is gone.  The queue is measured before the lock is  *)
(* taken.                                                                  *)

FullByOneMore(d) == Len(nalQueue[d]) > MaxQueueDepth + 1
Full(d) == Len(nalQueue[d]) > MaxQueueDepth

Accepts(d, nal) ==
    d # 0 /\ codec[d] \in {"running", "stopped"} /\ ~(nal.kind = "p" /\ Full(d))

SubmitNAL ==
    LET nal == thread[Receiver].nal IN
    /\ thread[Receiver].step = "callback"
    /\ Becomes(Receiver, IF Accepts(videoDecoder, nal) THEN At("lock", videoDecoder, nal, FALSE)
                         ELSE Idle)
    /\ UNCHANGED <<serviceVars, uiVars, queueVars, codecVars, fedVars, feedLock>>

NoLock(t, d) == UNCHANGED feedLock
TakeLock(t, d) == feedLock[d] = {} /\ feedLock' = [feedLock EXCEPT ![d] = {t}]

PollBuffer(t) ==
    LET d == thread[t].decoder IN
    /\ thread[t].step = "lock" /\ TakeLock(t, d)
    /\ Becomes(t, At("act", d, thread[t].nal, bufferQueue[d] > 0))
    /\ bufferQueue' = [bufferQueue EXCEPT ![d] = IF @ > 0 THEN @ - 1 ELSE 0]
    /\ UNCHANGED <<serviceVars, uiVars, nalQueue, codecVars, fedVars>>

(* onInputBufferAvailable                                                  *)
InputBufferAvailable(d) ==
    /\ thread[Callback(d)] = Idle /\ available[d] > 0
    /\ available' = [available EXCEPT ![d] = @ - 1]
    /\ Becomes(Callback(d), At("lock", d, NoNAL, TRUE))
    /\ UNCHANGED <<serviceVars, uiVars, queueVars, codec, queued, fedVars, feedLock>>

Newest(queue) == Len(queue)
Oldest(queue) == 1

PollNAL(d) ==
    LET queue == nalQueue[d] IN
    /\ thread[Callback(d)].step = "lock" /\ TakeLock(Callback(d), d)
    /\ IF queue = <<>>
       THEN Becomes(Callback(d), At("act", d, NoNAL, TRUE)) /\ UNCHANGED nalQueue
       ELSE /\ Becomes(Callback(d), At("act", d, queue[Oldest(queue)], TRUE))
            /\ nalQueue' = [nalQueue EXCEPT ![d] = RemoveAt(@, Oldest(@))]
    /\ UNCHANGED <<serviceVars, uiVars, bufferQueue, codecVars, fedVars>>

(* The end of both: with a NAL unit and a buffer, feedBuffer; otherwise    *)
(* what there is waits in its queue.  When feedBuffer fails, buffer and    *)
(* NAL unit are both lost; a stopped codec always fails.                   *)
Feed(d, nal) ==
    /\ codec[d] = "running"
    /\ queued' = [queued EXCEPT ![d] = @ + 1]
    /\ lastFed' = [lastFed EXCEPT ![d] = IF nal.place = 0 THEN @ ELSE nal.place]
    /\ UNCHANGED <<queueVars, feedFailures>>

FeedFails(d) ==
    /\ \/ codec[d] \in {"stopped", "null"} /\ UNCHANGED feedFailures
       \/ /\ codec[d] = "running" /\ feedFailures < MaxFeedFailures
          /\ feedFailures' = feedFailures + 1
    /\ UNCHANGED <<lastFed, queued, queueVars>>

OfferNAL(d, nal) ==
    /\ nalQueue' = [nalQueue EXCEPT ![d] = Append(@, nal)]
    /\ UNCHANGED <<fedVars, queued, bufferQueue>>

ForgetBuffer(d) == UNCHANGED bufferQueue
KeepBuffer(d) == bufferQueue' = [bufferQueue EXCEPT ![d] = @ + 1]

OfferBuffer(d) == KeepBuffer(d) /\ UNCHANGED <<fedVars, queued, nalQueue>>

Act(t) ==
    LET d == thread[t].decoder
        nal == thread[t].nal
    IN  /\ thread[t].step = "act"
        /\ \/ nal # NoNAL /\ thread[t].buffer /\ (Feed(d, nal) \/ FeedFails(d))
           \/ nal # NoNAL /\ ~thread[t].buffer /\ OfferNAL(d, nal)
           \/ nal = NoNAL /\ OfferBuffer(d)
        /\ feedLock' = [feedLock EXCEPT ![d] = @ \ {t}]
        /\ Becomes(t, Idle)
        /\ UNCHANGED <<serviceVars, uiVars, codec, available>>

(* The codec has decoded a buffer and announces it again.                  *)
Decode(d) ==
    /\ codec[d] = "running" /\ queued[d] > 0
    /\ queued' = [queued EXCEPT ![d] = @ - 1]
    /\ available' = [available EXCEPT ![d] = @ + 1]
    /\ UNCHANGED <<serviceVars, uiVars, queueVars, codec, fedVars, threadVars>>

-----------------------------------------------------------------------------
(* DisplayActivity on the UI thread.                                       *)

(* startDecoder: the decoder is started, then published, then given the    *)
(* config the service has cached.                                          *)
SurfaceCreated ==
    /\ ui = "noSurface" /\ decoders < MaxDecoders
    /\ decoders' = decoders + 1
    /\ codec' = [codec EXCEPT ![decoders'] = "running"]
    /\ available' = [available EXCEPT ![decoders'] = InputBuffers]
    /\ ui' = "publish"
    /\ UNCHANGED <<serviceVars, videoDecoder, queueVars, queued, fedVars, threadVars>>

PublishDecoder ==
    /\ ui = "publish"
    /\ videoDecoder' = decoders
    /\ ui' = "sps"
    /\ UNCHANGED <<serviceVars, decoders, queueVars, codecVars, fedVars, threadVars>>

Inject(kind, next) ==
    /\ ui = kind /\ thread[Ui] = Idle
    /\ ui' = next
    /\ IF bound /\ kind \in cached
       THEN Becomes(Ui, At("lock", videoDecoder, [kind |-> kind, place |-> 0], FALSE))
       ELSE UNCHANGED thread
    /\ UNCHANGED <<serviceVars, videoDecoder, decoders, queueVars, codecVars, fedVars,
                   feedLock>>

(* stopDecoder takes no lock.  What the codec holds goes with it; buffers  *)
(* it has announced may still reach the callback thread.                   *)
SurfaceDestroyed ==
    /\ ui = "surface" /\ thread[Ui] = Idle
    /\ codec' = [codec EXCEPT ![videoDecoder] = "stopped"]
    /\ queued' = [queued EXCEPT ![videoDecoder] = 0]
    /\ ui' = "forgetCodec"
    /\ UNCHANGED <<serviceVars, videoDecoder, decoders, queueVars, available, fedVars,
                   threadVars>>

ForgetCodec ==
    /\ ui = "forgetCodec"
    /\ codec' = [codec EXCEPT ![videoDecoder] = "null"]
    /\ ui' = "clearNALs"
    /\ UNCHANGED <<serviceVars, videoDecoder, decoders, queueVars, available, queued, fedVars,
                   threadVars>>

ClearNALs ==
    /\ ui = "clearNALs"
    /\ nalQueue' = [nalQueue EXCEPT ![videoDecoder] = <<>>]
    /\ ui' = "clearBuffers"
    /\ UNCHANGED <<serviceVars, videoDecoder, decoders, bufferQueue, codecVars, fedVars,
                   threadVars>>

StillPublished(d) == d
Unpublished(d) == 0

ClearBuffers ==
    /\ ui = "clearBuffers"
    /\ bufferQueue' = [bufferQueue EXCEPT ![videoDecoder] = 0]
    /\ videoDecoder' = Unpublished(videoDecoder)
    /\ ui' = "noSurface"
    /\ UNCHANGED <<serviceVars, decoders, nalQueue, codecVars, fedVars, threadVars>>

-----------------------------------------------------------------------------
ReceiverStep == SubmitNAL \/ PollBuffer(Receiver) \/ Act(Receiver)
UiStep ==
    \/ PublishDecoder \/ Inject("sps", "pps") \/ Inject("pps", "surface")
    \/ ForgetCodec \/ ClearNALs \/ ClearBuffers
    \/ PollBuffer(Ui) \/ Act(Ui)
CallbackStep(d) == InputBufferAvailable(d) \/ PollNAL(d) \/ Act(Callback(d))

Next ==
    \/ ReceiveNAL \/ ReceiverStep
    \/ OnServiceConnected \/ Disconnect
    \/ SurfaceCreated \/ SurfaceDestroyed \/ UiStep
    \/ \E d \in Decoders : CallbackStep(d) \/ Decode(d)

Spec == Init /\ [][Next]_vars

(* Threads that can run do, and the codec decodes what it has; packets and *)
(* the user's surface come and go as they please.                          *)
FairSpec ==
    /\ Spec
    /\ WF_vars(ReceiverStep) /\ WF_vars(UiStep)
    /\ \A d \in Decoders : WF_vars(CallbackStep(d)) /\ WF_vars(Decode(d))

-----------------------------------------------------------------------------
(* Safety.                                                                 *)

(* feedLock prevents "the race where both queues hold items that never     *)
(* meet" (VideoDecoder.kt), whoever submits, stops or starts a decoder.    *)
NeverBothWait ==
    \A d \in Decoders : feedLock[d] = {} => nalQueue[d] = <<>> \/ bufferQueue[d] = 0

(* A codec gets the NAL units of the stream in the order they came in,     *)
(* though both threads and two queues handle them; some may be missing.    *)
FedInOrder == [][\A d \in Decoders : lastFed[d] <= lastFed'[d]]_vars

(* The lag is capped although the depth is measured outside the lock: at   *)
(* most one P frame more than MAX_QUEUE_DEPTH waits.                       *)
LagIsCapped ==
    \A d \in Decoders :
        Cardinality({k \in DOMAIN nalQueue[d] : nalQueue[d][k].kind = "p"}) <= MaxQueueDepth + 1

-----------------------------------------------------------------------------
(* Liveness, under FairSpec.                                               *)

(* What waits for a buffer is fed in the end, as long as the decoder is    *)
(* not stopped and feedBuffer has not lost every input buffer.             *)
QueueDrains ==
    \A d \in Decoders :
        nalQueue[d] # <<>> ~>
            nalQueue[d] = <<>> \/ codec[d] # "running" \/ feedFailures >= InputBuffers

=============================================================================
