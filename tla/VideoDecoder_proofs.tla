------------------------- MODULE VideoDecoder_proofs --------------------------
(***************************************************************************)
(* The safety of the decoder, for any stream, any number of decoders and   *)
(* input buffers and any depth of the queue.                               *)
(***************************************************************************)
EXTENDS VideoDecoder, SequenceTheorems, FiniteSetTheorems, TLAPS

-----------------------------------------------------------------------------
(* The inductive invariant.                                                *)

(* The types of TypeOK, with the sums of buffers and the locks left to     *)
(* the invariants below.                                                   *)
ServiceTypes ==
    /\ received \in 0 .. Len(Stream) /\ cached \subseteq Config
    /\ callback \in BOOLEAN /\ bound \in BOOLEAN
    /\ videoDecoder \in 0 .. decoders /\ decoders \in 0 .. MaxDecoders
    /\ ui \in {"noSurface", "publish", "sps", "pps", "surface", "forgetCodec", "clearNALs",
               "clearBuffers"}
    /\ videoDecoder = 0 <=> ui \in {"noSurface", "publish"}

QueueTypes ==
    /\ codec \in [Decoders -> {"none", "running", "stopped", "null"}]
    /\ nalQueue \in [Decoders -> Seq(NALs)]
    /\ bufferQueue \in [Decoders -> Nat]
    /\ available \in [Decoders -> Nat]
    /\ queued \in [Decoders -> Nat]
    /\ lastFed \in [Decoders -> 0 .. Len(Stream)]
    /\ feedFailures \in 0 .. MaxFeedFailures

ThreadTypes ==
    /\ feedLock \in [Decoders -> SUBSET Threads]
    /\ thread \in [Threads -> [step : {"idle", "callback", "lock", "act"},
                               decoder : 0 .. MaxDecoders,
                               nal : NALs \cup {NoNAL}, buffer : BOOLEAN]]

Types == ServiceTypes /\ QueueTypes /\ ThreadTypes

(* Decoder d is not started yet: nobody has it, and nothing is in it.      *)
FreshInv ==
    /\ ui = "publish" => decoders > 0
    /\ \A d \in Decoders :
          d > decoders => bufferQueue[d] = 0 /\ available[d] = 0 /\ queued[d] = 0

(* The submitting threads: Receiver with a NAL unit of the stream, Ui with *)
(* an injected parameter set.                                              *)
SubmitInv ==
    /\ \A t \in {Receiver, Ui} :
          /\ thread[t].step = "idle" => thread[t] = Idle
          /\ thread[t].step # "idle" => thread[t].nal \in NALs
          /\ thread[t].step # "act" => ~thread[t].buffer
          /\ thread[t].step \in {"lock", "act"} => thread[t].decoder \in 1 .. decoders
    /\ thread[Receiver].step # "idle" => thread[Receiver].nal.place = received
    /\ thread[Ui].step # "callback"
    /\ thread[Ui].step # "idle" =>
          thread[Ui].nal.place = 0 /\ thread[Ui].nal.kind \in Config

(* The callback thread of a decoder always comes with a buffer.            *)
CallbackInv ==
    \A d \in Decoders :
       /\ thread[Callback(d)].step = "idle" => thread[Callback(d)] = Idle
       /\ thread[Callback(d)].step # "callback"
       /\ thread[Callback(d)].step # "idle" =>
             thread[Callback(d)].decoder = d /\ thread[Callback(d)].buffer /\ d <= decoders
       /\ thread[Callback(d)].step = "lock" => thread[Callback(d)].nal = NoNAL

(* feedLock is held from the poll to the end of the critical section.      *)
LockInv ==
    \A d \in Decoders : \A t \in Threads :
       t \in feedLock[d] <=> thread[t].step = "act" /\ thread[t].decoder = d

Exclusion ==
    \A d \in Decoders : \A t, u \in feedLock[d] : t = u

(* What a thread saw when it polled is still so when it acts.              *)
MeetInv ==
    /\ \A d \in Decoders : nalQueue[d] = <<>> \/ bufferQueue[d] = 0
    /\ \A t \in {Receiver, Ui} :
          thread[t].step = "act" =>
             IF thread[t].buffer THEN nalQueue[thread[t].decoder] = <<>>
                                 ELSE bufferQueue[thread[t].decoder] = 0
    /\ \A d \in Decoders :
          thread[Callback(d)].step = "act" =>
             IF thread[Callback(d)].nal = NoNAL THEN nalQueue[d] = <<>> ELSE bufferQueue[d] = 0

(* Buffers are neither made nor doubled: those of decoder d are waiting,   *)
(* announced, in the codec, in the hands of a thread, or lost.             *)
InHand(t, d) == IF thread[t].buffer /\ thread[t].decoder = d THEN 1 ELSE 0
Hands(d) == InHand(Receiver, d) + InHand(Ui, d) + InHand(Callback(d), d)
BufferInv ==
    \A d \in Decoders :
       bufferQueue[d] + available[d] + queued[d] + Hands(d) <= InputBuffers

(* The places of the stream's NAL units ascend on their way into decoder   *)
(* d: fed, in the hand of the callback thread, in nalQueue, and in the     *)
(* hand of the receiver, which has the latest one.                         *)
Ordered(d) ==
    LET queue == nalQueue[d]
        inHand == thread[Callback(d)].nal
    IN  /\ lastFed[d] <= received
        /\ \A k \in DOMAIN queue :
              /\ queue[k].place <= received
              /\ queue[k].place # 0 => lastFed[d] <= queue[k].place
        /\ \A j, k \in DOMAIN queue :
              j < k /\ queue[j].place # 0 /\ queue[k].place # 0 =>
                 queue[j].place <= queue[k].place
        /\ thread[Callback(d)].step = "act" /\ inHand # NoNAL /\ inHand.place # 0 =>
              /\ lastFed[d] <= inHand.place /\ inHand.place <= received
              /\ \A k \in DOMAIN queue : queue[k].place # 0 => inHand.place <= queue[k].place
OrderInv == \A d \in Decoders : Ordered(d)

(* P frames in the queue: one more may be on its way only while there is   *)
(* room for it.                                                            *)
PFrames(queue) == Cardinality({k \in DOMAIN queue : queue[k].kind = "p"})
Submitting(d) ==
    /\ thread[Receiver].step \in {"lock", "act"}
    /\ thread[Receiver].decoder = d /\ thread[Receiver].nal.kind = "p"
LagInv ==
    \A d \in Decoders :
       PFrames(nalQueue[d]) <= IF Submitting(d) THEN MaxQueueDepth ELSE MaxQueueDepth + 1

SafeInv ==
    /\ Types /\ FreshInv /\ SubmitInv /\ CallbackInv
    /\ LockInv /\ Exclusion /\ MeetInv /\ BufferInv

-----------------------------------------------------------------------------
(* The steps.                                                              *)

(* The end of the critical section, by what became of NAL unit and buffer. *)
Released(t) ==
    /\ thread[t].step = "act"
    /\ feedLock' = [feedLock EXCEPT ![thread[t].decoder] = @ \ {t}]
    /\ Becomes(t, Idle)
    /\ UNCHANGED <<serviceVars, uiVars, codec, available>>

Fed(t) ==
    /\ thread[t].nal # NoNAL /\ thread[t].buffer
    /\ Feed(thread[t].decoder, thread[t].nal) /\ Released(t)
FeedLost(t) ==
    /\ thread[t].nal # NoNAL /\ thread[t].buffer
    /\ FeedFails(thread[t].decoder) /\ Released(t)
NALKept(t) ==
    /\ thread[t].nal # NoNAL /\ ~thread[t].buffer
    /\ OfferNAL(thread[t].decoder, thread[t].nal) /\ Released(t)
BufferKept(t) ==
    /\ thread[t].nal = NoNAL
    /\ OfferBuffer(thread[t].decoder) /\ Released(t)

(* The threads are different ones.                                         *)
LEMMA DistinctThreads ==
  /\ Receiver # Ui /\ {Receiver, Ui} \subseteq Threads
  /\ \A d \in Decoders : Callback(d) \in Threads \ {Receiver, Ui}
  /\ \A d, e \in Decoders : Callback(d) = Callback(e) => d = e
  /\ \A t \in Threads : t \in {Receiver, Ui} \/ \E d \in Decoders : t = Callback(d)
BY DEF Receiver, Ui, Callback, Threads

(* Having no NAL unit is not a NAL unit.                                   *)
LEMMA NoNALIsNone == NoNAL \notin NALs
<1> SUFFICES ASSUME NoNAL \in NALs PROVE FALSE
  OBVIOUS
<1>1. NoNAL.kind = "none"
  BY DEF NoNAL
<1>2. NoNAL.kind \in Kinds
  BY DEF NALs
<1> QED
  BY <1>1, <1>2 DEF Kinds

(* Every step is one of the seventeen that change what the proofs are about, *)
(* or changes nothing of it.                                               *)
LEMMA StepCases ==
  ASSUME [Next]_vars
  PROVE  \/ ReceiveNAL \/ SubmitNAL
         \/ \E t \in {Receiver, Ui} : PollBuffer(t)
         \/ \E t \in Threads : Fed(t) \/ FeedLost(t) \/ NALKept(t) \/ BufferKept(t)
         \/ \E d \in Decoders : InputBufferAvailable(d) \/ PollNAL(d) \/ Decode(d)
         \/ SurfaceCreated \/ PublishDecoder
         \/ \E kind \in Config, next \in {"pps", "surface"} : Inject(kind, next)
         \/ SurfaceDestroyed \/ ForgetCodec \/ ClearNALs \/ ClearBuffers
         \/ OnServiceConnected \/ Disconnect \/ UNCHANGED vars
<1>1. ASSUME NEW t \in Threads, Act(t)
      PROVE  Fed(t) \/ FeedLost(t) \/ NALKept(t) \/ BufferKept(t)
  BY <1>1 DEF Act, Fed, FeedLost, NALKept, BufferKept, Released
<1>2. ReceiverStep => SubmitNAL \/ PollBuffer(Receiver) \/ Act(Receiver)
  BY DEF ReceiverStep
<1>3. UiStep => \/ PublishDecoder \/ Inject("sps", "pps") \/ Inject("pps", "surface")
                \/ ForgetCodec \/ ClearNALs \/ ClearBuffers
                \/ PollBuffer(Ui) \/ Act(Ui)
  BY DEF UiStep
<1>4. \A d \in Decoders :
         CallbackStep(d) => InputBufferAvailable(d) \/ PollNAL(d) \/ Act(Callback(d))
  BY DEF CallbackStep
<1>5. {"sps", "pps"} = Config
  BY DEF Config
<1> QED
  BY <1>1, <1>2, <1>3, <1>4, <1>5, DistinctThreads DEF Next

(* What the callback thread leaves in nalQueue when it takes the oldest.   *)
LEMMA RemoveOldest ==
  ASSUME NEW S, NEW queue \in Seq(S), queue # <<>>
  PROVE  /\ RemoveAt(queue, 1) \in Seq(S) /\ queue[1] \in S
         /\ Len(RemoveAt(queue, 1)) = Len(queue) - 1
         /\ \A i \in 1 .. Len(queue) - 1 : RemoveAt(queue, 1)[i] = queue[i + 1]
         /\ \A i \in 1 .. Len(queue) - 1 : i + 1 \in 1 .. Len(queue)
<1>1. RemoveAt(queue, 1) = <<>> \o SubSeq(queue, 2, Len(queue))
  BY SubSeqEmpty DEF RemoveAt
<1>2. SubSeq(queue, 2, Len(queue)) = Tail(queue)
  BY TailIsSubSeq
<1>3. RemoveAt(queue, 1) = Tail(queue)
  BY <1>1, <1>2, HeadTailProperties, ConcatEmptySeq
<1>4. Len(queue) \in Nat \ {0} /\ queue[1] \in S
  BY EmptySeq, ElementOfSeq
<1> QED
  BY <1>3, <1>4, HeadTailProperties

-----------------------------------------------------------------------------
(* Types.                                                                  *)

(* The service, and where the activity is.                                 *)
LEMMA ServiceTypesStep ==
  ASSUME Types, FreshInv, [Next]_vars
  PROVE  ServiceTypes'
<1> USE DEF vars, serviceVars, uiVars, queueVars, codecVars, fedVars, threadVars
<1>1. CASE ReceiveNAL
  BY DecoderAssumption, DistinctThreads, <1>1
     DEF ReceiveNAL, Becomes, At, Types, ServiceTypes, FreshInv, Config
<1>2. CASE SubmitNAL
  BY DecoderAssumption, DistinctThreads, <1>2
     DEF SubmitNAL, Becomes, At, Idle, Accepts, Types, ServiceTypes, FreshInv, Config
<1>3. ASSUME NEW t \in {Receiver, Ui}, PollBuffer(t) PROVE ServiceTypes'
  BY DecoderAssumption, DistinctThreads, <1>3
     DEF PollBuffer, TakeLock, Becomes, At, Types, ServiceTypes, FreshInv, Config
<1>4. ASSUME NEW t \in Threads, Fed(t) PROVE ServiceTypes'
  BY DecoderAssumption, DistinctThreads, <1>4
     DEF Fed, Released, Feed, Becomes, Types, ServiceTypes, FreshInv, Config
<1>5. ASSUME NEW t \in Threads, FeedLost(t) PROVE ServiceTypes'
  BY DecoderAssumption, DistinctThreads, <1>5
     DEF FeedLost, Released, FeedFails, Becomes, Types, ServiceTypes, FreshInv, Config
<1>6. ASSUME NEW t \in Threads, NALKept(t) PROVE ServiceTypes'
  BY DecoderAssumption, DistinctThreads, <1>6
     DEF NALKept, Released, OfferNAL, Becomes, Types, ServiceTypes, FreshInv, Config
<1>7. ASSUME NEW t \in Threads, BufferKept(t) PROVE ServiceTypes'
  BY DecoderAssumption, DistinctThreads, <1>7
     DEF BufferKept, Released, OfferBuffer, KeepBuffer, Becomes, Types, ServiceTypes,
      FreshInv, Config
<1>8. ASSUME NEW d \in Decoders, InputBufferAvailable(d) PROVE ServiceTypes'
  BY DecoderAssumption, DistinctThreads, <1>8
     DEF InputBufferAvailable, Becomes, At, Types, ServiceTypes, FreshInv, Config
<1>9. ASSUME NEW d \in Decoders, PollNAL(d) PROVE ServiceTypes'
  BY DecoderAssumption, DistinctThreads, <1>9
     DEF PollNAL, TakeLock, Oldest, Becomes, At, Types, ServiceTypes, FreshInv, Config
<1>10. ASSUME NEW d \in Decoders, Decode(d) PROVE ServiceTypes'
  BY DecoderAssumption, DistinctThreads, <1>10
     DEF Decode, Types, ServiceTypes, FreshInv, Config
<1>11. CASE SurfaceCreated
  BY DecoderAssumption, DistinctThreads, <1>11
     DEF SurfaceCreated, Types, ServiceTypes, FreshInv, Config
<1>12. CASE PublishDecoder
  BY DecoderAssumption, DistinctThreads, <1>12
     DEF PublishDecoder, Types, ServiceTypes, FreshInv, Config
<1>13. ASSUME NEW kind \in Config, NEW next \in {"pps", "surface"}, Inject(kind, next) PROVE ServiceTypes'
  BY DecoderAssumption, DistinctThreads, <1>13
     DEF Inject, Becomes, At, Types, ServiceTypes, FreshInv, Config
<1>14. CASE SurfaceDestroyed
  BY DecoderAssumption, DistinctThreads, <1>14
     DEF SurfaceDestroyed, Types, ServiceTypes, FreshInv, Config
<1>15. CASE ClearNALs
  BY DecoderAssumption, DistinctThreads, <1>15
     DEF ClearNALs, Types, ServiceTypes, FreshInv, Config
<1>16. CASE ClearBuffers
  BY DecoderAssumption, DistinctThreads, <1>16
     DEF ClearBuffers, Unpublished, Types, ServiceTypes, FreshInv, Config
<1>17. CASE OnServiceConnected \/ Disconnect \/ UNCHANGED vars
  BY <1>17 DEF OnServiceConnected, Disconnect, Types, ServiceTypes, FreshInv, Config
<1>18. CASE ForgetCodec
  BY DecoderAssumption, DistinctThreads, <1>18
     DEF ForgetCodec, Types, ServiceTypes, FreshInv, Config
<1> QED
  BY StepCases, <1>1, <1>2, <1>3, <1>4, <1>5, <1>6, <1>7, <1>8, <1>9, <1>10, <1>11,
     <1>12, <1>13, <1>14, <1>15, <1>16, <1>17, <1>18

(* Who is in the critical section, or on the way in, has a decoder.        *)
LEMMA Holder ==
  ASSUME Types, SubmitInv, CallbackInv, NEW t \in Threads,
         thread[t].step \in {"lock", "act"}
  PROVE  /\ thread[t].decoder \in 1 .. decoders /\ thread[t].decoder \in Decoders
         /\ thread[t].nal \in NALs \cup {NoNAL}
         /\ t \in {Receiver, Ui} => thread[t].nal \in NALs
<1>1. decoders \in 0 .. MaxDecoders /\ MaxDecoders \in Nat
  BY DecoderAssumption DEF Types, ServiceTypes
<1>2. thread[t].decoder \in 1 .. decoders
  <2>1. CASE t \in {Receiver, Ui}
    BY <2>1 DEF SubmitInv
  <2>2. CASE \E d \in Decoders : t = Callback(d)
    BY <1>1, <2>2 DEF CallbackInv, Decoders
  <2> QED
    BY <2>1, <2>2, DistinctThreads
<1>3. thread[t].nal \in NALs \cup {NoNAL} /\ (t \in {Receiver, Ui} => thread[t].nal \in NALs)
  BY DEF Types, ThreadTypes, SubmitInv
<1> QED
  BY <1>1, <1>2, <1>3 DEF Decoders

(* Becomes changes one thread.                                             *)
LEMMA OnlyOneBecomes ==
  ASSUME Types, NEW t \in Threads, NEW state, Becomes(t, state)
  PROVE  thread'[t] = state /\ \A u \in Threads \ {t} : thread'[u] = thread[u]
BY DEF Becomes, Types, ThreadTypes

(* The queues of each decoder.                                             *)
LEMMA QueueTypesStep ==
  ASSUME Types, FreshInv, SubmitInv, CallbackInv, [Next]_vars
  PROVE  QueueTypes'
<1> USE DEF vars, serviceVars, uiVars, queueVars, codecVars, fedVars, threadVars
<1>1. CASE ReceiveNAL
  BY <1>1 DEF ReceiveNAL, Becomes, At, Types, QueueTypes
<1>2. CASE SubmitNAL
  BY <1>2 DEF SubmitNAL, Becomes, At, Idle, Accepts, Types, QueueTypes
<1>3. ASSUME NEW t \in {Receiver, Ui}, PollBuffer(t) PROVE QueueTypes'
  <2> DEFINE d == thread[t].decoder
  <2>1. d \in Decoders
    BY Holder, DistinctThreads, <1>3 DEF PollBuffer
  <2>2. (IF bufferQueue[d] > 0 THEN bufferQueue[d] - 1 ELSE 0) \in Nat
    BY <2>1 DEF Types, QueueTypes
  <2>3. bufferQueue' \in [Decoders -> Nat]
    BY <2>1, <2>2, <1>3 DEF PollBuffer, Types, QueueTypes
  <2> QED
    BY <2>3, <1>3 DEF PollBuffer, Types, QueueTypes
<1>4. ASSUME NEW t \in Threads, Fed(t) PROVE QueueTypes'
  <2> DEFINE d == thread[t].decoder
            nal == thread[t].nal
  <2>1. d \in Decoders /\ nal \in NALs
    <3>1. thread[t].step = "act" /\ nal # NoNAL
      BY <1>4 DEF Fed, Released
    <3>2. d \in Decoders
      BY <3>1, Holder
    <3>3. nal \in NALs \cup {NoNAL}
      BY DEF Types, ThreadTypes
    <3> QED
      BY <3>1, <3>2, <3>3
  <2>2. queued[d] + 1 \in Nat /\ nal.place \in 0 .. Len(Stream)
    BY <2>1 DEF Types, QueueTypes, NALs
  <2>3. queued' \in [Decoders -> Nat]
    BY <2>1, <2>2, <1>4 DEF Fed, Released, Feed, Becomes, Types, QueueTypes
  <2>4. lastFed' \in [Decoders -> 0 .. Len(Stream)]
    BY <2>1, <2>2, <1>4 DEF Fed, Released, Feed, Becomes, Types, QueueTypes
  <2> QED
    BY <2>3, <2>4, <1>4 DEF Fed, Released, Feed, Becomes, Types, QueueTypes
<1>5. ASSUME NEW t \in Threads, FeedLost(t) PROVE QueueTypes'
  <2>1. feedFailures' \in 0 .. MaxFeedFailures
    BY DecoderAssumption, <1>5 DEF FeedLost, FeedFails, Types, QueueTypes
  <2>2. UNCHANGED <<codec, available, nalQueue, bufferQueue, queued, lastFed>>
    BY <1>5 DEF FeedLost, Released, FeedFails, Becomes
  <2> QED
    BY <2>1, <2>2 DEF Types, QueueTypes
<1>6. ASSUME NEW t \in Threads, NALKept(t) PROVE QueueTypes'
  <2> DEFINE d == thread[t].decoder
            nal == thread[t].nal
  <2>1. d \in Decoders /\ nal \in NALs
    BY Holder, <1>6 DEF NALKept, Released
  <2>2. Append(nalQueue[d], nal) \in Seq(NALs)
    BY <2>1, AppendProperties DEF Types, QueueTypes
  <2>3. nalQueue' \in [Decoders -> Seq(NALs)]
    BY <2>1, <2>2, <1>6 DEF NALKept, Released, OfferNAL, Becomes, Types, QueueTypes
  <2> QED
    BY <2>3, <1>6 DEF NALKept, Released, OfferNAL, Becomes, Types, QueueTypes
<1>7. ASSUME NEW t \in Threads, BufferKept(t) PROVE QueueTypes'
  <2> DEFINE d == thread[t].decoder
  <2>1. d \in Decoders
    BY Holder, <1>7 DEF BufferKept, Released
  <2>2. bufferQueue[d] + 1 \in Nat
    BY <2>1 DEF Types, QueueTypes
  <2>3. bufferQueue' \in [Decoders -> Nat]
    BY <2>1, <2>2, <1>7
       DEF BufferKept, Released, OfferBuffer, KeepBuffer, Becomes, Types, QueueTypes
  <2> QED
    BY <2>3, <1>7
       DEF BufferKept, Released, OfferBuffer, KeepBuffer, Becomes, Types, QueueTypes
<1>8. ASSUME NEW d \in Decoders, InputBufferAvailable(d) PROVE QueueTypes'
  <2>1. available[d] - 1 \in Nat
    BY <1>8 DEF InputBufferAvailable, Types, QueueTypes
  <2>2. available' \in [Decoders -> Nat]
    BY <2>1, <1>8 DEF InputBufferAvailable, Becomes, At, Types, QueueTypes
  <2> QED
    BY <2>2, <1>8 DEF InputBufferAvailable, Becomes, At, Types, QueueTypes
<1>9. ASSUME NEW d \in Decoders, PollNAL(d) PROVE QueueTypes'
  <2>1. nalQueue[d] # <<>> => RemoveAt(nalQueue[d], 1) \in Seq(NALs)
    BY RemoveOldest DEF Types, QueueTypes
  <2>2. nalQueue' \in [Decoders -> Seq(NALs)]
    BY <2>1, <1>9 DEF PollNAL, TakeLock, Oldest, Becomes, At, Types, QueueTypes
  <2> QED
    BY <2>2, <1>9 DEF PollNAL, TakeLock, Oldest, Becomes, At, Types, QueueTypes
<1>10. ASSUME NEW d \in Decoders, Decode(d) PROVE QueueTypes'
  <2>1. queued[d] - 1 \in Nat /\ available[d] + 1 \in Nat
    BY <1>10 DEF Decode, Types, QueueTypes
  <2>2. queued' \in [Decoders -> Nat] /\ available' \in [Decoders -> Nat]
    BY <2>1, <1>10 DEF Decode, Types, QueueTypes
  <2> QED
    BY <2>2, <1>10 DEF Decode, Types, QueueTypes
<1>11. CASE SurfaceCreated
  <2>1. decoders' \in Decoders
    BY DecoderAssumption, <1>11 DEF SurfaceCreated, Types, ServiceTypes, Decoders
  <2>2. /\ codec' \in [Decoders -> {"none", "running", "stopped", "null"}]
        /\ available' \in [Decoders -> Nat]
    BY <2>1, DecoderAssumption, <1>11 DEF SurfaceCreated, Types, QueueTypes
  <2> QED
    BY <2>2, <1>11 DEF SurfaceCreated, Types, QueueTypes
<1>12. CASE PublishDecoder
  BY <1>12 DEF PublishDecoder, Types, QueueTypes
<1>13. ASSUME NEW kind \in Config, NEW next \in {"pps", "surface"}, Inject(kind, next) PROVE QueueTypes'
  BY <1>13 DEF Inject, Becomes, At, Types, QueueTypes
<1>14. CASE SurfaceDestroyed
  BY <1>14 DEF SurfaceDestroyed, Types, QueueTypes
<1>15. CASE ClearNALs
  <2>1. nalQueue' \in [Decoders -> Seq(NALs)]
    BY EmptySeq, <1>15 DEF ClearNALs, Types, QueueTypes
  <2> QED
    BY <2>1, <1>15 DEF ClearNALs, Types, QueueTypes
<1>16. CASE ClearBuffers
  BY <1>16 DEF ClearBuffers, Unpublished, Types, QueueTypes
<1>17. CASE OnServiceConnected \/ Disconnect \/ UNCHANGED vars
  BY <1>17 DEF OnServiceConnected, Disconnect, Types, QueueTypes
<1>18. CASE ForgetCodec
  <2>1. nalQueue' \in [Decoders -> Seq(NALs)]
    BY EmptySeq, <1>18 DEF ForgetCodec, Types, QueueTypes
  <2> QED
    BY <2>1, <1>18 DEF ForgetCodec, Types, QueueTypes
<1> QED
  BY StepCases, <1>1, <1>2, <1>3, <1>4, <1>5, <1>6, <1>7, <1>8, <1>9, <1>10, <1>11,
     <1>12, <1>13, <1>14, <1>15, <1>16, <1>17, <1>18

(* Being idle is a state of a thread.                                      *)
LEMMA IdleIsAState ==
  Idle \in [step : {"idle", "callback", "lock", "act"}, decoder : 0 .. MaxDecoders,
            nal : NALs \cup {NoNAL}, buffer : BOOLEAN]
BY DecoderAssumption DEF Idle, At

(* The threads and the lock.                                               *)
LEMMA ThreadTypesStep ==
  ASSUME Types, FreshInv, SubmitInv, CallbackInv, [Next]_vars
  PROVE  ThreadTypes'
<1> USE DEF vars, serviceVars, uiVars, queueVars, codecVars, fedVars, threadVars
<1>1. CASE ReceiveNAL
  <2> DEFINE states == [step : {"idle", "callback", "lock", "act"}, decoder : 0 .. MaxDecoders,
                      nal : NALs \cup {NoNAL}, buffer : BOOLEAN]
  <2>1. At("callback", 0, [kind |-> Stream[received + 1], place |-> received + 1], FALSE) \in states
    BY DecoderAssumption, ElementOfSeq, <1>1
       DEF ReceiveNAL, Types, ServiceTypes, At, NALs
  <2>2. thread' \in [Threads -> states]
    BY <2>1, IdleIsAState, DistinctThreads, <1>1
       DEF ReceiveNAL, Becomes, At, Types, ThreadTypes
  <2> QED
    BY <2>2, <1>1 DEF ReceiveNAL, Becomes, At, Types, ThreadTypes
<1>2. CASE SubmitNAL
  <2> DEFINE states == [step : {"idle", "callback", "lock", "act"}, decoder : 0 .. MaxDecoders,
                      nal : NALs \cup {NoNAL}, buffer : BOOLEAN]
  <2>1. At("lock", videoDecoder, thread[Receiver].nal, FALSE) \in states
    BY DecoderAssumption, DistinctThreads, <1>2
       DEF SubmitNAL, Types, ServiceTypes, ThreadTypes, At
  <2>2. thread' \in [Threads -> states]
    BY <2>1, IdleIsAState, DistinctThreads, <1>2
       DEF SubmitNAL, Becomes, At, Idle, Accepts, Types, ThreadTypes
  <2> QED
    BY <2>2, <1>2 DEF SubmitNAL, Becomes, At, Idle, Accepts, Types, ThreadTypes
<1>3. ASSUME NEW t \in {Receiver, Ui}, PollBuffer(t) PROVE ThreadTypes'
  <2> DEFINE states == [step : {"idle", "callback", "lock", "act"}, decoder : 0 .. MaxDecoders,
                      nal : NALs \cup {NoNAL}, buffer : BOOLEAN]
  <2>1. At("act", thread[t].decoder, thread[t].nal, bufferQueue[thread[t].decoder] > 0) \in states
    BY DecoderAssumption, DistinctThreads, <1>3 DEF Types, ThreadTypes, At
  <2>2. thread' \in [Threads -> states]
    BY <2>1, IdleIsAState, DistinctThreads, <1>3
       DEF PollBuffer, TakeLock, Becomes, At, Types, ThreadTypes
  <2>3. feedLock' \in [Decoders -> SUBSET Threads]
    BY DistinctThreads, Holder, <1>3
       DEF PollBuffer, TakeLock, Becomes, At, Types, ThreadTypes
  <2> QED
    BY <2>2, <2>3, <1>3 DEF PollBuffer, TakeLock, Becomes, At, Types, ThreadTypes
<1>4. ASSUME NEW t \in Threads, Fed(t) PROVE ThreadTypes'
  <2>1. thread[t].decoder \in Decoders
    BY Holder, <1>4 DEF Fed, Released
  <2> QED
    BY <2>1, IdleIsAState, <1>4 DEF Fed, Released, Becomes, Types, ThreadTypes
<1>5. ASSUME NEW t \in Threads, FeedLost(t) PROVE ThreadTypes'
  <2>1. thread[t].decoder \in Decoders
    BY Holder, <1>5 DEF FeedLost, Released
  <2> QED
    BY <2>1, IdleIsAState, <1>5 DEF FeedLost, Released, Becomes, Types, ThreadTypes
<1>6. ASSUME NEW t \in Threads, NALKept(t) PROVE ThreadTypes'
  <2>1. thread[t].decoder \in Decoders
    BY Holder, <1>6 DEF NALKept, Released
  <2> QED
    BY <2>1, IdleIsAState, <1>6 DEF NALKept, Released, Becomes, Types, ThreadTypes
<1>7. ASSUME NEW t \in Threads, BufferKept(t) PROVE ThreadTypes'
  <2>1. thread[t].decoder \in Decoders
    BY Holder, <1>7 DEF BufferKept, Released
  <2> QED
    BY <2>1, IdleIsAState, <1>7 DEF BufferKept, Released, Becomes, Types, ThreadTypes
<1>8. ASSUME NEW d \in Decoders, InputBufferAvailable(d) PROVE ThreadTypes'
  <2> DEFINE states == [step : {"idle", "callback", "lock", "act"}, decoder : 0 .. MaxDecoders,
                      nal : NALs \cup {NoNAL}, buffer : BOOLEAN]
  <2>1. At("lock", d, NoNAL, TRUE) \in states
    BY DecoderAssumption DEF At, Decoders
  <2>2. thread' \in [Threads -> states]
    BY <2>1, IdleIsAState, DistinctThreads, <1>8
       DEF InputBufferAvailable, Becomes, At, Types, ThreadTypes
  <2> QED
    BY <2>2, <1>8 DEF InputBufferAvailable, Becomes, At, Types, ThreadTypes
<1>9. ASSUME NEW d \in Decoders, PollNAL(d) PROVE ThreadTypes'
  <2> DEFINE states == [step : {"idle", "callback", "lock", "act"}, decoder : 0 .. MaxDecoders,
                      nal : NALs \cup {NoNAL}, buffer : BOOLEAN]
  <2>1. \A nal \in NALs \cup {NoNAL} : At("act", d, nal, TRUE) \in states
    BY DecoderAssumption DEF At, Decoders
  <2>2. nalQueue[d] # <<>> => nalQueue[d][1] \in NALs
    BY RemoveOldest DEF Types, QueueTypes
  <2>3. PICK nal \in NALs \cup {NoNAL} : Becomes(Callback(d), At("act", d, nal, TRUE))
    BY <2>2, <1>9 DEF PollNAL, Oldest
  <2>4. thread' \in [Threads -> states]
    BY <2>1, <2>3, DistinctThreads DEF Becomes, Types, ThreadTypes
  <2>5. feedLock' \in [Decoders -> SUBSET Threads]
    BY DistinctThreads, <1>9
       DEF PollNAL, TakeLock, Oldest, Becomes, At, Types, ThreadTypes
  <2> QED
    BY <2>4, <2>5 DEF ThreadTypes
<1>10. ASSUME NEW d \in Decoders, Decode(d) PROVE ThreadTypes'
  BY <1>10 DEF Decode, Types, ThreadTypes
<1>11. CASE SurfaceCreated
  BY <1>11 DEF SurfaceCreated, Types, ThreadTypes
<1>12. CASE PublishDecoder
  BY <1>12 DEF PublishDecoder, Types, ThreadTypes
<1>13. ASSUME NEW kind \in Config, NEW next \in {"pps", "surface"}, Inject(kind, next) PROVE ThreadTypes'
  <2> DEFINE states == [step : {"idle", "callback", "lock", "act"}, decoder : 0 .. MaxDecoders,
                      nal : NALs \cup {NoNAL}, buffer : BOOLEAN]
  <2>1. At("lock", videoDecoder, [kind |-> kind, place |-> 0], FALSE) \in states
    BY DecoderAssumption, LenProperties DEF Types, ServiceTypes, At, NALs, Config, Kinds
  <2>2. thread' \in [Threads -> states]
    BY <2>1, IdleIsAState, DistinctThreads, <1>13
       DEF Inject, Becomes, At, Types, ThreadTypes
  <2> QED
    BY <2>2, <1>13 DEF Inject, Becomes, At, Types, ThreadTypes
<1>14. CASE SurfaceDestroyed
  BY <1>14 DEF SurfaceDestroyed, Types, ThreadTypes
<1>15. CASE ClearNALs
  BY <1>15 DEF ClearNALs, Types, ThreadTypes
<1>16. CASE ClearBuffers
  BY <1>16 DEF ClearBuffers, Unpublished, Types, ThreadTypes
<1>17. CASE OnServiceConnected \/ Disconnect \/ UNCHANGED vars
  BY <1>17 DEF OnServiceConnected, Disconnect, Types, ThreadTypes
<1>18. CASE ForgetCodec
  BY <1>18 DEF ForgetCodec, Types, ThreadTypes
<1> QED
  BY StepCases, <1>1, <1>2, <1>3, <1>4, <1>5, <1>6, <1>7, <1>8, <1>9, <1>10, <1>11,
     <1>12, <1>13, <1>14, <1>15, <1>16, <1>17, <1>18

(* All types.                                                              *)
LEMMA TypesStep ==
  ASSUME Types, FreshInv, SubmitInv, CallbackInv, [Next]_vars
  PROVE  Types'
BY ServiceTypesStep, QueueTypesStep, ThreadTypesStep DEF Types

-----------------------------------------------------------------------------
(* What the threads hold.                                                  *)

(* A decoder that is not started is empty.                                 *)
LEMMA FreshInvStep ==
  ASSUME Types, FreshInv, SubmitInv, CallbackInv, [Next]_vars
  PROVE  FreshInv'
<1> USE DEF vars, serviceVars, uiVars, queueVars, codecVars, fedVars, threadVars
<1>1. CASE ReceiveNAL
  BY DecoderAssumption, <1>1
     DEF ReceiveNAL, Becomes, At, Types, ServiceTypes, QueueTypes, FreshInv, Decoders
<1>2. CASE SubmitNAL
  BY DecoderAssumption, <1>2
     DEF SubmitNAL, Becomes, At, Idle, Accepts, Types, ServiceTypes, QueueTypes,
      FreshInv, Decoders
<1>3. ASSUME NEW t \in {Receiver, Ui}, PollBuffer(t) PROVE FreshInv'
  <2>1. thread[t].decoder \in 1 .. decoders
    BY Holder, DistinctThreads, <1>3 DEF PollBuffer
  <2> QED
    BY <2>1, DecoderAssumption, <1>3
       DEF PollBuffer, TakeLock, Becomes, At, Types, ServiceTypes, QueueTypes,
        FreshInv, Decoders
<1>4. ASSUME NEW t \in Threads, Fed(t) PROVE FreshInv'
  <2>1. thread[t].decoder \in 1 .. decoders
    BY Holder, DistinctThreads, <1>4 DEF Fed, Released
  <2> QED
    BY <2>1, DecoderAssumption, <1>4
       DEF Fed, Released, Feed, Becomes, Types, ServiceTypes, QueueTypes, FreshInv,
        Decoders
<1>5. ASSUME NEW t \in Threads, FeedLost(t) PROVE FreshInv'
  BY <1>5 DEF FeedLost, Released, FeedFails, Becomes, FreshInv
<1>6. ASSUME NEW t \in Threads, NALKept(t) PROVE FreshInv'
  BY <1>6 DEF NALKept, Released, OfferNAL, Becomes, FreshInv
<1>7. ASSUME NEW t \in Threads, BufferKept(t) PROVE FreshInv'
  <2>1. thread[t].decoder \in 1 .. decoders
    BY Holder, DistinctThreads, <1>7 DEF BufferKept, Released
  <2>2. \A e \in Decoders : e # thread[t].decoder => bufferQueue'[e] = bufferQueue[e]
    BY <1>7 DEF BufferKept, OfferBuffer, KeepBuffer, Types, QueueTypes
  <2>3. \A e \in Decoders : e > decoders => e # thread[t].decoder
    BY <2>1, DecoderAssumption DEF Types, ServiceTypes, Decoders
  <2> QED
    BY <2>2, <2>3, <1>7
       DEF BufferKept, Released, OfferBuffer, KeepBuffer, Becomes, FreshInv
<1>8. ASSUME NEW d \in Decoders, InputBufferAvailable(d) PROVE FreshInv'
  <2>1. available[d] > 0 /\ available' = [available EXCEPT ![d] = @ - 1]
    BY <1>8 DEF InputBufferAvailable
  <2>2. UNCHANGED <<ui, decoders, bufferQueue, queued>>
    BY <1>8 DEF InputBufferAvailable
  <2>3. \A e \in Decoders : e > decoders => e # d
    BY <2>1 DEF FreshInv
  <2>4. \A e \in Decoders : e > decoders => available'[e] = available[e]
    BY <2>1, <2>3 DEF Types, QueueTypes
  <2> QED
    BY <2>2, <2>4 DEF FreshInv
<1>9. ASSUME NEW d \in Decoders, PollNAL(d) PROVE FreshInv'
  BY DecoderAssumption, <1>9
     DEF PollNAL, TakeLock, Oldest, Becomes, At, Types, ServiceTypes, QueueTypes,
      FreshInv, Decoders
<1>10. ASSUME NEW d \in Decoders, Decode(d) PROVE FreshInv'
  BY DecoderAssumption, <1>10
     DEF Decode, Types, ServiceTypes, QueueTypes, FreshInv, Decoders
<1>11. CASE SurfaceCreated
  BY DecoderAssumption, <1>11
     DEF SurfaceCreated, Types, ServiceTypes, QueueTypes, FreshInv, Decoders
<1>12. CASE PublishDecoder
  BY DecoderAssumption, <1>12
     DEF PublishDecoder, Types, ServiceTypes, QueueTypes, FreshInv, Decoders
<1>13. ASSUME NEW kind \in Config, NEW next \in {"pps", "surface"}, Inject(kind, next) PROVE FreshInv'
  BY DecoderAssumption, <1>13
     DEF Inject, Becomes, At, Types, ServiceTypes, QueueTypes, FreshInv, Decoders
<1>14. CASE SurfaceDestroyed
  BY DecoderAssumption, <1>14
     DEF SurfaceDestroyed, Types, ServiceTypes, QueueTypes, FreshInv, Decoders
<1>15. CASE ClearNALs
  BY DecoderAssumption, <1>15
     DEF ClearNALs, Types, ServiceTypes, QueueTypes, FreshInv, Decoders
<1>16. CASE ClearBuffers
  BY DecoderAssumption, <1>16
     DEF ClearBuffers, Unpublished, Types, ServiceTypes, QueueTypes, FreshInv, Decoders
<1>17. CASE OnServiceConnected \/ Disconnect \/ UNCHANGED vars
  BY <1>17
     DEF OnServiceConnected, Disconnect, Types, ServiceTypes, QueueTypes, FreshInv,
      Decoders
<1>18. CASE ForgetCodec
  BY DecoderAssumption, <1>18
     DEF ForgetCodec, Types, ServiceTypes, QueueTypes, FreshInv, Decoders
<1> QED
  BY StepCases, <1>1, <1>2, <1>3, <1>4, <1>5, <1>6, <1>7, <1>8, <1>9, <1>10, <1>11,
     <1>12, <1>13, <1>14, <1>15, <1>16, <1>17, <1>18

(* The submitting threads.                                                 *)
LEMMA SubmitInvStep ==
  ASSUME Types, FreshInv, SubmitInv, CallbackInv, [Next]_vars
  PROVE  SubmitInv'
<1> USE DEF vars, serviceVars, uiVars, queueVars, codecVars, fedVars, threadVars
<1>1. CASE ReceiveNAL
  <2>1. thread'[Ui] = thread[Ui]
    BY DistinctThreads, <1>1 DEF ReceiveNAL, Becomes, At, Types, ThreadTypes
  <2>2. \/ thread'[Receiver] = Idle
        \/ thread'[Receiver] = At("callback", 0, [kind |-> Stream[received + 1], place |-> received + 1],
                                  FALSE)
    BY DistinctThreads, <1>1 DEF ReceiveNAL, Becomes, At, Types, ThreadTypes
  <2>3. [kind |-> Stream[received + 1], place |-> received + 1] \in NALs
    BY DecoderAssumption, ElementOfSeq, <1>1 DEF ReceiveNAL, Types, ServiceTypes, NALs
  <2>4. received' = received + 1 /\ decoders' = decoders
    BY <1>1 DEF ReceiveNAL
  <2> QED
    BY <2>1, <2>2, <2>3, <2>4, DistinctThreads DEF SubmitInv, Idle, At
<1>2. CASE SubmitNAL
  <2>1. thread'[Ui] = thread[Ui]
    BY OnlyOneBecomes, DistinctThreads, <1>2
       DEF SubmitNAL, Becomes, At, Idle, Accepts, Types, ThreadTypes
  <2>2. \/ thread'[Receiver] = Idle
        \/ /\ thread'[Receiver] = At("lock", videoDecoder, thread[Receiver].nal, FALSE)
           /\ videoDecoder # 0
    BY OnlyOneBecomes, DistinctThreads, <1>2
       DEF SubmitNAL, Becomes, At, Idle, Accepts, Types, ThreadTypes
  <2>3. videoDecoder # 0 => videoDecoder \in 1 .. decoders
    BY DEF Types, ServiceTypes
  <2> QED
    BY <2>1, <2>2, <2>3, DistinctThreads, <1>2
       DEF SubmitNAL, Becomes, At, Idle, Accepts, Types, ServiceTypes, ThreadTypes,
        SubmitInv, Idle, At, Config
<1>3. ASSUME NEW t \in {Receiver, Ui}, PollBuffer(t) PROVE SubmitInv'
  BY DistinctThreads, <1>3
     DEF PollBuffer, TakeLock, Becomes, At, Types, ServiceTypes, ThreadTypes,
      SubmitInv, Idle, Config
<1>4. ASSUME NEW t \in Threads, Fed(t) PROVE SubmitInv'
  BY DistinctThreads, <1>4
     DEF Fed, Released, Feed, Becomes, Types, ServiceTypes, ThreadTypes, SubmitInv,
      Idle, At, Config
<1>5. ASSUME NEW t \in Threads, FeedLost(t) PROVE SubmitInv'
  BY DistinctThreads, <1>5
     DEF FeedLost, Released, FeedFails, Becomes, Types, ServiceTypes, ThreadTypes,
      SubmitInv, Idle, At, Config
<1>6. ASSUME NEW t \in Threads, NALKept(t) PROVE SubmitInv'
  BY DistinctThreads, <1>6
     DEF NALKept, Released, OfferNAL, Becomes, Types, ServiceTypes, ThreadTypes,
      SubmitInv, Idle, At, Config
<1>7. ASSUME NEW t \in Threads, BufferKept(t) PROVE SubmitInv'
  BY DistinctThreads, <1>7
     DEF BufferKept, Released, OfferBuffer, KeepBuffer, Becomes, Types, ServiceTypes,
      ThreadTypes, SubmitInv, Idle, At, Config
<1>8. ASSUME NEW d \in Decoders, InputBufferAvailable(d) PROVE SubmitInv'
  BY DistinctThreads, <1>8
     DEF InputBufferAvailable, Becomes, At, Types, ServiceTypes, ThreadTypes,
      SubmitInv, Idle, Config
<1>9. ASSUME NEW d \in Decoders, PollNAL(d) PROVE SubmitInv'
  <2>1. \A t \in {Receiver, Ui} : thread'[t] = thread[t]
    BY DistinctThreads, <1>9
       DEF PollNAL, TakeLock, Oldest, Becomes, At, Types, ThreadTypes
  <2> QED
    BY <2>1, DistinctThreads, <1>9 DEF PollNAL, SubmitInv
<1>10. ASSUME NEW d \in Decoders, Decode(d) PROVE SubmitInv'
  BY DistinctThreads, <1>10
     DEF Decode, Types, ServiceTypes, ThreadTypes, SubmitInv, Idle, At, Config
<1>11. CASE SurfaceCreated
  BY DistinctThreads, <1>11
     DEF SurfaceCreated, Types, ServiceTypes, ThreadTypes, SubmitInv, Idle, At, Config
<1>12. CASE PublishDecoder
  BY DistinctThreads, <1>12
     DEF PublishDecoder, Types, ServiceTypes, ThreadTypes, SubmitInv, Idle, At, Config
<1>13. ASSUME NEW kind \in Config, NEW next \in {"pps", "surface"}, Inject(kind, next) PROVE SubmitInv'
  <2>1. thread'[Receiver] = thread[Receiver]
    BY DistinctThreads, <1>13 DEF Inject, Becomes, At, Types, ThreadTypes
  <2>2. \/ thread'[Ui] = Idle
        \/ thread'[Ui] = At("lock", videoDecoder, [kind |-> kind, place |-> 0], FALSE)
    BY DistinctThreads, <1>13 DEF Inject, Becomes, At, Types, ThreadTypes
  <2>3. [kind |-> kind, place |-> 0] \in NALs
    BY DecoderAssumption, LenProperties DEF NALs, Config, Kinds
  <2>4. videoDecoder \in 1 .. decoders
    BY <1>13 DEF Inject, Types, ServiceTypes, Config
  <2> QED
    BY <2>1, <2>2, <2>3, <2>4, DistinctThreads, <1>13
       DEF Inject, SubmitInv, Idle, At, Types, ServiceTypes
<1>14. CASE SurfaceDestroyed
  BY DistinctThreads, <1>14
     DEF SurfaceDestroyed, Types, ServiceTypes, ThreadTypes, SubmitInv, Idle, At, Config
<1>15. CASE ClearNALs
  BY DistinctThreads, <1>15
     DEF ClearNALs, Types, ServiceTypes, ThreadTypes, SubmitInv, Idle, At, Config
<1>16. CASE ClearBuffers
  BY DistinctThreads, <1>16
     DEF ClearBuffers, Unpublished, Types, ServiceTypes, ThreadTypes, SubmitInv, Idle,
      At, Config
<1>17. CASE OnServiceConnected \/ Disconnect \/ UNCHANGED vars
  BY <1>17
     DEF OnServiceConnected, Disconnect, Types, ServiceTypes, ThreadTypes, SubmitInv,
      Idle, At, Config
<1>18. CASE ForgetCodec
  BY DistinctThreads, <1>18
     DEF ForgetCodec, Types, ServiceTypes, ThreadTypes, SubmitInv, Idle, At, Config
<1> QED
  BY StepCases, <1>1, <1>2, <1>3, <1>4, <1>5, <1>6, <1>7, <1>8, <1>9, <1>10, <1>11,
     <1>12, <1>13, <1>14, <1>15, <1>16, <1>17, <1>18

(* The callback threads.                                                   *)
LEMMA CallbackInvStep ==
  ASSUME Types, FreshInv, SubmitInv, CallbackInv, [Next]_vars
  PROVE  CallbackInv'
<1> USE DEF vars, serviceVars, uiVars, queueVars, codecVars, fedVars, threadVars
<1>1. CASE ReceiveNAL
  <2>1. \A d \in Decoders : thread'[Callback(d)] = thread[Callback(d)]
    BY DistinctThreads, <1>1 DEF ReceiveNAL, Becomes, At, Types, ThreadTypes
  <2>2. decoders \in Nat /\ decoders' \in Nat /\ decoders <= decoders'
    BY DecoderAssumption, <1>1 DEF ReceiveNAL, Becomes, At, Types, ServiceTypes
  <2>3. \A d \in Decoders : d <= decoders => d <= decoders'
    BY <2>2, DecoderAssumption DEF Decoders
  <2> QED
    BY <2>1, <2>3 DEF CallbackInv
<1>2. CASE SubmitNAL
  BY DistinctThreads, <1>2
     DEF SubmitNAL, Becomes, At, Idle, Accepts, Types, ServiceTypes, ThreadTypes,
      CallbackInv, Decoders
<1>3. ASSUME NEW t \in {Receiver, Ui}, PollBuffer(t) PROVE CallbackInv'
  <2>1. \A d \in Decoders : thread'[Callback(d)] = thread[Callback(d)]
    BY OnlyOneBecomes, DistinctThreads, <1>3
       DEF PollBuffer, TakeLock, Becomes, At, Types, ThreadTypes
  <2>2. decoders \in Nat /\ decoders' \in Nat /\ decoders <= decoders'
    BY DecoderAssumption, <1>3
       DEF PollBuffer, TakeLock, Becomes, At, Types, ServiceTypes
  <2>3. \A d \in Decoders : d <= decoders => d <= decoders'
    BY <2>2, DecoderAssumption DEF Decoders
  <2> QED
    BY <2>1, <2>3 DEF CallbackInv
<1>4. ASSUME NEW t \in Threads, Fed(t) PROVE CallbackInv'
  BY DistinctThreads, <1>4
     DEF Fed, Released, Feed, Becomes, Types, ServiceTypes, ThreadTypes, CallbackInv,
      Idle, At, Decoders
<1>5. ASSUME NEW t \in Threads, FeedLost(t) PROVE CallbackInv'
  BY DistinctThreads, <1>5
     DEF FeedLost, Released, FeedFails, Becomes, Types, ServiceTypes, ThreadTypes,
      CallbackInv, Idle, At, Decoders
<1>6. ASSUME NEW t \in Threads, NALKept(t) PROVE CallbackInv'
  BY DistinctThreads, <1>6
     DEF NALKept, Released, OfferNAL, Becomes, Types, ServiceTypes, ThreadTypes,
      CallbackInv, Idle, At, Decoders
<1>7. ASSUME NEW t \in Threads, BufferKept(t) PROVE CallbackInv'
  BY DistinctThreads, <1>7 DEF BufferKept, Released, OfferBuffer, KeepBuffer, Becomes,
     Types, ServiceTypes, ThreadTypes, CallbackInv, Idle, At, Decoders
<1>8. ASSUME NEW d \in Decoders, InputBufferAvailable(d) PROVE CallbackInv'
  <2>1. \A e \in Decoders \ {d} : thread'[Callback(e)] = thread[Callback(e)]
    BY DistinctThreads, <1>8 DEF InputBufferAvailable, Becomes, At, Types, ThreadTypes
  <2>2. thread'[Callback(d)] = At("lock", d, NoNAL, TRUE)
    BY DistinctThreads, <1>8 DEF InputBufferAvailable, Becomes, At, Types, ThreadTypes
  <2>3. d <= decoders
    BY <1>8
       DEF InputBufferAvailable, Becomes, At, FreshInv, Types, QueueTypes,
        ServiceTypes, Decoders
  <2> QED
    BY <2>1, <2>2, <2>3, <1>8
       DEF InputBufferAvailable, Becomes, At, CallbackInv, Idle, At
<1>9. ASSUME NEW d \in Decoders, PollNAL(d) PROVE CallbackInv'
  <2>1. \A e \in Decoders \ {d} : thread'[Callback(e)] = thread[Callback(e)]
    BY DistinctThreads, <1>9
       DEF PollNAL, TakeLock, Oldest, Becomes, At, Types, ThreadTypes
  <2>2. PICK nal \in NALs \cup {NoNAL} : Becomes(Callback(d), At("act", d, nal, TRUE))
    <3>1. nalQueue[d] # <<>> => nalQueue[d][1] \in NALs
      BY RemoveOldest DEF Types, QueueTypes
    <3> QED
      BY <3>1, <1>9 DEF PollNAL, Oldest
  <2>3. thread'[Callback(d)] = At("act", d, nal, TRUE)
    BY <2>2, OnlyOneBecomes, DistinctThreads
  <2>4. d <= decoders /\ decoders' = decoders
    BY <1>9 DEF PollNAL, CallbackInv
  <2> QED
    BY <2>1, <2>3, <2>4 DEF CallbackInv, At
<1>10. ASSUME NEW d \in Decoders, Decode(d) PROVE CallbackInv'
  BY DistinctThreads, <1>10
     DEF Decode, Types, ServiceTypes, ThreadTypes, CallbackInv, Idle, At, Decoders
<1>11. CASE SurfaceCreated
  <2>1. \A d \in Decoders : thread'[Callback(d)] = thread[Callback(d)]
    BY DistinctThreads, <1>11 DEF SurfaceCreated, Types, ThreadTypes
  <2>2. decoders \in Nat /\ decoders' \in Nat /\ decoders <= decoders'
    BY DecoderAssumption, <1>11 DEF SurfaceCreated, Types, ServiceTypes
  <2>3. \A d \in Decoders : d <= decoders => d <= decoders'
    BY <2>2, DecoderAssumption DEF Decoders
  <2> QED
    BY <2>1, <2>3 DEF CallbackInv
<1>12. CASE PublishDecoder
  BY DistinctThreads, <1>12
     DEF PublishDecoder, Types, ServiceTypes, ThreadTypes, CallbackInv, Idle, At,
      Decoders
<1>13. ASSUME NEW kind \in Config, NEW next \in {"pps", "surface"}, Inject(kind, next) PROVE CallbackInv'
  <2>1. \A d \in Decoders : thread'[Callback(d)] = thread[Callback(d)]
    BY DistinctThreads, <1>13 DEF Inject, Becomes, At, Types, ThreadTypes
  <2>2. decoders \in Nat /\ decoders' \in Nat /\ decoders <= decoders'
    BY DecoderAssumption, <1>13 DEF Inject, Becomes, At, Types, ServiceTypes
  <2>3. \A d \in Decoders : d <= decoders => d <= decoders'
    BY <2>2, DecoderAssumption DEF Decoders
  <2> QED
    BY <2>1, <2>3 DEF CallbackInv
<1>14. CASE SurfaceDestroyed
  BY DistinctThreads, <1>14
     DEF SurfaceDestroyed, Types, ServiceTypes, ThreadTypes, CallbackInv, Idle, At,
      Decoders
<1>15. CASE ClearNALs
  BY DistinctThreads, <1>15
     DEF ClearNALs, Types, ServiceTypes, ThreadTypes, CallbackInv, Idle, At, Decoders
<1>16. CASE ClearBuffers
  BY DistinctThreads, <1>16
     DEF ClearBuffers, Unpublished, Types, ServiceTypes, ThreadTypes, CallbackInv,
      Idle, At, Decoders
<1>17. CASE OnServiceConnected \/ Disconnect \/ UNCHANGED vars
  BY <1>17 DEF OnServiceConnected, Disconnect, CallbackInv
<1>18. CASE ForgetCodec
  BY DistinctThreads, <1>18
     DEF ForgetCodec, Types, ServiceTypes, ThreadTypes, CallbackInv, Idle, At, Decoders
<1> QED
  BY StepCases, <1>1, <1>2, <1>3, <1>4, <1>5, <1>6, <1>7, <1>8, <1>9, <1>10, <1>11,
     <1>12, <1>13, <1>14, <1>15, <1>16, <1>17, <1>18

-----------------------------------------------------------------------------
(* The lock.                                                               *)

(* Who holds feedLock.                                                     *)
LEMMA LockInvStep ==
  ASSUME Types, FreshInv, SubmitInv, CallbackInv, LockInv, [Next]_vars
  PROVE  LockInv'
<1> USE DEF vars, serviceVars, uiVars, queueVars, codecVars, fedVars, threadVars
<1>1. CASE ReceiveNAL
  BY DistinctThreads, <1>1
     DEF ReceiveNAL, Becomes, At, Types, ThreadTypes, LockInv, Idle
<1>2. CASE SubmitNAL
  BY DistinctThreads, <1>2
     DEF SubmitNAL, Becomes, At, Idle, Accepts, Types, ThreadTypes, LockInv
<1>3. ASSUME NEW t \in {Receiver, Ui}, PollBuffer(t) PROVE LockInv'
  BY DistinctThreads, <1>3
     DEF PollBuffer, TakeLock, Becomes, At, Types, ThreadTypes, LockInv, Idle
<1>4. ASSUME NEW t \in Threads, Fed(t) PROVE LockInv'
  BY DistinctThreads, <1>4
     DEF Fed, Released, Feed, Becomes, Types, ThreadTypes, LockInv, Idle, At
<1>5. ASSUME NEW t \in Threads, FeedLost(t) PROVE LockInv'
  BY DistinctThreads, <1>5
     DEF FeedLost, Released, FeedFails, Becomes, Types, ThreadTypes, LockInv, Idle, At
<1>6. ASSUME NEW t \in Threads, NALKept(t) PROVE LockInv'
  BY DistinctThreads, <1>6
     DEF NALKept, Released, OfferNAL, Becomes, Types, ThreadTypes, LockInv, Idle, At
<1>7. ASSUME NEW t \in Threads, BufferKept(t) PROVE LockInv'
  BY DistinctThreads, <1>7
     DEF BufferKept, Released, OfferBuffer, KeepBuffer, Becomes, Types, ThreadTypes,
      LockInv, Idle, At
<1>8. ASSUME NEW d \in Decoders, InputBufferAvailable(d) PROVE LockInv'
  BY DistinctThreads, <1>8
     DEF InputBufferAvailable, Becomes, At, Types, ThreadTypes, LockInv, Idle
<1>9. ASSUME NEW d \in Decoders, PollNAL(d) PROVE LockInv'
  BY DistinctThreads, <1>9
     DEF PollNAL, TakeLock, Oldest, Becomes, At, Types, ThreadTypes, LockInv, Idle
<1>10. ASSUME NEW d \in Decoders, Decode(d) PROVE LockInv'
  BY DistinctThreads, <1>10 DEF Decode, Types, ThreadTypes, LockInv, Idle, At
<1>11. CASE SurfaceCreated
  BY DistinctThreads, <1>11 DEF SurfaceCreated, Types, ThreadTypes, LockInv, Idle, At
<1>12. CASE PublishDecoder
  BY DistinctThreads, <1>12 DEF PublishDecoder, Types, ThreadTypes, LockInv, Idle, At
<1>13. ASSUME NEW kind \in Config, NEW next \in {"pps", "surface"}, Inject(kind, next) PROVE LockInv'
  BY DistinctThreads, <1>13 DEF Inject, Becomes, At, Types, ThreadTypes, LockInv, Idle
<1>14. CASE SurfaceDestroyed
  BY DistinctThreads, <1>14 DEF SurfaceDestroyed, Types, ThreadTypes, LockInv, Idle, At
<1>15. CASE ClearNALs
  BY DistinctThreads, <1>15 DEF ClearNALs, Types, ThreadTypes, LockInv, Idle, At
<1>16. CASE ClearBuffers
  BY DistinctThreads, <1>16
     DEF ClearBuffers, Unpublished, Types, ThreadTypes, LockInv, Idle, At
<1>17. CASE OnServiceConnected \/ Disconnect \/ UNCHANGED vars
  BY <1>17 DEF OnServiceConnected, Disconnect, Types, ThreadTypes, LockInv, Idle, At
<1>18. CASE ForgetCodec
  BY DistinctThreads, <1>18 DEF ForgetCodec, Types, ThreadTypes, LockInv, Idle, At
<1> QED
  BY StepCases, <1>1, <1>2, <1>3, <1>4, <1>5, <1>6, <1>7, <1>8, <1>9, <1>10, <1>11,
     <1>12, <1>13, <1>14, <1>15, <1>16, <1>17, <1>18

(* No two threads hold feedLock.                                           *)
LEMMA ExclusionStep ==
  ASSUME Types, FreshInv, SubmitInv, CallbackInv, LockInv, Exclusion, [Next]_vars
  PROVE  Exclusion'
<1> USE DEF vars, serviceVars, uiVars, queueVars, codecVars, fedVars, threadVars
<1>1. CASE ReceiveNAL
  BY DistinctThreads, Holder, <1>1
     DEF ReceiveNAL, Becomes, At, Types, ThreadTypes, Exclusion
<1>2. CASE SubmitNAL
  BY DistinctThreads, Holder, <1>2
     DEF SubmitNAL, Becomes, At, Idle, Accepts, Types, ThreadTypes, Exclusion
<1>3. ASSUME NEW t \in {Receiver, Ui}, PollBuffer(t) PROVE Exclusion'
  BY DistinctThreads, Holder, <1>3
     DEF PollBuffer, TakeLock, Becomes, At, Types, ThreadTypes, Exclusion
<1>4. ASSUME NEW t \in Threads, Fed(t) PROVE Exclusion'
  BY DistinctThreads, Holder, <1>4
     DEF Fed, Released, Feed, Becomes, Types, ThreadTypes, Exclusion
<1>5. ASSUME NEW t \in Threads, FeedLost(t) PROVE Exclusion'
  BY DistinctThreads, Holder, <1>5
     DEF FeedLost, Released, FeedFails, Becomes, Types, ThreadTypes, Exclusion
<1>6. ASSUME NEW t \in Threads, NALKept(t) PROVE Exclusion'
  BY DistinctThreads, Holder, <1>6
     DEF NALKept, Released, OfferNAL, Becomes, Types, ThreadTypes, Exclusion
<1>7. ASSUME NEW t \in Threads, BufferKept(t) PROVE Exclusion'
  BY DistinctThreads, Holder, <1>7
     DEF BufferKept, Released, OfferBuffer, KeepBuffer, Becomes, Types, ThreadTypes,
      Exclusion
<1>8. ASSUME NEW d \in Decoders, InputBufferAvailable(d) PROVE Exclusion'
  BY DistinctThreads, Holder, <1>8
     DEF InputBufferAvailable, Becomes, At, Types, ThreadTypes, Exclusion
<1>9. ASSUME NEW d \in Decoders, PollNAL(d) PROVE Exclusion'
  BY DistinctThreads, Holder, <1>9
     DEF PollNAL, TakeLock, Oldest, Becomes, At, Types, ThreadTypes, Exclusion
<1>10. ASSUME NEW d \in Decoders, Decode(d) PROVE Exclusion'
  BY DistinctThreads, Holder, <1>10 DEF Decode, Types, ThreadTypes, Exclusion
<1>11. CASE SurfaceCreated
  BY DistinctThreads, Holder, <1>11 DEF SurfaceCreated, Types, ThreadTypes, Exclusion
<1>12. CASE PublishDecoder
  BY DistinctThreads, Holder, <1>12 DEF PublishDecoder, Types, ThreadTypes, Exclusion
<1>13. ASSUME NEW kind \in Config, NEW next \in {"pps", "surface"}, Inject(kind, next) PROVE Exclusion'
  BY DistinctThreads, Holder, <1>13
     DEF Inject, Becomes, At, Types, ThreadTypes, Exclusion
<1>14. CASE SurfaceDestroyed
  BY DistinctThreads, Holder, <1>14 DEF SurfaceDestroyed, Types, ThreadTypes, Exclusion
<1>15. CASE ClearNALs
  BY DistinctThreads, Holder, <1>15 DEF ClearNALs, Types, ThreadTypes, Exclusion
<1>16. CASE ClearBuffers
  BY DistinctThreads, Holder, <1>16
     DEF ClearBuffers, Unpublished, Types, ThreadTypes, Exclusion
<1>17. CASE OnServiceConnected \/ Disconnect \/ UNCHANGED vars
  BY <1>17 DEF OnServiceConnected, Disconnect, Types, ThreadTypes, Exclusion
<1>18. CASE ForgetCodec
  BY DistinctThreads, Holder, <1>18 DEF ForgetCodec, Types, ThreadTypes, Exclusion
<1> QED
  BY StepCases, <1>1, <1>2, <1>3, <1>4, <1>5, <1>6, <1>7, <1>8, <1>9, <1>10, <1>11,
     <1>12, <1>13, <1>14, <1>15, <1>16, <1>17, <1>18

(* Who acts on a decoder does so alone, and nobody acts on it when its     *)
(* lock is free.                                                           *)
LEMMA Alone ==
  ASSUME Types, SubmitInv, CallbackInv, LockInv, Exclusion, NEW d \in Decoders
  PROVE  /\ feedLock[d] = {} =>
               \A u \in Threads : thread[u].step = "act" => thread[u].decoder \in Decoders \ {d}
         /\ \A t \in Threads : thread[t].step = "act" /\ thread[t].decoder = d =>
               \A u \in Threads \ {t} :
                  thread[u].step = "act" => thread[u].decoder \in Decoders \ {d}
<1>1. \A u \in Threads : thread[u].step = "act" => thread[u].decoder \in Decoders
  BY Holder
<1> QED
  BY <1>1 DEF LockInv, Exclusion

(* What a submitting thread goes on with after the poll.                   *)
LEMMA PollOutcome ==
  ASSUME Types, SubmitInv, CallbackInv, NEW t \in {Receiver, Ui}, PollBuffer(t)
  PROVE  LET d == thread[t].decoder IN
         /\ t \in Threads /\ d \in 1 .. decoders /\ d \in Decoders
         /\ IF bufferQueue[d] > 0 THEN thread'[t] = At("act", d, thread[t].nal, TRUE)
                                  ELSE thread'[t] = At("act", d, thread[t].nal, FALSE)
<1> DEFINE d == thread[t].decoder
<1>1. t \in Threads /\ d \in 1 .. decoders /\ d \in Decoders
  BY Holder, DistinctThreads DEF PollBuffer
<1>2. thread'[t] = At("act", d, thread[t].nal, bufferQueue[d] > 0)
  BY <1>1, OnlyOneBecomes DEF PollBuffer
<1>3. CASE bufferQueue[d] > 0
  <2>1. (bufferQueue[d] > 0) = TRUE
    BY <1>3
  <2> QED
    BY <1>1, <1>2, <1>3, <2>1, Zenon
<1>4. CASE ~(bufferQueue[d] > 0)
  <2>1. (bufferQueue[d] > 0) = FALSE
    BY <1>4
  <2> QED
    BY <1>1, <1>2, <1>4, <2>1, Zenon
<1> QED
  BY <1>3, <1>4

(* Polling under the lock, NAL unit and buffer do not miss each other.     *)
LEMMA MeetInvStep ==
  ASSUME Types, FreshInv, SubmitInv, CallbackInv, LockInv, Exclusion, MeetInv,
         [Next]_vars
  PROVE  MeetInv'
<1> USE DEF vars, serviceVars, uiVars, queueVars, codecVars, fedVars, threadVars
<1>1. CASE ReceiveNAL
  BY DistinctThreads, <1>1
     DEF ReceiveNAL, Becomes, At, Types, QueueTypes, ThreadTypes, MeetInv, Idle
<1>2. CASE SubmitNAL
  BY DistinctThreads, <1>2
     DEF SubmitNAL, Becomes, At, Idle, Accepts, Types, QueueTypes, ThreadTypes, MeetInv
<1>3. ASSUME NEW t \in {Receiver, Ui}, PollBuffer(t) PROVE MeetInv'
  <2> DEFINE d == thread[t].decoder
  <2>1. d \in Decoders /\ t \in Threads
    BY Holder, DistinctThreads, <1>3 DEF PollBuffer
  <2>2. \A u \in Threads : thread[u].step = "act" => thread[u].decoder \in Decoders \ {d}
    BY <2>1, Alone, <1>3 DEF PollBuffer, TakeLock
  <2>3. \A u \in Threads \ {t} : thread'[u] = thread[u]
    BY <2>1, OnlyOneBecomes, <1>3 DEF PollBuffer
  <2>4. /\ \A e \in Decoders \ {d} : bufferQueue'[e] = bufferQueue[e]
        /\ bufferQueue[d] > 0 \/ bufferQueue'[d] = 0
        /\ bufferQueue[d] = 0 => bufferQueue'[d] = 0
        /\ nalQueue' = nalQueue
    BY <2>1, <1>3 DEF PollBuffer, Types, QueueTypes
  <2>5. bufferQueue[d] > 0 => nalQueue[d] = <<>>
    BY <2>1 DEF MeetInv, Types, QueueTypes
  <2>6. IF bufferQueue[d] > 0 THEN thread'[t] = At("act", d, thread[t].nal, TRUE)
                              ELSE thread'[t] = At("act", d, thread[t].nal, FALSE)
    BY PollOutcome, <1>3
  <2>7. \A e \in Decoders : nalQueue'[e] = <<>> \/ bufferQueue'[e] = 0
    BY <2>1, <2>4 DEF MeetInv
  <2>8. IF thread'[t].buffer THEN nalQueue'[d] = <<>> ELSE bufferQueue'[d] = 0
    BY <2>4, <2>5, <2>6 DEF At
  <2>9. thread'[t].decoder = d
    BY <2>6 DEF At
  <2> HIDE DEF d
  <2> QED
    BY <2>1, <2>2, <2>3, <2>4, <2>7, <2>8, <2>9, DistinctThreads
       DEF MeetInv, CallbackInv
<1>4. ASSUME NEW t \in Threads, Fed(t) PROVE MeetInv'
  BY DistinctThreads, <1>4
     DEF Fed, Released, Feed, Becomes, Types, QueueTypes, ThreadTypes, MeetInv, Idle, At
<1>5. ASSUME NEW t \in Threads, FeedLost(t) PROVE MeetInv'
  BY DistinctThreads, <1>5
     DEF FeedLost, Released, FeedFails, Becomes, Types, QueueTypes, ThreadTypes,
      MeetInv, Idle, At
<1>6. ASSUME NEW t \in Threads, NALKept(t) PROVE MeetInv'
  <2> DEFINE d == thread[t].decoder
  <2>1. d \in Decoders
    BY Holder, <1>6 DEF NALKept, Released
  <2>2. \A u \in Threads \ {t} : thread[u].step = "act" => thread[u].decoder \in Decoders \ {d}
    BY <2>1, Alone, <1>6 DEF NALKept, Released
  <2>3. /\ \A u \in Threads \ {t} : thread'[u] = thread[u]
        /\ thread'[t] = Idle
    BY OnlyOneBecomes, <1>6 DEF NALKept, Released
  <2>4. /\ \A e \in Decoders \ {d} : nalQueue'[e] = nalQueue[e]
        /\ bufferQueue' = bufferQueue
    BY <2>1, <1>6 DEF NALKept, OfferNAL, Types, QueueTypes
  <2>5. t \in {Receiver, Ui} /\ bufferQueue[d] = 0
    BY DistinctThreads, <1>6 DEF NALKept, Released, CallbackInv, MeetInv
  <2> QED
    BY <2>1, <2>2, <2>3, <2>4, <2>5, DistinctThreads DEF MeetInv, Idle, At, CallbackInv
<1>7. ASSUME NEW t \in Threads, BufferKept(t) PROVE MeetInv'
  <2> DEFINE d == thread[t].decoder
  <2>1. d \in Decoders
    BY Holder, <1>7 DEF BufferKept, Released
  <2>2. \A u \in Threads \ {t} : thread[u].step = "act" => thread[u].decoder \in Decoders \ {d}
    BY <2>1, Alone, <1>7 DEF BufferKept, Released
  <2>3. /\ \A u \in Threads \ {t} : thread'[u] = thread[u]
        /\ thread'[t] = Idle
    BY OnlyOneBecomes, <1>7 DEF BufferKept, Released
  <2>4. /\ \A e \in Decoders \ {d} : bufferQueue'[e] = bufferQueue[e]
        /\ nalQueue' = nalQueue
    BY <2>1, <1>7 DEF BufferKept, OfferBuffer, KeepBuffer, Types, QueueTypes
  <2>5. t = Callback(d) /\ nalQueue[d] = <<>>
    <3>1. t \notin {Receiver, Ui}
      BY Holder, NoNALIsNone, <1>7 DEF BufferKept, Released
    <3> QED
      BY <3>1, DistinctThreads, <1>7 DEF BufferKept, Released, CallbackInv, MeetInv
  <2> QED
    BY <2>1, <2>2, <2>3, <2>4, <2>5, DistinctThreads DEF MeetInv, Idle, At, CallbackInv
<1>8. ASSUME NEW d \in Decoders, InputBufferAvailable(d) PROVE MeetInv'
  BY DistinctThreads, <1>8
     DEF InputBufferAvailable, Becomes, At, Types, QueueTypes, ThreadTypes, MeetInv,
      Idle
<1>9. ASSUME NEW d \in Decoders, PollNAL(d) PROVE MeetInv'
  <2>2. \A u \in Threads : thread[u].step = "act" => thread[u].decoder \in Decoders \ {d}
    BY Alone, <1>9 DEF PollNAL, TakeLock
  <2>3. /\ \A u \in Threads \ {Callback(d)} : thread'[u] = thread[u]
        /\ IF nalQueue[d] = <<>>
           THEN thread'[Callback(d)] = At("act", d, NoNAL, TRUE)
           ELSE thread'[Callback(d)] = At("act", d, nalQueue[d][1], TRUE)
    BY DistinctThreads, OnlyOneBecomes, <1>9 DEF PollNAL, Oldest
  <2>4. /\ \A e \in Decoders \ {d} : nalQueue'[e] = nalQueue[e]
        /\ nalQueue[d] = <<>> => nalQueue' = nalQueue
        /\ bufferQueue' = bufferQueue
    BY <1>9 DEF PollNAL, Types, QueueTypes
  <2>5. nalQueue[d] # <<>> => nalQueue[d][1] # NoNAL /\ bufferQueue[d] = 0
    BY RemoveOldest, NoNALIsNone DEF MeetInv, Types, QueueTypes
  <2> QED
    BY <2>2, <2>3, <2>4, <2>5, DistinctThreads DEF MeetInv, At, CallbackInv
<1>10. ASSUME NEW d \in Decoders, Decode(d) PROVE MeetInv'
  BY DistinctThreads, <1>10
     DEF Decode, Types, QueueTypes, ThreadTypes, MeetInv, Idle, At
<1>11. CASE SurfaceCreated
  BY DistinctThreads, <1>11
     DEF SurfaceCreated, Types, QueueTypes, ThreadTypes, MeetInv, Idle, At
<1>12. CASE PublishDecoder
  BY DistinctThreads, <1>12
     DEF PublishDecoder, Types, QueueTypes, ThreadTypes, MeetInv, Idle, At
<1>13. ASSUME NEW kind \in Config, NEW next \in {"pps", "surface"}, Inject(kind, next) PROVE MeetInv'
  BY DistinctThreads, <1>13
     DEF Inject, Becomes, At, Types, QueueTypes, ThreadTypes, MeetInv, Idle
<1>14. CASE SurfaceDestroyed
  BY DistinctThreads, <1>14
     DEF SurfaceDestroyed, Types, QueueTypes, ThreadTypes, MeetInv, Idle, At
<1>15. CASE ClearNALs
  BY DistinctThreads, <1>15
     DEF ClearNALs, Types, QueueTypes, ThreadTypes, MeetInv, Idle, At
<1>16. CASE ClearBuffers
  BY DistinctThreads, <1>16
     DEF ClearBuffers, Unpublished, Types, QueueTypes, ThreadTypes, MeetInv, Idle, At
<1>17. CASE OnServiceConnected \/ Disconnect \/ UNCHANGED vars
  BY <1>17
     DEF OnServiceConnected, Disconnect, Types, QueueTypes, ThreadTypes, MeetInv, Idle,
      At
<1>18. CASE ForgetCodec
  BY DistinctThreads, <1>18
     DEF ForgetCodec, Types, QueueTypes, ThreadTypes, MeetInv, Idle, At
<1> QED
  BY StepCases, <1>1, <1>2, <1>3, <1>4, <1>5, <1>6, <1>7, <1>8, <1>9, <1>10, <1>11,
     <1>12, <1>13, <1>14, <1>15, <1>16, <1>17, <1>18

-----------------------------------------------------------------------------
(* The buffers.                                                            *)

(* A change of one thread changes what the hands hold by what it holds.    *)
LEMMA HandsChange ==
  ASSUME Types, NEW t \in Threads, NEW state, Becomes(t, state), NEW e \in Decoders
  PROVE  /\ Hands(e) \in Nat /\ Hands(e)' \in Nat
         /\ InHand(t, e) \in {0, 1} /\ InHand(t, e)' \in {0, 1}
         /\ IF t \in {Receiver, Ui, Callback(e)}
            THEN Hands(e)' + InHand(t, e) = Hands(e) + InHand(t, e)'
            ELSE Hands(e)' = Hands(e)
<1>1. \A u \in Threads : InHand(u, e) \in {0, 1} /\ InHand(u, e)' \in {0, 1}
  BY DEF InHand
<1>2. \A u \in Threads \ {t} : InHand(u, e)' = InHand(u, e)
  BY OnlyOneBecomes DEF InHand
<1>3. Receiver \in Threads /\ Ui \in Threads /\ Callback(e) \in Threads
  BY DistinctThreads
<1>4. Receiver # Ui /\ Receiver # Callback(e) /\ Ui # Callback(e)
  BY DistinctThreads
<1>5. Hands(e) \in Nat /\ Hands(e)' \in Nat
  BY <1>1, <1>3 DEF Hands
<1>6. CASE t = Receiver
  BY <1>1, <1>2, <1>3, <1>4, <1>5, <1>6 DEF Hands
<1>7. CASE t = Ui
  BY <1>1, <1>2, <1>3, <1>4, <1>5, <1>7 DEF Hands
<1>8. CASE t = Callback(e)
  BY <1>1, <1>2, <1>3, <1>4, <1>5, <1>8 DEF Hands
<1>9. CASE t \notin {Receiver, Ui, Callback(e)}
  BY <1>1, <1>2, <1>3, <1>4, <1>5, <1>9 DEF Hands
<1> QED
  BY <1>6, <1>7, <1>8, <1>9

(* Leaving the critical section empties the hands of one thread.           *)
LEMMA HandsRelease ==
  ASSUME Types, SubmitInv, CallbackInv, NEW t \in Threads, Released(t),
         NEW e \in Decoders
  PROVE  /\ thread[t].decoder \in Decoders
         /\ Hands(e) \in Nat /\ Hands(e)' \in Nat
         /\ IF thread[t].decoder = e /\ thread[t].buffer
            THEN Hands(e)' + 1 = Hands(e) ELSE Hands(e)' = Hands(e)
<1>1. thread'[t] = Idle /\ Becomes(t, Idle) /\ thread[t].decoder \in Decoders
  BY OnlyOneBecomes, Holder DEF Released
<1>2. InHand(t, e)' = 0
  BY <1>1 DEF InHand, Idle, At
<1>3. thread[t].decoder = e => t \in {Receiver, Ui, Callback(e)}
  BY DistinctThreads DEF CallbackInv, Released
<1>4. InHand(t, e) = IF thread[t].decoder = e /\ thread[t].buffer THEN 1 ELSE 0
  BY DEF InHand
<1> QED
  BY <1>1, <1>2, <1>3, <1>4, HandsChange

(* Nothing changes with threads that do not, nor with one that keeps  *)
(* its buffer.                                                             *)
LEMMA HandsStay ==
  ASSUME Types, NEW e \in Decoders, UNCHANGED thread
  PROVE  Hands(e)' = Hands(e) /\ Hands(e) \in Nat
BY DEF Hands, InHand

\* A thread that keeps its buffer leaves every decoder as many.
LEMMA HandsKeep ==
  ASSUME Types, NEW e \in Decoders, NEW t \in Threads, NEW state, Becomes(t, state),
         state.buffer <=> thread[t].buffer,
         thread[t].buffer => state.decoder = thread[t].decoder
  PROVE  Hands(e)' = Hands(e) /\ Hands(e) \in Nat
<1>1. InHand(t, e)' = InHand(t, e)
  BY OnlyOneBecomes DEF InHand
<1> QED
  BY <1>1, HandsChange

(* No buffer is doubled.                                                   *)
LEMMA BufferInvStep ==
  ASSUME Types, FreshInv, SubmitInv, CallbackInv, BufferInv, [Next]_vars
  PROVE  BufferInv'
<1> USE DEF vars, serviceVars, uiVars, queueVars, codecVars, fedVars, threadVars
<1>1. CASE ReceiveNAL
  <2> SUFFICES ASSUME NEW e \in Decoders
               PROVE  (bufferQueue[e] + available[e] + queued[e] + Hands(e) <= InputBuffers)'
    BY DEF BufferInv
  <2>1. /\ bufferQueue[e] \in Nat /\ available[e] \in Nat /\ queued[e] \in Nat /\ InputBuffers \in Nat
        /\ bufferQueue[e] + available[e] + queued[e] + Hands(e) <= InputBuffers
    BY DecoderAssumption DEF Types, QueueTypes, BufferInv
  <2>2. \/ UNCHANGED thread
        \/ \E step, d, nal : Becomes(Receiver, At(step, d, nal, FALSE))
    BY <1>1 DEF ReceiveNAL
  <2>3. ~thread[Receiver].buffer
    BY DistinctThreads, <1>1 DEF ReceiveNAL, Becomes, At, Idle, SubmitInv
  <2>4. Hands(e)' = Hands(e) /\ Hands(e) \in Nat
    BY <2>2, <2>3, HandsStay, HandsKeep, DistinctThreads DEF At
  <2>5. UNCHANGED <<bufferQueue, available, queued>>
    BY <1>1 DEF ReceiveNAL, Becomes, At
  <2> QED
    BY <2>1, <2>4, <2>5
<1>2. CASE SubmitNAL
  <2> SUFFICES ASSUME NEW e \in Decoders
               PROVE  (bufferQueue[e] + available[e] + queued[e] + Hands(e) <= InputBuffers)'
    BY DEF BufferInv
  <2>1. /\ bufferQueue[e] \in Nat /\ available[e] \in Nat /\ queued[e] \in Nat /\ InputBuffers \in Nat
        /\ bufferQueue[e] + available[e] + queued[e] + Hands(e) <= InputBuffers
    BY DecoderAssumption DEF Types, QueueTypes, BufferInv
  <2>2. \/ UNCHANGED thread
        \/ \E step, d, nal : Becomes(Receiver, At(step, d, nal, FALSE))
    BY <1>2 DEF SubmitNAL, Idle
  <2>3. ~thread[Receiver].buffer
    BY DistinctThreads, <1>2 DEF SubmitNAL, Becomes, At, Idle, Accepts, Idle, SubmitInv
  <2>4. Hands(e)' = Hands(e) /\ Hands(e) \in Nat
    BY <2>2, <2>3, HandsStay, HandsKeep, DistinctThreads DEF At
  <2>5. UNCHANGED <<bufferQueue, available, queued>>
    BY <1>2 DEF SubmitNAL, Becomes, At, Idle, Accepts
  <2> QED
    BY <2>1, <2>4, <2>5
<1>3. ASSUME NEW t \in {Receiver, Ui}, PollBuffer(t) PROVE BufferInv'
  <2> SUFFICES ASSUME NEW e \in Decoders
               PROVE  (bufferQueue[e] + available[e] + queued[e] + Hands(e) <= InputBuffers)'
    BY DEF BufferInv
  <2>1. /\ bufferQueue[e] \in Nat /\ available[e] \in Nat /\ queued[e] \in Nat /\ InputBuffers \in Nat
        /\ bufferQueue[e] + available[e] + queued[e] + Hands(e) <= InputBuffers
    BY DecoderAssumption DEF Types, QueueTypes, BufferInv
  <2> DEFINE d == thread[t].decoder
  <2>2. d \in Decoders /\ t \in Threads
    BY Holder, DistinctThreads, <1>3 DEF PollBuffer
  <2>3. /\ Hands(e) \in Nat /\ Hands(e)' \in Nat
        /\ InHand(t, e) \in {0, 1} /\ InHand(t, e)' \in {0, 1}
        /\ Hands(e)' + InHand(t, e) = Hands(e) + InHand(t, e)'
    BY <2>2, HandsChange, <1>3 DEF PollBuffer
  <2>4. InHand(t, e) = 0
    BY <1>3 DEF PollBuffer, SubmitInv, InHand
  <2>6. InHand(t, e)' = 1 => d = e /\ bufferQueue[e] > 0
    BY PollOutcome, <1>3 DEF InHand, At
  <2>7. /\ available' = available /\ queued' = queued
        /\ bufferQueue'[e] = IF d = e /\ bufferQueue[e] > 0 THEN bufferQueue[e] - 1 ELSE bufferQueue[e]
    BY <2>2, <1>3 DEF PollBuffer, Types, QueueTypes
  <2> HIDE DEF d
  <2> QED
    BY <2>1, <2>3, <2>4, <2>6, <2>7
<1>4. ASSUME NEW t \in Threads, Fed(t) PROVE BufferInv'
  <2> SUFFICES ASSUME NEW e \in Decoders
               PROVE  (bufferQueue[e] + available[e] + queued[e] + Hands(e) <= InputBuffers)'
    BY DEF BufferInv
  <2>1. /\ bufferQueue[e] \in Nat /\ available[e] \in Nat /\ queued[e] \in Nat /\ InputBuffers \in Nat
        /\ bufferQueue[e] + available[e] + queued[e] + Hands(e) <= InputBuffers
    BY DecoderAssumption DEF Types, QueueTypes, BufferInv
  <2> DEFINE d == thread[t].decoder
  <2>2. /\ Hands(e) \in Nat /\ Hands(e)' \in Nat /\ d \in Decoders
        /\ IF d = e /\ thread[t].buffer THEN Hands(e)' + 1 = Hands(e) ELSE Hands(e)' = Hands(e)
    BY HandsRelease, <1>4 DEF Fed
  <2>3. bufferQueue' = bufferQueue /\ available' = available /\ thread[t].buffer
        /\ queued'[e] = IF d = e THEN queued[e] + 1 ELSE queued[e]
    BY <2>2, <1>4 DEF Fed, Released, Feed, Becomes, Types, QueueTypes
  <2> HIDE DEF d
  <2> QED
    BY <2>1, <2>2, <2>3
<1>5. ASSUME NEW t \in Threads, FeedLost(t) PROVE BufferInv'
  <2> SUFFICES ASSUME NEW e \in Decoders
               PROVE  (bufferQueue[e] + available[e] + queued[e] + Hands(e) <= InputBuffers)'
    BY DEF BufferInv
  <2>1. /\ bufferQueue[e] \in Nat /\ available[e] \in Nat /\ queued[e] \in Nat /\ InputBuffers \in Nat
        /\ bufferQueue[e] + available[e] + queued[e] + Hands(e) <= InputBuffers
    BY DecoderAssumption DEF Types, QueueTypes, BufferInv
  <2> DEFINE d == thread[t].decoder
  <2>2. /\ Hands(e) \in Nat /\ Hands(e)' \in Nat /\ d \in Decoders
        /\ IF d = e /\ thread[t].buffer THEN Hands(e)' + 1 = Hands(e) ELSE Hands(e)' = Hands(e)
    BY HandsRelease, <1>5 DEF FeedLost
  <2>3. UNCHANGED <<bufferQueue, available, queued>>
    BY <2>2, <1>5 DEF FeedLost, Released, FeedFails, Becomes, Types, QueueTypes
  <2> HIDE DEF d
  <2> QED
    BY <2>1, <2>2, <2>3
<1>6. ASSUME NEW t \in Threads, NALKept(t) PROVE BufferInv'
  <2> SUFFICES ASSUME NEW e \in Decoders
               PROVE  (bufferQueue[e] + available[e] + queued[e] + Hands(e) <= InputBuffers)'
    BY DEF BufferInv
  <2>1. /\ bufferQueue[e] \in Nat /\ available[e] \in Nat /\ queued[e] \in Nat /\ InputBuffers \in Nat
        /\ bufferQueue[e] + available[e] + queued[e] + Hands(e) <= InputBuffers
    BY DecoderAssumption DEF Types, QueueTypes, BufferInv
  <2> DEFINE d == thread[t].decoder
  <2>2. /\ Hands(e) \in Nat /\ Hands(e)' \in Nat /\ d \in Decoders
        /\ IF d = e /\ thread[t].buffer THEN Hands(e)' + 1 = Hands(e) ELSE Hands(e)' = Hands(e)
    BY HandsRelease, <1>6 DEF NALKept
  <2>3. UNCHANGED <<bufferQueue, available, queued>>
    BY <2>2, <1>6 DEF NALKept, Released, OfferNAL, Becomes, Types, QueueTypes
  <2> HIDE DEF d
  <2> QED
    BY <2>1, <2>2, <2>3
<1>7. ASSUME NEW t \in Threads, BufferKept(t) PROVE BufferInv'
  <2> SUFFICES ASSUME NEW e \in Decoders
               PROVE  (bufferQueue[e] + available[e] + queued[e] + Hands(e) <= InputBuffers)'
    BY DEF BufferInv
  <2>1. /\ bufferQueue[e] \in Nat /\ available[e] \in Nat /\ queued[e] \in Nat /\ InputBuffers \in Nat
        /\ bufferQueue[e] + available[e] + queued[e] + Hands(e) <= InputBuffers
    BY DecoderAssumption DEF Types, QueueTypes, BufferInv
  <2> DEFINE d == thread[t].decoder
  <2>2. /\ Hands(e) \in Nat /\ Hands(e)' \in Nat /\ d \in Decoders
        /\ IF d = e /\ thread[t].buffer THEN Hands(e)' + 1 = Hands(e) ELSE Hands(e)' = Hands(e)
    BY HandsRelease, <1>7 DEF BufferKept
  <2>4. thread[t].buffer
    <3>1. t \notin {Receiver, Ui}
      BY Holder, NoNALIsNone, <1>7 DEF BufferKept, Released
    <3> QED
      BY <3>1, DistinctThreads, <1>7 DEF BufferKept, Released, CallbackInv
  <2>3. queued' = queued /\ available' = available
        /\ bufferQueue'[e] = IF d = e THEN bufferQueue[e] + 1 ELSE bufferQueue[e]
    BY <2>2, <1>7
       DEF BufferKept, Released, OfferBuffer, KeepBuffer, Becomes, Types, QueueTypes
  <2> HIDE DEF d
  <2> QED
    BY <2>1, <2>2, <2>3, <2>4
<1>8. ASSUME NEW d \in Decoders, InputBufferAvailable(d) PROVE BufferInv'
  <2> SUFFICES ASSUME NEW e \in Decoders
               PROVE  (bufferQueue[e] + available[e] + queued[e] + Hands(e) <= InputBuffers)'
    BY DEF BufferInv
  <2>1. /\ bufferQueue[e] \in Nat /\ available[e] \in Nat /\ queued[e] \in Nat /\ InputBuffers \in Nat
        /\ bufferQueue[e] + available[e] + queued[e] + Hands(e) <= InputBuffers
    BY DecoderAssumption DEF Types, QueueTypes, BufferInv
  <2>2. /\ Hands(e) \in Nat /\ Hands(e)' \in Nat
        /\ InHand(Callback(d), e) \in {0, 1} /\ InHand(Callback(d), e)' \in {0, 1}
        /\ IF Callback(d) \in {Receiver, Ui, Callback(e)}
           THEN Hands(e)' + InHand(Callback(d), e) = Hands(e) + InHand(Callback(d), e)'
           ELSE Hands(e)' = Hands(e)
    BY HandsChange, DistinctThreads, <1>8 DEF InputBufferAvailable
  <2>3. Callback(d) \in {Receiver, Ui, Callback(e)} => d = e
    BY DistinctThreads
  <2>4. InHand(Callback(d), e) = 0
    BY <1>8 DEF InputBufferAvailable, InHand, Idle, At
  <2>5. /\ bufferQueue' = bufferQueue /\ queued' = queued /\ available[d] > 0
        /\ available'[e] = IF d = e THEN available[e] - 1 ELSE available[e]
    BY <1>8 DEF InputBufferAvailable, Types, QueueTypes
  <2> QED
    BY <2>1, <2>2, <2>3, <2>4, <2>5
<1>9. ASSUME NEW d \in Decoders, PollNAL(d) PROVE BufferInv'
  <2> SUFFICES ASSUME NEW e \in Decoders
               PROVE  (bufferQueue[e] + available[e] + queued[e] + Hands(e) <= InputBuffers)'
    BY DEF BufferInv
  <2>1. /\ bufferQueue[e] \in Nat /\ available[e] \in Nat /\ queued[e] \in Nat /\ InputBuffers \in Nat
        /\ bufferQueue[e] + available[e] + queued[e] + Hands(e) <= InputBuffers
    BY DecoderAssumption DEF Types, QueueTypes, BufferInv
  <2>2. PICK nal : Becomes(Callback(d), At("act", d, nal, TRUE))
    BY <1>9 DEF PollNAL
  <2>3. thread[Callback(d)].buffer = TRUE /\ thread[Callback(d)].decoder = d
    BY DistinctThreads, <1>9 DEF PollNAL, CallbackInv, Types, ThreadTypes
  <2>4. Hands(e)' = Hands(e) /\ Hands(e) \in Nat
    BY <2>2, <2>3, HandsKeep, DistinctThreads DEF At
  <2>5. UNCHANGED <<bufferQueue, available, queued>>
    BY <1>9 DEF PollNAL
  <2> QED
    BY <2>1, <2>4, <2>5
<1>10. ASSUME NEW d \in Decoders, Decode(d) PROVE BufferInv'
  <2> SUFFICES ASSUME NEW e \in Decoders
               PROVE  (bufferQueue[e] + available[e] + queued[e] + Hands(e) <= InputBuffers)'
    BY DEF BufferInv
  <2>1. /\ bufferQueue[e] \in Nat /\ available[e] \in Nat /\ queued[e] \in Nat /\ InputBuffers \in Nat
        /\ bufferQueue[e] + available[e] + queued[e] + Hands(e) <= InputBuffers
    BY DecoderAssumption DEF Types, QueueTypes, BufferInv
  <2>2. Hands(e)' = Hands(e) /\ Hands(e) \in Nat
    BY HandsStay, <1>10 DEF Decode
  <2>3. bufferQueue' = bufferQueue
    BY <1>10 DEF Decode
  <2>4. queued'[e] = IF d = e THEN queued[e] - 1 ELSE queued[e]
    BY <1>10 DEF Decode, Types, QueueTypes
  <2>5. available'[e] = IF d = e THEN available[e] + 1 ELSE available[e]
    BY <1>10 DEF Decode, Types, QueueTypes
  <2> QED
    BY <2>1, <2>2, <2>3, <2>4, <2>5
<1>11. CASE SurfaceCreated
  <2> SUFFICES ASSUME NEW e \in Decoders
               PROVE  (bufferQueue[e] + available[e] + queued[e] + Hands(e) <= InputBuffers)'
    BY DEF BufferInv
  <2>1. /\ bufferQueue[e] \in Nat /\ available[e] \in Nat /\ queued[e] \in Nat /\ InputBuffers \in Nat
        /\ bufferQueue[e] + available[e] + queued[e] + Hands(e) <= InputBuffers
    BY DecoderAssumption DEF Types, QueueTypes, BufferInv
  <2>2. Hands(e)' = Hands(e) /\ Hands(e) \in Nat
    BY HandsStay, <1>11 DEF SurfaceCreated
  <2>3. e = decoders + 1 => Hands(e) = 0
    <3>1. decoders \in Nat
      BY DecoderAssumption DEF Types, ServiceTypes
    <3>2. \A t \in {Receiver, Ui} : thread[t].buffer => thread[t].decoder \in 1 .. decoders
      BY DEF SubmitInv
    <3>3. ~(e <= decoders) => ~thread[Callback(e)].buffer
      BY DEF CallbackInv, Idle, At
    <3> QED
      BY <3>1, <3>2, <3>3 DEF Hands, InHand
  <2>4. e = decoders + 1 => bufferQueue[e] = 0 /\ queued[e] = 0
    BY DecoderAssumption DEF FreshInv, Types, ServiceTypes
  <2>5. /\ bufferQueue' = bufferQueue /\ queued' = queued
        /\ available'[e] = IF e = decoders + 1 THEN InputBuffers ELSE available[e]
    BY <1>11 DEF SurfaceCreated, Types, QueueTypes
  <2> QED
    BY <2>1, <2>2, <2>3, <2>4, <2>5
<1>12. CASE PublishDecoder
  <2> SUFFICES ASSUME NEW e \in Decoders
               PROVE  (bufferQueue[e] + available[e] + queued[e] + Hands(e) <= InputBuffers)'
    BY DEF BufferInv
  <2>1. /\ bufferQueue[e] \in Nat /\ available[e] \in Nat /\ queued[e] \in Nat /\ InputBuffers \in Nat
        /\ bufferQueue[e] + available[e] + queued[e] + Hands(e) <= InputBuffers
    BY DecoderAssumption DEF Types, QueueTypes, BufferInv
  <2>2. Hands(e)' = Hands(e) /\ Hands(e) \in Nat
    BY HandsStay, DistinctThreads, <1>12 DEF PublishDecoder
  <2>3. UNCHANGED <<bufferQueue, available, queued>>
    BY <1>12 DEF PublishDecoder, Types, QueueTypes
  <2> QED
    BY <2>1, <2>2, <2>3
<1>13. ASSUME NEW kind \in Config, NEW next \in {"pps", "surface"}, Inject(kind, next) PROVE BufferInv'
  <2> SUFFICES ASSUME NEW e \in Decoders
               PROVE  (bufferQueue[e] + available[e] + queued[e] + Hands(e) <= InputBuffers)'
    BY DEF BufferInv
  <2>1. /\ bufferQueue[e] \in Nat /\ available[e] \in Nat /\ queued[e] \in Nat /\ InputBuffers \in Nat
        /\ bufferQueue[e] + available[e] + queued[e] + Hands(e) <= InputBuffers
    BY DecoderAssumption DEF Types, QueueTypes, BufferInv
  <2>2. \/ UNCHANGED thread
        \/ \E step, d, nal : Becomes(Ui, At(step, d, nal, FALSE))
    BY <1>13 DEF Inject
  <2>3. ~thread[Ui].buffer
    BY DistinctThreads, <1>13 DEF Inject, Becomes, At, Idle, SubmitInv
  <2>4. Hands(e)' = Hands(e) /\ Hands(e) \in Nat
    BY <2>2, <2>3, HandsStay, HandsKeep, DistinctThreads DEF At
  <2>5. UNCHANGED <<bufferQueue, available, queued>>
    BY <1>13 DEF Inject, Becomes, At
  <2> QED
    BY <2>1, <2>4, <2>5
<1>14. CASE SurfaceDestroyed
  <2> SUFFICES ASSUME NEW e \in Decoders
               PROVE  (bufferQueue[e] + available[e] + queued[e] + Hands(e) <= InputBuffers)'
    BY DEF BufferInv
  <2>1. /\ bufferQueue[e] \in Nat /\ available[e] \in Nat /\ queued[e] \in Nat /\ InputBuffers \in Nat
        /\ bufferQueue[e] + available[e] + queued[e] + Hands(e) <= InputBuffers
    BY DecoderAssumption DEF Types, QueueTypes, BufferInv
  <2>2. Hands(e)' = Hands(e) /\ Hands(e) \in Nat
    BY HandsStay, DistinctThreads, <1>14 DEF SurfaceDestroyed
  <2>3. bufferQueue' = bufferQueue /\ available' = available /\ queued'[e] \in {0, queued[e]}
    BY <1>14 DEF SurfaceDestroyed, Types, QueueTypes
  <2> QED
    BY <2>1, <2>2, <2>3
<1>15. CASE ClearNALs
  <2> SUFFICES ASSUME NEW e \in Decoders
               PROVE  (bufferQueue[e] + available[e] + queued[e] + Hands(e) <= InputBuffers)'
    BY DEF BufferInv
  <2>1. /\ bufferQueue[e] \in Nat /\ available[e] \in Nat /\ queued[e] \in Nat /\ InputBuffers \in Nat
        /\ bufferQueue[e] + available[e] + queued[e] + Hands(e) <= InputBuffers
    BY DecoderAssumption DEF Types, QueueTypes, BufferInv
  <2>2. Hands(e)' = Hands(e) /\ Hands(e) \in Nat
    BY HandsStay, DistinctThreads, <1>15 DEF ClearNALs
  <2>3. UNCHANGED <<bufferQueue, available, queued>>
    BY <1>15 DEF ClearNALs, Types, QueueTypes
  <2> QED
    BY <2>1, <2>2, <2>3
<1>16. CASE ClearBuffers
  <2> SUFFICES ASSUME NEW e \in Decoders
               PROVE  (bufferQueue[e] + available[e] + queued[e] + Hands(e) <= InputBuffers)'
    BY DEF BufferInv
  <2>1. /\ bufferQueue[e] \in Nat /\ available[e] \in Nat /\ queued[e] \in Nat /\ InputBuffers \in Nat
        /\ bufferQueue[e] + available[e] + queued[e] + Hands(e) <= InputBuffers
    BY DecoderAssumption DEF Types, QueueTypes, BufferInv
  <2>2. Hands(e)' = Hands(e) /\ Hands(e) \in Nat
    BY HandsStay, DistinctThreads, <1>16 DEF ClearBuffers, Unpublished
  <2>3. queued' = queued /\ available' = available /\ bufferQueue'[e] \in {0, bufferQueue[e]}
    BY <1>16 DEF ClearBuffers, Unpublished, Types, QueueTypes
  <2> QED
    BY <2>1, <2>2, <2>3
<1>17. CASE OnServiceConnected \/ Disconnect \/ UNCHANGED vars
  BY <1>17 DEF OnServiceConnected, Disconnect, BufferInv, Hands, InHand
<1>18. CASE ForgetCodec
  <2> SUFFICES ASSUME NEW e \in Decoders
               PROVE  (bufferQueue[e] + available[e] + queued[e] + Hands(e) <= InputBuffers)'
    BY DEF BufferInv
  <2>1. /\ bufferQueue[e] \in Nat /\ available[e] \in Nat /\ queued[e] \in Nat /\ InputBuffers \in Nat
        /\ bufferQueue[e] + available[e] + queued[e] + Hands(e) <= InputBuffers
    BY DecoderAssumption DEF Types, QueueTypes, BufferInv
  <2>2. Hands(e)' = Hands(e) /\ Hands(e) \in Nat
    BY HandsStay, DistinctThreads, <1>18 DEF ForgetCodec
  <2>3. UNCHANGED <<bufferQueue, available, queued>>
    BY <1>18 DEF ForgetCodec, Types, QueueTypes
  <2> QED
    BY <2>1, <2>2, <2>3
<1> QED
  BY StepCases, <1>1, <1>2, <1>3, <1>4, <1>5, <1>6, <1>7, <1>8, <1>9, <1>10, <1>11,
     <1>12, <1>13, <1>14, <1>15, <1>16, <1>17, <1>18

-----------------------------------------------------------------------------
(* Type correctness, and the two queues.                                   *)

(* Everything about types, locks and buffers is kept together.             *)
LEMMA SafeInvStep ==
  ASSUME SafeInv, [Next]_vars
  PROVE  SafeInv'
BY TypesStep, FreshInvStep, SubmitInvStep, CallbackInvStep, LockInvStep, ExclusionStep,
   MeetInvStep, BufferInvStep DEF SafeInv

(* It holds at first.                                                      *)
LEMMA SafeInvInit ==
  ASSUME Init
  PROVE  SafeInv
<1>0. Len(Stream) \in Nat /\ MaxDecoders \in Nat /\ MaxFeedFailures \in Nat /\ <<>> \in Seq(NALs)
  BY DecoderAssumption, LenProperties, EmptySeq
<1>1. Types /\ FreshInv
  <2>1. ServiceTypes
    <3>1. 0 \in 0 .. Len(Stream) /\ 0 \in 0 .. 0 /\ 0 \in 0 .. MaxDecoders
      BY <1>0
    <3>2. received = 0 /\ videoDecoder = 0 /\ decoders = 0 /\ ui = "noSurface"
      BY DEF Init
    <3> QED
      BY <3>1, <3>2 DEF Init, ServiceTypes
  <2>4. FreshInv
    BY DEF Init, FreshInv
  <2>2. QueueTypes
    BY <1>0 DEF Init, QueueTypes
  <2>3. ThreadTypes
    BY IdleIsAState DEF Init, ThreadTypes
  <2> QED
    BY <2>1, <2>2, <2>3, <2>4 DEF Types
<1>2. SubmitInv /\ CallbackInv /\ LockInv
  BY DistinctThreads DEF Init, SubmitInv, CallbackInv, LockInv, Idle, At
<1>3. Exclusion /\ MeetInv
  BY DistinctThreads DEF Init, Exclusion, MeetInv, Idle, At
<1>4. \A d \in Decoders : Hands(d) = 0
  BY DistinctThreads DEF Init, Hands, InHand, Idle, At
<1>5. BufferInv
  BY <1>4, DecoderAssumption DEF Init, BufferInv
<1> QED
  BY <1>1, <1>2, <1>3, <1>5 DEF SafeInv

(* The decoder is always in a safe state.                                  *)
THEOREM DecoderIsSafe == Spec => []SafeInv
<1>1. Init => SafeInv
  BY SafeInvInit
<1>2. SafeInv /\ [Next]_vars => SafeInv'
  BY SafeInvStep
<1> QED
  BY <1>1, <1>2, PTL DEF Spec

(* TypeOK (VideoDecoder.tla): every variable has its type, at most one     *)
(* thread of the client is inside feedLock (VideoDecoder.kt), and a codec's *)
(* input buffers are never more than it has.                               *)
THEOREM DecoderTypeCorrect == Spec => []TypeOK
<1>1. ASSUME SafeInv PROVE TypeOK
  <2>1. \A d \in Decoders : Cardinality(feedLock[d]) <= 1
    <3> TAKE d \in Decoders
    <3>1. feedLock[d] = {} \/ \E t : feedLock[d] = {t}
      BY <1>1 DEF SafeInv, Exclusion
    <3>2. Cardinality(feedLock[d]) = 0 \/ Cardinality(feedLock[d]) = 1
      BY <3>1, FS_EmptySet, FS_Singleton
    <3> QED
      BY <3>2
  <2>2. \A d \in Decoders : bufferQueue[d] + available[d] + queued[d] <= InputBuffers
    <3> TAKE d \in Decoders
    <3>1. bufferQueue[d] \in Nat /\ available[d] \in Nat /\ queued[d] \in Nat
      BY <1>1 DEF SafeInv, Types, QueueTypes
    <3>2. Hands(d) \in Nat /\ bufferQueue[d] + available[d] + queued[d] + Hands(d) <= InputBuffers
      BY <1>1 DEF SafeInv, BufferInv, Hands, InHand
    <3> QED
      BY <3>1, <3>2, DecoderAssumption
  <2> QED
    BY <1>1, <2>1, <2>2
       DEF SafeInv, Types, ServiceTypes, QueueTypes, ThreadTypes, TypeOK
<1> QED
  BY <1>1, DecoderIsSafe, PTL

(* NeverBothWait (VideoDecoder.tla): feedLock "prevents the race where     *)
(* both queues hold items that never meet", for any number of decoders and *)
(* whoever submits, stops or starts one.                                   *)
THEOREM QueuesNeverBothWait == Spec => []NeverBothWait
<1>1. SafeInv => NeverBothWait
  BY DEF SafeInv, MeetInv, NeverBothWait
<1> QED
  BY <1>1, DecoderIsSafe, PTL

-----------------------------------------------------------------------------
(* The order of the NAL units.                                             *)

(* A place is a number.                                                    *)
LEMMA Places ==
  ASSUME Types, NEW e \in Decoders
  PROVE  /\ received \in Nat /\ lastFed[e] \in Nat
         /\ \A nal \in NALs : nal.place \in Nat
         /\ \A k \in DOMAIN nalQueue[e] : nalQueue[e][k] \in NALs /\ nalQueue[e][k].place \in Nat
<1>1. Len(Stream) \in Nat
  BY DecoderAssumption, LenProperties
<1>2. received \in Nat /\ lastFed[e] \in Nat
  BY <1>1 DEF Types, ServiceTypes, QueueTypes
<1>3. \A nal \in NALs : nal.place \in Nat
  BY <1>1 DEF NALs
<1>4. nalQueue[e] \in Seq(NALs)
  BY DEF Types, QueueTypes
<1>5. \A k \in DOMAIN nalQueue[e] : nalQueue[e][k] \in NALs
  BY <1>4, LenProperties
<1> QED
  BY <1>2, <1>3, <1>5

(* The order in one decoder, and what keeps it.                            *)
LEMMA OrderStays ==
  ASSUME Types, Types', NEW e \in Decoders, Ordered(e), lastFed'[e] = lastFed[e],
         nalQueue'[e] = nalQueue[e], received <= received',
         \/ thread'[Callback(e)] = thread[Callback(e)]
         \/ thread'[Callback(e)].step # "act" \/ thread'[Callback(e)].nal = NoNAL
  PROVE  Ordered(e)'
<1>1. received \in Nat /\ received' \in Nat /\ lastFed[e] \in Nat
  BY DecoderAssumption, LenProperties DEF Types, ServiceTypes, QueueTypes
<1>2. \A k \in DOMAIN nalQueue[e] : nalQueue[e][k].place \in Nat
  BY Places
<1>3. \A nal \in NALs \cup {NoNAL} : nal # NoNAL => nal.place \in Nat
  BY Places
<1>4. thread[Callback(e)].nal \in NALs \cup {NoNAL}
  BY DistinctThreads DEF Types, ThreadTypes
<1> QED
  BY <1>1, <1>2, <1>3, <1>4 DEF Ordered

(* The order is kept in every decoder.                                     *)
LEMMA OrderInvStep ==
  ASSUME SafeInv, OrderInv, [Next]_vars
  PROVE  OrderInv'
<1> USE DEF vars, serviceVars, uiVars, queueVars, codecVars, fedVars, threadVars
<1>0. Types /\ SubmitInv /\ CallbackInv /\ LockInv /\ Exclusion /\ MeetInv /\ Types'
  BY SafeInvStep DEF SafeInv
<1>1. CASE ReceiveNAL
  <2> SUFFICES ASSUME NEW e \in Decoders PROVE Ordered(e)'
    BY DEF OrderInv
  <2>1. received <= received'
    BY <1>0, DecoderAssumption, <1>1 DEF ReceiveNAL, Becomes, At, Types, ServiceTypes
  <2>2. lastFed'[e] = lastFed[e] /\ nalQueue'[e] = nalQueue[e]
    BY <1>1 DEF ReceiveNAL, Becomes, At
  <2>3. thread'[Callback(e)] = thread[Callback(e)] \/ thread'[Callback(e)].step # "act"
    BY <1>0, DistinctThreads, <1>1
       DEF ReceiveNAL, Becomes, At, Types, ThreadTypes, Idle, At
  <2> QED
    BY <2>1, <2>2, <2>3, OrderStays, <1>0 DEF OrderInv
<1>2. CASE SubmitNAL
  <2> SUFFICES ASSUME NEW e \in Decoders PROVE Ordered(e)'
    BY DEF OrderInv
  <2>1. received <= received'
    BY <1>0, DecoderAssumption, <1>2
       DEF SubmitNAL, Becomes, At, Idle, Accepts, Types, ServiceTypes
  <2>2. lastFed'[e] = lastFed[e] /\ nalQueue'[e] = nalQueue[e]
    BY <1>2 DEF SubmitNAL, Becomes, At, Idle, Accepts
  <2>3. thread'[Callback(e)] = thread[Callback(e)] \/ thread'[Callback(e)].step # "act"
    BY <1>0, DistinctThreads, <1>2
       DEF SubmitNAL, Becomes, At, Idle, Accepts, Types, ThreadTypes, Idle, At
  <2> QED
    BY <2>1, <2>2, <2>3, OrderStays, <1>0 DEF OrderInv
<1>3. ASSUME NEW t \in {Receiver, Ui}, PollBuffer(t) PROVE OrderInv'
  <2> SUFFICES ASSUME NEW e \in Decoders PROVE Ordered(e)'
    BY DEF OrderInv
  <2>1. received <= received'
    BY <1>0, DecoderAssumption, <1>3
       DEF PollBuffer, TakeLock, Becomes, At, Types, ServiceTypes
  <2>2. lastFed'[e] = lastFed[e] /\ nalQueue'[e] = nalQueue[e]
    BY <1>3 DEF PollBuffer, TakeLock, Becomes, At
  <2>3. thread'[Callback(e)] = thread[Callback(e)] \/ thread'[Callback(e)].step # "act"
    BY <1>0, DistinctThreads, OnlyOneBecomes, <1>3
       DEF PollBuffer, TakeLock, Becomes, At, Types, ThreadTypes, Idle, At
  <2> QED
    BY <2>1, <2>2, <2>3, OrderStays, <1>0 DEF OrderInv
<1>4. ASSUME NEW t \in Threads, Fed(t) PROVE OrderInv'
  <2> SUFFICES ASSUME NEW e \in Decoders PROVE Ordered(e)'
    BY DEF OrderInv
  <2> DEFINE d == thread[t].decoder
            nal == thread[t].nal
  <2>1. d \in Decoders /\ nal \in NALs /\ nal.place \in Nat
    BY Holder, <1>0, <1>4 DEF Fed, Released, NALs
  <2>2. CASE e # d
    <3>1. lastFed'[e] = lastFed[e] /\ nalQueue'[e] = nalQueue[e] /\ received' = received
      BY <1>0, <2>1, <2>2, <1>4 DEF Fed, Released, Feed, Becomes, Types, QueueTypes
    <3>2. thread'[Callback(e)] = thread[Callback(e)] \/ thread'[Callback(e)].step # "act"
      BY <1>0, DistinctThreads, <1>4
         DEF Fed, Released, Feed, Becomes, Types, ThreadTypes, Idle, At
    <3>3. received <= received'
      BY <1>0, <3>1, DecoderAssumption DEF Types, ServiceTypes
    <3> QED
      BY <3>1, <3>2, <3>3, OrderStays, <1>0 DEF OrderInv
  <2>3. received \in Nat /\ lastFed[d] \in Nat /\ \A k \in DOMAIN nalQueue[d] : nalQueue[d][k].place \in Nat
    BY <1>0, <2>1, Places
  <2>4. CASE e = d
    <3>1. /\ lastFed'[d] = IF nal.place = 0 THEN lastFed[d] ELSE nal.place
          /\ nalQueue' = nalQueue /\ received' = received
      BY <1>0, <2>1, <1>4 DEF Fed, Released, Feed, Becomes, Types, QueueTypes
    <3>2. thread'[Callback(d)].step # "act"
      <4>1. t = Callback(d) \/ thread[Callback(d)].step # "act"
        BY <1>0, <2>1, Alone, DistinctThreads, <1>4 DEF Fed, Released, CallbackInv
      <4>2. t = Callback(d) => thread'[Callback(d)] = Idle
        BY <1>0, OnlyOneBecomes, <1>4 DEF Fed, Released
      <4>3. t # Callback(d) => thread'[Callback(d)] = thread[Callback(d)]
        BY <1>0, <2>1, OnlyOneBecomes, DistinctThreads, <1>4 DEF Fed, Released
      <4> QED
        BY <4>1, <4>2, <4>3 DEF Idle, At
    <3>3. nal.place # 0 =>
            /\ lastFed[d] <= nal.place /\ nal.place <= received
            /\ \A k \in DOMAIN nalQueue[d] :
                  nalQueue[d][k].place # 0 => nal.place <= nalQueue[d][k].place
      <4>1. CASE t = Receiver
        <5>1. nal.place = received /\ nalQueue[d] = <<>> /\ lastFed[d] <= received
          BY <1>0, <2>1, <4>1, <1>4
             DEF Fed, Released, SubmitInv, MeetInv, OrderInv, Ordered
        <5> QED
          BY <5>1, <2>3
      <4>2. CASE t = Ui
        BY <1>0, <4>2, <1>4 DEF Fed, Released, SubmitInv
      <4>3. CASE t = Callback(d)
        BY <2>1, <4>3, <1>4 DEF Fed, Released, OrderInv, Ordered
      <4>4. \A c \in Decoders : t = Callback(c) => c = d
        BY <1>0, <2>1, <1>4 DEF Fed, Released, CallbackInv
      <4>5. t \in {Receiver, Ui} \/ t = Callback(d)
        BY <4>4, DistinctThreads
      <4> QED
        BY <4>1, <4>2, <4>3, <4>5
    <3> QED
      BY <2>1, <2>3, <2>4, <3>1, <3>2, <3>3 DEF OrderInv, Ordered
  <2> QED
    BY <2>2, <2>4
<1>5. ASSUME NEW t \in Threads, FeedLost(t) PROVE OrderInv'
  <2> SUFFICES ASSUME NEW e \in Decoders PROVE Ordered(e)'
    BY DEF OrderInv
  <2>1. received <= received'
    BY <1>0, DecoderAssumption, <1>5
       DEF FeedLost, Released, FeedFails, Becomes, Types, ServiceTypes
  <2>2. lastFed'[e] = lastFed[e] /\ nalQueue'[e] = nalQueue[e]
    BY <1>5 DEF FeedLost, Released, FeedFails, Becomes
  <2>3. thread'[Callback(e)] = thread[Callback(e)] \/ thread'[Callback(e)].step # "act"
    BY <1>0, DistinctThreads, <1>5
       DEF FeedLost, Released, FeedFails, Becomes, Types, ThreadTypes, Idle, At
  <2> QED
    BY <2>1, <2>2, <2>3, OrderStays, <1>0 DEF OrderInv
<1>6. ASSUME NEW t \in Threads, NALKept(t) PROVE OrderInv'
  <2> SUFFICES ASSUME NEW e \in Decoders PROVE Ordered(e)'
    BY DEF OrderInv
  <2> DEFINE d == thread[t].decoder
            nal == thread[t].nal
            queue == nalQueue[d]
  <2>1. d \in Decoders /\ nal \in NALs /\ nal.place \in Nat
    BY Holder, <1>0, <1>6 DEF NALKept, Released, NALs
  <2>2. CASE e # d
    <3>1. lastFed'[e] = lastFed[e] /\ nalQueue'[e] = nalQueue[e] /\ received' = received
      BY <1>0, <2>1, <2>2, <1>6
         DEF NALKept, Released, OfferNAL, Becomes, Types, QueueTypes
    <3>2. thread'[Callback(e)] = thread[Callback(e)] \/ thread'[Callback(e)].step # "act"
      BY <1>0, DistinctThreads, <1>6
         DEF NALKept, Released, OfferNAL, Becomes, Types, ThreadTypes, Idle, At
    <3>3. received <= received'
      BY <1>0, <3>1, DecoderAssumption DEF Types, ServiceTypes
    <3> QED
      BY <3>1, <3>2, <3>3, OrderStays, <1>0 DEF OrderInv
  <2>3. received \in Nat /\ lastFed[d] \in Nat /\ \A k \in DOMAIN nalQueue[d] : nalQueue[d][k].place \in Nat
    BY <1>0, <2>1, Places
  <2>4. CASE e = d
    <3>1. nalQueue'[d] = Append(queue, nal) /\ lastFed' = lastFed /\ received' = received
      BY <1>0, <2>1, <1>6 DEF NALKept, Released, OfferNAL, Becomes, Types, QueueTypes
    <3>2. queue \in Seq(NALs) /\ Len(queue) \in Nat /\ DOMAIN queue = 1 .. Len(queue)
      BY <1>0, <2>1, LenProperties DEF Types, QueueTypes
    <3>3. /\ DOMAIN Append(queue, nal) = 1 .. Len(queue) + 1
          /\ \A k \in 1 .. Len(queue) : Append(queue, nal)[k] = queue[k]
          /\ Append(queue, nal)[Len(queue) + 1] = nal
      BY <2>1, <3>2, AppendProperties, LenProperties
    <3>4. t \in {Receiver, Ui} /\ (nal.place # 0 => nal.place = received)
      BY <1>0, DistinctThreads, <1>6 DEF NALKept, Released, CallbackInv, SubmitInv
    <3>5. thread'[Callback(d)].step # "act"
      <4>1. t # Callback(d) /\ Callback(d) \in Threads
        BY <2>1, <3>4, DistinctThreads
      <4>2. thread[Callback(d)].step # "act"
        BY <2>1, <4>1, Alone, <1>0, <1>6 DEF NALKept, Released, CallbackInv
      <4> QED
        BY <1>0, <4>1, <4>2, OnlyOneBecomes, <1>6 DEF NALKept, Released
    <3>6. /\ lastFed[d] <= received
          /\ \A k \in 1 .. Len(queue) :
                /\ queue[k].place <= received
                /\ queue[k].place # 0 => lastFed[d] <= queue[k].place
          /\ \A j, k \in 1 .. Len(queue) :
                j < k /\ queue[j].place # 0 /\ queue[k].place # 0 =>
                   queue[j].place <= queue[k].place
      BY <2>1, <3>2 DEF OrderInv, Ordered
    <3>7. \A k \in 1 .. Len(queue) + 1 : k \in 1 .. Len(queue) \/ k = Len(queue) + 1
      BY <3>2
    <3>8. \A j, k \in 1 .. Len(queue) + 1 : j < k => j \in 1 .. Len(queue)
      BY <3>2
    <3> DEFINE longer == Append(queue, nal)
    <3>9. \A k \in 1 .. Len(queue) + 1 :
             /\ longer[k].place <= received
             /\ longer[k].place # 0 => lastFed[d] <= longer[k].place
      <4> TAKE k \in 1 .. Len(queue) + 1
      <4>1. CASE k \in 1 .. Len(queue)
        BY <3>3, <3>6, <4>1
      <4>2. CASE k = Len(queue) + 1
        <5>1. nal.place <= received
          BY <2>1, <2>3, <3>4
        <5>2. nal.place # 0 => lastFed[d] <= nal.place
          BY <3>4, <3>6
        <5>3. longer[k] = nal
          BY <3>3, <4>2
        <5> QED
          BY <5>1, <5>2, <5>3
      <4> QED
        BY <3>7, <4>1, <4>2
    <3>10. \A j, k \in 1 .. Len(queue) + 1 :
              j < k /\ longer[j].place # 0 /\ longer[k].place # 0 =>
                 longer[j].place <= longer[k].place
      <4> TAKE j, k \in 1 .. Len(queue) + 1
      <4> HAVE j < k /\ longer[j].place # 0 /\ longer[k].place # 0
      <4>1. CASE k \in 1 .. Len(queue)
        BY <3>3, <3>6, <3>8, <4>1
      <4>2. CASE k = Len(queue) + 1
        BY <2>1, <2>3, <3>3, <3>4, <3>6, <3>8, <4>2
      <4> QED
        BY <3>7, <4>1, <4>2
    <3>11. DOMAIN longer = 1 .. Len(queue) + 1 /\ nalQueue'[d] = longer
      BY <3>1, <3>3
    <3> HIDE DEF longer
    <3> QED
      BY <2>4, <3>1, <3>5, <3>6, <3>9, <3>10, <3>11 DEF Ordered
  <2> QED
    BY <2>2, <2>4
<1>7. ASSUME NEW t \in Threads, BufferKept(t) PROVE OrderInv'
  <2> SUFFICES ASSUME NEW e \in Decoders PROVE Ordered(e)'
    BY DEF OrderInv
  <2>1. received <= received'
    BY <1>0, DecoderAssumption, <1>7
       DEF BufferKept, Released, OfferBuffer, KeepBuffer, Becomes, Types, ServiceTypes
  <2>2. lastFed'[e] = lastFed[e] /\ nalQueue'[e] = nalQueue[e]
    BY <1>7 DEF BufferKept, Released, OfferBuffer, KeepBuffer, Becomes
  <2>3. thread'[Callback(e)] = thread[Callback(e)] \/ thread'[Callback(e)].step # "act"
    BY <1>0, DistinctThreads, <1>7
       DEF BufferKept, Released, OfferBuffer, KeepBuffer, Becomes, Types, ThreadTypes,
        Idle, At
  <2> QED
    BY <2>1, <2>2, <2>3, OrderStays, <1>0 DEF OrderInv
<1>8. ASSUME NEW d \in Decoders, InputBufferAvailable(d) PROVE OrderInv'
  <2> SUFFICES ASSUME NEW e \in Decoders PROVE Ordered(e)'
    BY DEF OrderInv
  <2>1. received <= received'
    BY <1>0, DecoderAssumption, <1>8
       DEF InputBufferAvailable, Becomes, At, Types, ServiceTypes
  <2>2. lastFed'[e] = lastFed[e] /\ nalQueue'[e] = nalQueue[e]
    BY <1>8 DEF InputBufferAvailable, Becomes, At
  <2>3. thread'[Callback(e)] = thread[Callback(e)] \/ thread'[Callback(e)].step # "act"
    BY <1>0, DistinctThreads, <1>8
       DEF InputBufferAvailable, Becomes, At, Types, ThreadTypes, Idle, At
  <2> QED
    BY <2>1, <2>2, <2>3, OrderStays, <1>0 DEF OrderInv
<1>9. ASSUME NEW d \in Decoders, PollNAL(d) PROVE OrderInv'
  <2> SUFFICES ASSUME NEW e \in Decoders PROVE Ordered(e)'
    BY DEF OrderInv
  <2> DEFINE queue == nalQueue[d]
            rest == RemoveAt(queue, 1)
  <2>1. lastFed' = lastFed /\ received' = received
    BY <1>9 DEF PollNAL
  <2>2. CASE e # d \/ queue = <<>>
    <3>1. nalQueue'[e] = nalQueue[e]
      BY <1>0, <2>2, <1>9 DEF PollNAL, TakeLock, Oldest, Becomes, At, Types, QueueTypes
    <3>2. \/ thread'[Callback(e)] = thread[Callback(e)]
          \/ thread'[Callback(e)].nal = NoNAL
      BY <1>0, <2>2, DistinctThreads, <1>9
         DEF PollNAL, TakeLock, Oldest, Becomes, At, Types, ThreadTypes
    <3>3. received <= received'
      BY <1>0, <2>1, DecoderAssumption DEF Types, ServiceTypes
    <3> QED
      BY <2>1, <3>1, <3>2, <3>3, OrderStays, <1>0 DEF OrderInv
  <2>3. CASE e = d /\ queue # <<>>
    <3>1. nalQueue'[d] = rest /\ thread'[Callback(d)] = At("act", d, queue[1], TRUE)
      BY <1>0, <2>3, DistinctThreads, <1>9
         DEF PollNAL, TakeLock, Oldest, Becomes, At, Types, QueueTypes, ThreadTypes
    <3>2. queue \in Seq(NALs) /\ Len(queue) \in Nat \ {0} /\ DOMAIN queue = 1 .. Len(queue)
      BY <1>0, <2>3, LenProperties, EmptySeq DEF Types, QueueTypes
    <3>3. /\ DOMAIN rest = 1 .. Len(queue) - 1
          /\ \A k \in DOMAIN rest : rest[k] = queue[k + 1] /\ k + 1 \in DOMAIN queue
      <4>1. rest \in Seq(NALs) /\ Len(rest) = Len(queue) - 1
        BY <2>3, <3>2, RemoveOldest
      <4>2. DOMAIN rest = 1 .. Len(queue) - 1
        BY <4>1, LenProperties
      <4> QED
        BY <2>3, <3>2, <4>2, RemoveOldest
    <3>4. 1 \in DOMAIN queue /\ \A k \in DOMAIN rest : 1 < k + 1
      BY <3>2, <3>3
    <3>5. \A j, k \in DOMAIN rest : j < k => j + 1 < k + 1
      BY <3>2, <3>3
    <3>6. /\ lastFed[d] <= received
          /\ \A k \in DOMAIN queue :
                /\ queue[k].place <= received
                /\ queue[k].place # 0 => lastFed[d] <= queue[k].place
          /\ \A j, k \in DOMAIN queue :
                j < k /\ queue[j].place # 0 /\ queue[k].place # 0 =>
                   queue[j].place <= queue[k].place
      BY DEF OrderInv, Ordered
    <3>7. thread'[Callback(d)].nal = queue[1]
      BY <3>1 DEF At
    <3> HIDE DEF queue, rest
    <3>8. \A k \in DOMAIN rest :
             /\ rest[k].place <= received
             /\ rest[k].place # 0 => lastFed[d] <= rest[k].place
             /\ rest[k].place # 0 /\ queue[1].place # 0 => queue[1].place <= rest[k].place
      BY <3>3, <3>4, <3>6
    <3>9. \A j, k \in DOMAIN rest :
             j < k /\ rest[j].place # 0 /\ rest[k].place # 0 => rest[j].place <= rest[k].place
      BY <3>3, <3>5, <3>6
    <3>10. queue[1].place # 0 => lastFed[d] <= queue[1].place /\ queue[1].place <= received
      BY <3>4, <3>6
    <3> QED
      BY <2>1, <2>3, <3>1, <3>6, <3>7, <3>8, <3>9, <3>10 DEF Ordered
  <2> QED
    BY <2>2, <2>3
<1>10. ASSUME NEW d \in Decoders, Decode(d) PROVE OrderInv'
  <2> SUFFICES ASSUME NEW e \in Decoders PROVE Ordered(e)'
    BY DEF OrderInv
  <2>1. received <= received'
    BY <1>0, DecoderAssumption, <1>10 DEF Decode, Types, ServiceTypes
  <2>2. lastFed'[e] = lastFed[e] /\ nalQueue'[e] = nalQueue[e]
    BY <1>10 DEF Decode
  <2>3. thread'[Callback(e)] = thread[Callback(e)] \/ thread'[Callback(e)].step # "act"
    BY <1>0, DistinctThreads, <1>10 DEF Decode, Types, ThreadTypes, Idle, At
  <2> QED
    BY <2>1, <2>2, <2>3, OrderStays, <1>0 DEF OrderInv
<1>11. CASE SurfaceCreated
  <2> SUFFICES ASSUME NEW e \in Decoders PROVE Ordered(e)'
    BY DEF OrderInv
  <2>1. received <= received'
    BY <1>0, DecoderAssumption, <1>11 DEF SurfaceCreated, Types, ServiceTypes
  <2>2. lastFed'[e] = lastFed[e] /\ nalQueue'[e] = nalQueue[e]
    BY <1>11 DEF SurfaceCreated
  <2>3. thread'[Callback(e)] = thread[Callback(e)] \/ thread'[Callback(e)].step # "act"
    BY <1>0, DistinctThreads, <1>11 DEF SurfaceCreated, Types, ThreadTypes, Idle, At
  <2> QED
    BY <2>1, <2>2, <2>3, OrderStays, <1>0 DEF OrderInv
<1>12. CASE PublishDecoder
  <2> SUFFICES ASSUME NEW e \in Decoders PROVE Ordered(e)'
    BY DEF OrderInv
  <2>1. received <= received'
    BY <1>0, DecoderAssumption, <1>12 DEF PublishDecoder, Types, ServiceTypes
  <2>2. lastFed'[e] = lastFed[e] /\ nalQueue'[e] = nalQueue[e]
    BY <1>12 DEF PublishDecoder
  <2>3. thread'[Callback(e)] = thread[Callback(e)] \/ thread'[Callback(e)].step # "act"
    BY <1>0, DistinctThreads, <1>12 DEF PublishDecoder, Types, ThreadTypes, Idle, At
  <2> QED
    BY <2>1, <2>2, <2>3, OrderStays, <1>0 DEF OrderInv
<1>13. ASSUME NEW kind \in Config, NEW next \in {"pps", "surface"}, Inject(kind, next) PROVE OrderInv'
  <2> SUFFICES ASSUME NEW e \in Decoders PROVE Ordered(e)'
    BY DEF OrderInv
  <2>1. received <= received'
    BY <1>0, DecoderAssumption, <1>13 DEF Inject, Becomes, At, Types, ServiceTypes
  <2>2. lastFed'[e] = lastFed[e] /\ nalQueue'[e] = nalQueue[e]
    BY <1>13 DEF Inject, Becomes, At
  <2>3. thread'[Callback(e)] = thread[Callback(e)] \/ thread'[Callback(e)].step # "act"
    BY <1>0, DistinctThreads, <1>13
       DEF Inject, Becomes, At, Types, ThreadTypes, Idle, At
  <2> QED
    BY <2>1, <2>2, <2>3, OrderStays, <1>0 DEF OrderInv
<1>14. CASE SurfaceDestroyed
  <2> SUFFICES ASSUME NEW e \in Decoders PROVE Ordered(e)'
    BY DEF OrderInv
  <2>1. received <= received'
    BY <1>0, DecoderAssumption, <1>14 DEF SurfaceDestroyed, Types, ServiceTypes
  <2>2. lastFed'[e] = lastFed[e] /\ nalQueue'[e] = nalQueue[e]
    BY <1>14 DEF SurfaceDestroyed
  <2>3. thread'[Callback(e)] = thread[Callback(e)] \/ thread'[Callback(e)].step # "act"
    BY <1>0, DistinctThreads, <1>14 DEF SurfaceDestroyed, Types, ThreadTypes, Idle, At
  <2> QED
    BY <2>1, <2>2, <2>3, OrderStays, <1>0 DEF OrderInv
<1>15. CASE ClearNALs
  <2> SUFFICES ASSUME NEW e \in Decoders PROVE Ordered(e)'
    BY DEF OrderInv
  <2>1. lastFed' = lastFed /\ received' = received /\ thread' = thread
    BY <1>15 DEF ClearNALs
  <2>2. nalQueue'[e] = nalQueue[e] \/ DOMAIN nalQueue'[e] = {}
    BY <1>0, <1>15 DEF ClearNALs, Types, QueueTypes
  <2> QED
    BY <2>1, <2>2 DEF OrderInv, Ordered
<1>16. CASE ClearBuffers
  <2> SUFFICES ASSUME NEW e \in Decoders PROVE Ordered(e)'
    BY DEF OrderInv
  <2>1. received <= received'
    BY <1>0, DecoderAssumption, <1>16 DEF ClearBuffers, Unpublished, Types, ServiceTypes
  <2>2. lastFed'[e] = lastFed[e] /\ nalQueue'[e] = nalQueue[e]
    BY <1>16 DEF ClearBuffers, Unpublished
  <2>3. thread'[Callback(e)] = thread[Callback(e)] \/ thread'[Callback(e)].step # "act"
    BY <1>0, DistinctThreads, <1>16
       DEF ClearBuffers, Unpublished, Types, ThreadTypes, Idle, At
  <2> QED
    BY <2>1, <2>2, <2>3, OrderStays, <1>0 DEF OrderInv
<1>17. CASE OnServiceConnected \/ Disconnect \/ UNCHANGED vars
  BY <1>17 DEF OnServiceConnected, Disconnect, OrderInv, Ordered
<1>18. CASE ForgetCodec
  <2> SUFFICES ASSUME NEW e \in Decoders PROVE Ordered(e)'
    BY DEF OrderInv
  <2>1. lastFed' = lastFed /\ received' = received /\ thread' = thread
    BY <1>18 DEF ForgetCodec
  <2>2. nalQueue'[e] = nalQueue[e] \/ DOMAIN nalQueue'[e] = {}
    BY <1>0, <1>18 DEF ForgetCodec, Types, QueueTypes
  <2> QED
    BY <2>1, <2>2 DEF OrderInv, Ordered
<1> QED
  BY StepCases, <1>1, <1>2, <1>3, <1>4, <1>5, <1>6, <1>7, <1>8, <1>9, <1>10, <1>11,
     <1>12, <1>13, <1>14, <1>15, <1>16, <1>17, <1>18

(* FedInOrder (VideoDecoder.tla): whichever of the two threads feeds the   *)
(* codec, and however the queues were between, a codec never gets a NAL    *)
(* unit of the stream after a later one (submitNAL and                     *)
(* onInputBufferAvailable of VideoDecoder.kt).                             *)
THEOREM NALsFedInOrder == Spec => FedInOrder
<1>1. Init => OrderInv
  <2> SUFFICES ASSUME Init PROVE OrderInv
    OBVIOUS
  <2>1. \A d \in Decoders : nalQueue[d] = <<>> /\ lastFed[d] = 0 /\ received = 0
    BY DEF Init
  <2>2. \A d \in Decoders : thread[Callback(d)].step # "act"
    BY DistinctThreads DEF Init, Idle, At
  <2> QED
    BY <2>1, <2>2 DEF OrderInv, Ordered
<1>2. SafeInv /\ OrderInv /\ [Next]_vars => OrderInv'
  BY OrderInvStep
<1>3. ASSUME SafeInv, OrderInv, [Next]_vars
      PROVE  \A d \in Decoders : lastFed[d] <= lastFed'[d]
  <2> SUFFICES ASSUME NEW e \in Decoders PROVE lastFed[e] <= lastFed'[e]
    OBVIOUS
  <2>0. Types /\ SubmitInv /\ CallbackInv /\ LockInv /\ Exclusion /\ MeetInv
    BY <1>3 DEF SafeInv
  <2>1. lastFed[e] \in Nat /\ received \in Nat /\ lastFed[e] <= received
    BY <1>3, <2>0, Places DEF OrderInv, Ordered
  <2>2. ASSUME NEW t \in Threads, Fed(t) PROVE lastFed[e] <= lastFed'[e]
    <3> DEFINE d == thread[t].decoder
               nal == thread[t].nal
    <3>1. /\ d \in Decoders /\ nal \in NALs /\ nal # NoNAL /\ thread[t].step = "act"
          /\ lastFed' = [lastFed EXCEPT ![d] = IF nal.place = 0 THEN lastFed[d] ELSE nal.place]
      BY <2>0, <2>2, Holder DEF Fed, Feed, Released
    <3>2. CASE e # d \/ nal.place = 0
      <4>1. lastFed'[e] = lastFed[e]
        BY <2>0, <3>1, <3>2 DEF Types, QueueTypes
      <4> QED
        BY <2>1, <4>1
    <3>3. CASE e = d /\ nal.place # 0
      <4>1. lastFed'[e] = nal.place
        BY <2>0, <3>1, <3>3 DEF Types, QueueTypes
      <4>2. CASE t \in {Receiver, Ui}
        BY <2>0, <2>1, <3>1, <3>3, <4>1, <4>2 DEF SubmitInv
      <4>3. CASE t = Callback(e)
        BY <1>3, <3>1, <3>3, <4>1, <4>3 DEF OrderInv, Ordered
      <4> QED
        BY <2>0, <3>1, <3>3, <4>2, <4>3, DistinctThreads DEF CallbackInv
    <3> QED
      BY <3>2, <3>3
  <2>3. CASE lastFed' = lastFed
    BY <2>1, <2>3
  <2>4. (\E t \in Threads : Fed(t)) \/ lastFed' = lastFed
    BY <1>3, StepCases
       DEF ReceiveNAL, SubmitNAL, PollBuffer, FeedLost, FeedFails, NALKept, OfferNAL,
           BufferKept, OfferBuffer, InputBufferAvailable, PollNAL, Decode,
           SurfaceCreated, PublishDecoder, Inject, SurfaceDestroyed, ForgetCodec,
           ClearNALs, ClearBuffers, OnServiceConnected, Disconnect, vars, fedVars
  <2> QED
    BY <2>2, <2>3, <2>4
<1>4. Spec => [](SafeInv /\ OrderInv)
  BY <1>1, <1>2, DecoderIsSafe, PTL DEF Spec
<1>5. SafeInv /\ OrderInv /\ [Next]_vars => [\A d \in Decoders : lastFed[d] <= lastFed'[d]]_vars
  BY <1>3
<1> QED
  BY <1>4, <1>5, PTL DEF Spec, FedInOrder

-----------------------------------------------------------------------------
(* The lag.                                                                *)

(* The P frames of a queue are at most as many as its NAL units; the       *)
(* queue operations add at most the one appended.                          *)
LEMMA PFramesBound ==
  ASSUME NEW queue \in Seq(NALs)
  PROVE  /\ IsFiniteSet({k \in DOMAIN queue : queue[k].kind = "p"})
         /\ PFrames(queue) \in Nat /\ PFrames(queue) <= Len(queue)
<1>1. Len(queue) \in Nat /\ DOMAIN queue = 1 .. Len(queue)
  BY LenProperties
<1>2. IsFiniteSet(1 .. Len(queue)) /\ Cardinality(1 .. Len(queue)) = Len(queue)
  BY <1>1, FS_Interval
<1>3. {k \in DOMAIN queue : queue[k].kind = "p"} \in SUBSET (1 .. Len(queue))
  <2>1. PICK D : D = DOMAIN queue /\ D = 1 .. Len(queue)
    BY <1>1
  <2>2. {k \in D : queue[k].kind = "p"} \in SUBSET D
    OBVIOUS
  <2> QED
    BY <2>1, <2>2
<1> QED
  BY <1>2, <1>3, FS_Subset, FS_CardinalityType DEF PFrames

\* No P-frames wait in the empty queue.
LEMMA PFramesEmpty ==
  PFrames(<<>>) = 0
<1>1. {k \in DOMAIN <<>> : <<>>[k].kind = "p"} = {}
  OBVIOUS
<1> QED
  BY <1>1, FS_EmptySet DEF PFrames

\* An arriving NAL unit adds one P-frame at most ...
LEMMA PFramesAppend ==
  ASSUME NEW queue \in Seq(NALs), NEW nal \in NALs
  PROVE  PFrames(Append(queue, nal)) <= PFrames(queue) + (IF nal.kind = "p" THEN 1 ELSE 0)
<1> DEFINE longer == Append(queue, nal)
           old == {k \in DOMAIN queue : queue[k].kind = "p"}
           new == {k \in DOMAIN longer : longer[k].kind = "p"}
           last == Len(queue) + 1
<1>1. /\ Len(queue) \in Nat /\ DOMAIN queue = 1 .. Len(queue) /\ DOMAIN longer = 1 .. last
      /\ \A k \in 1 .. Len(queue) : longer[k] = queue[k]
      /\ longer[last] = nal
  BY AppendProperties, LenProperties
<1>2. 1 .. last = (1 .. Len(queue)) \cup {last} /\ last \notin 1 .. Len(queue)
  BY <1>1
<1>3. /\ IsFiniteSet(old) /\ Cardinality(old) \in Nat
      /\ PFrames(queue) = Cardinality(old) /\ PFrames(longer) = Cardinality(new)
  BY PFramesBound DEF PFrames
<1>6. SUFFICES PFrames(longer) <= PFrames(queue) + (IF nal.kind = "p" THEN 1 ELSE 0)
  OBVIOUS
<1> HIDE DEF longer, last
<1>4. CASE nal.kind = "p"
  <2>1. new = old \cup {last}
    BY <1>1, <1>2, <1>4
  <2>2. last \notin old
    BY <1>1, <1>2
  <2>3. Cardinality(new) = Cardinality(old) + 1
    BY <1>3, <2>1, <2>2, FS_AddElement
  <2> QED
    BY <1>3, <1>4, <2>3
<1>5. CASE nal.kind # "p"
  <2>1. new = old
    BY <1>1, <1>2, <1>5
  <2>2. PFrames(longer) = PFrames(queue) /\ PFrames(queue) \in Nat
    BY <1>3, <2>1
  <2> QED
    BY <1>5, <2>2
<1> QED
  BY <1>4, <1>5

\* ... and taking the first one out adds none.
LEMMA PFramesRemove ==
  ASSUME NEW queue \in Seq(NALs), queue # <<>>
  PROVE  PFrames(RemoveAt(queue, 1)) <= PFrames(queue)
<1> DEFINE rest == RemoveAt(queue, 1)
           old == {k \in DOMAIN queue : queue[k].kind = "p"}
           new == {k \in DOMAIN rest : rest[k].kind = "p"}
           f == [k \in new |-> k + 1]
<1>1. /\ Len(queue) \in Nat \ {0} /\ DOMAIN queue = 1 .. Len(queue)
      /\ DOMAIN rest = 1 .. Len(queue) - 1
      /\ \A k \in 1 .. Len(queue) - 1 : rest[k] = queue[k + 1] /\ k + 1 \in 1 .. Len(queue)
  BY RemoveOldest, LenProperties, EmptySeq
<1>2. IsFiniteSet(old)
  BY PFramesBound
<1> HIDE DEF rest
<1>3. f \in [new -> old]
  BY <1>1
<1>4. \A j, k \in new : f[j] = f[k] => j = k
  BY <1>1
<1>5. f \in Injection(new, old)
  BY <1>3, <1>4 DEF Injection, IsInjective
<1>6. Cardinality(new) <= Cardinality(old)
  BY <1>2, <1>5, FS_Injection
<1> QED
  BY <1>6 DEF PFrames, rest

(* The P frames of a decoder's queue, while nobody submits one more.       *)
LEMMA LagStays ==
  ASSUME Types, NEW e \in Decoders, LagInv,
         PFrames(nalQueue'[e]) <= PFrames(nalQueue[e]), PFrames(nalQueue'[e]) \in Nat,
         Submitting(e)' => Submitting(e)
  PROVE  PFrames(nalQueue'[e]) <= IF Submitting(e)' THEN MaxQueueDepth ELSE MaxQueueDepth + 1
<1>1. PFrames(nalQueue[e]) \in Nat
  BY PFramesBound DEF Types, QueueTypes
<1>2. MaxQueueDepth \in Nat
  BY DecoderAssumption
<1>3. PFrames(nalQueue[e]) <= IF Submitting(e) THEN MaxQueueDepth ELSE MaxQueueDepth + 1
  BY DEF LagInv
<1> QED
  BY <1>1, <1>2, <1>3

(* At most one P frame too many, and none while one is on its way.         *)
LEMMA LagInvStep ==
  ASSUME SafeInv, LagInv, [Next]_vars
  PROVE  LagInv'
<1> USE DEF vars, serviceVars, uiVars, queueVars, codecVars, fedVars, threadVars
<1>0. Types /\ SubmitInv /\ CallbackInv /\ Types' /\ LagInv
  BY SafeInvStep DEF SafeInv
<1>1. CASE ReceiveNAL
  <2> SUFFICES ASSUME NEW e \in Decoders
               PROVE  PFrames(nalQueue'[e]) <=
                         IF Submitting(e)' THEN MaxQueueDepth ELSE MaxQueueDepth + 1
    BY DEF LagInv
  <2>1. /\ PFrames(nalQueue[e]) \in Nat /\ PFrames(nalQueue'[e]) \in Nat
        /\ PFrames(nalQueue[e]) <= Len(nalQueue[e]) /\ Len(nalQueue[e]) \in Nat
    BY <1>0, PFramesBound, LenProperties DEF Types, QueueTypes
  <2>2. nalQueue'[e] = nalQueue[e]
    BY <1>1 DEF ReceiveNAL, Becomes, At
  <2>3. Submitting(e)' => Submitting(e)
    BY <1>0, DistinctThreads, <1>1
       DEF ReceiveNAL, Becomes, At, Submitting, Types, ThreadTypes, Idle, At
  <2> QED
    BY <1>0, <2>1, <2>2, <2>3, LagStays
<1>2. CASE SubmitNAL
  <2> SUFFICES ASSUME NEW e \in Decoders
               PROVE  PFrames(nalQueue'[e]) <=
                         IF Submitting(e)' THEN MaxQueueDepth ELSE MaxQueueDepth + 1
    BY DEF LagInv
  <2>1. /\ PFrames(nalQueue[e]) \in Nat /\ PFrames(nalQueue'[e]) \in Nat
        /\ PFrames(nalQueue[e]) <= Len(nalQueue[e]) /\ Len(nalQueue[e]) \in Nat
    BY <1>0, PFramesBound, LenProperties DEF Types, QueueTypes
  <2>2. nalQueue'[e] = nalQueue[e]
    BY <1>2 DEF SubmitNAL
  <2>3. Submitting(e)' => ~Full(e)
    BY <1>0, DistinctThreads, <1>2
       DEF SubmitNAL, Becomes, Submitting, Accepts, Types, ThreadTypes, Idle, At
  <2>4. ~Submitting(e)
    BY <1>2 DEF SubmitNAL, Submitting
  <2>5. MaxQueueDepth \in Nat /\ PFrames(nalQueue[e]) <= MaxQueueDepth + 1
    BY <2>4, DecoderAssumption DEF LagInv
  <2> QED
    BY <2>1, <2>2, <2>3, <2>5 DEF Full
<1>3. ASSUME NEW t \in {Receiver, Ui}, PollBuffer(t) PROVE LagInv'
  <2> SUFFICES ASSUME NEW e \in Decoders
               PROVE  PFrames(nalQueue'[e]) <=
                         IF Submitting(e)' THEN MaxQueueDepth ELSE MaxQueueDepth + 1
    BY DEF LagInv
  <2>1. /\ PFrames(nalQueue[e]) \in Nat /\ PFrames(nalQueue'[e]) \in Nat
        /\ PFrames(nalQueue[e]) <= Len(nalQueue[e]) /\ Len(nalQueue[e]) \in Nat
    BY <1>0, PFramesBound, LenProperties DEF Types, QueueTypes
  <2>2. nalQueue'[e] = nalQueue[e]
    BY <1>3 DEF PollBuffer, TakeLock, Becomes, At
  <2>3. Submitting(e)' => Submitting(e)
    BY <1>0, DistinctThreads, PollOutcome, OnlyOneBecomes, <1>3
       DEF PollBuffer, TakeLock, Becomes, At, Submitting, Types, ThreadTypes, Idle, At
  <2> QED
    BY <1>0, <2>1, <2>2, <2>3, LagStays
<1>4. ASSUME NEW t \in Threads, Fed(t) PROVE LagInv'
  <2> SUFFICES ASSUME NEW e \in Decoders
               PROVE  PFrames(nalQueue'[e]) <=
                         IF Submitting(e)' THEN MaxQueueDepth ELSE MaxQueueDepth + 1
    BY DEF LagInv
  <2>1. /\ PFrames(nalQueue[e]) \in Nat /\ PFrames(nalQueue'[e]) \in Nat
        /\ PFrames(nalQueue[e]) <= Len(nalQueue[e]) /\ Len(nalQueue[e]) \in Nat
    BY <1>0, PFramesBound, LenProperties DEF Types, QueueTypes
  <2>2. nalQueue'[e] = nalQueue[e]
    BY <1>4 DEF Fed, Released, Feed, Becomes
  <2>3. Submitting(e)' => Submitting(e)
    BY <1>0, DistinctThreads, <1>4
       DEF Fed, Released, Feed, Becomes, Submitting, Types, ThreadTypes, Idle, At
  <2> QED
    BY <1>0, <2>1, <2>2, <2>3, LagStays
<1>5. ASSUME NEW t \in Threads, FeedLost(t) PROVE LagInv'
  <2> SUFFICES ASSUME NEW e \in Decoders
               PROVE  PFrames(nalQueue'[e]) <=
                         IF Submitting(e)' THEN MaxQueueDepth ELSE MaxQueueDepth + 1
    BY DEF LagInv
  <2>1. /\ PFrames(nalQueue[e]) \in Nat /\ PFrames(nalQueue'[e]) \in Nat
        /\ PFrames(nalQueue[e]) <= Len(nalQueue[e]) /\ Len(nalQueue[e]) \in Nat
    BY <1>0, PFramesBound, LenProperties DEF Types, QueueTypes
  <2>2. nalQueue'[e] = nalQueue[e]
    BY <1>5 DEF FeedLost, Released, FeedFails, Becomes
  <2>3. Submitting(e)' => Submitting(e)
    BY <1>0, DistinctThreads, <1>5
       DEF FeedLost, Released, FeedFails, Becomes, Submitting, Types, ThreadTypes,
        Idle, At
  <2> QED
    BY <1>0, <2>1, <2>2, <2>3, LagStays
<1>6. ASSUME NEW t \in Threads, NALKept(t) PROVE LagInv'
  <2> SUFFICES ASSUME NEW e \in Decoders
               PROVE  PFrames(nalQueue'[e]) <=
                         IF Submitting(e)' THEN MaxQueueDepth ELSE MaxQueueDepth + 1
    BY DEF LagInv
  <2>1. /\ PFrames(nalQueue[e]) \in Nat /\ PFrames(nalQueue'[e]) \in Nat
        /\ PFrames(nalQueue[e]) <= Len(nalQueue[e]) /\ Len(nalQueue[e]) \in Nat
    BY <1>0, PFramesBound, LenProperties DEF Types, QueueTypes
  <2> DEFINE d == thread[t].decoder
            nal == thread[t].nal
  <2>2. d \in Decoders /\ nal \in NALs
    BY <1>0, Holder, <1>6 DEF NALKept, Released
  <2>3. CASE e # d
    <3>1. nalQueue'[e] = nalQueue[e]
      BY <2>2, <2>3, <1>6 DEF NALKept, Released, OfferNAL, Becomes
    <3>2. Submitting(e)' => Submitting(e)
      BY <1>0, DistinctThreads, <1>6
         DEF NALKept, Released, OfferNAL, Becomes, Submitting, Types, ThreadTypes,
          Idle, At
    <3> QED
      BY <1>0, <2>1, <3>1, <3>2, LagStays
  <2>4. CASE e = d
    <3>1. nalQueue'[d] = Append(nalQueue[d], nal) /\ nalQueue[d] \in Seq(NALs)
      BY <1>0, <2>2, <1>6 DEF NALKept, Released, OfferNAL, Becomes, Types, QueueTypes
    <3>2. PFrames(nalQueue'[d]) <= PFrames(nalQueue[d]) + (IF nal.kind = "p" THEN 1 ELSE 0)
      BY <2>2, <3>1, PFramesAppend
    <3>3. t \in {Receiver, Ui}
      BY <1>0, DistinctThreads, <1>6 DEF NALKept, Released, CallbackInv
    <3>4. CASE t = Receiver
      <4>1. ~Submitting(e)'
        BY <1>0, <3>4, DistinctThreads, OnlyOneBecomes, <1>6
           DEF NALKept, Released, Submitting, Idle, At
      <4>2. nal.kind = "p" => Submitting(e)
        BY <2>4, <3>4, <1>6 DEF NALKept, Released, Submitting
      <4>3. PFrames(nalQueue[e]) <= IF Submitting(e) THEN MaxQueueDepth ELSE MaxQueueDepth + 1
        BY DEF LagInv
      <4> QED
        BY <2>1, <2>4, <3>2, <4>1, <4>2, <4>3, DecoderAssumption
    <3>5. CASE t = Ui
      <4>1. nal.kind # "p"
        BY <1>0, <3>5, <1>6 DEF NALKept, Released, SubmitInv, Config
      <4>2. Submitting(e)' => Submitting(e)
        BY <1>0, <3>5, DistinctThreads, OnlyOneBecomes, <1>6
           DEF NALKept, Released, Submitting
      <4> QED
        BY <1>0, <2>1, <2>4, <3>2, <4>1, <4>2, LagStays
    <3> QED
      BY <3>3, <3>4, <3>5
  <2> QED
    BY <2>3, <2>4
<1>7. ASSUME NEW t \in Threads, BufferKept(t) PROVE LagInv'
  <2> SUFFICES ASSUME NEW e \in Decoders
               PROVE  PFrames(nalQueue'[e]) <=
                         IF Submitting(e)' THEN MaxQueueDepth ELSE MaxQueueDepth + 1
    BY DEF LagInv
  <2>1. /\ PFrames(nalQueue[e]) \in Nat /\ PFrames(nalQueue'[e]) \in Nat
        /\ PFrames(nalQueue[e]) <= Len(nalQueue[e]) /\ Len(nalQueue[e]) \in Nat
    BY <1>0, PFramesBound, LenProperties DEF Types, QueueTypes
  <2>2. nalQueue'[e] = nalQueue[e]
    BY <1>7 DEF BufferKept, Released, OfferBuffer, KeepBuffer, Becomes
  <2>3. Submitting(e)' => Submitting(e)
    BY <1>0, DistinctThreads, <1>7
       DEF BufferKept, Released, OfferBuffer, KeepBuffer, Becomes, Submitting, Types,
        ThreadTypes, Idle, At
  <2> QED
    BY <1>0, <2>1, <2>2, <2>3, LagStays
<1>8. ASSUME NEW d \in Decoders, InputBufferAvailable(d) PROVE LagInv'
  <2> SUFFICES ASSUME NEW e \in Decoders
               PROVE  PFrames(nalQueue'[e]) <=
                         IF Submitting(e)' THEN MaxQueueDepth ELSE MaxQueueDepth + 1
    BY DEF LagInv
  <2>1. /\ PFrames(nalQueue[e]) \in Nat /\ PFrames(nalQueue'[e]) \in Nat
        /\ PFrames(nalQueue[e]) <= Len(nalQueue[e]) /\ Len(nalQueue[e]) \in Nat
    BY <1>0, PFramesBound, LenProperties DEF Types, QueueTypes
  <2>2. nalQueue'[e] = nalQueue[e]
    BY <1>8 DEF InputBufferAvailable, Becomes, At
  <2>3. Submitting(e)' => Submitting(e)
    BY <1>0, DistinctThreads, <1>8
       DEF InputBufferAvailable, Becomes, At, Submitting, Types, ThreadTypes, Idle, At
  <2> QED
    BY <1>0, <2>1, <2>2, <2>3, LagStays
<1>9. ASSUME NEW d \in Decoders, PollNAL(d) PROVE LagInv'
  <2> SUFFICES ASSUME NEW e \in Decoders
               PROVE  PFrames(nalQueue'[e]) <=
                         IF Submitting(e)' THEN MaxQueueDepth ELSE MaxQueueDepth + 1
    BY DEF LagInv
  <2>1. /\ PFrames(nalQueue[e]) \in Nat /\ PFrames(nalQueue'[e]) \in Nat
        /\ PFrames(nalQueue[e]) <= Len(nalQueue[e]) /\ Len(nalQueue[e]) \in Nat
    BY <1>0, PFramesBound, LenProperties DEF Types, QueueTypes
  <2>2. nalQueue'[e] = nalQueue[e] \/ (nalQueue[e] # <<>> /\ nalQueue'[e] = RemoveAt(nalQueue[e], 1))
    BY <1>0, <1>9 DEF PollNAL, TakeLock, Oldest, Becomes, At, Types, QueueTypes
  <2>3. PFrames(nalQueue'[e]) <= PFrames(nalQueue[e])
    <3>1. nalQueue[e] \in Seq(NALs)
      BY <1>0 DEF Types, QueueTypes
    <3>2. CASE nalQueue'[e] = nalQueue[e]
      BY <2>1, <3>2
    <3>3. CASE nalQueue[e] # <<>> /\ nalQueue'[e] = RemoveAt(nalQueue[e], 1)
      BY <3>1, <3>3, PFramesRemove
    <3> QED
      BY <2>2, <3>2, <3>3
  <2>4. Submitting(e)' => Submitting(e)
    BY <1>0, DistinctThreads, <1>9
       DEF PollNAL, TakeLock, Oldest, Becomes, At, Submitting, Types, ThreadTypes
  <2> QED
    BY <1>0, <2>1, <2>3, <2>4, LagStays
<1>10. ASSUME NEW d \in Decoders, Decode(d) PROVE LagInv'
  <2> SUFFICES ASSUME NEW e \in Decoders
               PROVE  PFrames(nalQueue'[e]) <=
                         IF Submitting(e)' THEN MaxQueueDepth ELSE MaxQueueDepth + 1
    BY DEF LagInv
  <2>1. /\ PFrames(nalQueue[e]) \in Nat /\ PFrames(nalQueue'[e]) \in Nat
        /\ PFrames(nalQueue[e]) <= Len(nalQueue[e]) /\ Len(nalQueue[e]) \in Nat
    BY <1>0, PFramesBound, LenProperties DEF Types, QueueTypes
  <2>2. nalQueue'[e] = nalQueue[e]
    BY <1>10 DEF Decode
  <2>3. Submitting(e)' => Submitting(e)
    BY <1>0, DistinctThreads, <1>10 DEF Decode, Submitting, Types, ThreadTypes, Idle, At
  <2> QED
    BY <1>0, <2>1, <2>2, <2>3, LagStays
<1>11. CASE SurfaceCreated
  <2> SUFFICES ASSUME NEW e \in Decoders
               PROVE  PFrames(nalQueue'[e]) <=
                         IF Submitting(e)' THEN MaxQueueDepth ELSE MaxQueueDepth + 1
    BY DEF LagInv
  <2>1. /\ PFrames(nalQueue[e]) \in Nat /\ PFrames(nalQueue'[e]) \in Nat
        /\ PFrames(nalQueue[e]) <= Len(nalQueue[e]) /\ Len(nalQueue[e]) \in Nat
    BY <1>0, PFramesBound, LenProperties DEF Types, QueueTypes
  <2>2. nalQueue'[e] = nalQueue[e]
    BY <1>11 DEF SurfaceCreated
  <2>3. Submitting(e)' => Submitting(e)
    BY <1>0, DistinctThreads, <1>11
       DEF SurfaceCreated, Submitting, Types, ThreadTypes, Idle, At
  <2> QED
    BY <1>0, <2>1, <2>2, <2>3, LagStays
<1>12. CASE PublishDecoder
  <2> SUFFICES ASSUME NEW e \in Decoders
               PROVE  PFrames(nalQueue'[e]) <=
                         IF Submitting(e)' THEN MaxQueueDepth ELSE MaxQueueDepth + 1
    BY DEF LagInv
  <2>1. /\ PFrames(nalQueue[e]) \in Nat /\ PFrames(nalQueue'[e]) \in Nat
        /\ PFrames(nalQueue[e]) <= Len(nalQueue[e]) /\ Len(nalQueue[e]) \in Nat
    BY <1>0, PFramesBound, LenProperties DEF Types, QueueTypes
  <2>2. nalQueue'[e] = nalQueue[e]
    BY <1>12 DEF PublishDecoder
  <2>3. Submitting(e)' => Submitting(e)
    BY <1>0, DistinctThreads, <1>12
       DEF PublishDecoder, Submitting, Types, ThreadTypes, Idle, At
  <2> QED
    BY <1>0, <2>1, <2>2, <2>3, LagStays
<1>13. ASSUME NEW kind \in Config, NEW next \in {"pps", "surface"}, Inject(kind, next) PROVE LagInv'
  <2> SUFFICES ASSUME NEW e \in Decoders
               PROVE  PFrames(nalQueue'[e]) <=
                         IF Submitting(e)' THEN MaxQueueDepth ELSE MaxQueueDepth + 1
    BY DEF LagInv
  <2>1. /\ PFrames(nalQueue[e]) \in Nat /\ PFrames(nalQueue'[e]) \in Nat
        /\ PFrames(nalQueue[e]) <= Len(nalQueue[e]) /\ Len(nalQueue[e]) \in Nat
    BY <1>0, PFramesBound, LenProperties DEF Types, QueueTypes
  <2>2. nalQueue'[e] = nalQueue[e]
    BY <1>13 DEF Inject, Becomes, At
  <2>3. Submitting(e)' => Submitting(e)
    BY <1>0, DistinctThreads, <1>13
       DEF Inject, Becomes, At, Submitting, Types, ThreadTypes, Idle, At
  <2> QED
    BY <1>0, <2>1, <2>2, <2>3, LagStays
<1>14. CASE SurfaceDestroyed
  <2> SUFFICES ASSUME NEW e \in Decoders
               PROVE  PFrames(nalQueue'[e]) <=
                         IF Submitting(e)' THEN MaxQueueDepth ELSE MaxQueueDepth + 1
    BY DEF LagInv
  <2>1. /\ PFrames(nalQueue[e]) \in Nat /\ PFrames(nalQueue'[e]) \in Nat
        /\ PFrames(nalQueue[e]) <= Len(nalQueue[e]) /\ Len(nalQueue[e]) \in Nat
    BY <1>0, PFramesBound, LenProperties DEF Types, QueueTypes
  <2>2. nalQueue'[e] = nalQueue[e]
    BY <1>14 DEF SurfaceDestroyed
  <2>3. Submitting(e)' => Submitting(e)
    BY <1>0, DistinctThreads, <1>14
       DEF SurfaceDestroyed, Submitting, Types, ThreadTypes, Idle, At
  <2> QED
    BY <1>0, <2>1, <2>2, <2>3, LagStays
<1>15. CASE ClearNALs
  <2> SUFFICES ASSUME NEW e \in Decoders
               PROVE  PFrames(nalQueue'[e]) <=
                         IF Submitting(e)' THEN MaxQueueDepth ELSE MaxQueueDepth + 1
    BY DEF LagInv
  <2>1. /\ PFrames(nalQueue[e]) \in Nat /\ PFrames(nalQueue'[e]) \in Nat
        /\ PFrames(nalQueue[e]) <= Len(nalQueue[e]) /\ Len(nalQueue[e]) \in Nat
    BY <1>0, PFramesBound, LenProperties DEF Types, QueueTypes
  <2>2. nalQueue'[e] = nalQueue[e] \/ nalQueue'[e] = <<>>
    BY <1>0, <1>15 DEF ClearNALs, Types, QueueTypes
  <2>3. PFrames(<<>>) = 0
    BY PFramesEmpty
  <2>4. PFrames(nalQueue'[e]) <= PFrames(nalQueue[e])
    BY <2>1, <2>2, <2>3
  <2>5. Submitting(e)' => Submitting(e)
    BY <1>15 DEF ClearNALs, Submitting
  <2> QED
    BY <1>0, <2>1, <2>4, <2>5, LagStays
<1>16. CASE ClearBuffers
  <2> SUFFICES ASSUME NEW e \in Decoders
               PROVE  PFrames(nalQueue'[e]) <=
                         IF Submitting(e)' THEN MaxQueueDepth ELSE MaxQueueDepth + 1
    BY DEF LagInv
  <2>1. /\ PFrames(nalQueue[e]) \in Nat /\ PFrames(nalQueue'[e]) \in Nat
        /\ PFrames(nalQueue[e]) <= Len(nalQueue[e]) /\ Len(nalQueue[e]) \in Nat
    BY <1>0, PFramesBound, LenProperties DEF Types, QueueTypes
  <2>2. nalQueue'[e] = nalQueue[e]
    BY <1>16 DEF ClearBuffers, Unpublished
  <2>3. Submitting(e)' => Submitting(e)
    BY <1>0, DistinctThreads, <1>16
       DEF ClearBuffers, Unpublished, Submitting, Types, ThreadTypes, Idle, At
  <2> QED
    BY <1>0, <2>1, <2>2, <2>3, LagStays
<1>17. CASE OnServiceConnected \/ Disconnect \/ UNCHANGED vars
  BY <1>17 DEF OnServiceConnected, Disconnect, LagInv, Submitting
<1>18. CASE ForgetCodec
  <2> SUFFICES ASSUME NEW e \in Decoders
               PROVE  PFrames(nalQueue'[e]) <=
                         IF Submitting(e)' THEN MaxQueueDepth ELSE MaxQueueDepth + 1
    BY DEF LagInv
  <2>1. /\ PFrames(nalQueue[e]) \in Nat /\ PFrames(nalQueue'[e]) \in Nat
        /\ PFrames(nalQueue[e]) <= Len(nalQueue[e]) /\ Len(nalQueue[e]) \in Nat
    BY <1>0, PFramesBound, LenProperties DEF Types, QueueTypes
  <2>2. nalQueue'[e] = nalQueue[e] \/ nalQueue'[e] = <<>>
    BY <1>0, <1>18 DEF ForgetCodec, Types, QueueTypes
  <2>3. PFrames(<<>>) = 0
    BY PFramesEmpty
  <2>4. PFrames(nalQueue'[e]) <= PFrames(nalQueue[e])
    BY <2>1, <2>2, <2>3
  <2>5. Submitting(e)' => Submitting(e)
    BY <1>18 DEF ForgetCodec, Submitting
  <2> QED
    BY <1>0, <2>1, <2>4, <2>5, LagStays
<1> QED
  BY StepCases, <1>1, <1>2, <1>3, <1>4, <1>5, <1>6, <1>7, <1>8, <1>9, <1>10, <1>11,
     <1>12, <1>13, <1>14, <1>15, <1>16, <1>17, <1>18

(* LagIsCapped (VideoDecoder.tla): submitNAL measures the depth outside    *)
(* feedLock, yet never more than one P frame above MAX_QUEUE_DEPTH waits.  *)
THEOREM DecoderLagIsCapped == Spec => []LagIsCapped
<1>1. Init => LagInv
  <2> SUFFICES ASSUME Init, NEW d \in Decoders
               PROVE  PFrames(nalQueue[d]) <=
                         IF Submitting(d) THEN MaxQueueDepth ELSE MaxQueueDepth + 1
    BY DEF LagInv
  <2>1. nalQueue[d] = <<>>
    BY DEF Init
  <2>2. PFrames(<<>>) = 0
    BY PFramesEmpty
  <2> QED
    BY <2>1, <2>2, DecoderAssumption
<1>2. SafeInv /\ LagInv /\ [Next]_vars => LagInv'
  BY LagInvStep
<1>3. SafeInv /\ LagInv => LagIsCapped
  <2> SUFFICES ASSUME SafeInv, LagInv, NEW d \in Decoders
               PROVE  PFrames(nalQueue[d]) <= MaxQueueDepth + 1
    BY DEF LagIsCapped, PFrames
  <2>1. PFrames(nalQueue[d]) \in Nat
    BY PFramesBound DEF SafeInv, Types, QueueTypes
  <2>2. PFrames(nalQueue[d]) <= IF Submitting(d) THEN MaxQueueDepth ELSE MaxQueueDepth + 1
    BY DEF LagInv
  <2> QED
    BY <2>1, <2>2, DecoderAssumption
<1> QED
  BY <1>1, <1>2, <1>3, DecoderIsSafe, PTL DEF Spec

===============================================================================
