----------------------------- MODULE Media_proofs -----------------------------
(***************************************************************************)
(* Theorems about the media path of a session, from the packets of the     *)
(* device to the calls to OBS: MediaStream, for every number of            *)
(* configurations, and SessionTiming, for every limit, every clock and     *)
(* every sequence of frames of the two streams.  The two have no variable  *)
(* in common.                                                              *)
(***************************************************************************)
EXTENDS MediaStream, SessionTiming, TLAPS

(***************************************************************************)
(* MediaStream                                                             *)
(***************************************************************************)


Loop  == {"recv", "merge", "push", "frames", "check_reset", "reset", "check", "deliver"}
Taken == {"frames", "check_reset", "reset", "check", "deliver"}
Early == {"codec", "size", "open_codec", "open_sinks", "alloc"}

(* The sink points at the context only while it is open, and the context is *)
(* live from its allocation to its release.                                 *)
ContextInv ==
  /\ sink.context => stream \in Loop \cup {"alloc", "close"}
  /\ stream \in Loop \cup {"size", "open_codec", "open_sinks", "alloc", "close", "free"}
       => context = "live"

(* A configuration that the decoder lacks is the one that waits or the one  *)
(* in hand; the packet in hand is of the current configuration.             *)
Current == IF config = 0 THEN decoder = announced ELSE config = announced

MergeInv ==
  /\ stream \in Early => config = 0 /\ announced = 0 /\ decoder = 0
  /\ codec = "h26x" /\ sink.frame /\ stream = "recv" => Current
  /\ codec = "h26x" /\ sink.frame /\ stream = "merge" =>
       /\ packet.version = announced
       /\ IF packet.config THEN packet.version # 0 ELSE Current
  /\ codec = "h26x" /\ sink.frame /\ stream = "push" =>
       /\ sink.context /\ ~packet.config
       /\ packet.version = announced /\ config = 0
       /\ IF packet.prefix = 0 THEN decoder = announced ELSE packet.prefix = announced
  /\ codec = "h26x" /\ stream \in Taken =>
       packet.version = announced /\ config = 0 /\ decoder = announced
  /\ stream \in Taken => sink.frame
  /\ stream \in Loop \cup {"alloc"} => sink.context
  /\ stream = "merge" => codec = "h26x"

(* A call to OBS is late only if it had passed its look at accepting_.      *)
LateInv ==
  /\ accepting => late = 0
  /\ late <= 1
  /\ late = 1 => stream \notin {"reset", "deliver"}

StreamInv == ContextInv /\ MergeInv /\ LateInv

-----------------------------------------------------------------------------
(* Every step of the stream, its environment and its end keeps the types.   *)
LEMMA TypeStep ==
  ASSUME TypeOK, [Next]_vars
  PROVE  TypeOK'
<1> USE ConfigsAssumption DEF TypeOK, Codecs, Versions, Packets, NoPacket, Goto, media, output
<1>1. CASE RecvCodec
  BY <1>1 DEF RecvCodec
<1>2. CASE RecvNothing
  BY <1>2 DEF RecvNothing
<1>3. CASE RecvSize
  BY <1>3 DEF RecvSize
<1>4. CASE OpenCodec
  BY <1>4 DEF OpenCodec
<1>5. CASE OpenSinks
  BY <1>5 DEF OpenSinks
<1>6. CASE AllocPacket
  BY <1>6 DEF AllocPacket
<1>7. CASE RecvPacket
  <2>1. announced' \in Versions /\ packet' \in Packets
    <3>1. CASE /\ announced' = announced
               /\ packet' = [config |-> FALSE, version |-> announced, prefix |-> 0]
      BY <1>7, <3>1 DEF RecvPacket
    <3>2. CASE announced < MaxConfigs /\ announced' = announced + 1
      <4>1. announced + 1 \in 0..MaxConfigs
        BY <3>2
      <4>2. packet' = [config |-> TRUE, version |-> announced + 1, prefix |-> 0]
        BY <1>7, <3>2 DEF RecvPacket
      <4>3. QED
        BY <3>2, <4>1, <4>2
    <3>3. QED
      BY <1>7, <3>1, <3>2 DEF RecvPacket
  <2>2. stream = "recv" /\ stream' \in {"merge", "push"}
    BY <1>7 DEF RecvPacket
  <2>3. QED
    BY <1>7, <2>1, <2>2 DEF RecvPacket
<1>8. CASE RecvFails
  BY <1>8 DEF RecvFails
<1>9. CASE Merge
  <2>1. CASE MergeConfig
    BY <1>9, <2>1 DEF Merge, MergeConfig
  <2>2. CASE MergeMedia
    <3>1. packet' = [packet EXCEPT !.prefix = config] /\ packet' \in Packets
      BY <2>2 DEF MergeMedia
    <3>2. ~packet'.config
      BY <2>2, <3>1 DEF MergeMedia
    <3>3. QED
      BY <1>9, <2>2, <3>1, <3>2 DEF Merge, MergeMedia
  <2>3. CASE MergeFails
    BY <1>9, <2>3 DEF Merge, MergeFails
  <2>4. QED
    BY <1>9, <2>1, <2>2, <2>3 DEF Merge
<1>10. CASE Push
  <2>1. UNCHANGED sink
    BY <1>10 DEF Push
  <2>2. packet' \in Packets /\ decoder' \in Versions /\ ~packet'.config
    <3>1. CASE PushIgnored
      BY <3>1 DEF PushIgnored
    <3>2. CASE PushTaken
      <4>1. packet' = packet /\ ~packet.config
        BY <3>2 DEF PushTaken
      <4>2. decoder' = decoder \/ decoder' = packet.prefix
        BY <3>2 DEF PushTaken
      <4>3. QED
        BY <4>1, <4>2
    <3>3. CASE PushRefused
      BY <3>3 DEF PushRefused
    <3>4. QED
      BY <1>10, <3>1, <3>2, <3>3 DEF Push
  <2>3. stream' \in {"recv", "frames", "close"}
    BY <1>10 DEF Push, PushIgnored, PushTaken, PushRefused
  <2>4. QED
    BY <1>10, <2>1, <2>2, <2>3 DEF Push
<1>11. CASE ReceiveFrame
  BY <1>11 DEF ReceiveFrame
<1>12. CASE NoMoreFrames
  BY <1>12 DEF NoMoreFrames
<1>13. CASE CheckOutput
  BY <1>13 DEF CheckOutput
<1>14. CASE Deliver
  BY <1>14 DEF Deliver
<1>15. CASE CloseSinks
  BY <1>15 DEF CloseSinks
<1>16. CASE FreeContext
  BY <1>16 DEF FreeContext
<1>17. CASE Report
  BY <1>17 DEF Report
<1>18. CASE Destroy
  BY <1>18 DEF Destroy
<1>19. CASE CloseOutput
  BY <1>19 DEF CloseOutput
<1>20. CASE UNCHANGED vars
  BY <1>20 DEF vars
<1>21. QED
  BY <1>1, <1>2, <1>3, <1>4, <1>5, <1>6, <1>7, <1>8, <1>9,
     <1>10, <1>11, <1>12, <1>13, <1>14, <1>15, <1>16, <1>17, <1>18, <1>19,
     <1>20 DEF Next

(* No step frees the context while the sink points at it: the joints are    *)
(* OpenSinks and CloseSinks, the order of finally_close_sinks and           *)
(* finally_free_context (demuxer.cpp:281-285).                              *)
LEMMA ContextStep ==
  ASSUME TypeOK, ContextInv, [Next]_vars
  PROVE  ContextInv'
<1> USE DEF TypeOK, ContextInv, Loop, Goto, media, output
<1>1. CASE RecvCodec
  BY <1>1 DEF RecvCodec
<1>2. CASE RecvNothing
  BY <1>2 DEF RecvNothing
<1>3. CASE RecvSize
  BY <1>3 DEF RecvSize
<1>4. CASE OpenCodec
  BY <1>4 DEF OpenCodec
<1>5. CASE OpenSinks
  BY <1>5 DEF OpenSinks
<1>6. CASE AllocPacket
  BY <1>6 DEF AllocPacket
<1>7. CASE RecvPacket
  BY <1>7 DEF RecvPacket
<1>8. CASE RecvFails
  BY <1>8 DEF RecvFails
<1>9. CASE Merge
  BY <1>9 DEF Merge, MergeConfig, MergeMedia, MergeFails
<1>10. CASE Push
  BY <1>10 DEF Push, PushIgnored, PushTaken, PushRefused
<1>11. CASE ReceiveFrame
  BY <1>11 DEF ReceiveFrame
<1>12. CASE NoMoreFrames
  BY <1>12 DEF NoMoreFrames
<1>13. CASE CheckOutput
  BY <1>13 DEF CheckOutput
<1>14. CASE Deliver
  BY <1>14 DEF Deliver
<1>15. CASE CloseSinks
  BY <1>15 DEF CloseSinks
<1>16. CASE FreeContext
  BY <1>16 DEF FreeContext
<1>17. CASE Report
  BY <1>17 DEF Report
<1>18. CASE Destroy
  BY <1>18 DEF Destroy
<1>19. CASE CloseOutput
  BY <1>19 DEF CloseOutput
<1>20. CASE UNCHANGED vars
  BY <1>20 DEF vars
<1>21. QED
  BY <1>1, <1>2, <1>3, <1>4, <1>5, <1>6, <1>7, <1>8, <1>9,
     <1>10, <1>11, <1>12, <1>13, <1>14, <1>15, <1>16, <1>17, <1>18, <1>19,
     <1>20 DEF Next

(* No step loses a configuration between the device and the decoder          *)
(* (packet_merge.cpp:12-45).                                                *)
LEMMA MergeStep ==
  ASSUME TypeOK, MergeInv, [Next]_vars
  PROVE  MergeInv'
<1> USE ConfigsAssumption DEF TypeOK, Versions, Packets, MergeInv, Current, Early, Loop, Taken, NoPacket, Goto, media, output
<1>1. CASE RecvCodec
  BY <1>1 DEF RecvCodec
<1>2. CASE RecvNothing
  BY <1>2 DEF RecvNothing
<1>3. CASE RecvSize
  BY <1>3 DEF RecvSize
<1>4. CASE OpenCodec
  BY <1>4 DEF OpenCodec
<1>5. CASE OpenSinks
  BY <1>5 DEF OpenSinks
<1>6. CASE AllocPacket
  <2>1. UNCHANGED media /\ stream = "alloc" /\ stream' \in {"recv", "close"}
    BY <1>6 DEF AllocPacket
  <2>2. QED
    BY <2>1
<1>7. CASE RecvPacket
  BY <1>7 DEF RecvPacket
<1>8. CASE RecvFails
  BY <1>8 DEF RecvFails
<1>9. CASE Merge
  <2>1. UNCHANGED <<codec, sink, announced, decoder>> /\ stream = "merge"
    BY <1>9 DEF Merge, MergeConfig, MergeMedia, MergeFails
  <2>2. CASE MergeConfig
    BY <2>1, <2>2 DEF MergeConfig
  <2>3. CASE MergeMedia
    <3>1. /\ packet' = [packet EXCEPT !.prefix = config] /\ config' = 0
          /\ stream' = "push" /\ ~packet.config
      BY <2>3 DEF MergeMedia
    <3>2. /\ packet'.prefix = config /\ packet'.version = packet.version
          /\ ~packet'.config
      BY <3>1
    <3>3. QED
      BY <2>1, <3>1, <3>2
  <2>4. CASE MergeFails
    BY <2>1, <2>4 DEF MergeFails
  <2>5. QED
    BY <1>9, <2>2, <2>3, <2>4 DEF Merge
<1>10. CASE Push
  <2>1. /\ sink'.context = sink.context /\ sink'.frame = sink.frame
        /\ UNCHANGED <<codec, config, announced>>
    BY <1>10 DEF Push
  <2>2. CASE PushIgnored
    BY <1>10, <2>1, <2>2 DEF PushIgnored
  <2>3. CASE PushTaken
    BY <1>10, <2>1, <2>3 DEF PushTaken
  <2>4. CASE PushRefused
    BY <1>10, <2>1, <2>4 DEF PushRefused
  <2>5. QED
    BY <1>10, <2>2, <2>3, <2>4 DEF Push
<1>11. CASE ReceiveFrame
  BY <1>11 DEF ReceiveFrame
<1>12. CASE NoMoreFrames
  BY <1>12 DEF NoMoreFrames
<1>13. CASE CheckOutput
  BY <1>13 DEF CheckOutput
<1>14. CASE Deliver
  BY <1>14 DEF Deliver
<1>15. CASE CloseSinks
  BY <1>15 DEF CloseSinks
<1>16. CASE FreeContext
  BY <1>16 DEF FreeContext
<1>17. CASE Report
  BY <1>17 DEF Report
<1>18. CASE Destroy
  BY <1>18 DEF Destroy
<1>19. CASE CloseOutput
  BY <1>19 DEF CloseOutput
<1>20. CASE UNCHANGED vars
  BY <1>20 DEF vars
<1>21. QED
  BY <1>1, <1>2, <1>3, <1>4, <1>5, <1>6, <1>7, <1>8, <1>9,
     <1>10, <1>11, <1>12, <1>13, <1>14, <1>15, <1>16, <1>17, <1>18, <1>19,
     <1>20 DEF Next

(* After the output was closed only a call past its look gets through        *)
(* (capture_session.cpp:115-153).                                           *)
LEMMA LateStep ==
  ASSUME TypeOK, LateInv, [Next]_vars
  PROVE  LateInv'
<1> USE DEF TypeOK, LateInv, Goto, media, output
<1>1. CASE RecvCodec
  BY <1>1 DEF RecvCodec
<1>2. CASE RecvNothing
  BY <1>2 DEF RecvNothing
<1>3. CASE RecvSize
  BY <1>3 DEF RecvSize
<1>4. CASE OpenCodec
  BY <1>4 DEF OpenCodec
<1>5. CASE OpenSinks
  BY <1>5 DEF OpenSinks
<1>6. CASE AllocPacket
  BY <1>6 DEF AllocPacket
<1>7. CASE RecvPacket
  BY <1>7 DEF RecvPacket
<1>8. CASE RecvFails
  BY <1>8 DEF RecvFails
<1>9. CASE Merge
  BY <1>9 DEF Merge, MergeConfig, MergeMedia, MergeFails
<1>10. CASE Push
  BY <1>10 DEF Push, PushIgnored, PushTaken, PushRefused
<1>11. CASE ReceiveFrame
  BY <1>11 DEF ReceiveFrame
<1>12. CASE NoMoreFrames
  BY <1>12 DEF NoMoreFrames
<1>13. CASE CheckOutput
  BY <1>13 DEF CheckOutput
<1>14. CASE Deliver
  BY <1>14 DEF Deliver
<1>15. CASE CloseSinks
  BY <1>15 DEF CloseSinks
<1>16. CASE FreeContext
  BY <1>16 DEF FreeContext
<1>17. CASE Report
  BY <1>17 DEF Report
<1>18. CASE Destroy
  BY <1>18 DEF Destroy
<1>19. CASE CloseOutput
  BY <1>19 DEF CloseOutput
<1>20. CASE UNCHANGED vars
  BY <1>20 DEF vars
<1>21. QED
  BY <1>1, <1>2, <1>3, <1>4, <1>5, <1>6, <1>7, <1>8, <1>9,
     <1>10, <1>11, <1>12, <1>13, <1>14, <1>15, <1>16, <1>17, <1>18, <1>19,
     <1>20 DEF Next

-----------------------------------------------------------------------------
(* Every variable of a stream keeps its type, and a configuration packet    *)
(* never gets past the sink into the decoder.                               *)
THEOREM StreamTyping == Spec => []TypeOK
<1>1. Init => TypeOK
  BY ConfigsAssumption DEF Init, TypeOK, NoPacket, Packets, Versions, Codecs
<1>2. QED
  BY <1>1, TypeStep, PTL DEF Spec

(* The inductive invariant: what each program counter of run_demuxer()      *)
(* promises about the context, the configuration and the output.            *)
THEOREM StreamInvariance == Spec => []StreamInv
<1>1. Init => StreamInv
  BY DEF Init, StreamInv, ContextInv, MergeInv, LateInv, Current, Early, Loop, Taken, NoPacket
<1>2. TypeOK /\ StreamInv /\ [Next]_vars => StreamInv'
  BY ContextStep, MergeStep, LateStep DEF StreamInv
<1>3. QED
  BY <1>1, <1>2, StreamTyping, PTL DEF Spec

(* A sink never points at a freed codec context (packet_sink.h:21).         *)
THEOREM ContextSafety == Spec => []SinkHoldsLiveContext
<1>1. StreamInv => SinkHoldsLiveContext
  BY DEF StreamInv, ContextInv, SinkHoldsLiveContext, Loop
<1>2. QED
  BY <1>1, StreamInvariance, PTL

(* Whatever configurations the device sends, H.26x is decoded under the one *)
(* it was encoded with.                                                     *)
THEOREM ConfigSafety == Spec => []DecodesWithCurrentConfig
<1>1. StreamInv => DecodesWithCurrentConfig
  BY DEF StreamInv, MergeInv, DecodesWithCurrentConfig, Taken
<1>2. QED
  BY <1>1, StreamInvariance, PTL

(* Closing the output lets at most one more call through.                   *)
THEOREM LateSafety == Spec => []OneLateDelivery
<1>1. StreamInv => OneLateDelivery
  BY DEF StreamInv, LateInv, OneLateDelivery
<1>2. QED
  BY <1>1, StreamInvariance, PTL

-----------------------------------------------------------------------------
(***************************************************************************)
(* SessionTiming                                                           *)
(***************************************************************************)

(* What a stream knows between two frames: no reading is older than the     *)
(* last frame, the host clock is past the first half second, an epoch       *)
(* belongs to an anchor, and the last picture of the current epoch was not  *)
(* dated before its place on the shared clock.                              *)
Readings ==
  /\ clock > Disc
  /\ \A s \in Streams : reading[s] # 0 =>
       reading[s] > LastArrival(s) /\ reading[s] > Disc

OnClock ==
  /\ video.epoch <= epoch
  /\ video.valid => video.pts # Invalid /\ video.out > 0
  /\ video.valid /\ video.epoch = epoch =>
       video.out >= Project(anchor, video.pts) + video.headroom

TimingInv == TimingTyped /\ Readings /\ WithinReach /\ OnClock

-----------------------------------------------------------------------------

(* One correction is at most DriftMax and at most the error, and it goes    *)
(* the way of the error.                                                    *)
LEMMA CorrectionBound ==
  ASSUME NEW e \in Int
  PROVE  /\ Correction(e) \in Int
         /\ e >= 0 => Correction(e) \in 0..e /\ Correction(e) <= DriftMax
         /\ e < 0 => Correction(e) \in e..0 /\ -Correction(e) <= DriftMax
<1>1. \A x \in Nat : x \div DriftDiv \in Nat /\ x \div DriftDiv <= x
  BY TimingAssumption
<1>2. CASE e >= 0
  <2>1. e \in Nat
    BY <1>2
  <2>2. e \div DriftDiv \in Nat /\ e \div DriftDiv <= e
    BY <1>1, <2>1
  <2> QED
    BY <1>2, <2>2, TimingAssumption DEF Correction, Lesser
<1>3. CASE e < 0
  <2>1. -e \in Nat
    BY <1>3
  <2>2. (-e) \div DriftDiv \in Nat /\ (-e) \div DriftDiv <= -e
    BY <1>1, <2>1
  <2> QED
    BY <1>3, <2>2, TimingAssumption DEF Correction, Lesser
<1> QED
  BY <1>2, <1>3

(* Following an error moves the anchor by at most DriftMax, and the         *)
(* projection to where it was meant to go without passing it.               *)
LEMMA FollowedBound ==
  ASSUME TimingTyped, NEW pts \in 0..MaxPts, NEW arrival \in Nat, arrival > Disc,
         Distance(Project(anchor, pts), arrival) <= Disc
  PROVE  LET moved == Followed(arrival - Project(anchor, pts))
         IN /\ moved \in [pts : 0..MaxPts, host : Nat]
            /\ moved.pts = anchor.pts
            /\ moved.host <= anchor.host + DriftMax
            /\ Project(moved, pts) \in Nat
            /\ Distance(Project(moved, pts), arrival) <= Disc
<1> DEFINE error == arrival - Project(anchor, pts)
           c == Correction(error)
<1>1. anchor.pts \in Nat /\ anchor.host \in Nat /\ pts \in Nat
  BY TimingAssumption DEF TimingTyped
<1>2. Project(anchor, pts) \in Nat /\ error \in Int
  BY <1>1 DEF Project, Floored
<1>3. /\ c \in Int
      /\ error >= 0 => c \in 0..error /\ c <= DriftMax
      /\ error < 0 => c \in error..0 /\ -c <= DriftMax
  BY <1>2, CorrectionBound
<1>4. /\ Followed(error) \in [pts : 0..MaxPts, host : Nat]
      /\ Followed(error).pts = anchor.pts
      /\ Followed(error).host = Floored(anchor.host + c)
  <2>1. Floored(anchor.host + c) \in Nat
    BY <1>1, <1>3 DEF Floored
  <2>2. Followed(error) = [anchor EXCEPT !.host = Floored(anchor.host + c)]
    BY DEF Followed
  <2>3. anchor \in [pts : 0..MaxPts, host : Nat]
    BY DEF TimingTyped
  <2> QED
    BY <2>1, <2>2, <2>3
<1>5. Floored(anchor.host + c) <= anchor.host + DriftMax
  <2> HIDE DEF c, error
  <2> QED
    BY <1>1, <1>2, <1>3, TimingAssumption DEF Floored
<1>6. /\ Project(Followed(error), pts) \in Nat
      /\ Distance(Project(Followed(error), pts), arrival) <= Disc
  <2>1. Project(Followed(error), pts)
          = Floored(Floored(anchor.host + c) + pts - anchor.pts)
    BY <1>4 DEF Project
  <2>2. Project(anchor, pts) = Floored(anchor.host + pts - anchor.pts)
    BY DEF Project
  <2>3. error = arrival - Project(anchor, pts)
    OBVIOUS
  <2> HIDE DEF c, error
  <2> QED
    BY <1>1, <1>2, <1>3, <2>1, <2>2, <2>3, TimingAssumption DEF Floored, Distance
<1> QED
  BY <1>4, <1>5, <1>6

(* What mapping one frame returns.                                          *)
LEMMA MappedFrame ==
  ASSUME TimingTyped, NEW pts \in Pts, NEW arrival \in Nat, arrival > Disc,
         NEW follow \in BOOLEAN
  PROVE  LET m == Mapped(pts, arrival, follow)
         IN /\ m.at \in Nat /\ Distance(m.at, arrival) <= Disc
            /\ m.anchor \in [pts : 0..MaxPts, host : Nat]
            /\ m.epoch \in {epoch, epoch + 1} /\ m.again \in BOOLEAN
            /\ m.again <=> m.epoch = epoch + 1
            /\ pts # Invalid => m.at = Project(m.anchor, pts)
            /\ ~m.again => /\ m.anchor.pts = anchor.pts
                           /\ m.anchor.host <= anchor.host + DriftMax
            /\ (~m.again /\ ~follow) => m.anchor = anchor
            /\ pts = Invalid => ~m.again /\ m.anchor = anchor
<1>1. epoch \in Nat /\ anchor \in [pts : 0..MaxPts, host : Nat]
  BY DEF TimingTyped
<1>2. CASE pts = Invalid
  BY <1>1, <1>2, TimingAssumption DEF Mapped, Distance
<1>3. CASE pts # Invalid /\ Lost(pts, arrival)
  <2>1. pts \in 0..MaxPts
    BY <1>3 DEF Pts
  <2>2. Mapped(pts, arrival, follow)
          = [at |-> arrival, anchor |-> [pts |-> pts, host |-> arrival],
             epoch |-> epoch + 1, again |-> TRUE]
    BY <1>3 DEF Mapped
  <2> QED
    BY <1>1, <1>3, <2>1, <2>2, TimingAssumption DEF Distance, Project, Floored
<1>4. CASE pts # Invalid /\ ~Lost(pts, arrival) /\ ~follow
  <2>1. pts \in Nat /\ anchor.pts \in Nat /\ anchor.host \in Nat
    BY <1>1, <1>4, TimingAssumption DEF Pts
  <2>2. Mapped(pts, arrival, follow)
          = [at |-> Project(anchor, pts), anchor |-> anchor, epoch |-> epoch,
             again |-> FALSE]
    BY <1>4 DEF Mapped
  <2>3. Project(anchor, pts) \in Nat
    BY <2>1 DEF Project, Floored
  <2>4. Distance(Project(anchor, pts), arrival) <= Disc
    BY <1>4, <2>3, TimingAssumption DEF Lost, Distance
  <2> QED
    BY <1>1, <1>4, <2>1, <2>2, <2>3, <2>4, TimingAssumption
<1>5. CASE pts # Invalid /\ ~Lost(pts, arrival) /\ follow
  <2> DEFINE moved == Followed(arrival - Project(anchor, pts))
  <2>1. pts \in 0..MaxPts /\ anchor.pts \in Nat /\ anchor.host \in Nat
    BY <1>1, <1>5, TimingAssumption DEF Pts
  <2>2. Mapped(pts, arrival, follow)
          = [at |-> Project(moved, pts), anchor |-> moved, epoch |-> epoch,
             again |-> FALSE]
    BY <1>5 DEF Mapped
  <2>3. Project(anchor, pts) \in Nat
    BY <2>1 DEF Project, Floored
  <2>4. Distance(Project(anchor, pts), arrival) <= Disc
    BY <1>5, <2>3, TimingAssumption DEF Lost, Distance
  <2>5. /\ moved \in [pts : 0..MaxPts, host : Nat]
        /\ moved.pts = anchor.pts
        /\ moved.host <= anchor.host + DriftMax
        /\ Project(moved, pts) \in Nat
        /\ Distance(Project(moved, pts), arrival) <= Disc
    BY <2>1, <2>4, FollowedBound
  <2>6. follow = TRUE
    BY <1>5
  <2> DEFINE m == Mapped(pts, arrival, follow)
  <2> HIDE DEF moved
  <2>7. /\ m.at = Project(moved, pts) /\ m.anchor = moved
        /\ m.epoch = epoch /\ m.again = FALSE
    BY <2>2
  <2> HIDE DEF m
  <2>8. /\ m.at \in Nat /\ Distance(m.at, arrival) <= Disc
        /\ m.anchor \in [pts : 0..MaxPts, host : Nat]
        /\ m.at = Project(m.anchor, pts)
        /\ m.anchor.pts = anchor.pts
        /\ m.anchor.host <= anchor.host + DriftMax
    BY <2>5, <2>7
  <2>9. m.epoch \in {epoch, epoch + 1} /\ m.again = FALSE /\ m.epoch # epoch + 1
    BY <1>1, <2>7
  <2> QED
    BY <1>5, <2>6, <2>8, <2>9 DEF m
<1> QED
  BY <1>2, <1>3, <1>4, <1>5

(* The headroom grows by one step at a time and stays within its limit.     *)
LEMMA HeadroomBound ==
  ASSUME TimingTyped, NEW pts, NEW arrival, NEW m
  PROVE  /\ Headroom(pts, arrival, m) \in 0..MaxHeadroom
         /\ Headroom(pts, arrival, m) <= video.headroom + HeadroomStep
<1> DEFINE kept == IF m.epoch = video.epoch THEN video.headroom ELSE 0
           grown == Lesser(kept + HeadroomStep, MaxHeadroom)
<1>1. video.headroom \in 0..MaxHeadroom
  BY DEF TimingTyped
<1>2. kept \in 0..MaxHeadroom /\ kept <= video.headroom
  BY <1>1, TimingAssumption
<1>3. Headroom(pts, arrival, m) \in {kept, grown, 0}
  BY DEF Headroom
<1> HIDE DEF kept
<1>4. grown \in 0..MaxHeadroom /\ grown <= kept + HeadroomStep
  BY <1>2, TimingAssumption DEF Lesser
<1> QED
  BY <1>1, <1>2, <1>3, <1>4, TimingAssumption

(* Reading the host clock.                                                  *)
LEMMA ReadStep ==
  ASSUME TimingInv, NEW s \in Streams, ReadClock(s)
  PROVE  TimingInv'
<1>1. clock \in Nat /\ clock' \in Nat /\ clock' >= clock /\ clock' > LastArrival(s)
  BY TimingAssumption DEF TimingInv, TimingTyped, ReadClock
<1>2. reading' = [reading EXCEPT ![s] = clock'] /\ reading \in [Streams -> Nat]
  BY DEF TimingInv, TimingTyped, ReadClock
<1>3. UNCHANGED <<anchor, epoch, video, audio, reset>>
  BY DEF ReadClock
<1>4. TimingTyped'
  BY <1>1, <1>2, <1>3 DEF TimingInv, TimingTyped
<1>5. Readings'
  <2>1. \A r \in Streams : LastArrival(r)' = LastArrival(r)
    BY <1>3 DEF LastArrival
  <2> QED
    BY <1>1, <1>2, <2>1, TimingAssumption DEF TimingInv, Readings
<1>6. WithinReach' /\ OnClock'
  BY <1>3 DEF TimingInv, WithinReach, OnClock, Project, Floored
<1> QED
  BY <1>4, <1>5, <1>6 DEF TimingInv

(* Mapping a picture: it comes within reach and does not run away from the  *)
(* one before.                                                              *)
LEMMA VideoStep ==
  ASSUME TimingInv, NEW pts \in Pts, VideoFrame(pts)
  PROVE  /\ TimingInv'
         /\ video.valid /\ ~reset' /\ video'.epoch = video.epoch =>
              /\ video'.out > video.out
              /\ video'.out <= video.out + MaxGap + HeadroomStep + DriftMax
<1> DEFINE arrival == reading["video"]
           m == Mapped(pts, arrival, TRUE)
           head == Headroom(pts, arrival, m)
           at == m.at + head
           out == VideoOut(pts, arrival, m)
<1>1. /\ arrival \in Nat /\ arrival > Disc /\ arrival > video.arrival
      /\ video.arrival \in Nat
  <2>1. reading["video"] \in Nat /\ reading["video"] # 0
    BY DEF TimingInv, TimingTyped, VideoFrame, Streams
  <2> QED
    BY <2>1 DEF TimingInv, TimingTyped, Readings, LastArrival, Streams
<1>2. /\ m.at \in Nat /\ Distance(m.at, arrival) <= Disc
      /\ m.anchor \in [pts : 0..MaxPts, host : Nat]
      /\ m.epoch \in {epoch, epoch + 1} /\ m.again \in BOOLEAN
      /\ m.again <=> m.epoch = epoch + 1
      /\ pts # Invalid => m.at = Project(m.anchor, pts)
      /\ ~m.again => /\ m.anchor.pts = anchor.pts
                     /\ m.anchor.host <= anchor.host + DriftMax
  BY <1>1, MappedFrame DEF TimingInv
<1>3. head \in 0..MaxHeadroom /\ head <= video.headroom + HeadroomStep
  BY HeadroomBound DEF TimingInv
<1>4. /\ video.out \in Nat /\ video.epoch \in Nat /\ epoch \in Nat
      /\ video.headroom \in Nat
      /\ video.epoch <= epoch
      /\ video.out <= video.arrival + Disc + MaxHeadroom
  BY TimingAssumption DEF TimingInv, TimingTyped, OnClock, WithinReach
<1>5. /\ out \in {at, video.out + 1} /\ out \in Nat /\ out >= at
      /\ (m.epoch # video.epoch \/ Broken(pts, arrival)) => out = at
      /\ (m.epoch = video.epoch /\ ~Broken(pts, arrival) /\ video.out > 0) =>
           out > video.out
  <2> HIDE DEF m, arrival, head
  <2>1. at \in Nat /\ video.out \in Nat
    BY <1>2, <1>3, <1>4, TimingAssumption
  <2>2. out = LET last == IF m.epoch = video.epoch THEN video.out ELSE 0
              IN IF ~Broken(pts, arrival) /\ last > 0 /\ at <= last
                 THEN last + 1 ELSE at
    BY DEF VideoOut, head
  <2> HIDE DEF at, out
  <2> QED
    BY <2>1, <2>2
<1>6. /\ video' = [valid |-> pts # Invalid, pts |-> pts, arrival |-> arrival,
                   out |-> out, headroom |-> head, epoch |-> m.epoch]
      /\ anchor' = m.anchor /\ epoch' = m.epoch
      /\ reading' = [reading EXCEPT !["video"] = 0]
      /\ reset' = (/\ video.valid
                   /\ Sparse(pts, arrival) \/ Broken(pts, arrival) \/ m.again)
      /\ clock' = clock /\ audio' = audio
  BY DEF VideoFrame
<1>7. at > 0 /\ at >= arrival - Disc /\ at <= arrival + Disc + MaxHeadroom
  <2> HIDE DEF m, arrival, head
  <2> QED
    BY <1>1, <1>2, <1>3, TimingAssumption DEF Distance
<1> HIDE DEF m, arrival, head, out
<1>8. TimingTyped'
  <2>1. video' \in [valid : BOOLEAN, pts : Pts, arrival : Nat, out : Nat,
                    headroom : 0..MaxHeadroom, epoch : Nat]
    BY <1>1, <1>2, <1>3, <1>4, <1>5, <1>6
  <2>2. reset' \in BOOLEAN
    BY <1>6
  <2> QED
    BY <1>2, <1>4, <1>6, <2>1, <2>2 DEF TimingInv, TimingTyped, Streams
<1>9. Readings'
  <2>1. clock' > Disc
    BY <1>6 DEF TimingInv, Readings
  <2>2. reading'["video"] = 0 /\ reading'["audio"] = reading["audio"]
    BY <1>6 DEF TimingInv, TimingTyped, Streams
  <2>3. audio' = audio
    BY <1>6
  <2> QED
    BY <2>1, <2>2, <2>3 DEF TimingInv, Readings, LastArrival, Streams
<1>10. WithinReach'
  <2>1. arrival - Disc <= out /\ out <= arrival + Disc + MaxHeadroom
    <3> HIDE DEF at
    <3> QED
      BY <1>1, <1>4, <1>5, <1>7, TimingAssumption
  <2> QED
    BY <1>6, <2>1 DEF TimingInv, WithinReach
<1>11. OnClock'
  <2>1. video'.epoch <= epoch' /\ video'.out > 0
    BY <1>2, <1>4, <1>5, <1>6, <1>7
  <2>2. video'.valid => /\ video'.pts # Invalid
                        /\ Project(anchor', video'.pts) = m.at
    BY <1>2, <1>6
  <2>3. video'.out >= m.at + video'.headroom
    BY <1>5, <1>6
  <2> QED
    BY <2>1, <2>2, <2>3 DEF OnClock
<1>12. ASSUME video.valid, ~reset', video'.epoch = video.epoch
       PROVE  /\ video'.out > video.out
              /\ video'.out <= video.out + MaxGap + HeadroomStep + DriftMax
  <2>1. ~Sparse(pts, arrival) /\ ~Broken(pts, arrival) /\ ~m.again
    BY <1>6, <1>12
  <2>2. m.epoch = video.epoch /\ video.epoch = epoch
    BY <1>2, <1>4, <1>6, <1>12
  <2>3. video.out > 0 /\ video.pts # Invalid
        /\ video.out >= Project(anchor, video.pts) + video.headroom
    BY <1>12, <2>2 DEF TimingInv, OnClock
  <2>4. pts > video.pts /\ pts - video.pts <= MaxGap
    BY <1>1, <1>12, <2>1, TimingAssumption
    DEF Broken, Sparse, Forward, TimingInv, TimingTyped, Pts, Invalid
  <2>5. video.pts \in Nat /\ pts \in Nat /\ pts # Invalid
    BY <2>3, <2>4, TimingAssumption DEF TimingInv, TimingTyped, Pts, Invalid
  <2>6. m.at <= Project(anchor, video.pts) + MaxGap + DriftMax
    <3>1. /\ m.at = Project(m.anchor, pts)
          /\ m.anchor.pts = anchor.pts
          /\ m.anchor.host <= anchor.host + DriftMax
      BY <1>2, <2>1, <2>5
    <3>2. anchor.pts \in Nat /\ anchor.host \in Nat /\ m.anchor.host \in Nat
      BY <1>2, TimingAssumption DEF TimingInv, TimingTyped
    <3> QED
      BY <2>4, <2>5, <3>1, <3>2, TimingAssumption DEF Project, Floored
  <2>7. Project(anchor, video.pts) \in Nat
    <3>1. anchor.pts \in Nat /\ anchor.host \in Nat
      BY TimingAssumption DEF TimingInv, TimingTyped
    <3> QED
      BY <2>5, <3>1 DEF Project, Floored
  <2>8. at <= video.out + MaxGap + HeadroomStep + DriftMax
    BY <1>2, <1>3, <1>4, <2>3, <2>6, <2>7, TimingAssumption
  <2> QED
    BY <1>4, <1>5, <1>6, <2>1, <2>2, <2>3, <2>8, TimingAssumption
<1> QED
  BY <1>8, <1>9, <1>10, <1>11, <1>12 DEF TimingInv

(* Mapping a frame of audio.                                                *)
LEMMA AudioStep ==
  ASSUME TimingInv, NEW pts \in Pts, NEW duration \in Durations,
         AudioFrame(pts, duration)
  PROVE  /\ TimingInv'
         /\ audio.valid /\ audio'.epoch = audio.epoch => audio'.out > audio.out
<1> DEFINE arrival == reading["audio"]
           m == Mapped(pts, arrival, FALSE)
           at == Smoothed(m.at, arrival)
           out == AudioOut(arrival, m)
<1>1. /\ arrival \in Nat /\ arrival > Disc /\ arrival > audio.arrival
      /\ audio.arrival \in Nat
  <2>1. reading["audio"] \in Nat /\ reading["audio"] # 0
    BY DEF TimingInv, TimingTyped, AudioFrame, Streams
  <2> QED
    BY <2>1 DEF TimingInv, TimingTyped, Readings, LastArrival, Streams
<1>2. /\ m.at \in Nat /\ Distance(m.at, arrival) <= Disc
      /\ m.anchor \in [pts : 0..MaxPts, host : Nat]
      /\ m.epoch \in {epoch, epoch + 1} /\ m.again \in BOOLEAN
      /\ m.again <=> m.epoch = epoch + 1
      /\ ~m.again => m.anchor = anchor
  BY <1>1, MappedFrame DEF TimingInv
<1>3. /\ audio.out \in Nat /\ audio.duration \in Nat /\ audio.epoch \in Nat
      /\ epoch \in Nat /\ video.epoch \in Nat /\ video.epoch <= epoch
      /\ audio.out <= audio.arrival + Disc + Smooth
  <2>1. audio.duration \in Durations \cup {0}
    BY DEF TimingInv, TimingTyped
  <2>2. audio.duration \in Nat
    <3>1. \A d \in Durations : d \in Nat
      BY TimingAssumption
    <3> QED
      BY <2>1, <3>1
  <2> QED
    BY <2>2, TimingAssumption DEF TimingInv, TimingTyped, OnClock, WithinReach
<1> HIDE DEF m, arrival
<1>4. at \in Nat /\ Distance(at, m.at) <= Smooth
  <2>1. Expected \in Nat
    BY <1>3 DEF Expected
  <2> QED
    BY <1>1, <1>2, <2>1, TimingAssumption DEF Smoothed, Distance
<1>5. /\ out \in Nat
      /\ out \in {at, m.at} \/ (at <= audio.out /\ out = audio.out + 1)
      /\ audio.valid /\ m.epoch = audio.epoch => out > audio.out
  <2> HIDE DEF at
  <2>1. out = IF audio.valid /\ m.epoch = audio.epoch
              THEN IF at <= audio.out THEN audio.out + 1 ELSE at
              ELSE m.at
    BY DEF AudioOut, at
  <2> HIDE DEF out
  <2> QED
    BY <1>2, <1>3, <1>4, <2>1
<1>6. /\ audio' = [valid |-> pts # Invalid, arrival |-> arrival, out |-> out,
                   duration |-> duration, epoch |-> m.epoch]
      /\ anchor' = m.anchor /\ epoch' = m.epoch
      /\ reading' = [reading EXCEPT !["audio"] = 0]
      /\ clock' = clock /\ video' = video /\ reset' = reset
  BY DEF AudioFrame, m, arrival
<1> HIDE DEF at, out
<1>7. TimingTyped'
  <2>1. audio' \in [valid : BOOLEAN, arrival : Nat, out : Nat,
                    duration : Durations \cup {0}, epoch : Nat]
    <3>1. m.epoch \in Nat
      BY <1>2, <1>3
    <3> QED
      BY <1>1, <1>5, <1>6, <3>1
  <2> QED
    BY <1>2, <1>3, <1>6, <2>1 DEF TimingInv, TimingTyped, Streams
<1>8. Readings'
  <2>1. clock' > Disc
    BY <1>6 DEF TimingInv, Readings
  <2>2. reading'["audio"] = 0 /\ reading'["video"] = reading["video"]
    BY <1>6 DEF TimingInv, TimingTyped, Streams
  <2>3. video' = video
    BY <1>6
  <2> QED
    BY <2>1, <2>2, <2>3 DEF TimingInv, Readings, LastArrival, Streams
<1>9. WithinReach'
  <2>1. /\ arrival - (Disc + Smooth) <= out
        /\ out <= arrival + Disc + Smooth
    BY <1>1, <1>2, <1>3, <1>4, <1>5, TimingAssumption DEF Distance
  <2> QED
    BY <1>6, <2>1 DEF TimingInv, WithinReach
<1>10. OnClock'
  <2>1. epoch' = epoch => anchor' = anchor
    BY <1>2, <1>3, <1>6
  <2>2. video' = video /\ video.epoch <= epoch' /\ (epoch' # epoch => video.epoch # epoch')
    BY <1>2, <1>3, <1>6
  <2> QED
    BY <2>1, <2>2 DEF TimingInv, OnClock
<1> QED
  BY <1>5, <1>6, <1>7, <1>8, <1>9, <1>10 DEF TimingInv

-----------------------------------------------------------------------------

(* The inductive invariant: the types, the readings, the reach of both      *)
(* streams and the place of the last picture on the shared clock.           *)
THEOREM TimingInvariance == TimingSpec => []TimingInv
<1>1. TimingInit => TimingInv
  <2> SUFFICES ASSUME TimingInit PROVE TimingInv
    OBVIOUS
  <2>1. TimingTyped
    <3>1. 0 \in 0..MaxPts /\ 0 \in Pts /\ 0 \in 0..MaxHeadroom
      BY TimingAssumption DEF Pts
    <3>2. clock \in Nat /\ reading \in [Streams -> Nat] /\ epoch \in Nat
      BY TimingAssumption DEF TimingInit
    <3>3. anchor \in [pts : 0..MaxPts, host : Nat] /\ reset \in BOOLEAN
      BY <3>1 DEF TimingInit
    <3>4. video \in [valid : BOOLEAN, pts : Pts, arrival : Nat, out : Nat,
                     headroom : 0..MaxHeadroom, epoch : Nat]
      BY <3>1 DEF TimingInit
    <3>5. audio \in [valid : BOOLEAN, arrival : Nat, out : Nat,
                     duration : Durations \cup {0}, epoch : Nat]
      BY DEF TimingInit
    <3> QED
      BY <3>2, <3>3, <3>4, <3>5 DEF TimingTyped
  <2>2. Readings
    BY TimingAssumption DEF TimingInit, Readings
  <2>3. WithinReach /\ OnClock
    BY TimingAssumption DEF TimingInit, WithinReach, OnClock
  <2> QED
    BY <2>1, <2>2, <2>3 DEF TimingInv
<1>2. TimingInv /\ [TimingNext]_timing => TimingInv'
  <2> SUFFICES ASSUME TimingInv, [TimingNext]_timing PROVE TimingInv'
    OBVIOUS
  <2>1. CASE \E s \in Streams : ReadClock(s)
    BY <2>1, ReadStep
  <2>2. CASE \E pts \in Pts : VideoFrame(pts)
    BY <2>2, VideoStep
  <2>3. CASE \E pts \in Pts, duration \in Durations : AudioFrame(pts, duration)
    BY <2>3, AudioStep
  <2>4. CASE UNCHANGED timing
    BY <2>4 DEF timing, TimingInv, TimingTyped, Readings, LastArrival, WithinReach,
                OnClock, Project, Floored
  <2> QED
    BY <2>1, <2>2, <2>3, <2>4 DEF TimingNext
<1> QED
  BY <1>1, <1>2, PTL DEF TimingSpec

(* No frame is ever dated further from its arrival than the discontinuity   *)
(* limit and what headroom and smoothing add.                               *)
THEOREM ReachSafety == TimingSpec => []WithinReach
<1>1. TimingInv => WithinReach
  BY DEF TimingInv
<1> QED
  BY <1>1, TimingInvariance, PTL

(* Both streams go forward within an epoch, and the picture never jumps     *)
(* ahead unannounced.                                                       *)
THEOREM Smoothness == TimingSpec => RunsSmoothly
<1> DEFINE Picture ==
             video' # video /\ video.valid /\ ~reset' /\ video'.epoch = video.epoch =>
               /\ video'.out > video.out
               /\ video'.out <= video.out + MaxGap + HeadroomStep + DriftMax
           Sound ==
             audio' # audio /\ audio.valid /\ audio'.epoch = audio.epoch =>
               audio'.out > audio.out
<1>1. TimingInv /\ [TimingNext]_timing => Picture /\ Sound
  <2> SUFFICES ASSUME TimingInv, [TimingNext]_timing PROVE Picture /\ Sound
    OBVIOUS
  <2>1. CASE \E s \in Streams : ReadClock(s)
    BY <2>1 DEF ReadClock
  <2>2. CASE \E pts \in Pts : VideoFrame(pts)
    <3>1. audio' = audio
      BY <2>2 DEF VideoFrame
    <3>2. Picture
      BY <2>2, VideoStep
    <3> QED
      BY <3>1, <3>2
  <2>3. CASE \E pts \in Pts, duration \in Durations : AudioFrame(pts, duration)
    <3>1. video' = video
      BY <2>3 DEF AudioFrame
    <3>2. Sound
      BY <2>3, AudioStep
    <3> QED
      BY <3>1, <3>2
  <2>4. CASE UNCHANGED timing
    BY <2>4 DEF timing
  <2> QED
    BY <2>1, <2>2, <2>3, <2>4 DEF TimingNext
<1> QED
  BY <1>1, TimingInvariance, PTL DEF TimingSpec, RunsSmoothly
=============================================================================
