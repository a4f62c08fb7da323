----------------------------- MODULE MediaStream -----------------------------
(***************************************************************************)
(* One media stream of a session: the demuxer thread run_demuxer()         *)
(* (demuxer.cpp:144), the packet merger, the packet source with its        *)
(* decoding sink, and the session output that hands frames to OBS until    *)
(* the session closes it.                                                  *)
(*                                                                         *)
(* Each stream has exactly one sink (capture_session.cpp:274, 292), which  *)
(* never refuses to open.  Packets are told apart by the codec             *)
(* configuration of the device under which they were produced; pictures    *)
(* and samples have no content here.                                       *)
(***************************************************************************)
EXTENDS Naturals

CONSTANT MaxConfigs   \* how often the device changes its configuration

ASSUME ConfigsAssumption == MaxConfigs \in Nat

Codecs   == {"h26x", "av1", "audio"}
Versions == 0..MaxConfigs     \* 0 stands for no configuration

VARIABLES
  stream,     \* program counter of run_demuxer()
  codec,      \* what the device announced
  context,    \* the codec context: none, live or freed
  packet,     \* the packet in hand
  config,     \* sc_packet_merger::config
  sink,       \* the sink: whether it points at the context, and whether it
              \* has a frame to decode into
  announced,  \* the configuration the device encodes with
  decoder,    \* the configuration the decoder decodes with
  accepting,  \* sc_session_output::accepting_
  late        \* history: deliveries to OBS since the output was closed

media == <<codec, context, packet, config, sink, announced, decoder>>
output == <<accepting, late>>
vars  == <<stream, media, output>>

NoPacket == [config |-> FALSE, version |-> 0, prefix |-> 0]
Packets  == [config : BOOLEAN, version : Versions, prefix : Versions]

TypeOK ==
  /\ stream \in {"codec", "size", "open_codec", "open_sinks", "alloc", "recv",
                 "merge", "push", "frames", "check_reset", "reset", "check",
                 "deliver", "close", "free", "report", "ended", "gone"}
  /\ codec \in Codecs \cup {"none"}
  /\ context \in {"none", "live", "freed"}
  /\ packet \in Packets
  /\ packet.config => stream \in {"merge", "push"}
  /\ config \in Versions /\ announced \in Versions /\ decoder \in Versions
  /\ sink \in [context : BOOLEAN, frame : BOOLEAN]
  /\ accepting \in BOOLEAN
  /\ late \in 0..2

-----------------------------------------------------------------------------
(* The thread has been created with the sink added; av_frame_alloc() of the *)
(* sink's constructor may have failed, which only its log mentions.         *)
Init ==
  /\ stream = "codec" /\ codec = "none" /\ context = "none"
  /\ packet = NoPacket /\ config = 0 /\ announced = 0 /\ decoder = 0
  /\ \E frame \in BOOLEAN : sink = [context |-> FALSE, frame |-> frame]
  /\ accepting = TRUE /\ late = 0

Goto(from, to) == stream = from /\ stream' = to

-----------------------------------------------------------------------------
(* Opening                                                                  *)

(* The codec id arrives, the decoder exists and its context is allocated.   *)
RecvCodec ==
  /\ codec' \in Codecs
  /\ Goto("codec", IF codec' = "audio" THEN "open_codec" ELSE "size")
  /\ context' = "live"
  /\ UNCHANGED <<packet, config, sink, announced, decoder, output>>

(* No codec id, a stream that the device has disabled or could not          *)
(* configure, a codec that cannot be decoded, or no memory for the context. *)
(* Some of these also tell the sinks, which only log it.                    *)
RecvNothing ==
  /\ Goto("codec", "report")
  /\ UNCHANGED <<media, output>>

(* Receiving the size of the video and opening the codec; either may fail.  *)
RecvSize ==
  /\ Goto("size", "open_codec") \/ Goto("size", "free")
  /\ UNCHANGED <<media, output>>

OpenCodec ==
  /\ Goto("open_codec", "open_sinks") \/ Goto("open_codec", "free")
  /\ UNCHANGED <<media, output>>

(* open_sinks(): the sink takes the codec context.                          *)
OpenSinks ==
  /\ Goto("open_sinks", "alloc")
  /\ sink' = [sink EXCEPT !.context = TRUE]
  /\ UNCHANGED <<codec, context, packet, config, announced, decoder, output>>

\* Variant: without a packet only the context is freed.
AllocPacket_SkipClose ==
  /\ Goto("alloc", "recv") \/ Goto("alloc", "free")
  /\ UNCHANGED <<media, output>>

(* Without a packet the sinks are closed again.                             *)
AllocPacket ==
  /\ Goto("alloc", "recv") \/ Goto("alloc", "close")
  /\ UNCHANGED <<media, output>>

-----------------------------------------------------------------------------
(* The packet loop                                                          *)

(* A packet of the device: a new configuration or media under the current.  *)
RecvPacket ==
  /\ Goto("recv", IF codec = "h26x" THEN "merge" ELSE "push")
  /\ \/ /\ announced < MaxConfigs
        /\ announced' = announced + 1
        /\ packet' = [config |-> TRUE, version |-> announced', prefix |-> 0]
     \/ /\ announced' = announced
        /\ packet' = [config |-> FALSE, version |-> announced, prefix |-> 0]
  /\ UNCHANGED <<codec, context, config, sink, decoder, output>>

(* The socket has ended, been interrupted, or there is no memory.           *)
RecvFails ==
  /\ Goto("recv", "close")
  /\ packet' = NoPacket
  /\ UNCHANGED <<codec, context, config, sink, announced, decoder, output>>

\* Variant: a configuration that already waits is not replaced.
MergeConfig_KeepFirst ==
  /\ packet.config
  /\ Goto("merge", "recv")
  /\ config' = IF config = 0 THEN packet.version ELSE config
  /\ packet' = NoPacket

(* sc_packet_merger::merge(): a configuration replaces one that waits and   *)
(* is not pushed itself.                                                    *)
MergeConfig ==
  /\ packet.config
  /\ Goto("merge", "recv")
  /\ config' = packet.version
  /\ packet' = NoPacket

(* What waits is prepended to the next media packet, once.                  *)
MergeMedia ==
  /\ ~packet.config
  /\ Goto("merge", "push")
  /\ packet' = [packet EXCEPT !.prefix = config]
  /\ config' = 0

(* No memory: the old configuration is gone already when storing fails, and *)
(* kept when growing the packet fails.  The loop ends.                      *)
MergeFails ==
  /\ Goto("merge", "close")
  /\ \/ packet.config /\ config' = 0
     \/ ~packet.config /\ config # 0 /\ UNCHANGED config
  /\ packet' = NoPacket

Merge ==
  /\ MergeConfig \/ MergeMedia \/ MergeFails
  /\ UNCHANGED <<codec, context, sink, announced, decoder, output>>

(* push_packet(): a sink that cannot decode, and a configuration that is    *)
(* not merged, are passed over.                                             *)
PushIgnored ==
  /\ ~sink.context \/ ~sink.frame \/ packet.config
  /\ Goto("push", "recv")
  /\ packet' = NoPacket
  /\ UNCHANGED decoder

(* The decoder takes the packet and what is prepended to it ...             *)
PushTaken ==
  /\ sink.context /\ sink.frame /\ ~packet.config
  /\ Goto("push", "frames")
  /\ decoder' = IF packet.prefix = 0 THEN decoder ELSE packet.prefix
  /\ UNCHANGED packet

(* ... or refuses it, which ends the loop.                                  *)
PushRefused ==
  /\ sink.context /\ sink.frame /\ ~packet.config
  /\ Goto("push", "close")
  /\ packet' = NoPacket
  /\ UNCHANGED decoder

Push ==
  /\ PushIgnored \/ PushTaken \/ PushRefused
  /\ UNCHANGED <<codec, context, config, sink, announced, output>>

-----------------------------------------------------------------------------
(* Frames                                                                   *)

(* The decoder returns a frame in a format that OBS knows; the mapping of   *)
(* its time may ask for a reset of the video timeline first.                *)
ReceiveFrame ==
  /\ \/ Goto("frames", "check")
     \/ codec # "audio" /\ Goto("frames", "check_reset")
  /\ UNCHANGED <<media, output>>

(* A frame in an unknown format is dropped: the loop goes on, with no       *)
(* effect here.  When the decoder has no more frames the packet is done.    *)
NoMoreFrames ==
  /\ Goto("frames", "recv")
  /\ packet' = NoPacket
  /\ UNCHANGED <<codec, context, config, sink, announced, decoder, output>>

\* Variant: only the reset looks at the flag.
CheckOutput_OnlyReset ==
  /\ \/ accepting /\ Goto("check_reset", "reset")
     \/ Goto("check_reset", "check")
     \/ Goto("check", "deliver")
     \/ Goto("check", "frames")
  /\ UNCHANGED <<media, output>>

(* The second look at accepting_, or one of the reasons to leave: closed,   *)
(* or the OBS source is gone.                                               *)
CheckOutput ==
  /\ \/ accepting /\ Goto("check_reset", "reset")
     \/ Goto("check_reset", "check")
     \/ accepting /\ Goto("check", "deliver")
     \/ Goto("check", "frames")
  /\ UNCHANGED <<media, output>>

(* obs_source_output_video() or _audio().  The output may have been closed  *)
(* since the look.                                                          *)
Deliver ==
  /\ Goto("reset", "check") \/ Goto("deliver", "frames")
  /\ late' = IF accepting \/ late = 2 THEN late ELSE late + 1
  /\ UNCHANGED <<media, accepting>>

-----------------------------------------------------------------------------
(* Ending                                                                   *)

(* close_sinks(): the sink lets go of the codec context.                    *)
CloseSinks ==
  /\ Goto("close", "free")
  /\ sink' = [sink EXCEPT !.context = FALSE]
  /\ UNCHANGED <<codec, context, packet, config, announced, decoder, output>>

FreeContext ==
  /\ Goto("free", "report")
  /\ context' = "freed"
  /\ UNCHANGED <<codec, packet, config, sink, announced, decoder, output>>

(* on_ended(); what the session makes of it is in CaptureSession.           *)
Report ==
  /\ Goto("report", "ended")
  /\ UNCHANGED <<media, output>>

(* The session is destroyed after the thread was joined; the destructor of  *)
(* the packet source closes its sinks once more.                            *)
Destroy ==
  /\ Goto("ended", "gone")
  /\ sink' = [sink EXCEPT !.context = FALSE]
  /\ UNCHANGED <<codec, context, packet, config, announced, decoder, output>>

(* sc_session_output::close(), on the thread that retires the session.      *)
CloseOutput ==
  /\ accepting
  /\ accepting' = FALSE
  /\ UNCHANGED <<stream, media, late>>

Next ==
  \/ RecvCodec \/ RecvNothing \/ RecvSize \/ OpenCodec
  \/ OpenSinks \/ AllocPacket
  \/ RecvPacket \/ RecvFails \/ Merge \/ Push
  \/ ReceiveFrame \/ NoMoreFrames \/ CheckOutput \/ Deliver
  \/ CloseSinks \/ FreeContext \/ Report \/ Destroy
  \/ CloseOutput

Spec == Init /\ [][Next]_vars

-----------------------------------------------------------------------------
(* Properties                                                               *)

(* packet_sink.h:21: "The codec context is valid until the sink is closed": *)
(* a sink never points at a context that has been freed, on any path of     *)
(* run_demuxer() (demuxer.cpp:281-285).                                     *)
SinkHoldsLiveContext == sink.context => context = "live"

(* H.26x is decoded under the configuration it was encoded with, whatever   *)
(* sequence of configurations the device sent: of several that wait only    *)
(* the last counts, and it reaches the decoder before the next media packet *)
(* (packet_merge.cpp:12-45).                                                *)
DecodesWithCurrentConfig ==
  stream = "frames" /\ codec = "h26x" => decoder = packet.version

(* Closing the output of a session stops its frames: per stream at most one *)
(* call to OBS, already past its look at accepting_, comes out afterwards   *)
(* (capture_session.cpp:115-153).                                           *)
OneLateDelivery == late <= 1
=============================================================================
