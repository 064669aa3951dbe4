------------------------------ MODULE Renderer ------------------------------
(***************************************************************************)
(* The video side of the client's renderer (clients/mac/Renderer.cpp):     *)
(* what it does with the demuxer's signals, from the first stream          *)
(* information to the frames it submits to the decoder.  It runs on the    *)
(* renderer's thread, inside Demuxer::feed().                              *)
(*                                                                         *)
(* pc is where it is in the handler of the pkt signal: "idle" outside;     *)
(* "parameters" in the loop of createDecoder and "create" after it;        *)
(* "frame" in the loop of handlePacket and "submit" after it.  The media   *)
(* frameworks are external: each of their calls may fail.                  *)
(***************************************************************************)
EXTENDS H264Parser, SequencesExt

CONSTANT Packets     \* the video packets the demuxer may deliver

ASSUME PacketsAssumption == Packets \subseteq Seq(0 .. 255)

VARIABLES
  geometry,      \* mWidth > 0 && mHeight > 0
  h264Pid,       \* mH264Pid is known
  mDecoder,      \* the decompression session exists
  mVideoFormat,  \* how many format descriptions were made
  pc,
  packet,        \* the packet in hand
  stream,        \* stream_ of mParser, as an offset in packet
  lastSps, lastPps,
  nalus,         \* what handlePacket has collected
  seen,          \* history: the NALUs of this loop so far
  ended          \* history: the result that ended it

vars == <<geometry, h264Pid, mDecoder, mVideoFormat, pc, packet, stream,
          lastSps, lastPps, nalus, seen, ended>>

None == [data |-> -1, size |-> 0]
MaxFormats == 2      \* bound: format descriptions in a behaviour

\* The handler of the packet returns, and its locals are gone.
Idle == /\ pc' = "idle"
        /\ packet' = <<>> /\ stream' = 0
        /\ lastSps' = None /\ lastPps' = None
        /\ nalus' = <<>> /\ seen' = <<>> /\ ended' = "none"

\* SetStream, and an empty loop.
StartLoop(loop, d) ==
  /\ pc' = loop
  /\ packet' = d /\ stream' = 0
  /\ lastSps' = None /\ lastPps' = None
  /\ nalus' = <<>> /\ seen' = <<>> /\ ended' = "none"

Init == /\ geometry = FALSE
        /\ h264Pid = FALSE
        /\ mDecoder = FALSE
        /\ mVideoFormat = 0
        /\ pc = "idle"
        /\ packet = <<>> /\ stream = 0
        /\ lastSps = None /\ lastPps = None
        /\ nalus = <<>> /\ seen = <<>> /\ ended = "none"

\* The parser's next result, and the NALU it is about.
next == AdvanceToNextNALU(packet, stream)
nalu == [data |-> next.data, size |-> next.size]

-----------------------------------------------------------------------------
(* Faulty variants, as in H264Parser. *)

\* takes the SPS extension for a slice
InFrameNoSPSExt(type) == type \notin {kSPS, kPPS}
\* gives up only when both parameter sets are missing
HaveEither(sps, pps) == sps # None \/ pps # None

-----------------------------------------------------------------------------
\* The info signal, for an H.264 stream.
Info(known) == /\ pc = "idle"
               /\ geometry' = known
               /\ h264Pid' = TRUE
               /\ UNCHANGED <<mDecoder, mVideoFormat, pc, packet, stream,
                              lastSps, lastPps, nalus, seen, ended>>

\* The pkt signal, for the H.264 stream; before the geometry is known the
\* packet is dropped.
Packet(d) == /\ pc = "idle"
             /\ h264Pid
             /\ mDecoder \/ geometry
             /\ StartLoop(IF mDecoder THEN "frame" ELSE "parameters", d)
             /\ UNCHANGED <<geometry, h264Pid, mDecoder, mVideoFormat>>

Saw == /\ next.result = "kOk"
       /\ seen' = Append(seen, nalu)
       /\ stream' = next.stream
       /\ UNCHANGED <<pc, ended>>

EndLoop(to) == /\ next.result # "kOk"
               /\ pc' = to
               /\ ended' = next.result
               /\ UNCHANGED <<seen, stream, lastSps, lastPps, nalus>>

LatestSet(kind, last) == IF next.nal_unit_type = kind THEN nalu ELSE last

\* The loop of createDecoder.
Parameters ==
  /\ pc = "parameters"
  /\ \/ /\ Saw
        /\ lastSps' = LatestSet(kSPS, lastSps)
        /\ lastPps' = LatestSet(kPPS, lastPps)
        /\ UNCHANGED nalus
     \/ EndLoop("create")
  /\ UNCHANGED <<geometry, h264Pid, mDecoder, mVideoFormat, packet>>

HaveParameters(sps, pps) == sps # None /\ pps # None

\* createDecoder finds no parameter sets, or makes no format description.
NoFormat == /\ pc = "create"
            /\ Idle
            /\ UNCHANGED <<geometry, h264Pid, mDecoder, mVideoFormat>>

\* A format description, but no session: mVideoFormat is overwritten, and
\* not released, when the next packet is tried.
NoSession == /\ pc = "create"
             /\ HaveParameters(lastSps, lastPps)
             /\ mVideoFormat < MaxFormats
             /\ mVideoFormat' = mVideoFormat + 1
             /\ Idle
             /\ UNCHANGED <<geometry, h264Pid, mDecoder>>

\* The decoder is there, and the same packet goes to handlePacket.
CreateDecoder == /\ pc = "create"
                 /\ HaveParameters(lastSps, lastPps)
                 /\ mVideoFormat < MaxFormats
                 /\ mVideoFormat' = mVideoFormat + 1
                 /\ mDecoder' = TRUE
                 /\ StartLoop("frame", packet)
                 /\ UNCHANGED <<geometry, h264Pid>>

InFrame(type) == type \notin {kSPS, kSPSExt, kPPS}

\* The loop of handlePacket.
Frame == /\ pc = "frame"
         /\ \/ /\ Saw
               /\ nalus' = IF InFrame(next.nal_unit_type)
                             THEN Append(nalus, nalu) ELSE nalus
               /\ UNCHANGED <<lastSps, lastPps>>
            \/ EndLoop("submit")
         /\ UNCHANGED <<geometry, h264Pid, mDecoder, mVideoFormat, packet>>

\* The frame is put together, each NALU after its length, and submitted; or it
\* is empty, or a call fails.  The handler returns.
Submit == /\ pc = "submit"
          /\ Idle
          /\ UNCHANGED <<geometry, h264Pid, mDecoder, mVideoFormat>>

Step == Parameters \/ NoFormat \/ NoSession \/ CreateDecoder \/ Frame \/ Submit

Next == \/ \E known \in BOOLEAN : Info(known)
        \/ \E d \in Packets : Packet(d)
        \/ Step

Spec == Init /\ [][Next]_vars
FairSpec == Spec /\ WF_vars(Step)
=============================================================================
