------------------------- MODULE DemuxerProperties -------------------------
(* What must hold of the demuxer's buffering. *)
EXTENDS Demuxer

\* The variables have their types; no size_t local ever goes below zero.
TypeOK ==
  /\ mBuffers \in Seq([at : Nat, size : Nat \ {0}])
  /\ mBufferOffset \in Nat
  /\ lastOffset \in Nat
  /\ current \in [0 .. BufferSize -> Int]
  /\ avPos \in Nat
  /\ fed \in Nat
  /\ pc \in {"idle", "resync", "skip", "copy", "return", "null", "data",
             "packet", "assertFailed"}
  /\ rem \in Nat /\ bufpos \in Nat /\ bufoff \in Nat
  /\ where \in Nat /\ lastoff \in Nat /\ skiprem \in Nat

\* A ReadAV that returns a pointer returns the PacketSize bytes at the
\* position it was asked for, however they lay in the buffers; one that
\* returns null was asked for bytes that have not all arrived.
ReadReturns ==
  /\ pc \in {"data", "packet"} =>
       \A k \in 0 .. PacketSize - 1 : current[k] = avPos + k
  /\ pc = "null" => fed < avPos + PacketSize

\* The buffers that are kept are one piece of the stream that ends where
\* feed() is, lastOffset is where that piece starts, and mBufferOffset lies
\* in the first of them: nothing after the last packet is dropped, and no
\* buffer before it is kept.
BuffersMatchOffset ==
  /\ \A n \in 1 .. Len(mBuffers) :
       mBuffers[n].at + mBuffers[n].size =
         IF n < Len(mBuffers) THEN mBuffers[n + 1].at ELSE fed
  /\ IF mBuffers = <<>> THEN lastOffset = fed /\ mBufferOffset = 0
                        ELSE /\ lastOffset = mBuffers[1].at
                             /\ mBufferOffset < mBuffers[1].size

\* Of the assertions in ReadAV only one can fail, the one that the position
\* has not been dropped, and only when the library goes back from the end of
\* a packet: the loops never land inside a buffer other than the first, and
\* never run past the last.
OnlyRewindAsserts ==
  pc = "assertFailed" => /\ avPos < lastOffset
                         /\ avPos + PacketSize > lastOffset

\* No assertion in ReadAV fails.
AssertsHold == pc # "assertFailed"

\* feed() returns with a whole packet left only when the library, having
\* read one, has found no start of a packet.
NothingLeft ==
  [][pc # "idle" /\ pc' = "idle" /\ pc # "data"
       => fed < avPos' + PacketSize]_vars

\* A call of feed() comes to an end (or to a failed assertion).
FeedReturns == pc # "idle" ~> pc \in {"idle", "assertFailed"}

\* The demuxer hands the stream on packet by packet, without a gap unless
\* the stream is out of order.
Framing == INSTANCE PacketFraming
             WITH Lossy <- Disorder # {},
                  place <- avPos,
                  packet <- IF pc = "packet"
                              THEN [k \in 0 .. PacketSize - 1 |-> current[k]]
                              ELSE <<>>
FramesPackets == Framing!Spec
=============================================================================
