------------------------- MODULE RendererProperties -------------------------
(* What must hold of the way the renderer cuts packets into NALUs. *)
EXTENDS Renderer

-----------------------------------------------------------------------------
(* The reference: Annex B, read on the whole packet at once.  The start    *)
(* codes are the places where 0, 0, 1 stand; a NALU is what lies between   *)
(* two of them, without the zero byte that may precede the second.         *)

Codes(d) == {p \in 0 .. Len(d) - 3 : IsStartCode(d, p)}
Later(d, p) == {q \in Codes(d) : q > p}

\* Where the NALU after the code at p ends.
End(d, p) == IF Later(d, p) = {} THEN Len(d)
             ELSE LET q == Min(Later(d, p))
                  IN  IF d[q] = 0 THEN q - 1 ELSE q

Unit(d, p) == [data |-> p + 3, size |-> End(d, p) - (p + 3)]
Units(d) == {Unit(d, p) : p \in Codes(d)}

\* In the order in which they stand in the packet, and each once.
Ascending(units) ==
  \A j, k \in 1 .. Len(units) : j < k => units[j].data < units[k].data

FirstByte(unit) == packet[unit.data + 1]
NALUType(unit) == FirstByte(unit) % 32
Sound(unit) == unit.size > 0 /\ FirstByte(unit) < 128
Unseen == {p \in Codes(packet) : Unit(packet, p) \notin Range(seen)}

\* The NALUs before the first one that is empty or has forbidden_zero_bit set.
Damaged == {unit \in Units(packet) : ~Sound(unit)}
Reached == {unit \in Units(packet) \ Damaged :
              \A bad \in Damaged : unit.data < bad.data}

-----------------------------------------------------------------------------
NALU == [data : Int, size : Int]

\* The variables have their types; the parser stays inside the packet, and
\* so does every NALU it returned.
TypeOK ==
  /\ geometry \in BOOLEAN /\ h264Pid \in BOOLEAN /\ mDecoder \in BOOLEAN
  /\ mVideoFormat \in 0 .. MaxFormats
  /\ pc \in {"idle", "parameters", "create", "frame", "submit"}
  /\ packet \in Seq(0 .. 255)
  /\ stream \in 0 .. Len(packet)
  /\ lastSps \in NALU /\ lastPps \in NALU
  /\ \A units \in {nalus, seen} :
       /\ units \in Seq(NALU)
       /\ \A k \in 1 .. Len(units) :
            /\ units[k].data \in 0 .. Len(packet) - 1
            /\ units[k].size \in 1 .. Len(packet) - units[k].data
  /\ ended \in {"none", "kEOStream", "kInvalidStream"}

\* Repeated calls of AdvanceToNextNALU, each of which looks only ahead of
\* where the last one stopped, return the NALUs of the packet in order, each
\* with all its bytes and none of a start code, and leave none out.
SeenIsReference ==
  /\ Range(seen) \subseteq Units(packet)
  /\ Ascending(seen)
  /\ \A p \in Unseen, k \in 1 .. Len(seen) : seen[k].data < p

\* A loop over the NALUs ends where the packet does or, as an invalid stream,
\* at the first NALU that has forbidden_zero_bit set; it skips none before.
\* It ends at an empty NALU, too; the code then reports kEOStream, which
\* h264_parser.h:364 calls the end of the stream, and nothing is claimed.
ScanComplete ==
  pc \in {"create", "submit"} =>
    IF Unseen = {}
      THEN ended = "kEOStream"
      ELSE LET unit == Unit(packet, Min(Unseen))
           IN  unit.size > 0 => FirstByte(unit) > 127 /\ ended = "kInvalidStream"

\* The frame handlePacket submits has every NALU of the packet, in order, that
\* is not a parameter set and stands before the first damaged one, also for
\* the packet that createDecoder has read before.
FrameHasEverySlice ==
  pc = "submit" =>
    /\ Range(nalus) = {unit \in Reached :
                         NALUType(unit) \notin {kSPS, kPPS, kSPSExt}}
    /\ Ascending(nalus)

IsLastOf(kind, set) ==
  LET sets == {unit \in Reached : NALUType(unit) = kind}
  IN  set \in sets /\ \A other \in sets : other.data <= set.data

\* A format description and a decoder are made only from a packet that has an
\* SPS and a PPS before its first damaged NALU, and from the last of each.
DecoderFromLastSets ==
  [][mVideoFormat' # mVideoFormat \/ mDecoder' # mDecoder =>
       IsLastOf(kSPS, lastSps) /\ IsLastOf(kPPS, lastPps)]_vars

-----------------------------------------------------------------------------
(* The payload of a NALU, H.264 7.3.1: its bytes without each 3 that       *)
(* follows two zero bytes.                                                 *)

Bytes(unit) == SubSeq(packet, unit.data + 1, unit.data + unit.size)
IsPrevention(d, k) == k > 2 /\ d[k] = 3 /\ d[k - 1] = 0 /\ d[k - 2] = 0
Payload(d) == FlattenSeq([k \in 1 .. Len(d) |->
                            IF IsPrevention(d, k) THEN <<>> ELSE <<d[k]>>])

BitsOf(bytes) == [n \in 1 .. 8 * Len(bytes) |->
                    (bytes[(n + 7) \div 8] \div 2^((8 * Len(bytes) - n) % 8)) % 2]
Number(bits) ==
  LET upTo[n \in 0 .. Len(bits)] ==
        IF n = 0 THEN 0 ELSE 2 * upTo[n - 1] + bits[n]
  IN  upTo[Len(bits)]

Widths == {3, 11}     \* bound: within a byte, and across two or three

\* What count calls of ReadBits(w) return, and the reader after them.
ReadPieces(d, w, count) ==
  LET another(done) ==
        LET read == ReadBits(done.r, w)
        IN  [r |-> read.r, out |-> Append(done.out, read.out)]
      pieces[n \in 0 .. count] ==
        IF n = 0 THEN [r |-> Reader(d), out |-> <<>>] ELSE another(pieces[n - 1])
  IN  pieces[count]

\* Read in pieces of 3 or of 11 bits, a NALU gives the bits of its payload, to
\* the last whole piece and no further; the reader does not lose a byte 3 that
\* is data, and knows how much it has left.
ReadsPayload ==
  seen # <<>> =>
    LET d == Bytes(Last(seen))
        bits == BitsOf(Payload(d))
    IN  \A w \in Widths :
          LET count == Len(bits) \div w
              read == ReadPieces(d, w, count)
          IN  /\ read.r.ok
              /\ read.out = [n \in 1 .. count |->
                               Number(SubSeq(bits, w * (n - 1) + 1, w * n))]
              /\ NumBitsLeft(read.r) = 8 * Len(d) - w * count
                                       - 8 * read.r.emulation_prevention_bytes
              /\ ~ReadBits(read.r, w).r.ok
=============================================================================
