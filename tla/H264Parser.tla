----------------------------- MODULE H264Parser -----------------------------
(***************************************************************************)
(* The part of the client's H.264 parser that the renderer uses            *)
(* (clients/mac/h264_parser.cc): cutting a packet in Annex B format into   *)
(* network abstraction layer units (NALUs).  The encrypted ranges are      *)
(* always empty, because SetStream passes no subsamples.                   *)
(*                                                                         *)
(* A packet is a sequence of byte values; an offset counts from 0, so the  *)
(* byte at offset p is packet[p + 1].                                      *)
(***************************************************************************)
EXTENDS BitReader, FiniteSetsExt

\* The numbers of H264NALU::Type that the renderer looks at.
kSPS == 7
kPPS == 8
kSPSExt == 13

IsStartCode(d, p) == d[p + 1] = 0 /\ d[p + 2] = 0 /\ d[p + 3] = 1

-----------------------------------------------------------------------------
(* Faulty variants of the definitions below, each a plausible mistake in   *)
(* the code; no specification uses them.                                   *)

\* takes the zero byte of a four-byte start code for data
BacktrackNever(d, from, p) == [offset |-> p, size |-> 3]
\* asks for two bytes after a start code
NothingAfterShort(d, data) == data >= Len(d) - 1
\* steps over the start code of the next NALU too
AfterNALUAndCode(start, size) == start + size + 3

-----------------------------------------------------------------------------
\* Where a start code can begin in the bytes of d that follow offset from.
Candidates(d, from) == {p \in from .. Len(d) - 3 : IsStartCode(d, p)}

\* A zero byte before a start code belongs to it.
Backtrack(d, from, p) ==
  IF p > from /\ d[p] = 0 THEN [offset |-> p - 1, size |-> 4]
                          ELSE [offset |-> p, size |-> 3]

NoStartCode == [offset |-> -1, size |-> 0]

FindStartCode(d, from) ==
  IF Candidates(d, from) = {} THEN NoStartCode
                              ELSE Backtrack(d, from, Min(Candidates(d, from)))

NothingAfter(d, data) == data >= Len(d)

\* Where the next NALU is: its bytes without the start code are those from
\* offset data on, size of them.
LocateNALU(d, from) ==
  LET code == FindStartCode(d, from)
      data == code.offset + code.size
      next == FindStartCode(d, data)
  IN  IF code = NoStartCode \/ NothingAfter(d, data)
        THEN [found |-> FALSE]
        ELSE [found |-> TRUE, data |-> data,
              size |-> IF next = NoStartCode THEN Len(d) - data
                                             ELSE next.offset - data]

AfterNALU(start, size) == start + size

\* forbidden_zero_bit, nal_ref_idc and nal_unit_type, read one after another.
Header(d) == LET forbidden_zero_bit == ReadBits(Reader(d), 1)
                 nal_ref_idc == ReadBits(forbidden_zero_bit.r, 2)
                 nal_unit_type == ReadBits(nal_ref_idc.r, 5)
             IN  [forbidden_zero_bit |-> forbidden_zero_bit.out,
                  nal_unit_type |-> nal_unit_type.out]

\* The results of AdvanceToNextNALU, and where it leaves stream_ when there
\* is a NALU; after another result its caller gives up the stream.  An empty
\* NALU, in which the bit reader finds nothing, is reported as the end of it.
AdvanceToNextNALU(d, from) ==
  LET nalu == LocateNALU(d, from)
      header == Header(SubSeq(d, nalu.data + 1, nalu.data + nalu.size))
  IN  IF ~nalu.found \/ nalu.size < 1
        THEN [result |-> "kEOStream"]
      ELSE IF header.forbidden_zero_bit # 0
        THEN [result |-> "kInvalidStream"]
      ELSE [result |-> "kOk", data |-> nalu.data, size |-> nalu.size,
            nal_unit_type |-> header.nal_unit_type,
            stream |-> AfterNALU(nalu.data, nalu.size)]
=============================================================================
