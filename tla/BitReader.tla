------------------------------ MODULE BitReader ------------------------------
(***************************************************************************)
(* The reader of bits of a NALU (clients/mac/h264_bit_reader.cc).  A       *)
(* reader is a record of the class's members; data_ and bytes_left_ are    *)
(* what is left of the NALU, as a sequence of bytes.                       *)
(***************************************************************************)
EXTENDS Integers, Sequences, TLC

\* Initialize, for at least one byte.  prev_two_bytes_ starts as what no two
\* zero bytes are.
Reader(data) == [data |-> data, curr_byte |-> 0, remaining |-> 0,
                 prev_two_bytes |-> <<255, 255>>,
                 emulation_prevention_bytes |-> 0, ok |-> TRUE]

-----------------------------------------------------------------------------
(* Faulty variants of the definitions below, each a plausible mistake in   *)
(* the code; no specification uses them.                                   *)

\* forgets that the next byte 3 needs two zero bytes of its own
SkipKeepsPrevious(r) ==
  [r EXCEPT !.data = Tail(@), !.emulation_prevention_bytes = @ + 1]

-----------------------------------------------------------------------------
EmulationPrevention(r) == Head(r.data) = 3 /\ r.prev_two_bytes = <<0, 0>>

Skip(r) == [r EXCEPT !.data = Tail(@), !.emulation_prevention_bytes = @ + 1,
                     !.prev_two_bytes = <<255, 255>>]

Load(r) == [r EXCEPT !.data = Tail(@), !.curr_byte = Head(r.data),
                     !.remaining = 8,
                     !.prev_two_bytes = <<@[2], Head(r.data)>>]

UpdateCurrByte(r) ==
  IF r.data = <<>> THEN [r EXCEPT !.ok = FALSE]
  ELSE LET next == IF EmulationPrevention(r) THEN Skip(r) ELSE r
       IN  IF next.data = <<>> THEN [next EXCEPT !.ok = FALSE] ELSE Load(next)

\* ReadBits(num_bits): the reader afterwards, its ok FALSE when the NALU ended
\* too early, and out.  Bits of curr_byte that were read before are shifted
\* with the others, and lie above the lowest num_bits of out in the end.
ReadBits(r, num_bits) ==
  LET more(s) ==
        [r |-> UpdateCurrByte(s.r), left |-> s.left - s.r.remaining,
         out |-> s.out + s.r.curr_byte * 2^(s.left - s.r.remaining)]
      loop[n \in 0 .. 2 + num_bits \div 8] ==
        IF n = 0 THEN [r |-> r, left |-> num_bits, out |-> 0]
        ELSE LET s == loop[n - 1]
             IN  IF s.r.ok /\ s.r.remaining < s.left THEN more(s) ELSE s
      end == loop[2 + num_bits \div 8]
  IN  IF ~end.r.ok THEN end
      ELSE [end EXCEPT
              !.r.remaining = @ - end.left,
              !.out = (@ + end.r.curr_byte \div 2^(end.r.remaining - end.left))
                        % 2^num_bits]

NumBitsLeft(r) == r.remaining + 8 * Len(r.data)
=============================================================================
