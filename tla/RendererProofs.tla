--------------------------- MODULE RendererProofs ---------------------------
(***************************************************************************)
(* Proofs about the video side of the renderer: that the parser, call by   *)
(* call, cuts any packet into the NALUs of Annex B, that the decoder and   *)
(* the frames are made from the right ones, and that the bit reader gives  *)
(* the payload of each.                                                    *)
(*                                                                         *)
(* What the invariant adds: the start codes before stream_ are those whose *)
(* NALUs were returned (Scanned).  AdvanceToNextNALU looks only at what    *)
(* follows stream_, so the first code that it finds is the first that was  *)
(* not seen; where it leaves stream_, no code is passed over, because two  *)
(* codes never overlap (CodesApart).                                       *)
(*                                                                         *)
(* The second half is about the bit reader: it stands at one bit of the    *)
(* payload (IsAt), and a call takes it as many bits further as it returns. *)
(***************************************************************************)
EXTENDS RendererProperties, SequenceLemmas

Byte == 0 .. 255

\* The NALUs before stream_ were returned, and no others.
Scanned ==
  /\ \A k \in 1 .. Len(seen) :
       \E p \in Codes(packet) : seen[k] = Unit(packet, p) /\ Sound(seen[k])
  /\ Ascending(seen)
  /\ \A p \in Codes(packet) : p < stream <=> Unit(packet, p) \in Range(seen)

\* A loop ended at the first NALU that it did not return.
EndedAtFirst ==
  pc \in {"create", "submit"} =>
    LET left == Candidates(packet, stream)
        unit == Unit(packet, Min(left))
    IN  IF left = {} THEN ended = "kEOStream"
        ELSE /\ ~Sound(unit)
             /\ ended = IF unit.size = 0 THEN "kEOStream" ELSE "kInvalidStream"

\* handlePacket has collected what it returned and is no parameter set.
Slices ==
  pc \in {"frame", "submit"} =>
    /\ Range(nalus) = {unit \in Range(seen) : InFrame(NALUType(unit))}
    /\ Ascending(nalus)

OfType(kind) == {k \in 1 .. Len(seen) : NALUType(seen[k]) = kind}

LastOf(kind, last) ==
  last = IF OfType(kind) = {} THEN None ELSE seen[Max(OfType(kind))]

\* createDecoder has the last of each kind.
LastSets ==
  pc \in {"parameters", "create"} => LastOf(kSPS, lastSps) /\ LastOf(kPPS, lastPps)

RendererInv == TypeOK /\ Scanned /\ EndedAtFirst /\ Slices /\ LastSets

-----------------------------------------------------------------------------
(* The bits of a NALU's first byte. *)

\* The loop of ReadBits: where it starts, a turn of it, and what is returned.
Start(r, num_bits) == [r |-> r, left |-> num_bits, out |-> 0]

Turn(s) ==
  IF s.r.ok /\ s.r.remaining < s.left
    THEN [r |-> UpdateCurrByte(s.r), left |-> s.left - s.r.remaining,
          out |-> s.out + s.r.curr_byte * 2^(s.left - s.r.remaining)]
    ELSE s

Result(s, num_bits) ==
  IF ~s.r.ok THEN s
  ELSE [s EXCEPT
          !.r.remaining = @ - s.left,
          !.out = (@ + s.r.curr_byte \div 2^(s.r.remaining - s.left)) % 2^num_bits]

\* For less than a byte two turns are enough.
LEMMA ReadBitsTurns ==
  ASSUME NEW r, NEW num_bits \in 1 .. 7
  PROVE  ReadBits(r, num_bits) = Result(Turn(Turn(Start(r, num_bits))), num_bits)
<1> DEFINE s0 == Start(r, num_bits)
           s1 == Turn(s0)
           s2 == Turn(s1)
           m == 2 + num_bits \div 8
           F(f) == [n \in 0 .. m |-> IF n = 0 THEN s0 ELSE Turn(f[n - 1])]
           loop == CHOOSE f : f = F(f)
           w == [n \in 0 .. 2 |-> IF n = 0 THEN s0 ELSE IF n = 1 THEN s1 ELSE s2]
<1>1. ReadBits(r, num_bits) = Result(loop[m], num_bits)
  BY Zenon DEF ReadBits, Start, Turn, Result
<1>2. m = 2
  OBVIOUS
<1> HIDE DEF m
<1>3. w = F(w)
  <2>1. ASSUME NEW n \in 0 .. 2
        PROVE  w[n] = IF n = 0 THEN s0 ELSE Turn(w[n - 1])
    <3> HIDE DEF s0
    <3>1. n = 0 \/ n = 1 \/ n = 2
      OBVIOUS
    <3> QED
      BY <3>1
  <2> HIDE DEF s0, s2
  <2> QED
    BY <1>2, <2>1
<1>4. loop = F(loop)
  <2> HIDE DEF w, F
  <2> QED
    BY <1>3
<1>5. loop[2] = s2
  <2> HIDE DEF loop, s0
  <2>1. loop[0] = s0 /\ loop[1] = Turn(loop[0]) /\ loop[2] = Turn(loop[1])
    BY <1>2, <1>4
  <2> QED
    BY <2>1
<1> HIDE DEF loop, s2
<1> QED
  BY <1>1, <1>2, <1>5 DEF s2

\* A reader that has the bits takes them from its byte.
Readers == [data : Seq(Byte), curr_byte : Byte, remaining : Nat,
            prev_two_bytes : Seq(Byte), emulation_prevention_bytes : Nat,
            ok : BOOLEAN]

LEMMA ReadsFromByte ==
  ASSUME NEW r \in Readers, NEW num_bits \in 1 .. 7, r.ok,
         num_bits <= r.remaining
  PROVE  LET read == ReadBits(r, num_bits)
         IN  /\ read.r \in Readers /\ read.r.ok
             /\ read.r.remaining = r.remaining - num_bits
             /\ read.r.curr_byte = r.curr_byte
             /\ read.out = (0 + r.curr_byte \div 2^(r.remaining - num_bits))
                             % 2^num_bits
<1> DEFINE s == Start(r, num_bits)
           left == [r EXCEPT !.remaining = r.remaining - num_bits]
           out == (0 + r.curr_byte \div 2^(r.remaining - num_bits)) % 2^num_bits
<1>1. s.r = r /\ s.left = num_bits /\ s.out = 0
  BY DEF Start
<1>2. Turn(s) = s
  <2>1. r.remaining \in Nat
    BY DEF Readers
  <2> HIDE DEF s
  <2> QED
    BY <1>1, <2>1 DEF Turn
<1>3. ReadBits(r, num_bits) = Result(s, num_bits)
  BY <1>2, ReadBitsTurns
<1>4. Result(s, num_bits) = [r |-> left, left |-> num_bits, out |-> out]
  BY DEF Result, Start
<1>5. /\ left \in Readers /\ left.ok /\ left.remaining = r.remaining - num_bits
      /\ left.curr_byte = r.curr_byte
  <2>1. r.remaining - num_bits \in Nat
    BY DEF Readers
  <2> QED
    BY <2>1 DEF Readers
<1> HIDE DEF left, out, s
<1>6. ReadBits(r, num_bits).r = left /\ ReadBits(r, num_bits).out = out
  BY <1>3, <1>4
<1> QED
  BY <1>5, <1>6 DEF out

\* The first bit is read when the first byte has been loaded.
LEMMA ReadsFirstBit ==
  ASSUME NEW d \in Seq(Byte), d # <<>>
  PROVE  LET read == ReadBits(Reader(d), 1)
         IN  /\ read.r \in Readers /\ read.r.ok
             /\ read.r.remaining = 8 - 1 /\ read.r.curr_byte = d[1]
             /\ read.out = (0 + d[1] \div 2^(8 - 1)) % 2^1
<1> DEFINE r == UpdateCurrByte(Reader(d))
<1>1. Head(d) = d[1] /\ d[1] \in Byte /\ Tail(d) \in Seq(Byte)
  OBVIOUS
<1>2. r \in Readers /\ r.ok /\ r.remaining = 8 /\ r.curr_byte = d[1]
  <2>1. ~ EmulationPrevention(Reader(d))
    BY DEF EmulationPrevention, Reader
  <2>2. r = Load(Reader(d))
    BY <2>1 DEF UpdateCurrByte, Reader
  <2>3. Reader(d).prev_two_bytes[2] = 255
    BY DEF Reader
  <2>4. r = [Reader(d) EXCEPT !.data = Tail(d), !.curr_byte = Head(d),
                              !.remaining = 8, !.prev_two_bytes = <<255, Head(d)>>]
    BY <2>2, <2>3 DEF Load, Reader
  <2>5. <<255, Head(d)>> \in Seq(Byte)
    BY <1>1 DEF Byte
  <2> DEFINE prev == <<255, Head(d)>>
  <2>6. /\ r = [Reader(d) EXCEPT !.data = Tail(d), !.curr_byte = d[1],
                                 !.remaining = 8, !.prev_two_bytes = prev]
        /\ prev \in Seq(Byte)
    BY <1>1, <2>4, <2>5
  <2> HIDE DEF r, prev
  <2> QED
    BY <1>1, <2>6 DEF Reader, Readers
<1>3. Turn(Start(Reader(d), 1)) = Start(r, 1)
  <2>1. /\ Reader(d).ok = TRUE /\ Reader(d).remaining = 0
        /\ Reader(d).curr_byte = 0
    BY DEF Reader
  <2> DEFINE s == Start(Reader(d), 1)
  <2>2. s.r = Reader(d) /\ s.left = 1 /\ s.out = 0
    BY DEF Start
  <2> HIDE DEF s
  <2>3. Turn(s) = [r |-> r, left |-> 1 - 0, out |-> 0 + 0 * 2^(1 - 0)]
    <3> HIDE DEF r
    <3> QED
      BY <2>1, <2>2 DEF Turn, r
  <2>4. 1 - 0 = 1 /\ 0 + 0 * 2^1 = 0
    OBVIOUS
  <2> HIDE DEF r
  <2> QED
    BY <2>3, <2>4 DEF Start, s
<1> DEFINE b == d[1]
<1>a. r.curr_byte = b
  BY <1>2
<1> HIDE DEF r, b
<1>4. Turn(Start(r, 1)) = Start(r, 1)
  <2>1. Start(r, 1).r = r /\ Start(r, 1).left = 1
    BY DEF Start
  <2> QED
    BY <1>2, <2>1 DEF Turn
<1>5. ReadBits(Reader(d), 1) = ReadBits(r, 1)
  BY <1>3, <1>4, ReadBitsTurns
<1>6. LET read == ReadBits(r, 1)
      IN  /\ read.r \in Readers /\ read.r.ok
          /\ read.r.remaining = 8 - 1 /\ read.r.curr_byte = b
          /\ read.out = (0 + b \div 2^(8 - 1)) % 2^1
  <2>1. 1 \in 1 .. 7 /\ 1 <= r.remaining
    BY <1>2
  <2> QED
    BY <1>2, <1>a, <2>1, ReadsFromByte
<1> QED
  BY <1>5, <1>6 DEF b

LEMMA HighestAndLowest ==
  ASSUME NEW b \in Byte
  PROVE  /\ (0 + b \div 2^(8 - 1)) % 2^1 # 0 <=> b >= 128
         /\ (0 + b \div 2^(8 - 1 - 2 - 5)) % 2^5 = b % 32
<1>1. (0 + b \div 2^(8 - 1)) % 2^1 = (b \div 128) % 2
  BY DEF Byte
<1> QED
  BY <1>1 DEF Byte

\* forbidden_zero_bit is the highest bit of the first byte, and
\* nal_unit_type is its five lowest ones.
LEMMA HeaderBits ==
  ASSUME NEW d \in Seq(Byte), d # <<>>
  PROVE  /\ d[1] \in Byte
         /\ Header(d).forbidden_zero_bit # 0 <=> d[1] >= 128
         /\ Header(d).nal_unit_type = d[1] % 32
<1> DEFINE first == ReadBits(Reader(d), 1)
           second == ReadBits(first.r, 2)
           third == ReadBits(second.r, 5)
           b == d[1]
<1>1. b \in Byte
  OBVIOUS
<1>2. /\ first.r \in Readers /\ first.r.ok
      /\ first.r.remaining = 8 - 1 /\ first.r.curr_byte = b
      /\ first.out = (0 + b \div 2^(8 - 1)) % 2^1
  BY ReadsFirstBit
<1>3. Header(d).forbidden_zero_bit = first.out /\ Header(d).nal_unit_type = third.out
  BY DEF Header
<1> HIDE DEF first, b
<1>4. /\ second.r \in Readers /\ second.r.ok
      /\ second.r.remaining = 8 - 1 - 2 /\ second.r.curr_byte = b
  <2>1. 2 \in 1 .. 7 /\ 2 <= first.r.remaining
    BY <1>2
  <2> QED
    BY <1>2, <2>1, ReadsFromByte
<1> HIDE DEF second
<1>5. third.out = (0 + b \div 2^(8 - 1 - 2 - 5)) % 2^5
  <2>1. 5 \in 1 .. 7 /\ 5 <= second.r.remaining
    BY <1>4
  <2>2. third.out = (0 + second.r.curr_byte \div 2^(second.r.remaining - 5)) % 2^5
    BY <1>4, <2>1, ReadsFromByte
  <2> HIDE DEF third
  <2> QED
    BY <1>4, <2>2
<1> HIDE DEF third
<1> QED
  BY <1>1, <1>2, <1>3, <1>5, HighestAndLowest DEF b

-----------------------------------------------------------------------------
(* The start codes of a packet, and what lies between them. *)

LEMMA CodeInside ==
  ASSUME NEW d, Len(d) \in Nat, NEW p \in Codes(d)
  PROVE  p \in Nat /\ p + 3 <= Len(d)
BY DEF Codes

\* Two start codes do not overlap; when they touch, there is no zero byte
\* that could belong to the second.
LEMMA CodesApart ==
  ASSUME NEW d, Len(d) \in Nat, NEW p \in Codes(d), NEW q \in Codes(d), p < q
  PROVE  /\ p + 3 <= q
         /\ q = p + 3 => d[q] # 0
<1>1. p \in Nat /\ q \in Nat
  BY CodeInside
<1>2. /\ d[p + 1] = 0 /\ d[p + 2] = 0 /\ d[p + 3] = 1
      /\ d[q + 1] = 0 /\ d[q + 2] = 0 /\ d[q + 3] = 1
  BY DEF Codes, IsStartCode
<1>3. q # p + 1
  <2> SUFFICES ASSUME q = p + 1 PROVE FALSE
    OBVIOUS
  <2>1. q + 2 = p + 3
    BY <1>1
  <2> QED
    BY <1>2, <2>1
<1>4. q # p + 2
  <2> SUFFICES ASSUME q = p + 2 PROVE FALSE
    OBVIOUS
  <2>1. q + 1 = p + 3
    BY <1>1
  <2> QED
    BY <1>2, <2>1
<1>5. q = p + 3 => d[q] # 0
  BY <1>2
<1> QED
  BY <1>1, <1>3, <1>4, <1>5

\* The NALU after a code ends after the code and before the next one.
LEMMA EndOf ==
  ASSUME NEW d, Len(d) \in Nat, NEW p \in Codes(d)
  PROVE  /\ End(d, p) \in p + 3 .. Len(d)
         /\ \A q \in Codes(d) : q < End(d, p) <=> q <= p
<1>1. p \in Nat /\ p + 3 <= Len(d)
  BY CodeInside
<1>2. CASE Later(d, p) = {}
  <2>1. End(d, p) = Len(d)
    BY <1>2 DEF End
  <2>2. \A q \in Codes(d) : q \in Nat /\ q + 3 <= Len(d) /\ q <= p
    <3> SUFFICES ASSUME NEW q \in Codes(d)
                 PROVE  q \in Nat /\ q + 3 <= Len(d) /\ q <= p
      OBVIOUS
    <3>1. q \in Nat /\ q + 3 <= Len(d)
      BY CodeInside
    <3>2. ~ (q > p)
      BY <1>2 DEF Later
    <3> QED
      BY <1>1, <3>1, <3>2
  <2>3. ASSUME NEW q \in Codes(d) PROVE q < Len(d) /\ q <= p
    BY <2>2
  <2> QED
    BY <1>1, <2>1, <2>3
<1>3. CASE Later(d, p) # {}
  <2> DEFINE m == Min(Later(d, p))
  <2>1. Later(d, p) \in SUBSET Nat
    BY CodeInside DEF Later
  <2>2. m \in Later(d, p) /\ \A y \in Later(d, p) : m <= y
    BY <1>3, <2>1, MinOf
  <2>3. End(d, p) = IF d[m] = 0 THEN m - 1 ELSE m
    BY <1>3 DEF End
  <2> HIDE DEF m
  <2>4. m \in Codes(d) /\ m > p
    BY <2>2 DEF Later
  <2>5. m \in Nat /\ m + 3 <= Len(d)
    BY <2>4, CodeInside
  <2>6. p + 3 <= m /\ (m = p + 3 => d[m] # 0)
    BY <2>4, CodesApart
  <2>7. End(d, p) \in p + 3 .. Len(d) /\ End(d, p) <= m
    BY <1>1, <2>3, <2>5, <2>6
  <2>8. ASSUME NEW q \in Codes(d) PROVE q < End(d, p) <=> q <= p
    <3>1. q \in Nat
      BY CodeInside
    <3>2. CASE q <= p
      BY <1>1, <2>7, <3>1, <3>2
    <3>3. CASE ~ (q <= p)
      <4>1. q \in Later(d, p)
        BY <1>1, <3>1, <3>3 DEF Later
      <4>2. m <= q
        BY <2>2, <4>1
      <4> QED
        BY <2>5, <2>7, <3>1, <3>3, <4>2
    <3> QED
      BY <3>2, <3>3
  <2> QED
    BY <2>7, <2>8
<1> QED
  BY <1>2, <1>3

\* Where the search of FindStartCode ends, and that it takes no byte from
\* before the place where it began.
LEMMA FindFrom ==
  ASSUME NEW d, Len(d) \in Nat, NEW from \in Nat
  PROVE  /\ Candidates(d, from) = {q \in Codes(d) : q >= from}
         /\ Candidates(d, from) = {} => FindStartCode(d, from) = NoStartCode
         /\ Candidates(d, from) # {} =>
              LET q == Min(Candidates(d, from))
                  code == FindStartCode(d, from)
              IN  /\ q \in Codes(d) /\ q >= from
                  /\ \A y \in Codes(d) : y >= from => q <= y
                  /\ code = Backtrack(d, from, q)
                  /\ code # NoStartCode /\ code.offset + code.size = q + 3
<1>1. Candidates(d, from) = {q \in Codes(d) : q >= from}
  BY DEF Candidates, Codes
<1>2. Candidates(d, from) = {} => FindStartCode(d, from) = NoStartCode
  BY DEF FindStartCode
<1>3. ASSUME Candidates(d, from) # {}
      PROVE  LET q == Min(Candidates(d, from))
                 code == FindStartCode(d, from)
             IN  /\ q \in Codes(d) /\ q >= from
                 /\ \A y \in Codes(d) : y >= from => q <= y
                 /\ code = Backtrack(d, from, q)
                 /\ code # NoStartCode /\ code.offset + code.size = q + 3
  <2> DEFINE q == Min(Candidates(d, from))
  <2>1. Candidates(d, from) \in SUBSET Nat
    BY <1>1, CodeInside
  <2>2. q \in Candidates(d, from) /\ \A y \in Candidates(d, from) : q <= y
    BY <1>3, <2>1, MinOf
  <2>3. FindStartCode(d, from) = Backtrack(d, from, q)
    BY <1>3 DEF FindStartCode
  <2> HIDE DEF q
  <2>4. /\ q \in Codes(d) /\ q >= from /\ q \in Nat
        /\ \A y \in Codes(d) : y >= from => q <= y
    BY <1>1, <2>1, <2>2
  <2>5. LET code == Backtrack(d, from, q)
        IN  code.offset + code.size = q + 3 /\ code.offset # -1
    BY <2>4 DEF Backtrack
  <2>6. NoStartCode.offset = -1
    BY DEF NoStartCode
  <2> QED
    BY <2>3, <2>4, <2>5, <2>6 DEF q
<1> QED
  BY <1>1, <1>2, <1>3

\* LocateNALU finds what lies after the first code from where it begins, up
\* to the next code.
LEMMA LocateFrom ==
  ASSUME NEW d, Len(d) \in Nat, NEW from \in Nat
  PROVE  LET nalu_ == LocateNALU(d, from)
             q == Min(Candidates(d, from))
         IN  IF Candidates(d, from) = {} \/ q + 3 >= Len(d)
               THEN ~ nalu_.found
               ELSE /\ nalu_.found
                    /\ nalu_.data = q + 3
                    /\ nalu_.size = End(d, q) - (q + 3)
<1>1. CASE Candidates(d, from) = {}
  BY <1>1, FindFrom DEF LocateNALU
<1>2. CASE Candidates(d, from) # {}
  <2> DEFINE q == Min(Candidates(d, from))
             code == FindStartCode(d, from)
             next_ == FindStartCode(d, q + 3)
  <2>1. q \in Codes(d) /\ code # NoStartCode /\ code.offset + code.size = q + 3
    BY <1>2, FindFrom
  <2>2. LocateNALU(d, from) =
          IF q + 3 >= Len(d) THEN [found |-> FALSE]
          ELSE [found |-> TRUE, data |-> q + 3,
                size |-> IF next_ = NoStartCode THEN Len(d) - (q + 3)
                                                ELSE next_.offset - (q + 3)]
    BY <2>1 DEF LocateNALU, NothingAfter
  <2> HIDE DEF q, code
  <2>3. q \in Nat /\ q + 3 \in Nat
    BY <2>1, CodeInside
  <2>4. Candidates(d, q + 3) = Later(d, q)
    <3>1. Candidates(d, q + 3) = {y \in Codes(d) : y >= q + 3}
      BY <2>3, FindFrom
    <3>2. \A y \in Codes(d) : y \in Nat /\ (y > q => q + 3 <= y)
      BY <2>1, CodesApart, CodeInside
    <3>3. \A y \in Codes(d) : y >= q + 3 <=> y > q
      BY <2>3, <3>2
    <3> QED
      BY <3>1, <3>3 DEF Later
  <2>5. (IF next_ = NoStartCode THEN Len(d) - (q + 3) ELSE next_.offset - (q + 3))
          = End(d, q) - (q + 3)
    <3>1. CASE Later(d, q) = {}
      BY <2>3, <2>4, <3>1, FindFrom DEF End
    <3>2. CASE Later(d, q) # {}
      <4> DEFINE m == Min(Later(d, q))
      <4>1. next_ # NoStartCode /\ next_ = Backtrack(d, q + 3, m) /\ m \in Codes(d)
            /\ m >= q + 3
        BY <2>3, <2>4, <3>2, FindFrom
      <4>2. End(d, q) = IF d[m] = 0 THEN m - 1 ELSE m
        BY <3>2 DEF End
      <4> HIDE DEF m, next_
      <4>3. m \in Nat /\ (m = q + 3 => d[m] # 0)
        BY <2>1, <2>3, <4>1, CodeInside, CodesApart
      <4>4. next_.offset = IF m > q + 3 /\ d[m] = 0 THEN m - 1 ELSE m
        BY <4>1 DEF Backtrack
      <4>5. next_.offset = End(d, q)
        BY <2>3, <4>1, <4>2, <4>3, <4>4
      <4> QED
        BY <4>1, <4>5
    <3> QED
      BY <3>1, <3>2
  <2> HIDE DEF next_
  <2> QED
    BY <1>2, <2>2, <2>5 DEF q
<1> QED
  BY <1>1, <1>2

\* The data of a NALU are in the packet.
LEMMA UnitInside ==
  ASSUME NEW d, Len(d) \in Nat, NEW p \in Codes(d)
  PROVE  LET unit == Unit(d, p)
         IN  /\ unit.data = p + 3 /\ unit.size = End(d, p) - (p + 3)
             /\ unit.data \in Nat /\ unit.size \in Nat
             /\ unit.data + unit.size <= Len(d)
             /\ unit.data + unit.size = End(d, p)
             /\ unit.size > 0 => unit.data < Len(d)
<1> DEFINE e == End(d, p)
<1>1. e \in p + 3 .. Len(d) /\ p \in Nat
  BY EndOf, CodeInside
<1>2. Unit(d, p).data = p + 3 /\ Unit(d, p).size = e - (p + 3)
  BY DEF Unit
<1> HIDE DEF e
<1> QED
  BY <1>1, <1>2 DEF e

\* AdvanceToNextNALU judges the NALU after the first code that follows the
\* place where it begins.
LEMMA AdvanceFrom ==
  ASSUME NEW d \in Seq(Byte), NEW from \in Nat
  PROVE  LET result == AdvanceToNextNALU(d, from)
             q == Min(Candidates(d, from))
             unit == Unit(d, q)
         IN  IF Candidates(d, from) = {} \/ unit.size = 0
               THEN result = [result |-> "kEOStream"]
             ELSE IF d[unit.data + 1] >= 128
               THEN result = [result |-> "kInvalidStream"]
             ELSE result = [result |-> "kOk", data |-> unit.data, size |-> unit.size,
                            nal_unit_type |-> d[unit.data + 1] % 32,
                            stream |-> End(d, q)]
<1> DEFINE located == LocateNALU(d, from)
           q == Min(Candidates(d, from))
           unit == Unit(d, q)
           bytes == SubSeq(d, located.data + 1, located.data + located.size)
<1>1. Len(d) \in Nat
  OBVIOUS
<1>2. CASE Candidates(d, from) = {}
  <2>1. ~ located.found
    BY <1>1, <1>2, LocateFrom
  <2> QED
    BY <1>2, <2>1 DEF AdvanceToNextNALU
<1>3. CASE Candidates(d, from) # {}
  <2>1. q \in Codes(d)
    BY <1>1, <1>3, FindFrom
  <2>2. /\ unit.data = q + 3 /\ unit.size = End(d, q) - (q + 3)
        /\ unit.data \in Nat /\ unit.size \in Nat
        /\ unit.data + unit.size <= Len(d)
        /\ unit.data + unit.size = End(d, q)
    <3> HIDE DEF q
    <3> QED
      BY <1>1, <2>1, UnitInside
  <2>3. IF q + 3 >= Len(d) THEN ~ located.found
        ELSE located.found /\ located.data = unit.data /\ located.size = unit.size
    <3> HIDE DEF unit
    <3> QED
      BY <1>1, <1>3, <2>2, LocateFrom
  <2> HIDE DEF q, unit, located
  <2>4. CASE unit.size = 0
    <3>1. ~ located.found \/ located.size < 1
      BY <2>3, <2>4
    <3> QED
      BY <2>4, <3>1 DEF AdvanceToNextNALU, located, q, unit
  <2>5. CASE unit.size # 0
    <3>1. /\ located.found /\ located.data = unit.data /\ located.size = unit.size
          /\ ~ (located.size < 1)
      BY <1>1, <2>2, <2>3, <2>5
    <3>2. /\ bytes \in Seq(Byte) /\ bytes # <<>> /\ bytes[1] = d[unit.data + 1]
      <4>1. /\ SubSeq(d, unit.data + 1, unit.data + unit.size) \in Seq(Byte)
            /\ SubSeq(d, unit.data + 1, unit.data + unit.size) # <<>>
            /\ SubSeq(d, unit.data + 1, unit.data + unit.size)[1] = d[unit.data + 1]
        <5> DEFINE m == unit.data + 1
                   n == unit.data + unit.size
        <5>1. m \in 1 .. Len(d) /\ n \in m .. Len(d)
          BY <1>1, <2>2, <2>5
        <5> HIDE DEF m, n
        <5>2. /\ SubSeq(d, m, n) \in Seq(Byte) /\ SubSeq(d, m, n) # <<>>
              /\ SubSeq(d, m, n)[1] = d[m]
          BY <5>1
        <5> QED
          BY <5>2 DEF m, n
      <4> QED
        BY <3>1, <4>1
    <3>3. /\ Header(bytes).forbidden_zero_bit # 0 <=> d[unit.data + 1] >= 128
          /\ Header(bytes).nal_unit_type = d[unit.data + 1] % 32
      <4> HIDE DEF bytes
      <4> QED
        BY <3>2, HeaderBits
    <3>4. AfterNALU(unit.data, unit.size) = End(d, q)
      BY <2>2 DEF AfterNALU
    <3>5. AdvanceToNextNALU(d, from) =
            IF Header(bytes).forbidden_zero_bit # 0
              THEN [result |-> "kInvalidStream"]
            ELSE [result |-> "kOk", data |-> unit.data, size |-> unit.size,
                  nal_unit_type |-> Header(bytes).nal_unit_type,
                  stream |-> AfterNALU(unit.data, unit.size)]
      BY <3>1 DEF AdvanceToNextNALU, located
    <3> HIDE DEF bytes
    <3> QED
      BY <1>3, <2>5, <3>3, <3>4, <3>5 DEF q, unit
  <2> QED
    BY <2>4, <2>5
<1> QED
  BY <1>2, <1>3

-----------------------------------------------------------------------------
(* Sequences of NALUs. *)

LEMMA Appended ==
  ASSUME NEW s \in Seq(NALU), NEW x \in NALU
  PROVE  LET t == Append(s, x)
         IN  /\ t \in Seq(NALU) /\ Len(t) = Len(s) + 1
             /\ \A k \in 1 .. Len(s) : t[k] = s[k]
             /\ t[Len(s) + 1] = x
             /\ \A k \in 1 .. Len(t) : k \in 1 .. Len(s) \/ k = Len(s) + 1
<1>1. Len(s) \in Nat
  OBVIOUS
<1> QED
  BY <1>1

LEMMA RangeIs ==
  ASSUME NEW s \in Seq(NALU)
  PROVE  Range(s) = {s[k] : k \in 1 .. Len(s)}
BY DEF Range

LEMMA RangeOfAppended ==
  ASSUME NEW s \in Seq(NALU), NEW x \in NALU
  PROVE  Range(Append(s, x)) = Range(s) \cup {x}
<1> DEFINE t == Append(s, x)
           n == Len(s) + 1
<1>1. /\ t \in Seq(NALU) /\ Len(t) = n
      /\ \A k \in 1 .. Len(s) : t[k] = s[k]
      /\ t[n] = x
      /\ \A k \in 1 .. Len(t) : k \in 1 .. Len(s) \/ k = n
  BY Appended
<1>2. n \in 1 .. n /\ \A k \in 1 .. Len(s) : k \in 1 .. n
  OBVIOUS
<1>3. Range(t) = {t[k] : k \in 1 .. n}
  <2> HIDE DEF t, n
  <2> QED
    BY <1>1, RangeIs
<1>4. Range(s) = {s[k] : k \in 1 .. Len(s)}
  BY RangeIs
<1> HIDE DEF t, n
<1>5. ASSUME NEW unit PROVE unit \in Range(t) <=> unit \in Range(s) \cup {x}
  <2>1. CASE unit \in Range(t)
    <3>1. PICK k \in 1 .. n : unit = t[k]
      BY <1>3, <2>1
    <3>2. CASE k \in 1 .. Len(s)
      <4>1. unit = s[k]
        BY <1>1, <3>1, <3>2
      <4> QED
        BY <1>4, <2>1, <3>2, <4>1
    <3>3. CASE k = n
      BY <1>1, <2>1, <3>1, <3>3
    <3> QED
      BY <1>1, <3>2, <3>3
  <2>2. CASE unit \in Range(s)
    <3>1. PICK k \in 1 .. Len(s) : unit = s[k]
      BY <1>4, <2>2
    <3>2. k \in 1 .. n /\ unit = t[k]
      BY <1>1, <1>2, <3>1
    <3> QED
      BY <1>3, <2>2, <3>2
  <2>3. CASE unit = x
    BY <1>1, <1>2, <1>3, <2>3
  <2> QED
    BY <2>1, <2>2, <2>3
<1> QED
  BY <1>5 DEF t

LEMMA AscendingAppended ==
  ASSUME NEW s \in Seq(NALU), NEW x \in NALU, Ascending(s),
         \A unit \in Range(s) : unit.data < x.data
  PROVE  Ascending(Append(s, x))
<1> DEFINE t == Append(s, x)
           n == Len(s) + 1
<1>1. /\ Len(t) = n
      /\ \A k \in 1 .. Len(s) : t[k] = s[k]
      /\ t[n] = x
      /\ \A k \in 1 .. Len(t) : k \in 1 .. Len(s) \/ k = n
  BY Appended
<1>2. \A k \in 1 .. Len(s) : s[k] \in Range(s) /\ k < n
  BY RangeIs
<1>3. n \in Nat /\ \A j \in 1 .. n : ~ (n < j)
  OBVIOUS
<1> HIDE DEF t, n
<1>4. ASSUME NEW j \in 1 .. Len(t), NEW k \in 1 .. Len(t), j < k
      PROVE  t[j].data < t[k].data
  <2>1. j \in 1 .. Len(s)
    <3>1. j \in 1 .. Len(s) \/ j = n
      BY <1>1
    <3> QED
      BY <1>1, <1>3, <1>4, <3>1
  <2>2. CASE k \in 1 .. Len(s)
    BY <1>1, <1>4, <2>1, <2>2 DEF Ascending
  <2>3. CASE k = n
    BY <1>1, <1>2, <2>1, <2>3
  <2> QED
    BY <1>1, <2>2, <2>3
<1>5. Ascending(t)
  BY <1>4 DEF Ascending
<1> QED
  BY <1>5 DEF t

-----------------------------------------------------------------------------
(* What a call of AdvanceToNextNALU finds. *)

FirstLeft == Min(Candidates(packet, stream))

LEMMA BytesAre == 0 .. 255 = Byte
BY DEF Byte

LEMMA NextIs ==
  ASSUME TypeOK
  PROVE  LET unit == Unit(packet, FirstLeft)
         IN  IF Candidates(packet, stream) = {} \/ unit.size = 0
               THEN next = [result |-> "kEOStream"]
             ELSE IF packet[unit.data + 1] >= 128
               THEN next = [result |-> "kInvalidStream"]
             ELSE next = [result |-> "kOk", data |-> unit.data, size |-> unit.size,
                          nal_unit_type |-> packet[unit.data + 1] % 32,
                          stream |-> End(packet, FirstLeft)]
<1>1. packet \in Seq(Byte) /\ stream \in Nat
  BY BytesAre DEF TypeOK
<1> QED
  BY <1>1, AdvanceFrom DEF next, FirstLeft

LEMMA LeftIs ==
  ASSUME TypeOK
  PROVE  /\ Len(packet) \in Nat /\ stream \in Nat
         /\ Candidates(packet, stream) = {q \in Codes(packet) : q >= stream}
         /\ Candidates(packet, stream) # {} =>
              /\ FirstLeft \in Codes(packet) /\ FirstLeft >= stream
              /\ \A q \in Codes(packet) : q >= stream => FirstLeft <= q
<1>1. Len(packet) \in Nat /\ stream \in Nat
  BY DEF TypeOK
<1> QED
  BY <1>1, FindFrom DEF FirstLeft

\* With kOk, it is the NALU after the first code that is left.
LEMMA FoundIs ==
  ASSUME TypeOK, next.result = "kOk"
  PROVE  /\ FirstLeft \in Codes(packet) /\ FirstLeft >= stream
         /\ \A q \in Codes(packet) : q >= stream => FirstLeft <= q
         /\ nalu = Unit(packet, FirstLeft) /\ Sound(nalu)
         /\ nalu \in NALU
         /\ nalu.data \in 0 .. Len(packet) - 1
         /\ nalu.size \in 1 .. Len(packet) - nalu.data
         /\ next.nal_unit_type = NALUType(nalu)
         /\ next.stream = End(packet, FirstLeft)
<1> DEFINE unit == Unit(packet, FirstLeft)
<1>1. /\ Candidates(packet, stream) # {} /\ unit.size # 0
      /\ ~ (packet[unit.data + 1] >= 128)
      /\ next = [result |-> "kOk", data |-> unit.data, size |-> unit.size,
                 nal_unit_type |-> packet[unit.data + 1] % 32,
                 stream |-> End(packet, FirstLeft)]
  <2> HIDE DEF unit
  <2> QED
    BY NextIs DEF unit
<1>2. Len(packet) \in Nat /\ FirstLeft \in Codes(packet) /\ FirstLeft >= stream
      /\ \A q \in Codes(packet) : q >= stream => FirstLeft <= q
  BY <1>1, LeftIs
<1>3. /\ unit.data \in Nat /\ unit.size \in Nat
      /\ unit.data + unit.size <= Len(packet)
      /\ unit.size > 0 => unit.data < Len(packet)
  BY <1>2, UnitInside
<1>4. nalu = unit
  BY <1>1 DEF nalu, Unit
<1>5. packet[unit.data + 1] \in Byte
  <2>1. packet \in Seq(Byte)
    BY BytesAre DEF TypeOK
  <2>2. unit.data + 1 \in 1 .. Len(packet)
    BY <1>1, <1>2, <1>3
  <2> HIDE DEF unit
  <2> QED
    BY <2>1, <2>2
<1>6. Sound(unit)
  <2> DEFINE first == packet[unit.data + 1]
             size == unit.size
  <2>1. Sound(unit) <=> size > 0 /\ first < 128
    BY DEF Sound, FirstByte
  <2>2. first \in Byte /\ ~ (first >= 128) /\ size \in Nat /\ size # 0
    BY <1>1, <1>3, <1>5
  <2> HIDE DEF first, size, unit
  <2> QED
    BY <2>1, <2>2 DEF Byte
<1>7. unit \in NALU
  BY <1>3 DEF Unit, NALU
<1>8. unit.data \in 0 .. Len(packet) - 1 /\ unit.size \in 1 .. Len(packet) - unit.data
  <2> HIDE DEF unit
  <2> QED
    BY <1>1, <1>2, <1>3
<1>9. next.nal_unit_type = NALUType(unit) /\ next.stream = End(packet, FirstLeft)
  <2> HIDE DEF unit
  <2> QED
    BY <1>1 DEF NALUType, FirstByte
<1> HIDE DEF unit
<1> QED
  BY <1>2, <1>4, <1>6, <1>7, <1>8, <1>9 DEF unit

\* Without, there is no code left, or its NALU is not sound.
LEMMA EndIs ==
  ASSUME TypeOK, next.result # "kOk"
  PROVE  LET left == Candidates(packet, stream)
             unit == Unit(packet, FirstLeft)
         IN  IF left = {} THEN next.result = "kEOStream"
             ELSE /\ ~Sound(unit)
                  /\ next.result = IF unit.size = 0 THEN "kEOStream"
                                                    ELSE "kInvalidStream"
<1> DEFINE unit == Unit(packet, FirstLeft)
<1>1. CASE Candidates(packet, stream) = {}
  BY <1>1, NextIs
<1>2. CASE Candidates(packet, stream) # {} /\ unit.size = 0
  <2>1. next.result = "kEOStream"
    BY <1>2, NextIs
  <2> QED
    BY <1>2, <2>1 DEF Sound
<1>3. CASE Candidates(packet, stream) # {} /\ unit.size # 0
  <2>1. packet[unit.data + 1] >= 128 /\ next.result = "kInvalidStream"
    BY <1>3, NextIs
  <2>2. packet[unit.data + 1] \in Byte
    <3>1. FirstLeft \in Codes(packet) /\ Len(packet) \in Nat
      BY <1>3, LeftIs
    <3>2. unit.data \in Nat /\ unit.size \in Nat /\ (unit.size > 0 => unit.data < Len(packet))
      BY <3>1, UnitInside
    <3>3. packet \in Seq(Byte) /\ unit.data + 1 \in 1 .. Len(packet)
      BY <1>3, <3>1, <3>2, BytesAre DEF TypeOK
    <3> HIDE DEF unit
    <3> QED
      BY <3>3
  <2>3. ~Sound(unit)
    <3> HIDE DEF unit
    <3> QED
      BY <2>1, <2>2 DEF Sound, FirstByte, Byte
  <2> QED
    BY <1>3, <2>1, <2>3
<1> QED
  BY <1>1, <1>2, <1>3

-----------------------------------------------------------------------------
(* The invariant is inductive. *)

Inside(units) ==
  /\ units \in Seq(NALU)
  /\ \A k \in 1 .. Len(units) : /\ units[k].data \in 0 .. Len(packet) - 1
                                /\ units[k].size \in 1 .. Len(packet) - units[k].data

\* A loop begins, or the handler returns: nothing was returned yet.
LEMMA NothingSeen ==
  ASSUME geometry' \in BOOLEAN, h264Pid' \in BOOLEAN, mDecoder' \in BOOLEAN,
         mVideoFormat' \in 0 .. MaxFormats,
         pc' \in {"idle", "parameters", "frame"},
         packet' \in Seq(Byte), stream' = 0,
         lastSps' = None, lastPps' = None,
         nalus' = <<>>, seen' = <<>>, ended' = "none"
  PROVE  RendererInv'
<1>1. Len(packet') \in Nat
  OBVIOUS
<1>2. TypeOK'
  <2>1. packet' \in Seq(0 .. 255)
    BY DEF Byte
  <2>2. stream' \in 0 .. Len(packet')
    BY <1>1
  <2>3. None \in NALU
    BY DEF None, NALU
  <2> QED
    BY <2>1, <2>2, <2>3 DEF TypeOK
<1>3. Scanned'
  <2>1. Ascending(seen)'
    BY DEF Ascending
  <2>2. ASSUME NEW p \in Codes(packet)'
        PROVE  ~ (p < stream') /\ (Unit(packet, p) \notin Range(seen))'
    <3>1. p \in Nat
      BY <1>1, CodeInside
    <3>2. Range(seen)' = {}
      BY DEF Range
    <3> QED
      BY <3>1, <3>2
  <2> QED
    BY <2>1, <2>2 DEF Scanned
<1>4. EndedAtFirst'
  BY DEF EndedAtFirst
<1>5. Slices'
  <2>1. Range(seen)' = {} /\ Range(nalus)' = {}
    BY DEF Range
  <2> QED
    BY <2>1 DEF Slices, Ascending
<1>6. LastSets'
  <2>1. \A kind : OfType(kind)' = {}
    BY DEF OfType
  <2> QED
    BY <2>1 DEF LastSets, LastOf
<1> QED
  BY <1>2, <1>3, <1>4, <1>5, <1>6 DEF RendererInv

LEMMA InitInv == Init => RendererInv
<1> SUFFICES ASSUME Init PROVE RendererInv
  OBVIOUS
<1> USE DEF Init
<1>1. TypeOK
  <2>1. None \in NALU
    BY DEF None, NALU
  <2>2. packet \in Seq(0 .. 255)
    OBVIOUS
  <2>3. stream \in 0 .. Len(packet)
    OBVIOUS
  <2>4. \A units \in {nalus, seen} : units \in Seq(NALU) /\ Len(units) = 0
    <3>1. ASSUME NEW units, units = <<>>
          PROVE  units \in Seq(NALU) /\ Len(units) = 0
      <4> HIDE DEF Init
      <4> QED
        BY <3>1
    <3> QED
      BY <3>1
  <2>5. mVideoFormat \in 0 .. MaxFormats
    BY DEF MaxFormats
  <2>6. /\ geometry \in BOOLEAN /\ h264Pid \in BOOLEAN /\ mDecoder \in BOOLEAN
        /\ pc = "idle" /\ ended = "none"
        /\ lastSps \in NALU /\ lastPps \in NALU
    BY <2>1
  <2> HIDE DEF Init
  <2>7. ASSUME NEW units \in {nalus, seen}
        PROVE  /\ units \in Seq(NALU)
               /\ \A k \in 1 .. Len(units) :
                    /\ units[k].data \in 0 .. Len(packet) - 1
                    /\ units[k].size \in 1 .. Len(packet) - units[k].data
    <3>1. units \in Seq(NALU) /\ Len(units) = 0
      BY <2>4
    <3>2. 1 .. Len(units) = {}
      BY <3>1
    <3> QED
      BY <3>1, <3>2
  <2> QED
    BY <2>2, <2>3, <2>5, <2>6, <2>7 DEF TypeOK
<1>2. Scanned
  <2>1. Codes(packet) = {}
    BY DEF Codes
  <2> QED
    BY <2>1 DEF Scanned, Ascending
<1>3. EndedAtFirst /\ Slices /\ LastSets
  BY DEF EndedAtFirst, Slices, LastSets
<1> QED
  BY <1>1, <1>2, <1>3 DEF RendererInv

\* The next NALU comes after all that were returned.
LEMMA ComesAfter ==
  ASSUME TypeOK, Scanned, next.result = "kOk"
  PROVE  \A unit \in Range(seen) : unit.data < nalu.data
<1> SUFFICES ASSUME NEW unit \in Range(seen) PROVE unit.data < nalu.data
  OBVIOUS
<1>1. seen \in Seq(NALU)
  BY DEF TypeOK
<1>2. PICK k \in 1 .. Len(seen) : unit = seen[k]
  BY <1>1, RangeIs
<1>3. PICK p \in Codes(packet) : unit = Unit(packet, p)
  BY <1>2 DEF Scanned
<1>4. p < stream
  BY <1>3 DEF Scanned
<1>5. /\ FirstLeft \in Codes(packet) /\ FirstLeft >= stream
      /\ nalu = Unit(packet, FirstLeft)
      /\ Len(packet) \in Nat /\ stream \in Nat
  BY FoundIs, LeftIs
<1>6. p \in Nat /\ FirstLeft \in Nat
  BY <1>3, <1>5, CodeInside
<1>7. unit.data = p + 3 /\ nalu.data = FirstLeft + 3
  BY <1>3, <1>5, UnitInside
<1> QED
  BY <1>4, <1>5, <1>6, <1>7

LEMMA ScannedStep ==
  ASSUME TypeOK, Scanned, Saw, packet' = packet
  PROVE  /\ Scanned' /\ stream' \in 0 .. Len(packet)
         /\ Inside(seen)'
         /\ Range(seen)' = Range(seen) \cup {nalu}
<1>1. /\ next.result = "kOk" /\ seen' = Append(seen, nalu)
      /\ stream' = next.stream /\ seen \in Seq(NALU)
  BY DEF Saw, TypeOK
<1>2. /\ FirstLeft \in Codes(packet) /\ FirstLeft >= stream
      /\ \A q \in Codes(packet) : q >= stream => FirstLeft <= q
      /\ nalu = Unit(packet, FirstLeft) /\ Sound(nalu)
      /\ nalu \in NALU
      /\ nalu.data \in 0 .. Len(packet) - 1
      /\ nalu.size \in 1 .. Len(packet) - nalu.data
      /\ next.stream = End(packet, FirstLeft)
      /\ Len(packet) \in Nat /\ stream \in Nat
  BY <1>1, FoundIs, LeftIs
<1>3. /\ seen' \in Seq(NALU) /\ Len(seen') = Len(seen) + 1
      /\ \A k \in 1 .. Len(seen) : seen'[k] = seen[k]
      /\ seen'[Len(seen) + 1] = nalu
      /\ \A k \in 1 .. Len(seen') : k \in 1 .. Len(seen) \/ k = Len(seen) + 1
  BY <1>1, <1>2, Appended
<1>4. Range(seen') = Range(seen) \cup {nalu}
  BY <1>1, <1>2, RangeOfAppended
<1>5. /\ stream' \in FirstLeft + 3 .. Len(packet) /\ FirstLeft \in Nat
      /\ \A q \in Codes(packet) : q < stream' <=> q <= FirstLeft
  BY <1>1, <1>2, EndOf, CodeInside
<1>6. ASSUME NEW k \in 1 .. Len(seen')
      PROVE  \E p \in Codes(packet) : seen'[k] = Unit(packet, p) /\ Sound(seen'[k])
  <2>1. CASE k \in 1 .. Len(seen)
    BY <1>3, <2>1 DEF Scanned
  <2>2. CASE k = Len(seen) + 1
    BY <1>2, <1>3, <2>2
  <2> QED
    BY <1>3, <2>1, <2>2
<1>7. Ascending(seen')
  BY <1>1, <1>2, ComesAfter, AscendingAppended DEF Scanned
<1>8. ASSUME NEW p \in Codes(packet)
      PROVE  p < stream' <=> Unit(packet, p) \in Range(seen')
  <2>1. p \in Nat
    BY <1>2, CodeInside
  <2>2. p < stream' <=> p < stream \/ p = FirstLeft
    BY <1>2, <1>5, <2>1
  <2>3. Unit(packet, p) = nalu <=> p = FirstLeft
    <3>1. Unit(packet, p).data = p + 3 /\ nalu.data = FirstLeft + 3
      BY <1>2 DEF Unit
    <3> QED
      BY <1>2, <1>5, <2>1, <3>1
  <2>4. p < stream <=> Unit(packet, p) \in Range(seen)
    BY DEF Scanned
  <2> QED
    BY <1>4, <2>2, <2>3, <2>4
<1>9. Scanned'
  <2>1. \A unit : Sound(unit)' <=> Sound(unit)
    BY DEF Sound, FirstByte
  <2> QED
    BY <1>6, <1>7, <1>8, <2>1 DEF Scanned, Ascending
<1>10. Inside(seen)'
  <2>1. \A k \in 1 .. Len(seen) : /\ seen[k].data \in 0 .. Len(packet) - 1
                                  /\ seen[k].size \in 1 .. Len(packet) - seen[k].data
    BY DEF TypeOK
  <2>2. \A k \in 1 .. Len(seen') :
          /\ seen'[k].data \in 0 .. Len(packet) - 1
          /\ seen'[k].size \in 1 .. Len(packet) - seen'[k].data
    BY <1>2, <1>3, <2>1
  <2> QED
    BY <1>3, <2>2 DEF Inside
<1>11. stream' \in 0 .. Len(packet)
  BY <1>5
<1> QED
  BY <1>4, <1>9, <1>10, <1>11

\* One more NALU, and which of its kind is now the last.
LEMMA LatestIs ==
  ASSUME TypeOK, Scanned, Saw, packet' = packet,
         NEW kind, NEW last, LastOf(kind, last)
  PROVE  LatestSet(kind, last) =
           IF OfType(kind)' = {} THEN None ELSE seen'[Max(OfType(kind)')]
<1> DEFINE n == Len(seen) + 1
           T == OfType(kind)
           U == OfType(kind)'
<1>1. /\ next.result = "kOk" /\ seen' = Append(seen, nalu) /\ seen \in Seq(NALU)
      /\ nalu \in NALU /\ next.nal_unit_type = NALUType(nalu)
  BY FoundIs DEF Saw, TypeOK
<1>2. /\ Len(seen') = n /\ n \in Nat
      /\ \A k \in 1 .. Len(seen) : seen'[k] = seen[k] /\ k \in 1 .. n /\ k < n
      /\ seen'[n] = nalu /\ n \in 1 .. n
      /\ \A k \in 1 .. n : k \in 1 .. Len(seen) \/ k = n
  BY <1>1, Appended
<1>3. T = {k \in 1 .. Len(seen) : NALUType(seen[k]) = kind}
  BY DEF OfType
<1>4. U = {k \in 1 .. n : NALUType(seen'[k]) = kind}
  BY <1>2 DEF OfType, NALUType, FirstByte
<1>5. last = IF T = {} THEN None ELSE seen[Max(T)]
  BY DEF LastOf
<1> HIDE DEF n, T, U
<1>6. CASE NALUType(nalu) = kind
  <2>1. n \in U
    BY <1>2, <1>4, <1>6
  <2>2. U \in SUBSET (0 .. n) /\ U # {}
    BY <1>2, <1>4, <2>1
  <2>3. Max(U) \in U /\ Max(U) >= n
    BY <1>2, <2>1, <2>2, MaxOf
  <2>4. Max(U) = n
    BY <1>2, <1>4, <2>3
  <2>5. LatestSet(kind, last) = nalu
    BY <1>1, <1>6 DEF LatestSet
  <2> QED
    BY <1>2, <2>2, <2>4, <2>5 DEF U
<1>7. CASE NALUType(nalu) # kind
  <2>1. U = T
    <3>1. \A k \in T : k \in U
      BY <1>2, <1>3, <1>4
    <3>2. \A k \in U : k \in T
      BY <1>2, <1>3, <1>4, <1>7
    <3>3. \A k : k \in U <=> k \in T
      BY <3>1, <3>2
    <3> QED
      BY <3>3
  <2>2. LatestSet(kind, last) = last
    BY <1>1, <1>7 DEF LatestSet
  <2>3. ASSUME T # {} PROVE seen'[Max(T)] = seen[Max(T)]
    <3>1. T \in SUBSET (0 .. n)
      BY <1>2, <1>3
    <3>2. Max(T) \in T
      BY <1>2, <2>3, <3>1, MaxOf
    <3> QED
      BY <1>2, <1>3, <3>2
  <2> QED
    BY <1>5, <2>1, <2>2, <2>3 DEF U
<1> QED
  BY <1>6, <1>7

\* The loop of createDecoder, and the loop of handlePacket, with a NALU.
LEMMA ParametersStep ==
  ASSUME RendererInv, pc = "parameters", Saw, packet' = packet,
         lastSps' = LatestSet(kSPS, lastSps), lastPps' = LatestSet(kPPS, lastPps),
         nalus' = nalus, UNCHANGED <<geometry, h264Pid, mDecoder, mVideoFormat>>
  PROVE  RendererInv'
<1>1. TypeOK /\ Scanned /\ LastOf(kSPS, lastSps) /\ LastOf(kPPS, lastPps)
  BY DEF RendererInv, LastSets
<1>2. pc' = "parameters" /\ ended' = ended /\ nalu \in NALU
  BY <1>1, FoundIs DEF Saw
<1>3. /\ Scanned' /\ stream' \in 0 .. Len(packet) /\ Inside(seen)'
  BY <1>1, ScannedStep
<1>4. TypeOK'
  <2>1. lastSps' \in NALU /\ lastPps' \in NALU
    BY <1>1, <1>2 DEF LatestSet, TypeOK
  <2>2. Inside(nalus)'
    BY <1>1 DEF TypeOK, Inside
  <2> QED
    BY <1>1, <1>2, <1>3, <2>1, <2>2 DEF TypeOK, Inside
<1>5. EndedAtFirst' /\ Slices'
  BY <1>2 DEF EndedAtFirst, Slices
<1>6. LastSets'
  <2>1. LastOf(kSPS, lastSps)'
    BY <1>1, LatestIs DEF LastOf
  <2>2. LastOf(kPPS, lastPps)'
    BY <1>1, LatestIs DEF LastOf
  <2> QED
    BY <2>1, <2>2 DEF LastSets
<1> QED
  BY <1>3, <1>4, <1>5, <1>6 DEF RendererInv

LEMMA FrameStep ==
  ASSUME RendererInv, pc = "frame", Saw, packet' = packet,
         nalus' = IF InFrame(next.nal_unit_type) THEN Append(nalus, nalu) ELSE nalus,
         UNCHANGED <<lastSps, lastPps, geometry, h264Pid, mDecoder, mVideoFormat>>
  PROVE  RendererInv'
<1>1. /\ TypeOK /\ Scanned /\ Ascending(nalus)
      /\ Range(nalus) = {unit \in Range(seen) : InFrame(NALUType(unit))}
  BY DEF RendererInv, Slices
<1>2. /\ pc' = "frame" /\ ended' = ended /\ next.result = "kOk"
      /\ nalu \in NALU /\ next.nal_unit_type = NALUType(nalu)
      /\ nalu.data \in 0 .. Len(packet) - 1
      /\ nalu.size \in 1 .. Len(packet) - nalu.data
  BY <1>1, FoundIs DEF Saw
<1>3. /\ Scanned' /\ stream' \in 0 .. Len(packet) /\ Inside(seen)'
      /\ Range(seen') = Range(seen) \cup {nalu}
  BY <1>1, ScannedStep
<1>4. Inside(nalus) /\ nalus \in Seq(NALU)
  BY <1>1 DEF TypeOK, Inside
<1>5. \A unit \in Range(nalus) : unit.data < nalu.data
  BY <1>1, <1>2, ComesAfter
<1>6. Inside(nalus)' /\ Ascending(nalus')
      /\ Range(nalus') = Range(nalus) \cup (IF InFrame(NALUType(nalu)) THEN {nalu} ELSE {})
  <2>1. CASE InFrame(NALUType(nalu))
    <3>1. nalus' = Append(nalus, nalu)
      BY <1>2, <2>1
    <3>2. /\ nalus' \in Seq(NALU) /\ Len(nalus') = Len(nalus) + 1
          /\ \A k \in 1 .. Len(nalus) : nalus'[k] = nalus[k]
          /\ nalus'[Len(nalus) + 1] = nalu
          /\ \A k \in 1 .. Len(nalus') : k \in 1 .. Len(nalus) \/ k = Len(nalus) + 1
      BY <1>2, <1>4, <3>1, Appended
    <3>3. \A k \in 1 .. Len(nalus) :
            /\ nalus[k].data \in 0 .. Len(packet) - 1
            /\ nalus[k].size \in 1 .. Len(packet) - nalus[k].data
      BY <1>4 DEF Inside
    <3>4. \A k \in 1 .. Len(nalus') :
            /\ nalus'[k].data \in 0 .. Len(packet) - 1
            /\ nalus'[k].size \in 1 .. Len(packet) - nalus'[k].data
      BY <1>2, <3>2, <3>3
    <3>5. Ascending(nalus')
      BY <1>1, <1>2, <1>4, <1>5, <3>1, AscendingAppended
    <3>6. Range(nalus') = Range(nalus) \cup {nalu}
      BY <1>2, <1>4, <3>1, RangeOfAppended
    <3> QED
      BY <2>1, <3>2, <3>4, <3>5, <3>6 DEF Inside
  <2>2. CASE ~ InFrame(NALUType(nalu))
    <3>1. nalus' = nalus
      BY <1>2, <2>2
    <3> QED
      BY <1>1, <1>4, <2>2, <3>1 DEF Inside
  <2> QED
    BY <2>1, <2>2
<1>7. TypeOK'
  BY <1>1, <1>2, <1>3, <1>6 DEF TypeOK, Inside
<1>8. EndedAtFirst' /\ LastSets'
  BY <1>2 DEF EndedAtFirst, LastSets
<1>9. Slices'
  <2>1. Range(nalus') = {unit \in Range(seen') : InFrame(NALUType(unit))}
    BY <1>1, <1>3, <1>6
  <2>2. \A unit : NALUType(unit)' = NALUType(unit)
    BY DEF NALUType, FirstByte
  <2> QED
    BY <1>6, <2>1, <2>2 DEF Slices, Ascending
<1> QED
  BY <1>3, <1>7, <1>8, <1>9 DEF RendererInv

\* The end of a loop.
LEMMA EndStep ==
  ASSUME RendererInv, NEW to \in {"create", "submit"}, EndLoop(to),
         to = "create" => pc = "parameters", to = "submit" => pc = "frame",
         UNCHANGED <<packet, geometry, h264Pid, mDecoder, mVideoFormat>>
  PROVE  RendererInv'
<1>1. /\ next.result # "kOk" /\ pc' = to /\ ended' = next.result
      /\ UNCHANGED <<seen, stream, lastSps, lastPps, nalus>>
  BY DEF EndLoop
<1>2. TypeOK /\ Scanned /\ Slices /\ LastSets
  BY DEF RendererInv
<1>3. /\ IF Candidates(packet, stream) = {} THEN next.result = "kEOStream"
         ELSE /\ ~Sound(Unit(packet, FirstLeft))
              /\ next.result = IF Unit(packet, FirstLeft).size = 0
                                 THEN "kEOStream" ELSE "kInvalidStream"
  BY <1>1, <1>2, EndIs
<1>4. TypeOK'
  BY <1>1, <1>2, <1>3 DEF TypeOK
<1>5. Scanned'
  BY <1>1, <1>2 DEF Scanned, Ascending, Sound, FirstByte
<1>6. EndedAtFirst'
  <2>1. \A unit : Sound(unit)' <=> Sound(unit)
    BY DEF Sound, FirstByte
  <2> QED
    BY <1>1, <1>3, <2>1 DEF EndedAtFirst, FirstLeft
<1>7. Slices'
  BY <1>1, <1>2 DEF Slices, Ascending, NALUType, FirstByte
<1>8. LastSets'
  BY <1>1, <1>2 DEF LastSets, LastOf, OfType, NALUType, FirstByte
<1> QED
  BY <1>4, <1>5, <1>6, <1>7, <1>8 DEF RendererInv

LEMMA StutterStep ==
  ASSUME RendererInv, UNCHANGED <<mDecoder, mVideoFormat, pc, packet, stream,
                                  lastSps, lastPps, nalus, seen, ended>>,
         geometry' \in BOOLEAN, h264Pid' \in BOOLEAN
  PROVE  RendererInv'
<1>1. TypeOK /\ Scanned /\ EndedAtFirst /\ Slices /\ LastSets
  BY DEF RendererInv
<1>2. TypeOK'
  BY <1>1 DEF TypeOK
<1>3. Scanned' /\ EndedAtFirst'
  BY <1>1 DEF Scanned, EndedAtFirst, Ascending, Sound, FirstByte
<1>4. Slices' /\ LastSets'
  BY <1>1 DEF Slices, LastSets, LastOf, OfType, Ascending, NALUType, FirstByte
<1> QED
  BY <1>2, <1>3, <1>4 DEF RendererInv

LEMMA NextInv ==
  ASSUME RendererInv, [Next]_vars
  PROVE  RendererInv'
<1>1. /\ geometry \in BOOLEAN /\ h264Pid \in BOOLEAN /\ mDecoder \in BOOLEAN
      /\ mVideoFormat \in 0 .. MaxFormats
      /\ packet \in Seq(Byte)
  BY BytesAre DEF RendererInv, TypeOK
<1>2. ASSUME NEW known \in BOOLEAN, Info(known) PROVE RendererInv'
  BY <1>1, <1>2, StutterStep DEF Info
<1>3. ASSUME NEW d \in Packets, Packet(d) PROVE RendererInv'
  <2>1. d \in Seq(Byte)
    BY PacketsAssumption, BytesAre
  <2> QED
    BY <1>1, <1>3, <2>1, NothingSeen DEF Packet, StartLoop
<1>4. CASE Parameters
  <2>1. CASE EndLoop("create")
    BY <1>4, <2>1, EndStep DEF Parameters
  <2>2. CASE ~ EndLoop("create")
    BY <1>4, <2>2, ParametersStep DEF Parameters
  <2> QED
    BY <2>1, <2>2
<1>5. CASE NoFormat \/ Submit
  <2>1. <<>> \in Seq(Byte)
    OBVIOUS
  <2> QED
    BY <1>1, <1>5, <2>1, NothingSeen DEF NoFormat, Submit, Idle
<1>6. CASE NoSession
  <2>1. <<>> \in Seq(Byte) /\ mVideoFormat' \in 0 .. MaxFormats
    BY <1>1, <1>6 DEF NoSession, MaxFormats
  <2> QED
    BY <1>1, <1>6, <2>1, NothingSeen DEF NoSession, Idle
<1>7. CASE CreateDecoder
  <2>1. mVideoFormat' \in 0 .. MaxFormats /\ mDecoder' \in BOOLEAN
    BY <1>1, <1>7 DEF CreateDecoder, MaxFormats
  <2> QED
    BY <1>1, <1>7, <2>1, NothingSeen DEF CreateDecoder, StartLoop
<1>8. CASE Frame
  <2>1. CASE EndLoop("submit")
    BY <1>8, <2>1, EndStep DEF Frame
  <2>2. CASE ~ EndLoop("submit")
    BY <1>8, <2>2, FrameStep DEF Frame
  <2> QED
    BY <2>1, <2>2
<1>9. CASE UNCHANGED vars
  BY <1>1, <1>9, StutterStep DEF vars
<1> QED
  BY <1>2, <1>3, <1>4, <1>5, <1>6, <1>7, <1>8, <1>9 DEF Next, Step

LEMMA InvStays == Spec => []RendererInv
<1>1. RendererInv /\ [Next]_vars => RendererInv'
  BY NextInv
<1> QED
  BY <1>1, InitInv, PTL DEF Spec

-----------------------------------------------------------------------------
(* The theorems. *)

\* Whatever bytes a packet has, the parser stays inside it, and so does every
\* NALU that it returns (AdvanceToNextNALU and the two loops over it).
THEOREM RendererTypes == Spec => []TypeOK
<1>1. RendererInv => TypeOK
  BY DEF RendererInv
<1> QED
  BY <1>1, InvStays, PTL

\* What was not seen is what lies ahead of stream_.
LEMMA UnseenIsLeft ==
  ASSUME TypeOK, Scanned
  PROVE  Unseen = Candidates(packet, stream)
<1>1. Candidates(packet, stream) = {q \in Codes(packet) : q >= stream}
  BY LeftIs
<1>2. \A p \in Codes(packet) : p \in Nat /\ stream \in Nat
  BY LeftIs, CodeInside
<1>3. \A p \in Codes(packet) : p >= stream <=> Unit(packet, p) \notin Range(seen)
  BY <1>2 DEF Scanned
<1> QED
  BY <1>1, <1>3 DEF Unseen

\* Repeated calls of AdvanceToNextNALU return the NALUs of any packet in
\* order, each with all its bytes and none of a start code, and leave none out.
THEOREM ScanIsReference == Spec => []SeenIsReference
<1>1. ASSUME TypeOK, Scanned PROVE SeenIsReference
  <2>1. seen \in Seq(NALU) /\ Len(packet) \in Nat /\ stream \in Nat
    BY <1>1, LeftIs DEF TypeOK
  <2>2. Range(seen) \subseteq Units(packet)
    BY <1>1, <2>1, RangeIs DEF Scanned, Units
  <2>3. ASSUME NEW p \in Unseen, NEW k \in 1 .. Len(seen)
        PROVE  seen[k].data < p
    <3>1. p \in Codes(packet) /\ ~ (p < stream) /\ p \in Nat
      BY <1>1, <2>1, <2>3, CodeInside DEF Unseen, Scanned
    <3>2. PICK q \in Codes(packet) : seen[k] = Unit(packet, q) /\ Sound(seen[k])
      BY <1>1 DEF Scanned
    <3>3. seen[k] \in Range(seen)
      BY <2>1, RangeIs
    <3>4. q < stream /\ q \in Nat
      BY <1>1, <2>1, <3>2, <3>3, CodeInside DEF Scanned
    <3>5. ~ (p < End(packet, q))
      BY <2>1, <3>1, <3>2, <3>4, EndOf
    <3>6. seen[k].data \in Nat /\ seen[k].size \in Nat
          /\ seen[k].data + seen[k].size = End(packet, q)
      BY <2>1, <3>2, UnitInside
    <3>7. seen[k].size > 0
      BY <3>2 DEF Sound
    <3> QED
      BY <3>1, <3>5, <3>6, <3>7
  <2> QED
    BY <1>1, <2>2, <2>3 DEF SeenIsReference, Scanned
<1>2. RendererInv => SeenIsReference
  BY <1>1 DEF RendererInv
<1> QED
  BY <1>2, InvStays, PTL

\* A loop over the NALUs of any packet that has not met an empty NALU has
\* returned all of them, or all before the first with forbidden_zero_bit set,
\* which it reports as an invalid stream (handlePacket, createDecoder).
THEOREM ScansAreComplete == Spec => []ScanComplete
<1>1. ASSUME TypeOK, Scanned, EndedAtFirst, pc \in {"create", "submit"},
             Unseen # {}, Unit(packet, Min(Unseen)).size > 0
      PROVE  /\ FirstByte(Unit(packet, Min(Unseen))) > 127
             /\ ended = "kInvalidStream"
  <2> DEFINE unit == Unit(packet, FirstLeft)
  <2>1. Unseen = Candidates(packet, stream) /\ Min(Unseen) = FirstLeft
    BY <1>1, UnseenIsLeft DEF FirstLeft
  <2>2. ~Sound(unit) /\ unit.size > 0 /\ unit.size # 0
    BY <1>1, <2>1 DEF EndedAtFirst, FirstLeft
  <2>3. FirstLeft \in Codes(packet) /\ Len(packet) \in Nat
    BY <1>1, <2>1, LeftIs
  <2>4. unit.data \in Nat /\ unit.data < Len(packet)
    BY <2>2, <2>3, UnitInside
  <2>5. FirstByte(unit) \in Byte
    <3>1. packet \in Seq(Byte)
      BY <1>1, BytesAre DEF TypeOK
    <3> QED
      BY <2>3, <2>4, <3>1 DEF FirstByte
  <2>6. ~ (FirstByte(unit) < 128)
    BY <2>2 DEF Sound
  <2>7. FirstByte(unit) > 127
    BY <2>5, <2>6 DEF Byte
  <2>8. ended = "kInvalidStream"
    BY <1>1, <2>1, <2>2 DEF EndedAtFirst, FirstLeft
  <2> QED
    BY <2>1, <2>7, <2>8
<1>2. ASSUME TypeOK, Scanned, EndedAtFirst, pc \in {"create", "submit"}, Unseen = {}
      PROVE  ended = "kEOStream"
  BY <1>2, UnseenIsLeft DEF EndedAtFirst
<1>3. RendererInv => ScanComplete
  BY <1>1, <1>2 DEF RendererInv, ScanComplete
<1> QED
  BY <1>3, InvStays, PTL

\* What a loop has returned when it ends is what stands before the first
\* damaged NALU.
LEMMA ReachedIsSeen ==
  ASSUME TypeOK, Scanned, EndedAtFirst, pc \in {"create", "submit"}
  PROVE  Reached = Range(seen)
<1>1. /\ Len(packet) \in Nat /\ stream \in Nat
      /\ Range(seen) = {seen[k] : k \in 1 .. Len(seen)}
  BY LeftIs, RangeIs DEF TypeOK
<1>2. \A p \in Codes(packet) : p \in Nat /\ Unit(packet, p).data = p + 3
  BY <1>1, CodeInside, UnitInside
<1>3. \A unit \in Range(seen) : Sound(unit)
  BY <1>1 DEF Scanned
<1>4. ASSUME NEW unit \in Range(seen) PROVE unit \in Reached
  <2>1. PICK p \in Codes(packet) : unit = Unit(packet, p)
    BY <1>1, <1>4 DEF Scanned
  <2>2. unit \in Units(packet) \ Damaged
    BY <1>3, <1>4, <2>1 DEF Units, Damaged
  <2>3. p < stream
    BY <1>4, <2>1 DEF Scanned
  <2>4. ASSUME NEW bad \in Damaged PROVE unit.data < bad.data
    <3>1. PICK q \in Codes(packet) : bad = Unit(packet, q)
      BY <2>4 DEF Damaged, Units
    <3>2. ~ Sound(bad)
      BY <2>4 DEF Damaged
    <3>3. ~ (q < stream)
      BY <1>3, <3>1, <3>2 DEF Scanned
    <3> QED
      BY <1>1, <1>2, <2>1, <2>3, <3>1, <3>3
  <2> QED
    BY <2>2, <2>4 DEF Reached
<1>5. ASSUME NEW unit \in Reached PROVE unit \in Range(seen)
  <2>1. PICK p \in Codes(packet) : unit = Unit(packet, p)
    BY <1>5 DEF Reached, Units
  <2>2. CASE p < stream
    BY <2>1, <2>2 DEF Scanned
  <2>3. CASE ~ (p < stream)
    <3>1. p \in Candidates(packet, stream) /\ p >= stream
      BY <1>1, <1>2, <2>1, <2>3, LeftIs
    <3>2. FirstLeft \in Codes(packet) /\ FirstLeft <= p
      BY <2>1, <3>1, LeftIs
    <3>3. ~ Sound(Unit(packet, FirstLeft))
      BY <3>1 DEF EndedAtFirst, FirstLeft
    <3>4. Unit(packet, FirstLeft) \in Damaged
      BY <3>2, <3>3 DEF Damaged, Units
    <3>5. unit.data < Unit(packet, FirstLeft).data
      BY <1>5, <3>4 DEF Reached
    <3> QED
      BY <1>2, <2>1, <3>2, <3>5
  <2> QED
    BY <2>2, <2>3
<1> QED
  BY <1>4, <1>5

\* The frame handlePacket submits has, for packets of any length and any
\* bytes, every NALU in order that is not a parameter set and stands before
\* the first damaged one.
THEOREM FramesAreWhole == Spec => []FrameHasEverySlice
<1>1. ASSUME TypeOK, Scanned, EndedAtFirst, Slices PROVE FrameHasEverySlice
  <2> SUFFICES ASSUME pc = "submit"
               PROVE  /\ Range(nalus) = {unit \in Reached :
                                           NALUType(unit) \notin {kSPS, kPPS, kSPSExt}}
                      /\ Ascending(nalus)
    BY DEF FrameHasEverySlice
  <2>1. Reached = Range(seen)
    BY <1>1, ReachedIsSeen
  <2>2. \A type : InFrame(type) <=> type \notin {kSPS, kPPS, kSPSExt}
    BY DEF InFrame
  <2> QED
    BY <1>1, <2>1, <2>2 DEF Slices
<1>2. RendererInv => FrameHasEverySlice
  BY <1>1 DEF RendererInv
<1> QED
  BY <1>2, InvStays, PTL

\* A set that createDecoder has kept is the last of its kind that it reached.
LEMMA KeptIsLast ==
  ASSUME TypeOK, Scanned, EndedAtFirst, pc = "create",
         NEW kind, NEW last, LastOf(kind, last), last # None
  PROVE  IsLastOf(kind, last)
<1> DEFINE T == OfType(kind)
           n == Max(T)
<1>1. /\ Reached = Range(seen) /\ Len(seen) \in Nat
      /\ Range(seen) = {seen[k] : k \in 1 .. Len(seen)}
  BY ReachedIsSeen, RangeIs DEF TypeOK
<1>2. /\ T # {} /\ last = seen[n]
      /\ T = {k \in 1 .. Len(seen) : NALUType(seen[k]) = kind}
  BY DEF LastOf, OfType
<1>3. n \in T /\ \A k \in T : n >= k
  <2>1. T \in SUBSET (0 .. Len(seen))
    BY <1>1, <1>2
  <2> HIDE DEF T
  <2> QED
    BY <1>1, <1>2, <2>1, MaxOf
<1> HIDE DEF T, n
<1>4. last \in Reached /\ NALUType(last) = kind
  BY <1>1, <1>2, <1>3
<1>5. ASSUME NEW other \in Reached, NALUType(other) = kind
      PROVE  other.data <= last.data
  <2>1. PICK k \in 1 .. Len(seen) : other = seen[k]
    BY <1>1, <1>5
  <2>2. k \in T /\ k \in Nat /\ n \in 1 .. Len(seen) /\ n \in Nat
    BY <1>1, <1>2, <1>3, <1>5, <2>1
  <2>3. k = n \/ k < n
    BY <1>3, <2>2
  <2>4. k < n => seen[k].data < seen[n].data
    BY <2>1, <2>2 DEF Scanned, Ascending
  <2>5. seen \in Seq(NALU) /\ \A unit \in NALU : unit.data \in Int
    BY DEF TypeOK, NALU
  <2>6. seen[k].data \in Int /\ seen[n].data \in Int
    BY <2>1, <2>2, <2>5
  <2> QED
    BY <1>2, <2>1, <2>3, <2>4, <2>6
<1> QED
  BY <1>4, <1>5 DEF IsLastOf

\* createDecoder makes a format description and a decoder only from a packet
\* that has both parameter sets, and from the last of each, whatever the
\* packet.
THEOREM LastParametersWin == Spec => DecoderFromLastSets
<1> DEFINE Made == mVideoFormat' # mVideoFormat \/ mDecoder' # mDecoder
           FromLast == IsLastOf(kSPS, lastSps) /\ IsLastOf(kPPS, lastPps)
<1>1. ASSUME RendererInv, Next, Made PROVE FromLast
  <2>1. NoSession \/ CreateDecoder
    BY <1>1 DEF Next, Info, Packet, Step, Parameters, NoFormat, Frame, Submit
  <2>2. pc = "create" /\ lastSps # None /\ lastPps # None
    BY <2>1 DEF NoSession, CreateDecoder, HaveParameters
  <2>3. LastOf(kSPS, lastSps) /\ LastOf(kPPS, lastPps)
    BY <1>1, <2>2 DEF RendererInv, LastSets
  <2> QED
    BY <1>1, <2>2, <2>3, KeptIsLast DEF RendererInv
<1>2. RendererInv /\ [Next]_vars => [Made => FromLast]_vars
  BY <1>1
<1> QED
  BY <1>2, InvStays, PTL DEF Spec, DecoderFromLastSets

-----------------------------------------------------------------------------
(* The payload of a NALU, read in pieces.                                  *)

\* For less than two bytes three turns are enough.
LEMMA ReadBitsThreeTurns ==
  ASSUME NEW r, NEW num_bits \in 8 .. 15
  PROVE  ReadBits(r, num_bits) = Result(Turn(Turn(Turn(Start(r, num_bits)))), num_bits)
<1> DEFINE s0 == Start(r, num_bits)
           s1 == Turn(s0)
           s2 == Turn(s1)
           s3 == Turn(s2)
           m == 2 + num_bits \div 8
           F(f) == [n \in 0 .. m |-> IF n = 0 THEN s0 ELSE Turn(f[n - 1])]
           loop == CHOOSE f : f = F(f)
           w == [n \in 0 .. 3 |-> IF n = 0 THEN s0 ELSE IF n = 1 THEN s1
                                  ELSE IF n = 2 THEN s2 ELSE s3]
<1>1. ReadBits(r, num_bits) = Result(loop[m], num_bits)
  BY Zenon DEF ReadBits, Start, Turn, Result
<1>2. m = 3
  OBVIOUS
<1> HIDE DEF m
<1>3. w = F(w)
  <2>1. ASSUME NEW n \in 0 .. 3
        PROVE  w[n] = IF n = 0 THEN s0 ELSE Turn(w[n - 1])
    <3> HIDE DEF s0
    <3>1. n = 0 \/ n = 1 \/ n = 2 \/ n = 3
      OBVIOUS
    <3> QED
      BY <3>1
  <2> HIDE DEF s0, s3
  <2> QED
    BY <1>2, <2>1
<1>4. loop = F(loop)
  <2> HIDE DEF w, F
  <2> QED
    BY <1>3
<1>5. loop[3] = s3
  <2> HIDE DEF loop, s0
  <2>1. /\ loop[0] = s0 /\ loop[1] = Turn(loop[0])
        /\ loop[2] = Turn(loop[1]) /\ loop[3] = Turn(loop[2])
    BY <1>2, <1>4
  <2> QED
    BY <2>1
<1> HIDE DEF loop, s3
<1> QED
  BY <1>1, <1>2, <1>5 DEF s3

\* A loop that has ended does nothing more.
LEMMA TurnEnds ==
  ASSUME NEW s, ~ (s.r.ok /\ s.r.remaining < s.left)
  PROVE  Turn(s) = s
BY DEF Turn

\* The turn that loads a byte.
LEMMA TurnLoads ==
  ASSUME NEW r, NEW left \in Int, NEW out, NEW R \in Int, NEW b, NEW u,
         r.ok, r.remaining = R, r.curr_byte = b, R < left,
         u = UpdateCurrByte(r)
  PROVE  Turn([r |-> r, left |-> left, out |-> out])
           = [r |-> u, left |-> left - R, out |-> out + b * 2^(left - R)]
BY DEF Turn

\* The bits of the byte at hand suffice.
LEMMA ReadsWithin ==
  ASSUME NEW r \in Readers, NEW w \in 1 .. 7, r.ok, w <= r.remaining
  PROVE  ReadBits(r, w).r = [r EXCEPT !.remaining = r.remaining - w]
<1> DEFINE s == Start(r, w)
<1>1. s.r = r /\ s.left = w
  BY DEF Start
<1>2. Turn(s) = s
  <2>1. ~ (r.remaining < w)
    BY DEF Readers
  <2> HIDE DEF s
  <2> QED
    BY <1>1, <2>1, TurnEnds
<1>3. ReadBits(r, w) = Result(s, w)
  BY <1>2, ReadBitsTurns
<1> QED
  BY <1>3 DEF Result, Start

\* What a call returns whose loop ends with the reader u, and left bits to take
\* from its byte.
ReadEnds(read, u, left, out, w) ==
  /\ ~ u.ok => ~ read.r.ok
  /\ u.ok => /\ read.r = [u EXCEPT !.remaining = 8 - left]
             /\ read.out = (out + u.curr_byte \div 2^(8 - left)) % 2^w

LEMMA ResultIs ==
  ASSUME NEW u \in Readers, NEW left \in 0 .. 8, NEW out, NEW w,
         u.ok => u.remaining = 8,
         NEW s, s = [r |-> u, left |-> left, out |-> out]
  PROVE  ReadEnds(Result(s, w), u, left, out, w)
BY DEF Result, Readers, ReadEnds

\* The bits of the byte at hand do not suffice, but those of the next do.
LEMMA ReadsNextByte ==
  ASSUME NEW w \in Widths, NEW r \in Readers, NEW u \in Readers,
         r.ok, r.remaining < w, w <= r.remaining + 8,
         u = UpdateCurrByte(r), u.ok => u.remaining = 8
  PROVE  LET left == w - r.remaining
         IN  ReadEnds(ReadBits(r, w), u, left, 0 + r.curr_byte * 2^left, w)
<1> DEFINE R == r.remaining
           b == r.curr_byte
           out == 0 + b * 2^(w - R)
           s == [r |-> u, left |-> w - R, out |-> out]
<1>0. R \in Nat /\ w \in {3, 11} /\ R < w /\ w <= R + 8
  BY DEF Readers, Widths
<1>1. w \in Int /\ R \in Nat /\ w - R \in 0 .. 8 /\ (w = 3 \/ w = 11)
  <2> HIDE DEF R
  <2> QED
    BY <1>0
<1>2. Turn(Start(r, w)) = s
  <2>1. Start(r, w) = [r |-> r, left |-> w, out |-> 0]
    BY DEF Start
  <2> HIDE DEF R, b
  <2>2. r.ok /\ r.remaining = R /\ r.curr_byte = b /\ R < w
    BY DEF R, b
  <2> QED
    BY <1>1, <2>1, <2>2, TurnLoads
<1>3. Turn(s) = s
  <2>1. ~ (u.ok /\ u.remaining < w - R)
    BY <1>1
  <2> HIDE DEF R, out
  <2>2. s.r = u /\ s.left = w - R
    OBVIOUS
  <2> HIDE DEF s
  <2> QED
    BY <2>1, <2>2, TurnEnds
<1>4. ReadBits(r, w) = Result(s, w)
  <2>1. CASE w = 3
    <3>1. w \in 1 .. 7
      BY <2>1
    <3> HIDE DEF s
    <3> QED
      BY <1>2, <1>3, <3>1, ReadBitsTurns
  <2>2. CASE w = 11
    <3>1. w \in 8 .. 15
      BY <2>2
    <3> HIDE DEF s
    <3> QED
      BY <1>2, <1>3, <3>1, ReadBitsThreeTurns
  <2> QED
    BY <1>1, <2>1, <2>2
<1> DEFINE left == w - R
<1>5. s = [r |-> u, left |-> left, out |-> out] /\ left \in 0 .. 8
  BY <1>1
<1> HIDE DEF R, out, left, s
<1>6. ReadEnds(Result(s, w), u, left, out, w)
  BY <1>5, ResultIs
<1> QED
  BY <1>4, <1>6 DEF R, out, left

\* Nor do those of the next, but those of the one after it.
LEMMA ReadsTwoBytes ==
  ASSUME NEW w \in Widths, NEW r \in Readers, NEW u \in Readers,
         r.ok, r.remaining + 8 < w, w <= r.remaining + 16,
         u = UpdateCurrByte(r), u.ok => u.remaining = 8,
         NEW v, v = UpdateCurrByte(u),
         u.ok => v \in Readers /\ (v.ok => v.remaining = 8)
  PROVE  LET left == w - r.remaining
             out == (0 + r.curr_byte * 2^left) + u.curr_byte * 2^(left - 8)
         IN  /\ ~ u.ok => ~ ReadBits(r, w).r.ok
             /\ u.ok => ReadEnds(ReadBits(r, w), v, left - 8, out, w)
<1> DEFINE R == r.remaining
           b == r.curr_byte
           left == w - R
           out == 0 + b * 2^left
           s == [r |-> u, left |-> left, out |-> out]
           c == u.curr_byte
           out2 == out + c * 2^(left - 8)
           s2 == [r |-> v, left |-> left - 8, out |-> out2]
<1>0. R \in Nat /\ w \in {3, 11} /\ R + 8 < w
  BY DEF Readers, Widths
<1>1. /\ w = 11 /\ R \in Nat /\ left \in 8 .. 16 /\ left > 8
      /\ w \in 8 .. 15 /\ w \in Int /\ R < w
  <2> HIDE DEF R
  <2> QED
    BY <1>0
<1>2. Turn(Start(r, w)) = s
  <2>1. Start(r, w) = [r |-> r, left |-> w, out |-> 0]
    BY DEF Start
  <2> HIDE DEF R, b
  <2>2. r.ok /\ r.remaining = R /\ r.curr_byte = b /\ R < w
    BY <1>1 DEF R, b
  <2>3. w \in Int /\ R \in Int
    BY <1>1
  <2> QED
    BY <2>1, <2>2, <2>3, TurnLoads
<1> HIDE DEF R, out
<1>3. CASE ~ u.ok
  <2>1. s.r = u
    OBVIOUS
  <2> HIDE DEF s
  <2>2. Turn(s) = s
    BY <1>3, <2>1, TurnEnds
  <2>3. ReadBits(r, w) = Result(s, w)
    BY <1>1, <1>2, <2>2, ReadBitsThreeTurns
  <2>4. Result(s, w) = s
    BY <1>3, <2>1 DEF Result
  <2> QED
    BY <1>3, <2>1, <2>3, <2>4
<1>4. CASE u.ok
  <2>1. Turn(s) = s2
    <3> HIDE DEF c
    <3>1. u.ok /\ u.remaining = 8 /\ u.curr_byte = c /\ 8 < left
      BY <1>1, <1>4 DEF c
    <3> HIDE DEF left
    <3> QED
      BY <1>1, <3>1, TurnLoads
  <2>2. Turn(s2) = s2
    <3>1. ~ (v.ok /\ v.remaining < left - 8)
      BY <1>1, <1>4 DEF R
    <3> HIDE DEF R, left, out2
    <3>2. s2.r = v /\ s2.left = left - 8
      OBVIOUS
    <3> HIDE DEF s2
    <3> QED
      BY <3>1, <3>2, TurnEnds
  <2>3. ReadBits(r, w) = Result(s2, w)
    <3> HIDE DEF s, s2
    <3> QED
      BY <1>1, <1>2, <2>1, <2>2, ReadBitsThreeTurns
  <2> DEFINE rest == left - 8
  <2>a. s2 = [r |-> v, left |-> rest, out |-> out2] /\ rest \in 0 .. 8
    BY <1>1
  <2> HIDE DEF left, out2, s, s2, rest
  <2>4. ReadEnds(Result(s2, w), v, rest, out2, w)
    BY <1>4, <2>a, ResultIs
  <2> QED
    BY <1>4, <2>3, <2>4 DEF R, left, out, out2, rest
<1> QED
  BY <1>3, <1>4

\* The payload of d from byte j + 1 on, and what it says of the whole one.
Part(d, k) == IF IsPrevention(d, k) THEN <<>> ELSE <<d[k]>>
PayloadFrom(d, j) == FlattenSeq([k \in 1 .. Len(d) - j |-> Part(d, j + k)])

IsRest(rest, whole, m) ==
  /\ rest \in Seq(Byte) /\ whole \in Seq(Byte) /\ m \in 0 .. Len(whole)
  /\ Len(whole) = m + Len(rest)
  /\ \A i \in 1 .. Len(rest) : whole[m + i] = rest[i]

LEMMA PartsAre ==
  ASSUME NEW d \in Seq(Byte), NEW j \in 0 .. Len(d)
  PROVE  /\ [k \in 1 .. Len(d) - j |-> Part(d, j + k)] \in Seq(Seq(Byte))
         /\ Len([k \in 1 .. Len(d) - j |-> Part(d, j + k)]) = Len(d) - j
<1>1. ASSUME NEW k \in 1 .. Len(d) - j PROVE Part(d, j + k) \in Seq(Byte)
  <2>1. j + k \in 1 .. Len(d)
    OBVIOUS
  <2>2. d[j + k] \in Byte
    BY <2>1
  <2> QED
    BY <2>2 DEF Part
<1>2. Len(d) - j \in Nat
  OBVIOUS
<1> DEFINE n == Len(d) - j
           V == Seq(Byte)
           P(k) == Part(d, j + k)
<1>3. \A k \in 1 .. n : P(k) \in V
  BY <1>1
<1> HIDE DEF n, V, P
<1>4. [k \in 1 .. n |-> P(k)] \in Seq(V) /\ Len([k \in 1 .. n |-> P(k)]) = n
  BY <1>2, <1>3 DEF n
<1> QED
  BY <1>4 DEF n, V, P

LEMMA PayloadStarts ==
  ASSUME NEW d \in Seq(Byte)
  PROVE  IsRest(PayloadFrom(d, 0), Payload(d), 0)
<1>1. 0 \in 0 .. Len(d) /\ Len(d) \in Nat /\ Len(d) - 0 = Len(d)
  OBVIOUS
<1>2. PayloadFrom(d, 0) \in Seq(Byte)
  BY <1>1, PartsAre, FlattenType DEF PayloadFrom
<1>3. PayloadFrom(d, 0) = Payload(d)
  <2>1. \A k \in 1 .. Len(d) : Part(d, 0 + k) = Part(d, k)
    OBVIOUS
  <2>2. [k \in 1 .. Len(d) - 0 |-> Part(d, 0 + k)] = [k \in 1 .. Len(d) |-> Part(d, k)]
    BY <1>1, <2>1
  <2> QED
    BY <2>2 DEF PayloadFrom, Payload, Part
<1> DEFINE p == Payload(d)
<1>4. p \in Seq(Byte) /\ PayloadFrom(d, 0) = p
  BY <1>2, <1>3
<1> HIDE DEF p
<1> QED
  BY <1>4 DEF IsRest, p

LEMMA PayloadSplits ==
  ASSUME NEW d \in Seq(Byte), NEW j \in 0 .. Len(d), j < Len(d)
  PROVE  /\ PayloadFrom(d, j + 1) \in Seq(Byte)
         /\ PayloadFrom(d, j) = Joined(Part(d, j + 1), PayloadFrom(d, j + 1))
<1> DEFINE parts == [k \in 1 .. Len(d) - j |-> Part(d, j + k)]
           rest == [k \in 1 .. Len(d) - (j + 1) |-> Part(d, (j + 1) + k)]
<1>1. parts \in Seq(Seq(Byte)) /\ Len(parts) = Len(d) - j
  BY PartsAre
<1>2. j + 1 \in 0 .. Len(d) /\ Len(d) \in Nat /\ j \in Nat
  OBVIOUS
<1>3. rest \in Seq(Seq(Byte)) /\ Len(rest) = Len(d) - (j + 1)
  BY <1>2, PartsAre
<1>4. \A k \in 1 .. Len(d) - (j + 1) : rest[k] = parts[k + 1]
  <2> SUFFICES ASSUME NEW k \in 1 .. Len(d) - (j + 1) PROVE rest[k] = parts[k + 1]
    OBVIOUS
  <2>1. k + 1 \in 1 .. Len(d) - j /\ (j + 1) + k = j + (k + 1)
    BY <1>2
  <2>2. rest[k] = Part(d, (j + 1) + k) /\ parts[k + 1] = Part(d, j + (k + 1))
    BY <2>1
  <2> QED
    BY <2>1, <2>2
<1>5. parts[1] = Part(d, j + 1)
  BY <1>2
<1> HIDE DEF parts, rest
<1>6. parts # <<>> /\ Head(parts) = Part(d, j + 1)
  BY <1>1, <1>2, <1>5
<1>7. Tail(parts) = rest
  <2> DEFINE V == Seq(Byte)
  <2>1. parts \in Seq(V) /\ rest \in Seq(V)
    BY <1>1, <1>3
  <2> HIDE DEF V
  <2>2. /\ Tail(parts) \in Seq(V) /\ Len(Tail(parts)) = Len(parts) - 1
        /\ \A k \in 1 .. Len(parts) - 1 : Tail(parts)[k] = parts[k + 1]
    BY <1>6, <2>1
  <2>3. Len(parts) - 1 = Len(d) - (j + 1)
    BY <1>1, <1>2
  <2> QED
    BY <1>3, <1>4, <2>1, <2>2, <2>3, SeqEqual
<1>8. FlattenSeq(parts) = Joined(Head(parts), FlattenSeq(Tail(parts)))
  BY <1>1, <1>6, FlattenHead DEF Joined
<1>9. FlattenSeq(rest) \in Seq(Byte)
  BY <1>3, FlattenType
<1> QED
  BY <1>6, <1>7, <1>8, <1>9 DEF PayloadFrom, parts, rest

\* A byte of the payload, one that is not of it, and its end.
LEMMA PayloadByte ==
  ASSUME NEW d \in Seq(Byte), NEW j \in 0 .. Len(d), j < Len(d), NEW m,
         IsRest(PayloadFrom(d, j), Payload(d), m), ~ IsPrevention(d, j + 1)
  PROVE  /\ m < Len(Payload(d)) /\ Payload(d)[m + 1] = d[j + 1]
         /\ IsRest(PayloadFrom(d, j + 1), Payload(d), m + 1)
<1> DEFINE p == Payload(d)
           a == PayloadFrom(d, j)
           b == PayloadFrom(d, j + 1)
           x == d[j + 1]
<1>1. x \in Byte /\ b \in Seq(Byte) /\ a = Joined(<<x>>, b)
  BY PayloadSplits DEF Part
<1>2. IsRest(a, p, m)
  OBVIOUS
<1> HIDE DEF p, a, b, x
<1>3. /\ a \in Seq(Byte) /\ Len(a) = 1 + Len(b) /\ a[1] = x
      /\ \A i \in 1 .. Len(b) : a[i + 1] = b[i]
  BY <1>1 DEF Joined
<1>4. /\ p \in Seq(Byte) /\ m \in 0 .. Len(p) /\ Len(p) = m + Len(a)
      /\ \A i \in 1 .. Len(a) : p[m + i] = a[i]
  BY <1>2 DEF IsRest
<1>5. Len(b) \in Nat /\ m \in Nat /\ Len(p) = (m + 1) + Len(b)
  BY <1>1, <1>3, <1>4
<1>6. m + 1 \in 0 .. Len(p) /\ m < Len(p) /\ 1 \in 1 .. Len(a)
  BY <1>3, <1>5
<1>7. p[m + 1] = x
  BY <1>3, <1>4, <1>6
<1>8. ASSUME NEW i \in 1 .. Len(b) PROVE p[(m + 1) + i] = b[i]
  <2>1. i + 1 \in 1 .. Len(a) /\ m + (i + 1) = (m + 1) + i
    BY <1>3, <1>5
  <2> QED
    BY <1>3, <1>4, <2>1
<1>9. IsRest(b, p, m + 1)
  BY <1>1, <1>4, <1>5, <1>6, <1>8 DEF IsRest
<1> QED
  BY <1>6, <1>7, <1>9 DEF p, b, x

LEMMA PreventionByte ==
  ASSUME NEW d \in Seq(Byte), NEW j \in 0 .. Len(d), j < Len(d), NEW m,
         IsRest(PayloadFrom(d, j), Payload(d), m), IsPrevention(d, j + 1)
  PROVE  IsRest(PayloadFrom(d, j + 1), Payload(d), m)
<1>1. /\ PayloadFrom(d, j + 1) \in Seq(Byte)
      /\ PayloadFrom(d, j) = Joined(<<>>, PayloadFrom(d, j + 1))
  BY PayloadSplits DEF Part
<1>2. PayloadFrom(d, j) = PayloadFrom(d, j + 1)
  BY <1>1, ConcatEmptySeq DEF Joined
<1> QED
  BY <1>2

LEMMA PayloadEnds ==
  ASSUME NEW d \in Seq(Byte), NEW m, IsRest(PayloadFrom(d, Len(d)), Payload(d), m)
  PROVE  m = Len(Payload(d)) /\ Len(Payload(d)) \in Nat
<1>1. PayloadFrom(d, Len(d)) = <<>>
  <2>1. [k \in 1 .. Len(d) - Len(d) |-> Part(d, Len(d) + k)] = <<>>
    <3>1. Len(d) - Len(d) = 0
      OBVIOUS
    <3> QED
      BY <3>1
  <2> QED
    BY <2>1, FlattenEmpty DEF PayloadFrom
<1> DEFINE p == Payload(d)
<1>2. p \in Seq(Byte) /\ m \in Nat /\ Len(p) = m + Len(<<>>)
  BY <1>1 DEF IsRest
<1> HIDE DEF p
<1>3. Len(<<>>) = 0
  OBVIOUS
<1> QED
  BY <1>2, <1>3 DEF p

-----------------------------------------------------------------------------
\* A reader that has taken the first j bytes of d, and with them the first m of
\* its payload.
Remembers(prev, d, j) ==
  \E x, y \in Byte :
    /\ prev = <<x, y>>
    /\ y = 0 <=> j > 0 /\ d[j] = 0
    /\ x = 0 /\ y = 0 <=> j > 1 /\ d[j] = 0 /\ d[j - 1] = 0

HasTaken(r, d, j, m) ==
  /\ r \in Readers /\ r.ok
  /\ r.data = SubSeq(d, j + 1, Len(d))
  /\ r.emulation_prevention_bytes = j - m
  /\ Remembers(r.prev_two_bytes, d, j)
  /\ IsRest(PayloadFrom(d, j), Payload(d), m)

LEMMA RestOfData ==
  ASSUME NEW d \in Seq(Byte), NEW j \in 0 .. Len(d)
  PROVE  /\ j = Len(d) => SubSeq(d, j + 1, Len(d)) = <<>>
         /\ j < Len(d) => /\ SubSeq(d, j + 1, Len(d)) # <<>>
                          /\ Head(SubSeq(d, j + 1, Len(d))) = d[j + 1]
                          /\ Tail(SubSeq(d, j + 1, Len(d)))
                               = SubSeq(d, (j + 1) + 1, Len(d))
<1> DEFINE s == SubSeq(d, j + 1, Len(d))
<1>1. /\ s \in Seq(Byte) /\ Len(s) = Len(d) - j
      /\ \A i \in 1 .. Len(d) - j : s[i] = d[j + i]
      /\ Len(d) \in Nat /\ j \in Nat
  OBVIOUS
<1>2. CASE j = Len(d)
  <2> HIDE DEF s
  <2>1. Len(s) = 0
    BY <1>1, <1>2
  <2>2. s = <<>>
    BY <1>1, <2>1, EmptySeq
  <2> QED
    BY <1>2, <2>2 DEF s
<1>3. CASE j < Len(d)
  <2> DEFINE t == SubSeq(d, (j + 1) + 1, Len(d))
  <2>1. /\ t \in Seq(Byte) /\ Len(t) = Len(d) - (j + 1)
        /\ \A i \in 1 .. Len(d) - (j + 1) : t[i] = d[(j + 1) + i]
    BY <1>1, <1>3
  <2> HIDE DEF s, t
  <2>2. s # <<>> /\ Head(s) = d[j + 1]
    BY <1>1, <1>3
  <2>3. /\ Tail(s) \in Seq(Byte) /\ Len(Tail(s)) = Len(d) - (j + 1)
        /\ \A i \in 1 .. Len(d) - (j + 1) : Tail(s)[i] = s[i + 1]
    BY <1>1, <2>2
  <2>4. \A i \in 1 .. Len(d) - (j + 1) : s[i + 1] = d[(j + 1) + i]
    <3> SUFFICES ASSUME NEW i \in 1 .. Len(d) - (j + 1)
                 PROVE  s[i + 1] = d[(j + 1) + i]
      OBVIOUS
    <3>1. i + 1 \in 1 .. Len(d) - j /\ j + (i + 1) = (j + 1) + i
      BY <1>1
    <3> QED
      BY <1>1, <3>1
  <2> DEFINE u == Tail(s)
  <2>5. /\ u \in Seq(Byte) /\ t \in Seq(Byte) /\ Len(u) = Len(t)
        /\ \A i \in 1 .. Len(u) : u[i] = t[i]
    BY <2>1, <2>3, <2>4
  <2> HIDE DEF u
  <2>6. u = t
    BY <2>5, SeqEqual
  <2> QED
    BY <1>1, <1>3, <2>2, <2>6 DEF s, t, u
<1> QED
  BY <1>1, <1>2, <1>3

LEMMA InitialReader ==
  ASSUME NEW d \in Seq(Byte)
  PROVE  HasTaken(Reader(d), d, 0, 0)
<1>1. SubSeq(d, 0 + 1, Len(d)) = d
  OBVIOUS
<1>2. 255 \in Byte /\ 0 \in Byte /\ 255 # 0
  BY DEF Byte
<1>3. Remembers(<<255, 255>>, d, 0)
  BY <1>2 DEF Remembers
<1>4. <<255, 255>> \in Seq(Byte)
  BY <1>2
<1>5. Reader(d) \in Readers
  BY <1>2, <1>4 DEF Reader, Readers
<1> QED
  BY <1>1, <1>3, <1>5, PayloadStarts DEF HasTaken, Reader

\* The two bytes that are remembered after one more, and after one is skipped.
LEMMA RemembersNext ==
  ASSUME NEW d \in Seq(Byte), NEW j \in 0 .. Len(d), j < Len(d),
         NEW prev, Remembers(prev, d, j)
  PROVE  Remembers(<<prev[2], d[j + 1]>>, d, j + 1)
<1>1. PICK x, y \in Byte : /\ prev = <<x, y>>
                           /\ y = 0 <=> j > 0 /\ d[j] = 0
  BY DEF Remembers
<1>2. /\ j + 1 > 0 /\ (j + 1 > 1 <=> j > 0) /\ (j + 1) - 1 = j
      /\ j + 1 \in 1 .. Len(d)
  OBVIOUS
<1> DEFINE z == d[j + 1]
<1>3. z \in Byte /\ prev[2] = y
  BY <1>1, <1>2
<1>4. /\ z = 0 <=> j + 1 > 0 /\ z = 0
      /\ y = 0 /\ z = 0 <=> j + 1 > 1 /\ z = 0 /\ d[(j + 1) - 1] = 0
  BY <1>1, <1>2
<1> QED
  BY <1>3, <1>4 DEF Remembers

LEMMA RemembersSkipped ==
  ASSUME NEW d \in Seq(Byte), NEW j \in 0 .. Len(d), j < Len(d), d[j + 1] = 3
  PROVE  Remembers(<<255, 255>>, d, j + 1)
<1>1. 255 \in Byte /\ 255 # 0 /\ d[j + 1] # 0
  BY DEF Byte
<1> QED
  BY <1>1 DEF Remembers

LEMMA RemembersZeros ==
  ASSUME NEW d \in Seq(Byte), NEW j \in 0 .. Len(d), j < Len(d),
         NEW r, Remembers(r.prev_two_bytes, d, j), Head(r.data) = d[j + 1]
  PROVE  EmulationPrevention(r) <=> IsPrevention(d, j + 1)
<1>1. PICK x, y \in Byte :
        /\ r.prev_two_bytes = <<x, y>>
        /\ x = 0 /\ y = 0 <=> j > 1 /\ d[j] = 0 /\ d[j - 1] = 0
  BY DEF Remembers
<1>2. r.prev_two_bytes = <<0, 0>> <=> x = 0 /\ y = 0
  BY <1>1
<1>3. (j + 1 > 2 <=> j > 1) /\ (j + 1) - 1 = j /\ (j + 1) - 2 = j - 1
  OBVIOUS
<1> QED
  BY <1>1, <1>2, <1>3 DEF EmulationPrevention, IsPrevention

\* Load and Skip.
WithByte(r, data, byte, prev) ==
  [r EXCEPT !.data = data, !.curr_byte = byte, !.remaining = 8,
            !.prev_two_bytes = prev]

LEMMA ByteLoaded ==
  ASSUME NEW r \in Readers, NEW data \in Seq(Byte), NEW byte \in Byte,
         NEW prev \in Seq(Byte)
  PROVE  LET s == WithByte(r, data, byte, prev)
         IN  /\ s \in Readers /\ s.ok = r.ok /\ s.data = data
             /\ s.emulation_prevention_bytes = r.emulation_prevention_bytes
             /\ s.prev_two_bytes = prev /\ s.remaining = 8 /\ s.curr_byte = byte
BY DEF Readers, WithByte

LEMMA Loads ==
  ASSUME NEW d \in Seq(Byte), NEW j \in 0 .. Len(d), j < Len(d), NEW m, NEW r,
         HasTaken(r, d, j, m), ~ IsPrevention(d, j + 1)
  PROVE  /\ r.data # <<>>
         /\ HasTaken(Load(r), d, j + 1, m + 1)
         /\ Load(r).remaining = 8
         /\ m < Len(Payload(d)) /\ Load(r).curr_byte = Payload(d)[m + 1]
<1>1. /\ m < Len(Payload(d)) /\ Payload(d)[m + 1] = d[j + 1]
      /\ IsRest(PayloadFrom(d, j + 1), Payload(d), m + 1)
  BY PayloadByte DEF HasTaken
<1>2. /\ r.data # <<>> /\ Head(r.data) = d[j + 1]
      /\ Tail(r.data) = SubSeq(d, (j + 1) + 1, Len(d))
  BY RestOfData DEF HasTaken
<1> DEFINE prev == <<r.prev_two_bytes[2], d[j + 1]>>
           tail == Tail(r.data)
           x == d[j + 1]
<1>3. Remembers(prev, d, j + 1)
  BY RemembersNext DEF HasTaken
<1>4. prev \in Seq(Byte) /\ tail \in Seq(Byte) /\ x \in Byte
  <2>1. \A y, z \in Byte : <<y, z>> \in Seq(Byte)
    OBVIOUS
  <2>2. prev \in Seq(Byte)
    BY <1>3, <2>1 DEF Remembers
  <2>3. r.data \in Seq(Byte)
    BY DEF HasTaken, Readers
  <2>4. tail \in Seq(Byte)
    BY <1>2, <2>3
  <2>5. j + 1 \in 1 .. Len(d)
    OBVIOUS
  <2> QED
    BY <2>2, <2>4, <2>5
<1>5. Load(r) = WithByte(r, tail, x, prev)
  BY <1>2 DEF Load, WithByte, HasTaken, Readers
<1>6. r \in Readers /\ r.ok /\ r.emulation_prevention_bytes = j - m
  BY DEF HasTaken
<1> HIDE DEF prev, tail, x
<1>7. /\ Load(r) \in Readers /\ Load(r).ok /\ Load(r).data = tail
      /\ Load(r).emulation_prevention_bytes = r.emulation_prevention_bytes
      /\ Load(r).prev_two_bytes = prev /\ Load(r).remaining = 8
      /\ Load(r).curr_byte = x
  <2> DEFINE s == WithByte(r, tail, x, prev)
  <2>1. r \in Readers
    BY <1>6
  <2>2. /\ s \in Readers /\ s.ok = r.ok /\ s.data = tail
        /\ s.emulation_prevention_bytes = r.emulation_prevention_bytes
        /\ s.prev_two_bytes = prev /\ s.remaining = 8 /\ s.curr_byte = x
    BY <1>4, <2>1, ByteLoaded
  <2> HIDE DEF s
  <2> QED
    BY <1>5, <1>6, <2>2 DEF s
<1>8. m \in Int
  BY DEF HasTaken, IsRest
<1>9. j - m = (j + 1) - (m + 1)
  BY <1>8
<1> QED
  BY <1>1, <1>2, <1>3, <1>6, <1>7, <1>9 DEF HasTaken, tail, x

LEMMA Skips ==
  ASSUME NEW d \in Seq(Byte), NEW j \in 0 .. Len(d), j < Len(d), NEW m, NEW r,
         HasTaken(r, d, j, m), IsPrevention(d, j + 1)
  PROVE  r.data # <<>> /\ HasTaken(Skip(r), d, j + 1, m)
<1>1. IsRest(PayloadFrom(d, j + 1), Payload(d), m)
  BY PreventionByte DEF HasTaken
<1>2. r.data # <<>> /\ Tail(r.data) = SubSeq(d, (j + 1) + 1, Len(d))
  BY RestOfData DEF HasTaken
<1> DEFINE prev == <<255, 255>>
           tail == Tail(r.data)
           count == r.emulation_prevention_bytes + 1
<1>3. Remembers(prev, d, j + 1) /\ prev \in Seq(Byte)
  <2>1. 255 \in Byte
    BY DEF Byte
  <2> QED
    BY <2>1, RemembersSkipped DEF IsPrevention
<1>4. tail \in Seq(Byte) /\ count \in Nat
  <2>1. r.data \in Seq(Byte) /\ r.emulation_prevention_bytes \in Nat
    BY DEF HasTaken, Readers
  <2> QED
    BY <1>2, <2>1
<1>5. Skip(r) = [r EXCEPT !.data = tail, !.emulation_prevention_bytes = count,
                          !.prev_two_bytes = prev]
  BY DEF Skip, HasTaken, Readers
<1>6. r \in Readers /\ r.ok
  BY DEF HasTaken
<1>7. m \in Int /\ count = (j + 1) - m
  BY DEF HasTaken, IsRest
<1> HIDE DEF prev, tail, count
<1>8. /\ Skip(r) \in Readers /\ Skip(r).ok /\ Skip(r).data = tail
      /\ Skip(r).emulation_prevention_bytes = count
      /\ Skip(r).prev_two_bytes = prev
  BY <1>3, <1>4, <1>5, <1>6 DEF Readers
<1> QED
  BY <1>1, <1>2, <1>3, <1>7, <1>8 DEF HasTaken, tail

\* UpdateCurrByte loads the next byte of the payload, or fails at its end.
LEMMA UpdateTakes ==
  ASSUME NEW d \in Seq(Byte), NEW j \in 0 .. Len(d), NEW m, NEW r,
         HasTaken(r, d, j, m)
  PROVE  LET u == UpdateCurrByte(r)
         IN  /\ u \in Readers
             /\ m < Len(Payload(d)) =>
                  /\ \E k \in 0 .. Len(d) : HasTaken(u, d, k, m + 1)
                  /\ u.remaining = 8 /\ u.curr_byte = Payload(d)[m + 1]
             /\ ~ (m < Len(Payload(d))) => ~ u.ok
<1>1. \A q \in Readers : [q EXCEPT !.ok = FALSE] \in Readers
                         /\ [q EXCEPT !.ok = FALSE].ok = FALSE
  BY DEF Readers
<1>2. Len(d) \in Nat /\ r \in Readers
  BY DEF HasTaken
<1>3. CASE j = Len(d)
  <2>1. r.data = <<>>
    BY <1>3, RestOfData DEF HasTaken
  <2>2. UpdateCurrByte(r) = [r EXCEPT !.ok = FALSE]
    BY <2>1 DEF UpdateCurrByte
  <2>3. IsRest(PayloadFrom(d, Len(d)), Payload(d), m)
    BY <1>3 DEF HasTaken
  <2>4. m = Len(Payload(d)) /\ Len(Payload(d)) \in Nat
    BY <2>3, PayloadEnds
  <2> QED
    BY <1>1, <1>2, <2>2, <2>4
<1>4. CASE j < Len(d) /\ ~ IsPrevention(d, j + 1)
  <2>1. /\ r.data # <<>> /\ HasTaken(Load(r), d, j + 1, m + 1)
        /\ Load(r).remaining = 8
        /\ m < Len(Payload(d)) /\ Load(r).curr_byte = Payload(d)[m + 1]
    BY <1>4, Loads
  <2>2. ~ EmulationPrevention(r)
    BY <1>4, RemembersZeros, RestOfData DEF HasTaken
  <2>3. UpdateCurrByte(r) = Load(r)
    BY <2>1, <2>2 DEF UpdateCurrByte
  <2>4. j + 1 \in 0 .. Len(d) /\ Load(r) \in Readers
    BY <1>2, <1>4, <2>1 DEF HasTaken
  <2> QED
    BY <2>1, <2>3, <2>4
<1>5. CASE j < Len(d) /\ IsPrevention(d, j + 1)
  <2> DEFINE s == Skip(r)
  <2>1. r.data # <<>> /\ HasTaken(s, d, j + 1, m)
    BY <1>5, Skips
  <2>2. EmulationPrevention(r)
    BY <1>5, RemembersZeros, RestOfData DEF HasTaken
  <2>3. UpdateCurrByte(r) = IF s.data = <<>> THEN [s EXCEPT !.ok = FALSE] ELSE Load(s)
    BY <2>1, <2>2 DEF UpdateCurrByte
  <2>4. j + 1 \in 0 .. Len(d) /\ s \in Readers
    BY <1>2, <1>5, <2>1 DEF HasTaken
  <2> HIDE DEF s
  <2>5. CASE j + 1 = Len(d)
    <3>1. s.data = <<>>
      BY <2>1, <2>4, <2>5, RestOfData DEF HasTaken
    <3>2. IsRest(PayloadFrom(d, Len(d)), Payload(d), m)
      BY <2>1, <2>5 DEF HasTaken
    <3>3. m = Len(Payload(d)) /\ Len(Payload(d)) \in Nat
      BY <3>2, PayloadEnds
    <3> QED
      BY <1>1, <2>3, <2>4, <3>1, <3>3
  <2>6. CASE j + 1 # Len(d)
    <3>1. j + 1 < Len(d)
      BY <1>2, <2>4, <2>6
    <3>2. ~ IsPrevention(d, (j + 1) + 1)
      <4>1. d[j + 1] = 3 /\ ((j + 1) + 1) - 1 = j + 1
        BY <1>5 DEF IsPrevention
      <4> QED
        BY <4>1 DEF IsPrevention
    <3>3. /\ s.data # <<>> /\ HasTaken(Load(s), d, (j + 1) + 1, m + 1)
          /\ Load(s).remaining = 8
          /\ m < Len(Payload(d)) /\ Load(s).curr_byte = Payload(d)[m + 1]
      BY <2>1, <2>4, <3>1, <3>2, Loads
    <3>4. (j + 1) + 1 \in 0 .. Len(d) /\ Load(s) \in Readers
      BY <1>2, <2>4, <3>1, <3>3 DEF HasTaken
    <3> QED
      BY <2>3, <3>3, <3>4
  <2> QED
    BY <2>5, <2>6
<1> QED
  BY <1>2, <1>3, <1>4, <1>5

-----------------------------------------------------------------------------
(* The bits of a piece.                                                    *)

LEMMA ByteIs == \A x \in Byte : x \in Int /\ x >= 0 /\ x < 256
BY DEF Byte

\* Bit q of a byte, the first being its highest.
Bit(b, q) == (b \div 2^(8 - q)) % 2

\* What ReadBits(w) makes of three bytes, when R bits of the first are left.
Taken(w, R, a, b, c) ==
  LET left == w - R
  IN  IF w <= R THEN (0 + a \div 2^(R - w)) % 2^w
      ELSE IF left <= 8 THEN ((0 + a * 2^left) + b \div 2^(8 - left)) % 2^w
      ELSE (((0 + a * 2^left) + b * 2^(left - 8)) + c \div 2^(8 - (left - 8))) % 2^w

\* The first bits of a byte.
Top(b, i) == b \div 2^(8 - i)

LEMMA TopGrows ==
  ASSUME NEW b \in Int, b >= 0, b < 256, NEW i \in 1 .. 8
  PROVE  /\ Top(b, i) = 2 * Top(b, i - 1) + Bit(b, i)
         /\ 2^i = 2 * 2^(i - 1)
         /\ Top(b, i) \in Int /\ Top(b, i - 1) \in Int /\ 2^(i - 1) \in Int
         /\ Bit(b, i) \in Int
<1>1. CASE i = 1
  BY <1>1 DEF Top, Bit
<1>2. CASE i = 2
  BY <1>2 DEF Top, Bit
<1>3. CASE i = 3
  BY <1>3 DEF Top, Bit
<1>4. CASE i = 4
  BY <1>4 DEF Top, Bit
<1>5. CASE i = 5
  BY <1>5 DEF Top, Bit
<1>6. CASE i = 6
  BY <1>6 DEF Top, Bit
<1>7. CASE i = 7
  BY <1>7 DEF Top, Bit
<1>8. CASE i = 8
  BY <1>8 DEF Top, Bit
<1> QED
  BY <1>1, <1>2, <1>3, <1>4, <1>5, <1>6, <1>7, <1>8

\* What a piece is, said with the first bits of its bytes.
IsTaken(R, a, b, c) ==
  LET low == (0 - Top(a, 8 - R)) * 2^R + a
  IN  /\ R >= 3 =>
           /\ Taken(3, R, a, b, c)
                = (0 - Top(a, 8 - R)) * 2^3 + Top(a, (8 - R) + 3)
           /\ Taken(11, R, a, b, c) = low * 2^(11 - R) + Top(b, 11 - R)
      /\ R < 3 =>
           /\ Taken(3, R, a, b, c) = low * 2^(3 - R) + Top(b, 3 - R)
           /\ Taken(11, R, a, b, c)
                = (low * 2^8 + b) * 2^(3 - R) + Top(c, 3 - R)

LEMMA TakenIs ==
  ASSUME NEW a \in Int, NEW b \in Int, NEW c \in Int, NEW R \in 0 .. 7,
         a >= 0, a < 256, b >= 0, b < 256, c >= 0, c < 256
  PROVE  IsTaken(R, a, b, c)
<1>0. CASE R = 0
  BY <1>0 DEF IsTaken, Taken, Top
<1>1. CASE R = 1
  BY <1>1 DEF IsTaken, Taken, Top
<1>2. CASE R = 2
  BY <1>2 DEF IsTaken, Taken, Top
<1>3. CASE R = 3
  BY <1>3 DEF IsTaken, Taken, Top
<1>4. CASE R = 4
  BY <1>4 DEF IsTaken, Taken, Top
<1>5. CASE R = 5
  BY <1>5 DEF IsTaken, Taken, Top
<1>6. CASE R = 6
  BY <1>6 DEF IsTaken, Taken, Top
<1>7. CASE R = 7
  BY <1>7 DEF IsTaken, Taken, Top
<1> QED
  BY <1>0, <1>1, <1>2, <1>3, <1>4, <1>5, <1>6, <1>7

\* A number that grows by q bits of a byte, after the first o.
Grows(n, k, b, o, q) ==
  \A i \in 1 .. q : n[k + i] = 2 * n[k + i - 1] + Bit(b, o + i)
Grown(n, k, b, o, q) == n[k + q] = (n[k] - Top(b, o)) * 2^q + Top(b, o + q)

LEMMA GrowsByBits ==
  ASSUME NEW b \in Int, b >= 0, b < 256, NEW k \in Nat, NEW o \in 0 .. 8,
         NEW q \in 0 .. 8 - o, NEW n, n[k] \in Int,
         Grows(n, k, b, o, q)
  PROVE  Grown(n, k, b, o, q)
<1> DEFINE v == n[k] - Top(b, o)
           S == {i \in 0 .. 8 : n[k + i] = v * 2^i + Top(b, o + i)}
<1>0. v \in Int /\ Top(b, o) \in Int
  <2>1. Top(b, o) \in Int
    <3>1. CASE o = 0
      BY <3>1 DEF Top
    <3>2. CASE o \in 1 .. 8
      BY <3>2, TopGrows
    <3> QED
      BY <3>1, <3>2
  <2> QED
    BY <2>1
<1>1. 0 \in S
  <2>1. k + 0 = k /\ o + 0 = o /\ 2^0 = 1 /\ n[k] = v * 1 + Top(b, o)
    BY <1>0
  <2> QED
    BY <2>1
<1>2. ASSUME NEW i \in 0 .. q - 1, i \in S PROVE i + 1 \in S
  <2> DEFINE j == i + 1
             P == 2^i
             z == Bit(b, o + j)
             x == Top(b, o + i)
             y == Top(b, o + j)
             Q == 2^j
             e == n[k + i]
             f == n[k + j]
  <2>1. /\ i \in 0 .. 8 /\ j \in 1 .. 8 /\ j \in 1 .. q /\ j - 1 = i
        /\ k + j - 1 = k + i /\ o + j \in 1 .. 8 /\ (o + j) - 1 = o + i
    OBVIOUS
  <2>2. e = v * P + x
    BY <1>2
  <2>3. f = 2 * e + z
    BY <2>1 DEF Grows
  <2>4. y = 2 * x + z /\ x \in Int /\ y \in Int /\ z \in Int
    <3> HIDE DEF j
    <3>1. /\ Top(b, o + j) = 2 * Top(b, (o + j) - 1) + Bit(b, o + j)
          /\ Top(b, o + j) \in Int /\ Top(b, (o + j) - 1) \in Int
          /\ Bit(b, o + j) \in Int
      BY <2>1, TopGrows
    <3> QED
      BY <2>1, <3>1
  <2>5. Q = 2 * P /\ P \in Int
    <3> HIDE DEF j
    <3>1. 2^j = 2 * 2^(j - 1) /\ 2^(j - 1) \in Int
      BY <2>1, TopGrows
    <3> QED
      BY <2>1, <3>1
  <2> HIDE DEF P, Q, v, x, y, z, e, f, S
  <2>6. f = v * Q + y
    BY <1>0, <2>2, <2>3, <2>4, <2>5
  <2> QED
    BY <2>1, <2>6 DEF f, Q, y, S
<1>3. \A i \in 0 .. q : i \in S
  <2> HIDE DEF S
  <2> QED
    BY <1>1, <1>2, InductionUpTo
<1> QED
  BY <1>3 DEF Grown

\* Bit i of a piece, and a number that grows by all of them.
PieceBit(R, a, b, c, i) == IF i <= R THEN Bit(a, 8 - R + i)
                           ELSE IF i <= R + 8 THEN Bit(b, i - R)
                           ELSE Bit(c, i - R - 8)
CountsPiece(n, w, R, a, b, c) ==
  n[0] = 0 /\ \A i \in 1 .. w : n[i] = 2 * n[i - 1] + PieceBit(R, a, b, c, i)

\* A number made of the bits of a piece is what ReadBits takes.
LEMMA PieceIs ==
  ASSUME NEW a \in Byte, NEW b \in Byte, NEW c \in Byte, NEW R \in 0 .. 7,
         NEW w \in {3, 11}, NEW n, CountsPiece(n, w, R, a, b, c)
  PROVE  n[w] = Taken(w, R, a, b, c)
<1> DEFINE low == (0 - Top(a, 8 - R)) * 2^R + a
<1>0. n[0] = 0 /\ \A i \in 1 .. w : n[i] = 2 * n[i - 1] + PieceBit(R, a, b, c, i)
  BY DEF CountsPiece
<1>a. /\ a \in Int /\ a >= 0 /\ a < 256 /\ b \in Int /\ b >= 0 /\ b < 256
      /\ c \in Int /\ c >= 0 /\ c < 256
  BY ByteIs
<1>b. IsTaken(R, a, b, c)
  BY <1>a, TakenIs
<1>1. Top(a, 8) = a /\ Top(b, 8) = b /\ Top(b, 0) = 0 /\ Top(c, 0) = 0
  BY <1>a DEF Top
<1>2. ASSUME NEW q \in 0 .. 8, q <= R, q <= w
      PROVE  n[q] = (0 - Top(a, 8 - R)) * 2^q + Top(a, (8 - R) + q)
  <2>1. /\ 8 - R \in 0 .. 8 /\ q \in 0 .. 8 - (8 - R) /\ n[0] \in Int
        /\ 0 \in Nat /\ 0 + q = q
    BY <1>0, <1>2
  <2>2. Grows(n, 0, a, 8 - R, q)
    <3> SUFFICES ASSUME NEW i \in 1 .. q
                 PROVE  n[0 + i] = 2 * n[0 + i - 1] + Bit(a, (8 - R) + i)
      BY DEF Grows
    <3>1. i \in 1 .. w /\ i <= R /\ 0 + i = i /\ (8 - R) + i = 8 - R + i
      BY <1>2
    <3> QED
      BY <1>0, <3>1 DEF PieceBit
  <2>3. Grown(n, 0, a, 8 - R, q)
    BY <2>1, <2>2, <1>a, GrowsByBits
  <2> QED
    BY <1>0, <2>1, <2>3 DEF Grown
<1>3. R <= w => n[R] = low
  <2>1. R \in 0 .. 8 /\ R <= R /\ (8 - R) + R = 8
    OBVIOUS
  <2> QED
    BY <1>1, <1>2, <2>1
<1>4. low \in Int
  <2>1. CASE R = 0
    BY <1>a, <2>1 DEF Top
  <2>2. CASE R = 1
    BY <1>a, <2>2 DEF Top
  <2>3. CASE R = 2
    BY <1>a, <2>3 DEF Top
  <2>4. CASE R = 3
    BY <1>a, <2>4 DEF Top
  <2>5. CASE R = 4
    BY <1>a, <2>5 DEF Top
  <2>6. CASE R = 5
    BY <1>a, <2>6 DEF Top
  <2>7. CASE R = 6
    BY <1>a, <2>7 DEF Top
  <2>8. CASE R = 7
    BY <1>a, <2>8 DEF Top
  <2> QED
    BY <2>1, <2>2, <2>3, <2>4, <2>5, <2>6, <2>7, <2>8
<1> HIDE DEF low
<1>5. ASSUME NEW q \in 0 .. 8, R + q <= w
      PROVE  n[R + q] = low * 2^q + Top(b, q)
  <2>1. /\ q \in 0 .. 8 - 0 /\ n[R] = low /\ n[R] \in Int
        /\ R \in Nat /\ 0 \in 0 .. 8 /\ 0 + q = q
    BY <1>3, <1>4, <1>5
  <2>2. Grows(n, R, b, 0, q)
    <3> SUFFICES ASSUME NEW i \in 1 .. q
                 PROVE  n[R + i] = 2 * n[R + i - 1] + Bit(b, 0 + i)
      BY DEF Grows
    <3>1. /\ R + i \in 1 .. w /\ ~ (R + i <= R) /\ R + i <= R + 8
          /\ R + i - R = i /\ 0 + i = i
      BY <1>5
    <3> QED
      BY <1>0, <3>1 DEF PieceBit
  <2>3. Grown(n, R, b, 0, q)
    BY <2>1, <2>2, <1>a, GrowsByBits
  <2> QED
    BY <1>1, <1>4, <2>1, <2>3 DEF Grown
<1>6. ASSUME NEW q \in 0 .. 8, R + 8 + q <= w
      PROVE  n[R + 8 + q] = (low * 2^8 + b) * 2^q + Top(c, q)
  <2>1. /\ q \in 0 .. 8 - 0 /\ R + 8 \in Nat /\ 0 \in 0 .. 8 /\ 0 + q = q
        /\ R + 8 <= w /\ 8 \in 0 .. 8 /\ 2^8 = 256
    BY <1>6
  <2>2. n[R + 8] = low * 2^8 + b /\ n[R + 8] \in Int
    BY <1>1, <1>a, <1>4, <1>5, <2>1
  <2>3. Grows(n, R + 8, c, 0, q)
    <3> SUFFICES ASSUME NEW i \in 1 .. q
                 PROVE  n[R + 8 + i] = 2 * n[R + 8 + i - 1] + Bit(c, 0 + i)
      BY DEF Grows
    <3>1. /\ R + 8 + i \in 1 .. w /\ ~ (R + 8 + i <= R) /\ ~ (R + 8 + i <= R + 8)
          /\ R + 8 + i - R - 8 = i /\ 0 + i = i
      BY <1>6
    <3> QED
      BY <1>0, <3>1 DEF PieceBit
  <2>4. Grown(n, R + 8, c, 0, q)
    <3> DEFINE k == R + 8
    <3>1. k \in Nat /\ n[k] \in Int /\ Grows(n, k, c, 0, q)
      BY <2>1, <2>2, <2>3
    <3> HIDE DEF k
    <3>2. Grown(n, k, c, 0, q)
      BY <2>1, <3>1, <1>a, GrowsByBits
    <3> QED
      BY <3>2 DEF k
  <2> QED
    BY <1>1, <2>1, <2>2, <2>4 DEF Grown
<1>7. CASE w = 3 /\ R >= 3
  <2>1. 3 \in 0 .. 8 /\ 3 <= R /\ 3 <= w
    BY <1>7
  <2>2. n[3] = (0 - Top(a, 8 - R)) * 2^3 + Top(a, (8 - R) + 3)
    BY <1>2, <2>1
  <2> QED
    BY <1>7, <1>b, <2>2 DEF IsTaken
<1>8. CASE w = 3 /\ R < 3
  <2>1. 3 - R \in 0 .. 8 /\ R + (3 - R) = 3 /\ 3 <= w
    BY <1>8
  <2>2. n[3] = low * 2^(3 - R) + Top(b, 3 - R)
    BY <1>5, <2>1
  <2>3. Taken(3, R, a, b, c) = low * 2^(3 - R) + Top(b, 3 - R)
    BY <1>8, <1>b DEF IsTaken, low
  <2> QED
    BY <1>8, <2>2, <2>3
<1>9. CASE w = 11 /\ R >= 3
  <2>1. 11 - R \in 0 .. 8 /\ R + (11 - R) = 11 /\ 11 <= w
    BY <1>9
  <2>2. n[11] = low * 2^(11 - R) + Top(b, 11 - R)
    BY <1>5, <2>1
  <2>3. Taken(11, R, a, b, c) = low * 2^(11 - R) + Top(b, 11 - R)
    BY <1>9, <1>b DEF IsTaken, low
  <2> QED
    BY <1>9, <2>2, <2>3
<1>10. CASE w = 11 /\ R < 3
  <2>1. 3 - R \in 0 .. 8 /\ R + 8 + (3 - R) = 11 /\ 11 <= w
    BY <1>10
  <2>2. n[11] = (low * 2^8 + b) * 2^(3 - R) + Top(c, 3 - R)
    BY <1>6, <2>1
  <2>3. Taken(11, R, a, b, c) = (low * 2^8 + b) * 2^(3 - R) + Top(c, 3 - R)
    BY <1>10, <1>b DEF IsTaken, low
  <2> QED
    BY <1>10, <2>2, <2>3
<1> QED
  BY <1>7, <1>8, <1>9, <1>10

\* A number is what has grown by all its bits.
IsNumber(n, bits, k) ==
  n = [i \in 0 .. k |-> IF i = 0 THEN 0 ELSE 2 * n[i - 1] + bits[i]]

LEMMA NumberStep ==
  ASSUME NEW n, NEW bits, NEW k \in Nat, IsNumber(n, bits, k)
  PROVE  n[0] = 0 /\ \A i \in 1 .. k : n[i] = 2 * n[i - 1] + bits[i]
<1> DEFINE F(h) == [i \in 0 .. k |-> IF i = 0 THEN 0 ELSE 2 * h[i - 1] + bits[i]]
<1>1. n = F(n)
  BY DEF IsNumber
<1>2. \A h : F(h)[0] = 0 /\ \A i \in 1 .. k : F(h)[i] = 2 * h[i - 1] + bits[i]
  OBVIOUS
<1> HIDE DEF F
<1> QED
  BY <1>1, <1>2

LEMMA NumberExists ==
  ASSUME NEW bits, NEW m \in Nat
  PROVE  \E n : IsNumber(n, bits, m)
<1> DEFINE S == {k \in Nat : \E n : IsNumber(n, bits, k)}
<1>1. 0 \in S
  <2>1. IsNumber([i \in 0 .. 0 |-> 0], bits, 0)
    BY DEF IsNumber
  <2> QED
    BY <2>1
<1>2. ASSUME NEW k \in S PROVE k + 1 \in S
  <2>1. k \in Nat
    OBVIOUS
  <2>2. PICK n : IsNumber(n, bits, k)
    OBVIOUS
  <2>3. n[0] = 0 /\ \A i \in 1 .. k : n[i] = 2 * n[i - 1] + bits[i]
    BY <2>1, <2>2, NumberStep
  <2> DEFINE h == [i \in 0 .. k + 1 |->
                     IF i <= k THEN n[i] ELSE 2 * n[i - 1] + bits[i]]
  <2>4. ASSUME NEW i \in 0 .. k + 1
        PROVE  h[i] = IF i = 0 THEN 0 ELSE 2 * h[i - 1] + bits[i]
    <3>1. CASE i = 0
      BY <2>1, <2>3, <3>1
    <3>2. CASE i # 0
      <4>1. i - 1 \in 0 .. k + 1 /\ i - 1 <= k /\ h[i - 1] = n[i - 1]
        BY <2>1, <3>2
      <4>2. i <= k => i \in 1 .. k
        BY <2>1, <3>2
      <4> QED
        BY <2>3, <3>2, <4>1, <4>2
    <3> QED
      BY <3>1, <3>2
  <2>5. IsNumber(h, bits, k + 1)
    BY <2>4 DEF IsNumber
  <2> QED
    BY <2>1, <2>5
<1>3. S = Nat
  <2>1. S \in SUBSET Nat
    OBVIOUS
  <2> HIDE DEF S
  <2> QED
    BY <1>1, <1>2, <2>1, Induction
<1> QED
  BY <1>3

CountsBits(n, bits, k) ==
  n[0] = 0 /\ \A i \in 1 .. k : n[i] = 2 * n[i - 1] + bits[i]

LEMMA NumberIs ==
  ASSUME NEW bits, NEW k \in Nat, Len(bits) = k
  PROVE  \E n : Number(bits) = n[k] /\ CountsBits(n, bits, k)
<1> DEFINE n == CHOOSE h : IsNumber(h, bits, Len(bits))
<1>1. IsNumber(n, bits, Len(bits))
  BY NumberExists
<1>2. Number(bits) = n[Len(bits)]
  BY DEF Number, IsNumber
<1> HIDE DEF n
<1> QED
  BY <1>1, <1>2, NumberStep DEF CountsBits

LEMMA PlaceOfBit ==
  ASSUME NEW L \in Int, NEW k \in Int, NEW q \in Int,
         k >= 1, k <= L, q >= 1, q <= 8
  PROVE  /\ 8 * (k - 1) + q \in 1 .. 8 * L
         /\ (8 * (k - 1) + q + 7) \div 8 = k
         /\ (8 * L - (8 * (k - 1) + q)) % 8 = 8 - q
<1>1. 8 * (k - 1) + q \in 1 .. 8 * L
  OBVIOUS
<1>2. (8 * (k - 1) + q + 7) \div 8 = k
  OBVIOUS
<1>3. (8 * L - (8 * (k - 1) + q)) % 8 = 8 - q
  OBVIOUS
<1> QED
  BY <1>1, <1>2, <1>3

\* Eight bits of the payload for each of its bytes.
LEMMA BitsAre ==
  ASSUME NEW p \in Seq(Byte)
  PROVE  /\ BitsOf(p) \in Seq(Int) /\ Len(BitsOf(p)) = 8 * Len(p)
         /\ \A k \in 1 .. Len(p), q \in 1 .. 8 :
              BitsOf(p)[8 * (k - 1) + q] = Bit(p[k], q)
<1> DEFINE L == Len(p)
           b(n) == (p[(n + 7) \div 8] \div 2^((8 * L - n) % 8)) % 2
<1>1. L \in Nat /\ 8 * L \in Nat /\ BitsOf(p) = [n \in 1 .. 8 * L |-> b(n)]
  BY DEF BitsOf
<1>2. ASSUME NEW k \in 1 .. L, NEW q \in 1 .. 8
      PROVE  /\ 8 * (k - 1) + q \in 1 .. 8 * L
             /\ b(8 * (k - 1) + q) = Bit(p[k], q)
  <2>1. k \in Int /\ q \in Int /\ k >= 1 /\ k <= L /\ q >= 1 /\ q <= 8
    BY <1>1
  <2> HIDE DEF L
  <2>2. /\ 8 * (k - 1) + q \in 1 .. 8 * L
        /\ (8 * (k - 1) + q + 7) \div 8 = k
        /\ (8 * L - (8 * (k - 1) + q)) % 8 = 8 - q
    <3> HIDE DEF b
    <3> QED
      BY <1>1, <2>1, PlaceOfBit
  <2> QED
    BY <2>2 DEF Bit
<1>3. \A n \in 1 .. 8 * L : b(n) \in Int
  <2> SUFFICES ASSUME NEW n \in 1 .. 8 * L PROVE b(n) \in Int
    OBVIOUS
  <2> DEFINE k == (n + 7) \div 8
             q == n - 8 * (k - 1)
  <2>1. n \in Int /\ n >= 1 /\ n <= 8 * L /\ L \in Int
    BY <1>1
  <2>2. k \in 1 .. L /\ q \in 1 .. 8 /\ n = 8 * (k - 1) + q
    <3> HIDE DEF L
    <3> QED
      BY <2>1
  <2> HIDE DEF k, q, b
  <2>3. b(n) = Bit(p[k], q)
    BY <1>2, <2>2
  <2>4. p[k] \in Byte
    BY <2>2
  <2>5. p[k] \in Int /\ p[k] >= 0 /\ p[k] < 256
    BY <2>4, ByteIs
  <2> QED
    BY <2>2, <2>3, <2>5, TopGrows
<1> DEFINE N == 8 * L
<1>4. N \in Nat /\ BitsOf(p) = [n \in 1 .. N |-> b(n)] /\ \A n \in 1 .. N : b(n) \in Int
  BY <1>1, <1>3
<1> HIDE DEF N, b
<1>5. BitsOf(p) \in Seq(Int) /\ Len(BitsOf(p)) = N
  BY <1>4
<1> QED
  BY <1>2, <1>4, <1>5 DEF N

\* Byte m of a payload, if there is one.
ByteAt(p, m) == IF m \in 1 .. Len(p) THEN p[m] ELSE 0

LEMMA ByteAtIs ==
  ASSUME NEW p \in Seq(Byte), NEW m \in Nat
  PROVE  /\ ByteAt(p, m) \in Byte
         /\ m \in 1 .. Len(p) => ByteAt(p, m) = p[m]
<1>1. 0 \in Byte
  BY DEF Byte
<1> QED
  BY <1>1 DEF ByteAt

LEMMA SlotsOf ==
  ASSUME NEW bits \in Seq(Int), NEW c \in Nat, NEW w \in Nat, c + w <= Len(bits)
  PROVE  LET piece == SubSeq(bits, c + 1, c + w)
         IN  Len(piece) = w /\ \A i \in 1 .. w : piece[i] = bits[c + i]
<1> DEFINE x == c + 1
           y == c + w
<1>1. /\ x \in 1 .. Len(bits) + 1 /\ y \in x - 1 .. Len(bits) /\ y - x + 1 = w
      /\ \A i \in 1 .. w : x + i - 1 = c + i
  OBVIOUS
<1> HIDE DEF x, y
<1>2. /\ Len(SubSeq(bits, x, y)) = y - x + 1
      /\ \A i \in 1 .. y - x + 1 : SubSeq(bits, x, y)[i] = bits[x + i - 1]
  BY <1>1
<1> QED
  BY <1>1, <1>2 DEF x, y

\* A piece of the bits of p that starts R bits before the end of byte m.
LEMMA PieceBits ==
  ASSUME NEW p \in Seq(Byte), NEW m \in Nat, NEW R \in 0 .. 7, NEW c \in Nat,
         NEW w \in Widths, 8 * m = c + R, c + w <= 8 * Len(p),
         NEW a \in Byte, m > 0 => a = p[m]
  PROVE  Number(SubSeq(BitsOf(p), c + 1, c + w))
           = Taken(w, R, a, ByteAt(p, m + 1), ByteAt(p, m + 2))
<1> DEFINE b == ByteAt(p, m + 1)
           e == ByteAt(p, m + 2)
           L == Len(p)
           bits == BitsOf(p)
           piece == SubSeq(bits, c + 1, c + w)
<1>a. /\ b \in Byte /\ (m + 1 \in 1 .. L => b = p[m + 1])
      /\ e \in Byte /\ (m + 2 \in 1 .. L => e = p[m + 2])
  BY m + 1 \in Nat, m + 2 \in Nat, ByteAtIs
<1>b. w \in {3, 11}
  BY DEF Widths
<1> HIDE DEF b, e
<1>0. L \in Nat /\ c + w <= 8 * L /\ c \in Nat /\ w \in Nat
  BY <1>b
<1>1. /\ bits \in Seq(Int) /\ Len(bits) = 8 * L
      /\ \A k \in 1 .. L, q \in 1 .. 8 : bits[8 * (k - 1) + q] = Bit(p[k], q)
  BY BitsAre
<1>2. ASSUME NEW i \in 1 .. w
      PROVE  bits[c + i] = PieceBit(R, a, b, e, i)
  <2> HIDE DEF L, bits
  <2>1. CASE i <= R
    <3>1. /\ m \in 1 .. L /\ 8 - R + i \in 1 .. 8 /\ m > 0
          /\ 8 * (m - 1) + (8 - R + i) = c + i
      BY <1>0, <1>b, <2>1
    <3> QED
      BY <1>1, <2>1, <3>1 DEF PieceBit
  <2>2. CASE ~ (i <= R) /\ i <= R + 8
    <3>1. /\ m + 1 \in 1 .. L /\ i - R \in 1 .. 8 /\ m + 1 <= L
          /\ 8 * ((m + 1) - 1) + (i - R) = c + i
      BY <1>0, <1>b, <2>2
    <3>2. b = p[m + 1]
      BY <3>1, <1>a
    <3> QED
      BY <1>1, <2>2, <3>1, <3>2 DEF PieceBit
  <2>3. CASE ~ (i <= R) /\ ~ (i <= R + 8)
    <3>1. /\ m + 2 \in 1 .. L /\ i - R - 8 \in 1 .. 8 /\ m + 2 <= L
          /\ 8 * ((m + 2) - 1) + (i - R - 8) = c + i
      BY <1>0, <1>b, <2>3
    <3>2. e = p[m + 2]
      BY <3>1, <1>a
    <3> QED
      BY <1>1, <2>3, <3>1, <3>2 DEF PieceBit
  <2> QED
    BY <2>1, <2>2, <2>3
<1>3. Len(piece) = w /\ \A i \in 1 .. w : piece[i] = bits[c + i]
  <2> HIDE DEF L, bits
  <2> QED
    BY <1>0, <1>1, SlotsOf
<1> HIDE DEF bits, piece
<1>4. PICK n : Number(piece) = n[w] /\ CountsBits(n, piece, w)
  BY <1>0, <1>b, <1>3, NumberIs
<1>5. CountsPiece(n, w, R, a, b, e)
  <2>1. \A i \in 1 .. w : piece[i] = PieceBit(R, a, b, e, i)
    BY <1>2, <1>3
  <2> QED
    BY <1>4, <2>1 DEF CountsBits, CountsPiece
<1>6. n[w] = Taken(w, R, a, b, e)
  BY <1>5, <1>a, <1>b, PieceIs, SMTT(30)
<1> QED
  BY <1>4, <1>6 DEF piece, bits, b, e

-----------------------------------------------------------------------------
\* A reader that has given the first c bits of the payload of d.
IsAt(r, d, c) ==
  \E j \in 0 .. Len(d), m \in Nat :
    /\ HasTaken(r, d, j, m) /\ r.remaining \in 0 .. 7 /\ 8 * m = c + r.remaining
    /\ m > 0 => r.curr_byte = Payload(d)[m]

\* What a call returns that brings the reader there.
Gives(read, d, c, out) == IsAt(read.r, d, c) /\ read.out = out

LEMMA StillTaken ==
  ASSUME NEW d, NEW j, NEW m, NEW r, HasTaken(r, d, j, m), NEW x \in Nat,
         NEW s, s = [r EXCEPT !.remaining = x]
  PROVE  HasTaken(s, d, j, m) /\ s.remaining = x /\ s.curr_byte = r.curr_byte
BY DEF HasTaken, Readers

\* The reader knows how many bits are left, but for the emulation prevention
\* bytes to come.
LEMMA LeftAt ==
  ASSUME NEW d \in Seq(Byte), NEW c \in Nat, NEW r, IsAt(r, d, c)
  PROVE  /\ r.ok
         /\ NumBitsLeft(r) = 8 * Len(d) - c - 8 * r.emulation_prevention_bytes
<1>1. PICK j \in 0 .. Len(d), m \in Nat :
        HasTaken(r, d, j, m) /\ r.remaining \in 0 .. 7 /\ 8 * m = c + r.remaining
  BY DEF IsAt
<1>2. /\ r.ok /\ r.data = SubSeq(d, j + 1, Len(d))
      /\ r.emulation_prevention_bytes = j - m
  BY <1>1 DEF HasTaken
<1>3. Len(d) \in Nat /\ Len(SubSeq(d, j + 1, Len(d))) = Len(d) - j
  OBVIOUS
<1> DEFINE n == Len(d)
           x == Len(r.data)
           left == r.remaining
           count == r.emulation_prevention_bytes
<1>4. x = n - j /\ count = j - m /\ left \in Int /\ 8 * m = c + left /\ n \in Int
  BY <1>1, <1>2, <1>3
<1> HIDE DEF n, x, left, count
<1>5. left + 8 * x = 8 * n - c - 8 * count
  BY <1>4
<1> QED
  BY <1>2, <1>5 DEF NumBitsLeft, n, x, left, count

LEMMA Fewer ==
  ASSUME NEW w \in Widths, NEW R \in 0 .. 7, w <= R
  PROVE  w \in 1 .. 7 /\ w \in Nat /\ R - w \in 0 .. 7 /\ R - w \in Nat
<1>1. w = 3 \/ w = 11
  BY DEF Widths
<1> QED
  BY <1>1

\* A call that needs no other byte than the one at hand.
LEMMA PieceWithin ==
  ASSUME NEW d \in Seq(Byte), NEW w \in Widths, NEW c \in Nat,
         NEW j \in 0 .. Len(d), NEW m \in Nat, NEW r, HasTaken(r, d, j, m),
         r.remaining \in 0 .. 7, 8 * m = c + r.remaining,
         m > 0 => r.curr_byte = Payload(d)[m], w <= r.remaining, NEW b, NEW e
  PROVE  Gives(ReadBits(r, w), d, c + w, Taken(w, r.remaining, r.curr_byte, b, e))
<1>1. r \in Readers /\ r.ok
  BY DEF HasTaken
<1>2. w \in 1 .. 7 /\ w \in Nat /\ r.remaining - w \in 0 .. 7 /\ r.remaining - w \in Nat
  BY Fewer
<1>3. /\ ReadBits(r, w).r = [r EXCEPT !.remaining = r.remaining - w]
      /\ ReadBits(r, w).out = (0 + r.curr_byte \div 2^(r.remaining - w)) % 2^w
  BY <1>1, <1>2, ReadsWithin, ReadsFromByte
<1> DEFINE x == r.remaining - w
           s == [r EXCEPT !.remaining = x]
<1>4. HasTaken(s, d, j, m) /\ s.remaining = x /\ s.curr_byte = r.curr_byte
  BY <1>2, StillTaken
<1>5. 8 * m = (c + w) + x
  <2> DEFINE R == r.remaining
  <2>1. R \in Int /\ w \in Int /\ x = R - w /\ 8 * m = c + R
    BY <1>2
  <2> HIDE DEF R, x
  <2> QED
    BY <2>1
<1> HIDE DEF s
<1>6. IsAt(s, d, c + w)
  BY <1>2, <1>4, <1>5 DEF IsAt
<1> QED
  BY <1>3, <1>6 DEF s, Taken, Gives

\* What UpdateCurrByte gives when there is another byte, and when there is not.
Updated(u, d, m) ==
  /\ u \in Readers /\ Len(Payload(d)) \in Nat /\ m <= Len(Payload(d))
  /\ m < Len(Payload(d)) =>
       /\ u.ok /\ u.remaining = 8
       /\ u.curr_byte = ByteAt(Payload(d), m + 1)
       /\ \E k \in 0 .. Len(d) : HasTaken(u, d, k, m + 1)
  /\ m = Len(Payload(d)) => ~ u.ok
  /\ u.ok => u.remaining = 8

LEMMA Updates ==
  ASSUME NEW d \in Seq(Byte), NEW j \in 0 .. Len(d), NEW m \in Nat, NEW r,
         HasTaken(r, d, j, m)
  PROVE  Updated(UpdateCurrByte(r), d, m)
<1> DEFINE u == UpdateCurrByte(r)
           L == Len(Payload(d))
<1>1. Payload(d) \in Seq(Byte) /\ m \in 0 .. L
  BY DEF HasTaken, IsRest
<1>2. L \in Nat
  BY <1>1
<1>3. /\ u \in Readers
      /\ m < L => /\ \E k \in 0 .. Len(d) : HasTaken(u, d, k, m + 1)
                  /\ u.remaining = 8 /\ u.curr_byte = Payload(d)[m + 1]
      /\ ~ (m < L) => ~ u.ok
  BY UpdateTakes
<1>4. m < L => m + 1 \in 1 .. L
  BY <1>2
<1>5. m < L => u.ok
  BY <1>3 DEF HasTaken
<1>6. m < L => u.curr_byte = ByteAt(Payload(d), m + 1)
  BY <1>3, <1>4 DEF ByteAt
<1>7. m <= L /\ (m = L => ~ (m < L)) /\ (m < L \/ m = L)
  BY <1>1, <1>2
<1> HIDE DEF u, L
<1>8. u.ok => u.remaining = 8
  BY <1>3, <1>7
<1> QED
  BY <1>2, <1>3, <1>5, <1>6, <1>7, <1>8 DEF u, L, Updated

\* A call that takes the last of its bits from byte m, which was just loaded.
LEMMA PieceEndsAt ==
  ASSUME NEW d \in Seq(Byte), NEW c \in Nat, NEW k \in 0 .. Len(d), NEW m \in Nat,
         NEW u, HasTaken(u, d, k, m), u.curr_byte = ByteAt(Payload(d), m),
         NEW left \in 1 .. 8, 8 * m = c + (8 - left), m <= Len(Payload(d)),
         NEW r, r = [u EXCEPT !.remaining = 8 - left]
  PROVE  IsAt(r, d, c)
<1> DEFINE x == 8 - left
<1>1. /\ x \in 0 .. 7 /\ x \in Nat
      /\ 8 * m = c + x /\ r = [u EXCEPT !.remaining = x]
  <2>1. x \in 0 .. 7 /\ x \in Nat
    OBVIOUS
  <2> QED
    BY <2>1
<1> HIDE DEF x
<1>2. HasTaken(r, d, k, m) /\ r.remaining = x /\ r.curr_byte = u.curr_byte
  BY <1>1 DEF HasTaken, Readers
<1>3. m > 0 => r.curr_byte = Payload(d)[m]
  BY <1>2 DEF ByteAt
<1> QED
  BY <1>1, <1>2, <1>3 DEF IsAt

\* A call that needs the next byte, or the one after it too.
LEMMA PieceWithNext ==
  ASSUME NEW d \in Seq(Byte), NEW w \in Widths, NEW c \in Nat,
         NEW j \in 0 .. Len(d), NEW m \in Nat, NEW r, HasTaken(r, d, j, m),
         r.remaining \in 0 .. 7, 8 * m = c + r.remaining,
         r.remaining < w, w <= r.remaining + 8, NEW e
  PROVE  LET p == Payload(d)
         IN  /\ m < Len(p) =>
                  Gives(ReadBits(r, w), d, c + w,
                        Taken(w, r.remaining, r.curr_byte, ByteAt(p, m + 1), e))
             /\ m = Len(p) => ~ ReadBits(r, w).r.ok
<1> DEFINE R == r.remaining
           p == Payload(d)
           u == UpdateCurrByte(r)
           left == w - R
           out == 0 + r.curr_byte * 2^left
           read == ReadBits(r, w)
<1>1. /\ u \in Readers /\ Len(p) \in Nat /\ (u.ok => u.remaining = 8)
      /\ m < Len(p) => /\ u.ok /\ u.curr_byte = ByteAt(p, m + 1)
                       /\ \E k \in 0 .. Len(d) : HasTaken(u, d, k, m + 1)
      /\ m = Len(p) => ~ u.ok
  BY Updates DEF Updated
<1>2. r \in Readers /\ r.ok
  BY DEF HasTaken
<1>3. ReadEnds(read, u, left, out, w)
  <2> HIDE DEF u, read
  <2>1. u = UpdateCurrByte(r) /\ read = ReadBits(r, w)
    BY DEF u, read
  <2> QED
    BY <1>1, <1>2, <2>1, ReadsNextByte
<1>4. /\ w \in Nat /\ R \in Nat /\ left \in 1 .. 8 /\ ~ (w <= R) /\ left <= 8
      /\ 8 * (m + 1) = (c + w) + (8 - left) /\ m + 1 \in Nat /\ c + w \in Nat
  <2>1. w \in {3, 11} /\ R \in 0 .. 7 /\ R < w /\ w <= R + 8 /\ 8 * m = c + R
    BY DEF Widths
  <2> HIDE DEF R
  <2> QED
    BY <2>1
<1> HIDE DEF p, u, read
<1>5. CASE m < Len(p)
  <2>1. PICK k \in 0 .. Len(d) : HasTaken(u, d, k, m + 1)
    BY <1>1, <1>5
  <2>2. /\ u.ok /\ u.curr_byte = ByteAt(p, m + 1)
        /\ read.r = [u EXCEPT !.remaining = 8 - left]
        /\ read.out = (out + u.curr_byte \div 2^(8 - left)) % 2^w
    BY <1>1, <1>3, <1>5 DEF ReadEnds
  <2>3. IsAt(read.r, d, c + w)
    <3> DEFINE n == m + 1
               s == read.r
               to == c + w
    <3>1. n \in Nat /\ to \in Nat /\ 8 * n = to + (8 - left) /\ n <= Len(p)
      BY <1>1, <1>4, <1>5
    <3>2. HasTaken(u, d, k, n) /\ u.curr_byte = ByteAt(p, n)
      BY <2>1, <2>2
    <3>3. s = [u EXCEPT !.remaining = 8 - left]
      BY <2>2
    <3> HIDE DEF n, s, to, left
    <3>4. IsAt(s, d, to)
      BY <1>4, <3>1, <3>2, <3>3, PieceEndsAt DEF p
    <3> QED
      BY <3>4 DEF s, to
  <2>4. read.out = Taken(w, R, r.curr_byte, ByteAt(p, m + 1), e)
    BY <1>4, <2>2 DEF Taken
  <2> QED
    BY <1>1, <1>5, <2>3, <2>4 DEF read, p, Gives
<1>6. CASE m = Len(p)
  BY <1>1, <1>3, <1>6 DEF ReadEnds, read, p
<1> QED
  BY <1>5, <1>6 DEF p

LEMMA PieceWithTwo ==
  ASSUME NEW d \in Seq(Byte), NEW w \in Widths, NEW c \in Nat,
         NEW j \in 0 .. Len(d), NEW m \in Nat, NEW r, HasTaken(r, d, j, m),
         r.remaining \in 0 .. 7, 8 * m = c + r.remaining, r.remaining + 8 < w
  PROVE  LET p == Payload(d)
         IN  /\ m + 1 < Len(p) =>
                  Gives(ReadBits(r, w), d, c + w,
                        Taken(w, r.remaining, r.curr_byte,
                              ByteAt(p, m + 1), ByteAt(p, m + 2)))
             /\ m + 1 = Len(p) \/ m = Len(p) => ~ ReadBits(r, w).r.ok
<1> DEFINE R == r.remaining
           p == Payload(d)
           u == UpdateCurrByte(r)
           v == UpdateCurrByte(u)
           left == w - R
           rest == left - 8
           out == (0 + r.curr_byte * 2^left) + u.curr_byte * 2^rest
           read == ReadBits(r, w)
           n == m + 1
<1>1. /\ u \in Readers /\ Len(p) \in Nat /\ (u.ok => u.remaining = 8) /\ m <= Len(p)
      /\ m < Len(p) => /\ u.ok /\ u.curr_byte = ByteAt(p, n)
                       /\ \E k \in 0 .. Len(d) : HasTaken(u, d, k, n)
      /\ m = Len(p) => ~ u.ok
  BY Updates DEF Updated
<1>2. r \in Readers /\ r.ok
  BY DEF HasTaken
<1>3. /\ w \in Nat /\ R \in Nat /\ left \in 9 .. 16 /\ ~ (w <= R) /\ ~ (left <= 8)
      /\ rest \in 1 .. 8 /\ w <= R + 16 /\ R + 8 < w
      /\ 8 * (n + 1) = (c + w) + (8 - rest) /\ n \in Nat /\ n + 1 = m + 2
      /\ c + w \in Nat
  <2>1. w \in {3, 11} /\ R \in 0 .. 7 /\ R + 8 < w /\ 8 * m = c + R
    BY DEF Widths
  <2> HIDE DEF R
  <2> QED
    BY <2>1
<1> HIDE DEF p, read, n
<1>4. CASE m = Len(p)
  <2>1. ~ u.ok
    BY <1>1, <1>4
  <2> HIDE DEF v
  <2>2. ~ ReadBits(r, w).r.ok
    BY <1>1, <1>2, <1>3, <2>1, ReadsTwoBytes DEF v
  <2> QED
    BY <1>1, <1>3, <1>4, <2>2 DEF p, n
<1>5. CASE m < Len(p)
  <2>1. PICK k \in 0 .. Len(d) : HasTaken(u, d, k, n)
    BY <1>1, <1>5
  <2> HIDE DEF u
  <2>2. /\ v \in Readers /\ (v.ok => v.remaining = 8)
        /\ n < Len(p) => /\ v.ok /\ v.curr_byte = ByteAt(p, n + 1)
                         /\ \E i \in 0 .. Len(d) : HasTaken(v, d, i, n + 1)
        /\ n = Len(p) => ~ v.ok
    <3>1. Updated(v, d, n)
      BY <1>3, <2>1, Updates
    <3> HIDE DEF v
    <3> QED
      BY <3>1 DEF p, Updated
  <2>3. u.ok /\ u = UpdateCurrByte(r) /\ u.curr_byte = ByteAt(p, n)
    BY <1>1, <1>5 DEF u
  <2> HIDE DEF v
  <2>4. ReadEnds(read, v, rest, out, w)
    <3>1. v = UpdateCurrByte(u) /\ read = ReadBits(r, w)
      BY DEF v, read
    <3> QED
      BY <1>1, <1>2, <1>3, <2>2, <2>3, <3>1, ReadsTwoBytes
  <2>5. CASE n < Len(p)
    <3>1. PICK i \in 0 .. Len(d) : HasTaken(v, d, i, n + 1)
      BY <2>2, <2>5
    <3>2. /\ v.ok /\ v.curr_byte = ByteAt(p, n + 1)
          /\ read.r = [v EXCEPT !.remaining = 8 - rest]
          /\ read.out = (out + v.curr_byte \div 2^(8 - rest)) % 2^w
      BY <2>2, <2>4, <2>5 DEF ReadEnds
    <3>3. IsAt(read.r, d, c + w)
      <4> DEFINE q == n + 1
                 s == read.r
                 to == c + w
      <4>1. q \in Nat /\ to \in Nat /\ 8 * q = to + (8 - rest) /\ q <= Len(p)
        BY <1>1, <1>3, <2>5
      <4>2. HasTaken(v, d, i, q) /\ v.curr_byte = ByteAt(p, q)
        BY <3>1, <3>2
      <4>3. s = [v EXCEPT !.remaining = 8 - rest]
        BY <3>2
      <4> HIDE DEF q, s, to, rest
      <4>4. IsAt(s, d, to)
        BY <1>3, <4>1, <4>2, <4>3, PieceEndsAt DEF p
      <4> QED
        BY <4>4 DEF s, to
    <3>4. read.out = Taken(w, R, r.curr_byte, ByteAt(p, n), ByteAt(p, n + 1))
      BY <1>3, <2>3, <3>2 DEF Taken
    <3>5. read.out = Taken(w, R, r.curr_byte, ByteAt(p, n), ByteAt(p, m + 2))
      BY <1>3, <3>4
    <3>6. ~ (n = Len(p)) /\ ~ (m = Len(p))
      BY <1>1, <1>5, <2>5
    <3> QED
      BY <3>3, <3>5, <3>6 DEF read, p, n, Gives
  <2>6. CASE n = Len(p)
    <3>1. ~ read.r.ok
      BY <2>2, <2>4, <2>6 DEF ReadEnds
    <3> QED
      BY <1>1, <1>3, <2>6, <3>1 DEF read, p, n
  <2> QED
    BY <1>1, <1>3, <1>5, <2>5, <2>6 DEF n
<1> QED
  BY <1>1, <1>4, <1>5

\* A call of ReadBits gives the next w bits of the payload, or fails when there
\* are fewer.
LEMMA ReadsPiece ==
  ASSUME NEW d \in Seq(Byte), NEW w \in Widths, NEW c \in Nat, NEW r, IsAt(r, d, c)
  PROVE  LET read == ReadBits(r, w)
             p == Payload(d)
         IN  /\ c + w <= 8 * Len(p) =>
                  /\ IsAt(read.r, d, c + w)
                  /\ read.out = Number(SubSeq(BitsOf(p), c + 1, c + w))
             /\ ~ (c + w <= 8 * Len(p)) => ~ read.r.ok
<1> DEFINE p == Payload(d)
           R == r.remaining
           read == ReadBits(r, w)
           a == r.curr_byte
<1>1. PICK j \in 0 .. Len(d), m \in Nat :
        /\ HasTaken(r, d, j, m) /\ R \in 0 .. 7 /\ 8 * m = c + R
        /\ m > 0 => a = p[m]
  BY DEF IsAt
<1> DEFINE b == ByteAt(p, m + 1)
           e == ByteAt(p, m + 2)
<1>2. /\ p \in Seq(Byte) /\ a \in Byte
      /\ c + w <= 8 * Len(p) =>
           Number(SubSeq(BitsOf(p), c + 1, c + w)) = Taken(w, R, a, b, e)
  <2>1. p \in Seq(Byte) /\ a \in Byte
    BY <1>1 DEF HasTaken, IsRest, Readers
  <2> HIDE DEF p, R, a
  <2> QED
    BY <1>1, <2>1, PieceBits
<1>3. Len(p) \in Nat /\ m <= Len(p)
  BY <1>1, Updates DEF Updated
<1> HIDE DEF b, e
<1>4. CASE w <= R
  <2>1. Gives(read, d, c + w, Taken(w, R, a, b, e))
    <3> HIDE DEF read
    <3> QED
      BY <1>1, <1>4, PieceWithin DEF read
  <2>2. c + w <= 8 * Len(p)
    <3> HIDE DEF p, R
    <3> QED
      BY <1>1, <1>3, <1>4 DEF Widths
  <2> QED
    BY <1>2, <2>1, <2>2 DEF Gives
<1>5. CASE R < w /\ w <= R + 8
  <2>1. /\ m < Len(p) => Gives(read, d, c + w, Taken(w, R, a, b, e))
        /\ m = Len(p) => ~ read.r.ok
    <3> HIDE DEF read
    <3> QED
      BY <1>1, <1>5, PieceWithNext DEF read, b
  <2>2. c + w <= 8 * Len(p) <=> m < Len(p)
    <3> HIDE DEF p, R
    <3> QED
      BY <1>1, <1>3, <1>5 DEF Widths
  <2> QED
    BY <1>2, <1>3, <2>1, <2>2 DEF Gives
<1>6. CASE R + 8 < w
  <2>1. /\ m + 1 < Len(p) =>
             Gives(read, d, c + w, Taken(w, R, a, b, e))
        /\ m + 1 = Len(p) \/ m = Len(p) => ~ read.r.ok
    <3> HIDE DEF read
    <3> QED
      BY <1>1, <1>6, PieceWithTwo DEF read, b, e
  <2>2. c + w <= 8 * Len(p) <=> m + 1 < Len(p)
    <3> HIDE DEF p, R
    <3> QED
      BY <1>1, <1>3, <1>6 DEF Widths
  <2> QED
    BY <1>2, <1>3, <2>1, <2>2 DEF Gives
<1>7. w <= R \/ (R < w /\ w <= R + 8) \/ R + 8 < w
  <2> HIDE DEF R
  <2> QED
    BY <1>1 DEF Widths
<1> QED
  BY <1>4, <1>5, <1>6, <1>7

-----------------------------------------------------------------------------
(* Calls one after the other.                                              *)

Another(done, w) ==
  LET read == ReadBits(done.r, w)
  IN  [r |-> read.r, out |-> Append(done.out, read.out)]

IsPieces(f, d, w, count) ==
  f = [n \in 0 .. count |->
         IF n = 0 THEN [r |-> Reader(d), out |-> <<>>] ELSE Another(f[n - 1], w)]

OneByOne(f, d, w, count) ==
  /\ f[0] = [r |-> Reader(d), out |-> <<>>]
  /\ \A i \in 1 .. count : f[i] = Another(f[i - 1], w)

LEMMA PiecesStep ==
  ASSUME NEW f, NEW d, NEW w, NEW k \in Nat, IsPieces(f, d, w, k)
  PROVE  OneByOne(f, d, w, k)
<1> DEFINE first == [r |-> Reader(d), out |-> <<>>]
           F(h) == [i \in 0 .. k |-> IF i = 0 THEN first ELSE Another(h[i - 1], w)]
<1>1. f = F(f)
  BY DEF IsPieces
<1> HIDE DEF first
<1>2. \A h : F(h)[0] = first /\ \A i \in 1 .. k : F(h)[i] = Another(h[i - 1], w)
  OBVIOUS
<1> HIDE DEF F
<1> QED
  BY <1>1, <1>2 DEF first, OneByOne

LEMMA PiecesExist ==
  ASSUME NEW d, NEW w, NEW m \in Nat
  PROVE  \E f : IsPieces(f, d, w, m)
<1> DEFINE S == {k \in Nat : \E f : IsPieces(f, d, w, k)}
           first == [r |-> Reader(d), out |-> <<>>]
<1>1. 0 \in S
  <2>1. IsPieces([i \in 0 .. 0 |-> first], d, w, 0)
    BY DEF IsPieces
  <2> QED
    BY <2>1
<1>2. ASSUME NEW k \in S PROVE k + 1 \in S
  <2>1. k \in Nat
    OBVIOUS
  <2>2. PICK f : IsPieces(f, d, w, k)
    OBVIOUS
  <2>3. f[0] = first /\ \A i \in 1 .. k : f[i] = Another(f[i - 1], w)
    <3>1. OneByOne(f, d, w, k)
      BY <2>1, <2>2, PiecesStep
    <3> QED
      BY <3>1 DEF OneByOne
  <2> DEFINE h == [i \in 0 .. k + 1 |-> IF i <= k THEN f[i] ELSE Another(f[i - 1], w)]
  <2> HIDE DEF first
  <2>4. ASSUME NEW i \in 0 .. k + 1
        PROVE  h[i] = IF i = 0 THEN first ELSE Another(h[i - 1], w)
    <3>1. CASE i = 0
      BY <2>1, <2>3, <3>1
    <3>2. CASE i # 0
      <4>1. i - 1 \in 0 .. k + 1 /\ i - 1 <= k /\ h[i - 1] = f[i - 1]
        BY <2>1, <3>2
      <4>2. i <= k => i \in 1 .. k
        BY <2>1, <3>2
      <4> QED
        BY <2>3, <3>2, <4>1, <4>2
    <3> QED
      BY <3>1, <3>2
  <2>5. IsPieces(h, d, w, k + 1)
    BY <2>4 DEF IsPieces, first
  <2> QED
    BY <2>1, <2>5
<1>3. S = Nat
  <2>1. S \in SUBSET Nat
    OBVIOUS
  <2> HIDE DEF S
  <2> QED
    BY <1>1, <1>2, <2>1, Induction
<1> QED
  BY <1>3

\* What n calls return.
Pieces(d, w, n) ==
  [i \in 1 .. n |-> Number(SubSeq(BitsOf(Payload(d)), w * (i - 1) + 1, w * i))]

LEMMA PayloadType ==
  ASSUME NEW d \in Seq(Byte)
  PROVE  Payload(d) \in Seq(Byte) /\ Len(Payload(d)) \in Nat
<1>1. Payload(d) \in Seq(Byte)
  BY PayloadStarts DEF IsRest
<1> QED
  BY <1>1

\* As long as there are bits for them, the calls return the pieces in order.
LEMMA PiecesAre ==
  ASSUME NEW d \in Seq(Byte), NEW w \in Widths, NEW count \in Nat,
         w * count <= 8 * Len(Payload(d))
  PROVE  LET read == ReadPieces(d, w, count)
         IN  IsAt(read.r, d, w * count) /\ read.out = Pieces(d, w, count)
<1> DEFINE f == CHOOSE h : IsPieces(h, d, w, count)
           N == 8 * Len(Payload(d))
           S == {n \in 0 .. count :
                   IsAt(f[n].r, d, w * n) /\ f[n].out = Pieces(d, w, n)}
<1>1. IsPieces(f, d, w, count)
  BY PiecesExist
<1>2. ReadPieces(d, w, count) = f[count]
  BY DEF ReadPieces, IsPieces, Another
<1> HIDE DEF f
<1>3. /\ f[0] = [r |-> Reader(d), out |-> <<>>]
      /\ \A i \in 1 .. count : f[i] = Another(f[i - 1], w)
  BY <1>1, PiecesStep DEF OneByOne
<1>4. w \in Nat /\ w > 0 /\ w * 0 = 0
  BY DEF Widths
<1>5. 0 \in S
  <2>1. IsAt(Reader(d), d, 0)
    <3>1. Reader(d).remaining = 0
      BY DEF Reader
    <3> QED
      BY <3>1, InitialReader DEF IsAt
  <2>2. Pieces(d, w, 0) = <<>>
    BY DEF Pieces
  <2> QED
    BY <1>3, <1>4, <2>1, <2>2
<1>6. ASSUME NEW n \in 0 .. count - 1, n \in S PROVE n + 1 \in S
  <2> DEFINE c == w * n
             bits == BitsOf(Payload(d))
             read == ReadBits(f[n].r, w)
             value == Number(SubSeq(bits, c + 1, c + w))
  <2>1. n \in Nat /\ n + 1 \in 1 .. count /\ (n + 1) - 1 = n /\ n + 1 \in 0 .. count
    OBVIOUS
  <2>2. c \in Nat /\ w * (n + 1) = c + w /\ w * (n + 1) <= w * count
    <3>1. w \in {3, 11} /\ n \in Nat /\ n + 1 <= count
      BY <2>1 DEF Widths
    <3> QED
      BY <3>1
  <2>3. c + w <= N
    <3>1. w * count <= N /\ w * count \in Int
      BY <1>4
    <3>2. N \in Int
      BY PayloadType
    <3> HIDE DEF N, c
    <3> QED
      BY <1>4, <2>2, <3>1, <3>2
  <2>4. IsAt(f[n].r, d, c) /\ f[n].out = Pieces(d, w, n)
    BY <1>6
  <2>5. IsAt(read.r, d, c + w) /\ read.out = value
    <3> HIDE DEF c
    <3> QED
      BY <2>2, <2>3, <2>4, ReadsPiece
  <2>6. f[n + 1] = [r |-> read.r, out |-> Append(f[n].out, read.out)]
    BY <1>3, <2>1 DEF Another
  <2>7. Append(Pieces(d, w, n), value) = Pieces(d, w, n + 1)
    <3> DEFINE V(i) == Number(SubSeq(bits, w * (i - 1) + 1, w * i))
    <3>1. V(n + 1) = value
      BY <2>1, <2>2
    <3> HIDE DEF V
    <3>2. Append([i \in 1 .. n |-> V(i)], V(n + 1)) = [i \in 1 .. n + 1 |-> V(i)]
      BY <2>1
    <3> QED
      BY <3>1, <3>2 DEF Pieces, V
  <2> HIDE DEF read, value, c
  <2>8. IsAt(f[n + 1].r, d, w * (n + 1)) /\ f[n + 1].out = Pieces(d, w, n + 1)
    BY <2>2, <2>4, <2>5, <2>6, <2>7
  <2> QED
    BY <2>1, <2>8
<1>7. \A n \in 0 .. count : n \in S
  <2> HIDE DEF S
  <2> QED
    BY <1>5, <1>6, InductionUpTo
<1> QED
  BY <1>2, <1>7

LEMMA WholePieces ==
  ASSUME NEW N \in Nat, NEW w \in Widths
  PROVE  LET count == N \div w
         IN  count \in Nat /\ w * count \in Nat /\ w * count <= N /\ ~ (w * count + w <= N)
<1>1. N \in Int /\ N >= 0
  OBVIOUS
<1>2. /\ N \div 3 \in Nat /\ 3 * (N \div 3) <= N /\ N < 3 * (N \div 3) + 3
      /\ N \div 11 \in Nat /\ 11 * (N \div 11) <= N /\ N < 11 * (N \div 11) + 11
  BY <1>1
<1>3. w = 3 \/ w = 11
  BY DEF Widths
<1> QED
  BY <1>2, <1>3

\* The pieces of a NALU, and no more than there are.
LEMMA ReadsAll ==
  ASSUME NEW d \in Seq(Byte), NEW w \in Widths
  PROVE  LET bits == BitsOf(Payload(d))
             count == Len(bits) \div w
             read == ReadPieces(d, w, count)
         IN  /\ read.r.ok
             /\ read.out = [n \in 1 .. count |->
                              Number(SubSeq(bits, w * (n - 1) + 1, w * n))]
             /\ NumBitsLeft(read.r) = 8 * Len(d) - w * count
                                      - 8 * read.r.emulation_prevention_bytes
             /\ ~ReadBits(read.r, w).r.ok
<1> DEFINE p == Payload(d)
           bits == BitsOf(p)
           count == Len(bits) \div w
           read == ReadPieces(d, w, count)
           c == w * count
<1>1. p \in Seq(Byte) /\ Len(p) \in Nat
  BY PayloadType
<1>2. Len(bits) = 8 * Len(p)
  <2> HIDE DEF p
  <2> QED
    BY <1>1, BitsAre
<1>3. count \in Nat /\ c \in Nat /\ c <= 8 * Len(p) /\ ~ (c + w <= 8 * Len(p))
  <2>1. Len(bits) \in Nat
    BY <1>1, <1>2
  <2> HIDE DEF bits
  <2> QED
    BY <1>2, <2>1, WholePieces
<1> HIDE DEF count
<1>4. IsAt(read.r, d, c) /\ read.out = Pieces(d, w, count)
  BY <1>3, PiecesAre
<1> HIDE DEF read, c
<1>5. read.r.ok /\ NumBitsLeft(read.r) = 8 * Len(d) - c - 8 * read.r.emulation_prevention_bytes
  BY <1>3, <1>4, LeftAt
<1>6. ~ReadBits(read.r, w).r.ok
  BY <1>3, <1>4, ReadsPiece
<1> QED
  BY <1>4, <1>5, <1>6 DEF Pieces, p, bits, count, read, c

\* The bit reader gives the payload of every NALU that was returned: pieces of
\* three bits or of eleven are the bits of its bytes without the emulation
\* prevention bytes, in order, up to the last whole piece; another call fails,
\* and NumBitsLeft is what is left but for the emulation prevention bytes.
THEOREM ReadersGivePayload == Spec => []ReadsPayload
<1>1. TypeOK => ReadsPayload
  <2> SUFFICES ASSUME TypeOK, seen # <<>>, NEW w \in Widths
               PROVE  LET d == Bytes(Last(seen))
                          bits == BitsOf(Payload(d))
                          count == Len(bits) \div w
                          read == ReadPieces(d, w, count)
                      IN  /\ read.r.ok
                          /\ read.out = [n \in 1 .. count |->
                                           Number(SubSeq(bits, w * (n - 1) + 1, w * n))]
                          /\ NumBitsLeft(read.r) = 8 * Len(d) - w * count
                                                   - 8 * read.r.emulation_prevention_bytes
                          /\ ~ReadBits(read.r, w).r.ok
    BY DEF ReadsPayload
  <2> DEFINE d == Bytes(Last(seen))
             unit == Last(seen)
  <2>1. /\ packet \in Seq(Byte) /\ unit.data \in 0 .. Len(packet) - 1
        /\ unit.size \in 1 .. Len(packet) - unit.data
    <3>1. /\ seen \in Seq(NALU) /\ packet \in Seq(0 .. 255)
          /\ \A k \in 1 .. Len(seen) :
               /\ seen[k].data \in 0 .. Len(packet) - 1
               /\ seen[k].size \in 1 .. Len(packet) - seen[k].data
      BY DEF TypeOK
    <3>2. Len(seen) \in 1 .. Len(seen)
      BY <3>1
    <3> QED
      BY <3>1, <3>2, BytesAre DEF Last
  <2> HIDE DEF unit
  <2>2. d \in Seq(Byte)
    <3> DEFINE x == unit.data + 1
               y == unit.data + unit.size
    <3>1. x \in 1 .. Len(packet) + 1 /\ y \in x - 1 .. Len(packet) /\ Len(packet) \in Nat
      BY <2>1
    <3> HIDE DEF x, y
    <3>2. SubSeq(packet, x, y) \in Seq(Byte)
      BY <2>1, <3>1
    <3> QED
      BY <3>2 DEF Bytes, unit, x, y
  <2> HIDE DEF d
  <2> QED
    BY <2>2, ReadsAll DEF d
<1> QED
  BY <1>1, RendererTypes, PTL
=============================================================================
