----------------------------- MODULE MCRenderer -----------------------------
(* Instances of Renderer: packets put together from a few pieces, start    *)
(* codes with a NALU header and single bytes, in every order.              *)
EXTENDS RendererProperties

CONSTANT MaxPieces    \* bound: pieces in a packet

Pieces == { <<0, 0, 1, kSPS>>, <<0, 0, 1, kPPS>>, <<0, 0, 1, kSPSExt>>,
            <<0, 0, 1, 129>>,   \* forbidden_zero_bit is set
            <<0, 0, 1>>, <<0>>, <<1>>,
            <<0, 0, 3>>, <<3>> }  \* emulation prevention, and a plain 3

MCPackets == {FlattenSeq(s) : s \in BoundedSeq(Pieces, MaxPieces)}
=============================================================================
