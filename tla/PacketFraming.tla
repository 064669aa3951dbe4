---------------------------- MODULE PacketFraming ----------------------------
(***************************************************************************)
(* What a demultiplexer's input side promises: a stream of bytes arrives   *)
(* in pieces of any size, and is handed on in blocks of PacketSize         *)
(* consecutive bytes, each starting where the one before it ended.  A byte *)
(* is named by its position in the stream.  Only with Lossy may the place  *)
(* of the next block move by a single byte, to look for the start of a     *)
(* packet, and only past a block that has arrived whole.                   *)
(***************************************************************************)
EXTENDS Integers

CONSTANTS PacketSize, Lossy

VARIABLES
  fed,      \* how many bytes have arrived
  place,    \* where the next block starts
  packet    \* the block being handed on, None between two blocks

vars == <<fed, place, packet>>

None == <<>>
Block(p) == [k \in 0 .. PacketSize - 1 |-> p + k]

Init == fed = 0 /\ place = 0 /\ packet = None

Arrive == /\ fed' \in Nat
          /\ fed' > fed
          /\ packet = None
          /\ UNCHANGED <<place, packet>>

Hand == /\ packet = None
        /\ place + PacketSize <= fed
        /\ packet' = Block(place)
        /\ UNCHANGED <<fed, place>>

Finish == /\ packet # None
          /\ packet' = None
          /\ \/ place' = place + PacketSize
             \/ Lossy /\ place' = place + 1
          /\ UNCHANGED fed

Skip == /\ Lossy
        /\ packet = None
        /\ place + PacketSize <= fed
        /\ place' = place + 1
        /\ UNCHANGED <<fed, packet>>

Next == Arrive \/ Hand \/ Finish \/ Skip

Spec == Init /\ [][Next]_vars
=============================================================================
