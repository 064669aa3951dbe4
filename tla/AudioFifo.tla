------------------------------ MODULE AudioFifo ------------------------------
(***************************************************************************)
(* What an audio path promises: decoded bytes, numbered as they come, are  *)
(* held until they leave, in the order in which they came and each once.   *)
(* They are played, a buffer at a time; the only other way out is with a   *)
(* buffer that is lost, which takes no more than it has room for, and no   *)
(* buffer is lost twice.                                                   *)
(***************************************************************************)
EXTENDS Integers, Sequences

CONSTANTS
  Buffers,   \* the buffers
  Capacity   \* the bytes there is room for in one

VARIABLES
  decoded,   \* how many bytes have come
  held,      \* those that have not left yet
  played,    \* those that were played
  lost       \* the buffers there are no more, or not yet

vars == <<decoded, held, played, lost>>

Numbers(from, to) == [k \in 1 .. to - from |-> from + k - 1]
Without(n) == SubSeq(held, n + 1, Len(held))

Init == decoded = 0 /\ held = <<>> /\ played = <<>> /\ lost = Buffers

\* Some of the buffers are made.
Start == /\ lost = Buffers
         /\ lost' \subseteq Buffers
         /\ UNCHANGED <<decoded, held, played>>

Come == /\ decoded' \in Nat
        /\ decoded' > decoded
        /\ held' = held \o Numbers(decoded, decoded')
        /\ UNCHANGED <<played, lost>>

Play == /\ lost # Buffers
        /\ \E n \in 1 .. Len(held) :
             /\ n <= Capacity
             /\ played' = played \o SubSeq(held, 1, n)
             /\ held' = Without(n)
        /\ UNCHANGED <<decoded, lost>>

Drop == /\ \E buffer \in Buffers \ lost : lost' = lost \cup {buffer}
        /\ \E n \in 0 .. Len(held) : n <= Capacity /\ held' = Without(n)
        /\ UNCHANGED <<decoded, played>>

Next == Start \/ Come \/ Play \/ Drop

Spec == Init /\ [][Next]_vars
=============================================================================
