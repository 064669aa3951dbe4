---------------------------- MODULE StreamFanout ----------------------------
(***************************************************************************)
(* What a fan-out server promises: a stream grows at its end, clients join *)
(* at some position of it, and each is given bytes in stream order, never  *)
(* a byte twice and never a byte that is not there yet.  A client may miss *)
(* bytes (that is what the server's truncation is for), and the bytes it   *)
(* missed are counted; with Lossless, no client misses any.                *)
(***************************************************************************)
EXTENDS Integers

CONSTANTS Clients, Lossless

VARIABLES
  produced,   \* length of the stream
  joined,     \* the clients that are connected
  next,       \* the position after the last byte a client was given
  lost        \* how many bytes it missed

vars == <<produced, joined, next, lost>>

Init == /\ produced = 0
        /\ joined = {}
        /\ next = [c \in Clients |-> 0]
        /\ lost = [c \in Clients |-> 0]

Produce == /\ produced' \in Nat
           /\ produced' > produced
           /\ UNCHANGED <<joined, next, lost>>

Join(c) == /\ c \notin joined
           /\ joined' = joined \cup {c}
           /\ \E p \in 0 .. produced : next' = [next EXCEPT ![c] = p]
           /\ lost' = [lost EXCEPT ![c] = 0]
           /\ UNCHANGED produced

\* Skip some bytes, then give the client at least one.
Deliver(c) == /\ c \in joined
              /\ \E skip \in 0 .. produced - next[c] - 1 :
                   /\ Lossless => skip = 0
                   /\ lost' = [lost EXCEPT ![c] = @ + skip]
                   /\ \E p \in next[c] + skip + 1 .. produced :
                        next' = [next EXCEPT ![c] = p]
              /\ UNCHANGED <<produced, joined>>

Leave(c) == /\ c \in joined
            /\ joined' = joined \ {c}
            /\ UNCHANGED <<produced, next, lost>>

Next == \/ Produce
        \/ \E c \in Clients : Join(c) \/ Deliver(c) \/ Leave(c)

Spec == Init /\ [][Next]_vars
=============================================================================
