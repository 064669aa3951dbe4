--------------------------- MODULE MCServerSocket ---------------------------
(* Model values and symmetry for the runs of ServerSocket.                 *)
EXTENDS ServerSocketProperties

\* Clients are interchangeable: no run of a liveness property uses this.
Symmetry == Permutations(Handles)
=============================================================================
