--------------------------- MODULE MCController ---------------------------
(* Instances of Controller for TLC. *)
EXTENDS Controller, TLC

\* The clients are interchangeable: no definition names or orders them.
Symmetry == Permutations(IPs)
===========================================================================
