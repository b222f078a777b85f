---------------------------- MODULE MCHostRules -----------------------------
(* Instances of HostRules for TLC. *)
EXTENDS HostRules, TLC

CONSTANTS h1, h2, h3

\* Addresses none of which is part of another.
Distinct == {<<h, h>> : h \in IPs}

\* h1 is a part of h2, as 10.1.3.3 is of 10.1.3.32.
Prefixed == Distinct \cup {<<h1, h2>>}

Symmetry == Permutations(IPs)
=============================================================================
