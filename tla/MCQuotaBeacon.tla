--------------------------- MODULE MCQuotaBeacon ----------------------------
(* Instances of QuotaBeacon for TLC. *)
EXTENDS QuotaBeacon

CONSTANT h1

\* A quota line whose pattern ends in its first half, one that has it across
\* both halves, and a line of something else.
Lines == {[src |-> h1, key |-> "head"], [src |-> h1, key |-> "whole"],
          [src |-> "none", key |-> "whole"]}
=============================================================================
