------------------------------ MODULE MCLimiter ------------------------------
(* A bounded instance of Limiter for TLC. *)
EXTENDS Limiter, TLC

CONSTANTS c1, c2, c3, k1, e1, e2, e3, e4

MCCaller == {c1, c2, c3}
MCKey == {k1}
MCEntry == {e1, e2, e3, e4}
MCLimits == {1, 2}

MCSymmetry == Permutations(MCCaller) \cup Permutations(MCEntry)
=============================================================================
