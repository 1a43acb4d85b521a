----------------------------- MODULE MCThrottle -----------------------------
(* Throttle for TLC: three requests from one host for one address, over two *)
(* hours of two minutes each.                                               *)
EXTENDS Throttle, TLC

Requests == Permutations(Request)
=============================================================================
