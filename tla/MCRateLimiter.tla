--------------------------- MODULE MCRateLimiter ---------------------------
(***************************************************************************)
(* Instances of RateLimiter.                                               *)
(***************************************************************************)
EXTENDS RateLimiter, TLC

OneUrl == {"u1"}
OneSource == {"s"}
OneSourceOf == [u \in OneUrl |-> "s"]

NoUrls == {}
NoSources == {}
NoSourceOf == [u \in NoUrls |-> "s"]

RequestSymmetry == Permutations(Request)

=============================================================================
