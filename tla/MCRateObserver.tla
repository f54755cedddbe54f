--------------------------- MODULE MCRateObserver ---------------------------
(***************************************************************************)
(* Instances of RateObserver.                                              *)
(***************************************************************************)
EXTENDS RateObserver, TLC

OneUrl == {"u1"}
OneSource == {"s"}
OneSourceOf == [u \in OneUrl |-> "s"]

RequestSymmetry == Permutations(Request)

=============================================================================
