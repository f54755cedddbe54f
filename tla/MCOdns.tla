------------------------------- MODULE MCOdns -------------------------------
(* Instances of Odns for TLC: up to three connections, two proxies.        *)
EXTENDS Odns

CONSTANTS p1, p2, q1, q2, q3

MCProxies == {p1, p2}
MCQueries == {q1, q2, q3}
MCTwoQueries == {q1, q2}
MCSecond == {q2}
MCThird == {q3}
MCNone == {}
=============================================================================
