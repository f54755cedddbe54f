---------------------------- MODULE RateObserver ----------------------------
(***************************************************************************)
(* The rate limiter with an observer that starts to count at some moment   *)
(* the tokens handed out since then: since[k] for the address or source k. *)
(* What holds of one arbitrary start holds of every interval of time.      *)
(***************************************************************************)
EXTENDS RateLimiter

CONSTANTS
    MaxStart,    \* the observer starts at one of 0..MaxStart
    Second       \* ticks in a second

ASSUME ObserverAssumption ==
    MaxStart \in Nat /\ Second \in Nat \ {0} /\ IP \cap Source = {}

VARIABLES start, since

ovars == <<vars, start, since>>

Key == IP \cup Source

\* In this step r is found to have a token of k.
Allowed(r, k) ==
    \/ /\ k \in IP /\ req[r].pc = "bucket" /\ req[r].ip = k
       /\ LET b == Prune(BucketOf(ipBuckets, k, MaxRate), now)
          IN  ~ DetectsBurst(b, now) /\ Consumes(b, now)
       /\ CheckBucket(r)
    \/ /\ k \in Source /\ req[r].pc = "source" /\ SourceOf[req[r].url] = k
       /\ Consumes(BucketOf(sourceBuckets, k, MaxRatePerSource), now)
       /\ CheckSource(r)

OInit ==
    /\ Init
    /\ start \in 0..MaxStart
    /\ since = [k \in Key |-> 0]

ONext ==
    /\ Next
    /\ start' = start
    /\ since' = [k \in Key |->
                    IF now >= start /\ \E r \in Request : Allowed(r, k)
                    THEN since[k] + 1 ELSE since[k]]

OSpec == OInit /\ [][ONext]_ovars

RateOf(k) == IF k \in IP THEN MaxRate ELSE MaxRatePerSource

\* In any interval an address or a source gets no more than a full bucket and
\* what flowed into it meanwhile, whichever handlers interleave and whenever
\* cleanup discards the bucket and a request creates it anew.
RateIsBounded ==
    \A k \in Key :
        now >= start =>
            since[k] * Minute <= Capacity(RateOf(k)) + RateOf(k) * (now - start)

\* A client that is refused by its address's or its source's bucket, and waits the
\* whole seconds it is told and one more, would find a token: check_rate_limit
\* rounds the time down, so what it tells does not suffice alone.
RetryAfterNearlySuffices ==
    LET Enough(b) == Consumes(b, now + Second * (RetryAfterSecs(b, Second) + 1))
        Asked(k) ==
            IF k \in IP THEN TryConsume(BucketOf(ipBuckets, k, MaxRate), now)
            ELSE TryConsume(BucketOf(sourceBuckets, k, MaxRatePerSource), now)
    IN  \A r \in Request :
            /\ req[r].pc = "bucket" => Enough(Asked(req[r].ip))
            /\ req[r].pc = "source" => Enough(Asked(SourceOf[req[r].url]))

=============================================================================
