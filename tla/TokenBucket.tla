---------------------------- MODULE TokenBucket ----------------------------
(***************************************************************************)
(* The struct TokenBucket of the webmention rate limiter                   *)
(* (indieweb2-bastion/services/webmention-rate-limiter/src/limiter.rs) as  *)
(* operators on records.                                                   *)
(*                                                                         *)
(* Time is counted in ticks, Minute of them to a minute.  Tokens, an f64   *)
(* in the code, are counted in units of 1/Minute, so that a bucket of rate *)
(* tokens a minute gains exactly rate units in a tick; the rounding of the *)
(* f64 arithmetic is not modelled.                                         *)
(***************************************************************************)
EXTENDS Selection

CONSTANTS
    Minute,        \* ticks in a minute
    Window,        \* ticks in the window of burst detection (10 s)
    BurstFactor    \* RateLimitConfig.burst_threshold_multiplier, a whole number

ASSUME BucketAssumption ==
    /\ Minute \in Nat \ {0}
    /\ Window \in Nat \ {0} /\ Window <= Minute
    /\ BurstFactor \in Nat

Token == Minute

Capacity(rate) == rate * Token

Least(a, b) == IF a <= b THEN a ELSE b
Greatest(a, b) == IF a >= b THEN a ELSE b

\* tokens, last_refill and request_times; the rate stands for max_tokens and
\* refill_rate, which never change.
NewBucket(rate, now) ==
    [rate |-> rate, tokens |-> Capacity(rate), last |-> now, times |-> <<>>]

\* Variant: the refill is not capped.
Refill_Uncapped(b, now) ==
    [b EXCEPT !.tokens = @ + (now - b.last) * b.rate, !.last = now]

\* Variant: the time of the last refill is left alone.
Refill_TimeKept(b, now) ==
    [b EXCEPT !.tokens = Least(@ + (now - b.last) * b.rate, Capacity(b.rate))]

Refill(b, now) ==
    [b EXCEPT !.tokens = Least(@ + (now - b.last) * b.rate, Capacity(b.rate)),
              !.last = now]

HasToken(b) == b.tokens >= Token

\* try_consume refills first, whether or not there is a token to take.
TryConsume(b, now) ==
    LET r == Refill(b, now)
    IN  IF HasToken(r)
        THEN [r EXCEPT !.tokens = @ - Token, !.times = Append(@, now)]
        ELSE r

\* Whether try_consume returns true.
Consumes(b, now) == HasToken(Refill(b, now))

\* Variant: the tokens that are there are divided, not those that lack.
RetryAfterSecs_Inverted(b, second) ==
    IF HasToken(b) THEN 0 ELSE (b.tokens \div b.rate) \div second

\* time_until_available in ticks, rounded down by Duration::as_secs to a whole
\* number of seconds of the given length when it is sent to the client.
RetryAfterSecs(b, second) ==
    IF HasToken(b) THEN 0 ELSE ((Token - b.tokens) \div b.rate) \div second

\* Request times less than a window ago.
Recently(now) == {t \in 0..now : now - t < Window}

InWindow(times, now) == Select(times, Recently(now))

\* The side effect of detect_burst: only recent requests are kept.
Prune(b, now) == [b EXCEPT !.times = InWindow(@, now)]

\* detect_burst's threshold: the expected number of requests in the window,
\* a sixth of the rate and at least one, times the factor, at least three.
BurstThreshold(rate) ==
    Greatest((Greatest(rate, 6) * BurstFactor) \div 6, 3)

\* Variant: the threshold itself is a burst already.
DetectsBurst_AtThreshold(b, now) == Len(InWindow(b.times, now)) >= BurstThreshold(b.rate)

DetectsBurst(b, now) == Len(InWindow(b.times, now)) > BurstThreshold(b.rate)

=============================================================================
