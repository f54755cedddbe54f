-------------------------- MODULE RateLimiterProofs --------------------------
(***************************************************************************)
(* Proofs about RateLimiter and its observer, for any addresses, sources,  *)
(* handlers, rates and times.                                              *)
(***************************************************************************)
EXTENDS RateObserver, SelectionProofs

-----------------------------------------------------------------------------
(***************************************************************************)
(* What a request does to the lock of ip_buckets and to its own place.     *)
(***************************************************************************)
\* Who holds the lock of ip_buckets across an await.
LockHeldToApply ==
    \A r \in Request : req[r].pc = "apply" <=> ipLock = r

LockInv ==
    /\ req \in [Request -> RequestState]
    /\ LockHeldToApply

\* An idle handler is a handler.
LEMMA NoRequestType == NoRequest \in RequestState /\ NoRequest.pc = "idle"
  BY LimiterAssumption DEF NoRequest, RequestState, PC

\* A handler that has answered is free, the others are where they were.
LEMMA AnswerType ==
    ASSUME req \in [Request -> RequestState], NEW r \in Request, Answer(r)
    PROVE  /\ req' \in [Request -> RequestState]
           /\ req'[r].pc = "idle"
           /\ \A q \in Request \ {r} : req'[q] = req[q]
  BY NoRequestType DEF Answer

\* A handler that goes on changes its place only.
LEMMA GotoType ==
    ASSUME req \in [Request -> RequestState], NEW r \in Request, NEW pc \in PC, Goto(r, pc)
    PROVE  /\ req' \in [Request -> RequestState]
           /\ req'[r].pc = pc
           /\ \A q \in Request \ {r} : req'[q] = req[q]
  <1>. DEFINE next == [req[r] EXCEPT !.pc = pc]
  <1>1. next \in RequestState /\ next.pc = pc
    BY DEF RequestState
  <1>2. req' = [req EXCEPT ![r] = next]
    BY DEF Goto
  <1>. QED BY <1>1, <1>2

\* The lock passes on with the handler that applies a cooldown.
LEMMA LockInductive == LockInv /\ [Next]_vars => LockInv'
  <1>. SUFFICES ASSUME LockInv, [Next]_vars PROVE LockInv'
    OBVIOUS
  <1>. USE DEF LockInv
  <1>1. ASSUME NEW r \in Request, NEW ip \in IP, NEW url \in Url \cup {NoUrl},
               Arrive(r, ip, url)
        PROVE  LockInv'
    <2>1. [pc |-> "cooldown", ip |-> ip, url |-> url] \in RequestState
      BY DEF RequestState, PC
    <2>2. /\ req' \in [Request -> RequestState] /\ req'[r].pc = "cooldown"
          /\ \A q \in Request \ {r} : req'[q] = req[q]
      BY <1>1, <2>1 DEF Arrive
    <2>. QED BY <1>1, <2>2 DEF Arrive, LockHeldToApply
  <1>2. ASSUME NEW r \in Request, CheckCooldown(r) PROVE LockInv'
    BY <1>2, AnswerType, GotoType DEF CheckCooldown, LockHeldToApply, PC
  <1>3. ASSUME NEW r \in Request, CheckBucket(r) PROVE LockInv'
    <2>1. CASE ipLock' = r /\ Goto(r, "apply")
      BY <1>3, <2>1, GotoType, NamesAssumption DEF CheckBucket, LockHeldToApply, PC
    <2>2. CASE ipLock' = ipLock /\ Goto(r, "source")
      BY <1>3, <2>2, GotoType, NamesAssumption DEF CheckBucket, LockHeldToApply, PC
    <2>3. CASE ipLock' = ipLock /\ Answer(r)
      BY <1>3, <2>3, AnswerType, NamesAssumption DEF CheckBucket, LockHeldToApply
    <2>. QED BY <1>3, <2>1, <2>2, <2>3 DEF CheckBucket
  <1>4. ASSUME NEW r \in Request, ApplyCooldown(r) PROVE LockInv'
    BY <1>4, AnswerType, NamesAssumption DEF ApplyCooldown, LockHeldToApply
  <1>5. ASSUME NEW r \in Request, CheckSource(r) PROVE LockInv'
    BY <1>5, AnswerType DEF CheckSource, LockHeldToApply
  <1>6. ASSUME NEW r \in Request, Cancel(r) PROVE LockInv'
    BY <1>6, AnswerType, NamesAssumption DEF Cancel, LockHeldToApply
  <1>7. CASE UNCHANGED <<req, ipLock>>
    BY <1>7 DEF LockHeldToApply
  <1>. QED BY <1>1, <1>2, <1>3, <1>4, <1>5, <1>6, <1>7
       DEF Next, Proceed, Sweep, StartSweep, SweepIps, SweepSources, SweepCooldowns,
           Tick, vars

-----------------------------------------------------------------------------
(***************************************************************************)
(* Buckets.  An address or source that has none is worth a full one.       *)
(***************************************************************************)
IsBucket(b, rate) ==
    b \in [rate : {rate}, tokens : 0..Capacity(rate), last : 0..now, times : {b.times}]

Holds(map, k, rate) == k \in DOMAIN map => IsBucket(map[k], rate)

\* What little is needed of products.
LEMMA Products ==
    ASSUME NEW a \in Nat, NEW b \in Nat, NEW c \in Nat
    PROVE  /\ a * c \in Nat
           /\ (a + b) * c = a * c + b * c
           /\ a <= b => a * c <= b * c
  OBVIOUS

\* A bucket holds a whole number of units.
LEMMA CapacityType ==
    ASSUME NEW rate \in Nat \ {0}
    PROVE  Capacity(rate) \in Nat /\ Capacity(rate) = Minute * rate /\ Minute <= Capacity(rate)
  BY BucketAssumption DEF Capacity, Token

\* A refilled bucket is one, up to date.
LEMMA RefillType ==
    ASSUME now \in Nat, NEW rate \in Nat \ {0}, NEW b, IsBucket(b, rate)
    PROVE  LET r == Refill(b, now)
           IN  /\ IsBucket(r, rate) /\ r.last = now
               /\ r.tokens = Least(b.tokens + (now - b.last) * rate, Capacity(rate))
               /\ b.tokens <= r.tokens
  <1>1. now - b.last \in Nat /\ Capacity(rate) \in Nat
    BY CapacityType DEF IsBucket
  <1>2. (now - b.last) * rate \in Nat
    BY <1>1, Products
  <1>. DEFINE x == Least(b.tokens + (now - b.last) * rate, Capacity(rate))
  <1>3. x \in 0..Capacity(rate) /\ b.tokens <= x
    BY <1>1, <1>2 DEF IsBucket, Least
  <1>4. Refill(b, now) = [b EXCEPT !.tokens = x, !.last = now]
    BY DEF IsBucket, Refill
  <1>. HIDE DEF x
  <1>5. /\ Refill(b, now).last = now /\ Refill(b, now).tokens = x
        /\ IsBucket(Refill(b, now), rate)
    <2>. DEFINE T == 0..Capacity(rate)
                L == 0..now
    <2>1. b \in [rate : {rate}, tokens : T, last : L, times : {b.times}]
      BY DEF IsBucket
    <2>2. x \in T /\ now \in L
      BY <1>3
    <2>. HIDE DEF T, L
    <2>. DEFINE r == [b EXCEPT !.tokens = x, !.last = now]
    <2>3. /\ r \in [rate : {rate}, tokens : T, last : L, times : {b.times}]
          /\ r.tokens = x /\ r.last = now /\ r.times = b.times
      BY <2>1, <2>2
    <2>. QED BY <1>4, <2>3 DEF IsBucket, T, L
  <1>. QED BY <1>3, <1>5 DEF x

\* What try_consume leaves in a bucket.
LEMMA TryConsumeType ==
    ASSUME now \in Nat, NEW rate \in Nat \ {0}, NEW b, IsBucket(b, rate)
    PROVE  LET t == TryConsume(b, now)
           IN  /\ IsBucket(t, rate) /\ t.last = now
               /\ Consumes(b, now) => t.tokens + Minute = Refill(b, now).tokens
               /\ ~ Consumes(b, now) => t.tokens = Refill(b, now).tokens
  <1>. DEFINE r == Refill(b, now)
  <1>1. IsBucket(r, rate) /\ r.last = now
    BY RefillType
  <1>. HIDE DEF r
  <1>2. CASE HasToken(r)
    <2>1. TryConsume(b, now) = [r EXCEPT !.tokens = r.tokens - Minute,
                                         !.times = Append(r.times, now)]
      BY <1>2 DEF TryConsume, Token, r
    <2>2. r.tokens - Minute \in 0..Capacity(rate)
      BY <1>1, <1>2, CapacityType, BucketAssumption DEF HasToken, Token, IsBucket
    <2>3. /\ IsBucket(TryConsume(b, now), rate) /\ TryConsume(b, now).last = now
          /\ TryConsume(b, now).tokens = r.tokens - Minute
      BY <1>1, <2>1, <2>2 DEF IsBucket
    <2>. QED BY <1>1, <1>2, <2>2, <2>3, CapacityType, BucketAssumption
         DEF IsBucket, Consumes, r
  <1>3. CASE ~ HasToken(r)
    BY <1>1, <1>3 DEF TryConsume, Consumes, r
  <1>. QED BY <1>2, <1>3

\* An up-to-date bucket is worth what it holds.
LEMMA LevelUpToDate ==
    ASSUME now \in Nat, NEW rate \in Nat \ {0}, NEW b, IsBucket(b, rate), b.last = now
    PROVE  Refill(b, now).tokens = b.tokens
  <1>1. (now - b.last) * rate = 0
    OBVIOUS
  <1>. QED BY <1>1, RefillType, CapacityType DEF IsBucket, Least

\* A bucket that is there, or made on demand, is worth what its key is worth.
LEMMA BucketOfType ==
    ASSUME now \in Nat, NEW rate \in Nat \ {0}, NEW map, NEW k, Holds(map, k, rate)
    PROVE  LET b == BucketOf(map, k, rate)
           IN  IsBucket(b, rate) /\ Refill(b, now).tokens = LevelOf(map, k, rate)
  <1>1. CASE k \in DOMAIN map
    BY <1>1 DEF BucketOf, LevelOf, Holds
  <1>2. CASE k \notin DOMAIN map
    <2>1. IsBucket(NewBucket(rate, now), rate) /\ NewBucket(rate, now).last = now
          /\ NewBucket(rate, now).tokens = Capacity(rate)
      BY CapacityType DEF NewBucket, IsBucket
    <2>. QED BY <1>2, <2>1, LevelUpToDate DEF BucketOf, LevelOf
  <1>. QED BY <1>1, <1>2

\* Pruning leaves the tokens alone.
LEMMA PruneType ==
    ASSUME now \in Nat, NEW rate \in Nat \ {0}, NEW b, IsBucket(b, rate)
    PROVE  /\ IsBucket(Prune(b, now), rate)
           /\ Refill(Prune(b, now), now).tokens = Refill(b, now).tokens
  <1>. DEFINE p == Prune(b, now)
  <1>1. p = [b EXCEPT !.times = InWindow(b.times, now)]
    BY DEF Prune
  <1>2. IsBucket(p, rate) /\ p.tokens = b.tokens /\ p.last = b.last
    BY <1>1 DEF IsBucket
  <1>. QED BY <1>2, RefillType

\* A level is at most a full bucket.
LEMMA LevelType ==
    ASSUME now \in Nat, NEW rate \in Nat \ {0}, NEW map, NEW k, Holds(map, k, rate)
    PROVE  LevelOf(map, k, rate) \in 0..Capacity(rate)
  BY RefillType, CapacityType DEF Holds, LevelOf, IsBucket

-----------------------------------------------------------------------------
(***************************************************************************)
(* What one step does to the level of a key, in either map.                *)
(***************************************************************************)
\* A token is taken when there is one.
LEMMA LevelAfterConsume ==
    ASSUME now \in Nat, NEW rate \in Nat \ {0}, NEW map, NEW k, NEW b, NEW map2,
           IsBucket(b, rate), Refill(b, now).tokens = LevelOf(map, k, rate),
           map2 = With(map, k, TryConsume(b, now))
    PROVE  /\ Holds(map2, k, rate)
           /\ Consumes(b, now) => LevelOf(map2, k, rate) + Minute = LevelOf(map, k, rate)
           /\ ~ Consumes(b, now) => LevelOf(map2, k, rate) = LevelOf(map, k, rate)
  <1>. DEFINE t == TryConsume(b, now)
  <1>1. /\ IsBucket(t, rate) /\ Refill(t, now).tokens = t.tokens
        /\ Consumes(b, now) => t.tokens + Minute = Refill(b, now).tokens
        /\ ~ Consumes(b, now) => t.tokens = Refill(b, now).tokens
    BY TryConsumeType, LevelUpToDate
  <1>2. k \in DOMAIN map2 /\ map2[k] = t
    BY DEF With
  <1>. QED BY <1>1, <1>2 DEF Holds, LevelOf

\* A bucket that is only pruned is worth the same.
LEMMA LevelAfterStore ==
    ASSUME NEW rate, NEW map, NEW k, NEW b, NEW map2,
           IsBucket(b, rate), Refill(b, now).tokens = LevelOf(map, k, rate),
           map2 = With(map, k, b)
    PROVE  Holds(map2, k, rate) /\ LevelOf(map2, k, rate) = LevelOf(map, k, rate)
  BY DEF With, Holds, LevelOf

\* The other keys' buckets are left alone.
LEMMA LevelOfOthers ==
    ASSUME NEW rate, NEW map, NEW k, NEW j, j # k, NEW b, NEW map2,
           map2 = With(map, j, b), Holds(map, k, rate)
    PROVE  Holds(map2, k, rate) /\ LevelOf(map2, k, rate) = LevelOf(map, k, rate)
  BY DEF With, Holds, LevelOf

\* What a bucket holds at some time.
LEMMA RefillTokens ==
    ASSUME NEW rate, NEW b, IsBucket(b, rate), NEW time
    PROVE  Refill(b, time).tokens = Least(b.tokens + (time - b.last) * rate, Capacity(rate))
  <1>. DEFINE x == Least(b.tokens + (time - b.last) * rate, Capacity(rate))
  <1>1. Refill(b, time) = [b EXCEPT !.tokens = x, !.last = time]
    BY DEF IsBucket, Refill
  <1>. HIDE DEF x
  <1>2. Refill(b, time).tokens = x
    BY <1>1 DEF IsBucket
  <1>. QED BY <1>2 DEF x

\* At no time a bucket holds more than it may.
LEMMA RefillBound ==
    ASSUME NEW rate \in Nat \ {0}, NEW time \in Nat, NEW b,
           b \in [rate : {rate}, tokens : 0..Capacity(rate), last : 0..time, times : {b.times}]
    PROVE  Refill(b, time).tokens \in 0..Capacity(rate)
  <1>. DEFINE flow == (time - b.last) * rate
              x == Least(b.tokens + flow, Capacity(rate))
  <1>1. flow \in Nat
    BY Products
  <1>2. x \in 0..Capacity(rate)
    <2>. HIDE DEF flow
    <2>. QED BY <1>1, CapacityType DEF Least
  <1>3. Refill(b, time) = [b EXCEPT !.tokens = x, !.last = time]
    BY DEF Refill
  <1>. HIDE DEF x
  <1>. QED BY <1>2, <1>3

\* A bucket that is stale is full, so that its eviction changes nothing.
LEMMA LevelAfterSweep ==
    ASSUME now \in Nat, sweeper.at \in 0..now, NEW rate \in Nat \ {0}, NEW map, NEW k,
           NEW map2, map2 = Only(map, Fresh(map)), Holds(map, k, rate)
    PROVE  Holds(map2, k, rate) /\ LevelOf(map2, k, rate) = LevelOf(map, k, rate)
  <1>1. CASE k \in Fresh(map) \/ k \notin DOMAIN map
    BY <1>1 DEF Fresh, Only, Holds, LevelOf
  <1>2. CASE k \in DOMAIN map /\ k \notin Fresh(map)
    <2>. DEFINE b == map[k]
    <2>1. IsBucket(b, rate) /\ b.last \in Nat /\ b.tokens \in Nat
      BY <1>2, CapacityType DEF Holds, IsBucket
    <2>2. now - b.last \in Nat /\ Minute <= now - b.last
      BY <1>2, <2>1, LimiterAssumption, BucketAssumption DEF Fresh
    <2>3. (now - b.last) * rate \in Nat /\ Capacity(rate) <= (now - b.last) * rate
      <3>. DEFINE d == now - b.last
      <3>1. d \in Nat /\ Minute \in Nat /\ rate \in Nat /\ Minute <= d
        BY <2>2, BucketAssumption
      <3>. HIDE DEF d
      <3>2. d * rate \in Nat /\ Minute * rate <= d * rate
        BY <3>1, Products
      <3>3. Capacity(rate) = Minute * rate
        BY CapacityType
      <3>4. d * rate \in Nat /\ Capacity(rate) <= d * rate
        BY <3>2, <3>3
      <3>. QED BY <3>4 DEF d
    <2>4. Refill(b, now).tokens = Capacity(rate)
      <3>. DEFINE flow == (now - b.last) * rate
      <3>1. Refill(b, now).tokens = Least(b.tokens + flow, Capacity(rate))
        BY <2>1, RefillTokens
      <3>2. Capacity(rate) \in Nat
        BY CapacityType
      <3>3. flow \in Nat /\ Capacity(rate) <= flow
        BY <2>3
      <3>. HIDE DEF flow
      <3>. QED BY <2>1, <3>1, <3>2, <3>3 DEF Least
    <2>5. k \notin DOMAIN map2
      BY <1>2 DEF Only
    <2>. QED BY <1>2, <2>4, <2>5 DEF Holds, LevelOf
  <1>. QED BY <1>1, <1>2

\* In a moment no more flows in than the rate.
LEMMA LevelAfterTick ==
    ASSUME now \in Nat, now' = now + 1, NEW rate \in Nat \ {0}, NEW map, NEW k,
           Holds(map, k, rate)
    PROVE  Holds(map, k, rate)' /\ LevelOf(map, k, rate)' <= LevelOf(map, k, rate) + rate
  <1>1. CASE k \notin DOMAIN map
    BY <1>1, CapacityType DEF Holds, LevelOf
  <1>2. CASE k \in DOMAIN map
    <2>. DEFINE b == map[k]
    <2>1. IsBucket(b, rate) /\ IsBucket(b, rate)' /\ now - b.last \in Nat
      BY <1>2 DEF Holds, IsBucket
    <2>2. ((now + 1) - b.last) * rate = (now - b.last) * rate + rate
          /\ (now - b.last) * rate \in Nat
      <3>1. (now + 1) - b.last = (now - b.last) + 1
        BY <2>1 DEF IsBucket
      <3>. QED BY <2>1, <3>1, Products
    <2>3. Refill(b, now).tokens = Least(b.tokens + (now - b.last) * rate, Capacity(rate))
      BY <2>1, RefillType
    <2>4. Refill(b, now + 1).tokens = Least(b.tokens + ((now + 1) - b.last) * rate, Capacity(rate))
      BY <2>1, RefillTokens
    <2>5. b.tokens \in Nat /\ Capacity(rate) \in Nat
      <3>1. IsBucket(b, rate)
        BY <2>1
      <3>. QED BY <3>1, CapacityType DEF IsBucket
    <2>6. Refill(b, now + 1).tokens <= Refill(b, now).tokens + rate
      BY <2>2, <2>3, <2>4, <2>5 DEF Least
    <2>. QED BY <1>2, <2>1, <2>6 DEF Holds, LevelOf
  <1>. QED BY <1>1, <1>2

-----------------------------------------------------------------------------
(***************************************************************************)
(* The invariant of the observer: what was handed out and what is left are *)
(* paid for by a full bucket and what flowed in.                           *)
(***************************************************************************)
Clocks ==
    /\ now \in Nat
    /\ sweeper \in [pc : {"idle", "ips", "sources", "cooldowns"}, at : 0..now]

MapOf(k) == IF k \in IP THEN ipBuckets ELSE sourceBuckets

Level(k) == LevelOf(MapOf(k), k, RateOf(k))

Paid(k) ==
    /\ Holds(MapOf(k), k, RateOf(k))
    /\ now < start => since[k] = 0
    /\ now >= start =>
          since[k] * Minute + Level(k) <= Capacity(RateOf(k)) + RateOf(k) * (now - start)

ObserverInv ==
    /\ Clocks
    /\ start \in Nat
    /\ since \in [Key -> Nat]
    /\ \A k \in Key : Paid(k)

\* Time goes on, and a sweep reads it.
LEMMA ClocksStay ==
    ASSUME Clocks, [Next]_vars
    PROVE  Clocks' /\ (now' = now \/ (now' = now + 1 /\ UNCHANGED <<ipBuckets, sourceBuckets>>))
  <1>1. CASE UNCHANGED <<now, sweeper>>
    BY <1>1 DEF Clocks
  <1>2. CASE Sweep
    BY <1>2 DEF Clocks, Sweep, StartSweep, SweepIps, SweepSources, SweepCooldowns
  <1>3. CASE Tick
    BY <1>3 DEF Clocks, Tick
  <1>. QED BY <1>1, <1>2, <1>3
       DEF Next, Proceed, Arrive, CheckCooldown, CheckBucket, ApplyCooldown, CheckSource,
           Cancel, vars

\* What a step at one moment does to the level of an address.
LEMMA IpLevel ==
    ASSUME Clocks, [Next]_vars, now' = now, NEW k \in IP, Holds(ipBuckets, k, MaxRate)
    PROVE  /\ Holds(ipBuckets', k, MaxRate)
           /\ LevelOf(ipBuckets', k, MaxRate) <= LevelOf(ipBuckets, k, MaxRate)
           /\ (\E r \in Request : Allowed(r, k)) =>
                 LevelOf(ipBuckets', k, MaxRate) + Minute = LevelOf(ipBuckets, k, MaxRate)
  <1>. DEFINE Before == LevelOf(ipBuckets, k, MaxRate)
              After == LevelOf(ipBuckets', k, MaxRate)
              b == Prune(BucketOf(ipBuckets, k, MaxRate), now)
  <1>0. MaxRate \in Nat \ {0} /\ now \in Nat /\ sweeper.at \in 0..now
        /\ Minute \in Nat /\ Before \in Nat
    BY LimiterAssumption, BucketAssumption, LevelType, CapacityType DEF Clocks
  <1>1. IsBucket(b, MaxRate) /\ Refill(b, now).tokens = Before
    BY <1>0, BucketOfType, PruneType
  <1>2. ASSUME NEW r \in Request, CheckBucket(r), req[r].ip = k
        PROVE  /\ Holds(ipBuckets', k, MaxRate)
               /\ Consumes(b, now) /\ ~ DetectsBurst(b, now) => After + Minute = Before
               /\ ~ (Consumes(b, now) /\ ~ DetectsBurst(b, now)) => After = Before
    <2>1. CASE DetectsBurst(b, now) /\ ipBuckets' = With(ipBuckets, k, b)
      BY <1>1, <2>1, LevelAfterStore
    <2>2. CASE ~ DetectsBurst(b, now) /\ ipBuckets' = With(ipBuckets, k, TryConsume(b, now))
      BY <1>0, <1>1, <2>2, LevelAfterConsume
    <2>. QED BY <1>2, <2>1, <2>2 DEF CheckBucket
  <1>3. ASSUME NEW r \in Request, CheckBucket(r), req[r].ip # k
        PROVE  Holds(ipBuckets', k, MaxRate) /\ After = Before
    <2>1. PICK new : ipBuckets' = With(ipBuckets, req[r].ip, new)
      BY <1>3 DEF CheckBucket
    <2>. QED BY <1>3, <2>1, LevelOfOthers
  <1>4. SweepIps => Holds(ipBuckets', k, MaxRate) /\ After = Before
    BY <1>0, LevelAfterSweep DEF SweepIps
  <1>5. Holds(ipBuckets', k, MaxRate) /\ After <= Before
    <2>1. ASSUME NEW r \in Request, CheckBucket(r)
          PROVE  Holds(ipBuckets', k, MaxRate) /\ After <= Before
      <3>1. After \in Nat
        BY <1>0, <1>2, <1>3, <2>1, LevelType, CapacityType
      <3>. QED BY <1>0, <1>2, <1>3, <2>1, <3>1
    <2>2. CASE SweepIps \/ ipBuckets' = ipBuckets
      BY <1>0, <1>4, <2>2
    <2>. QED BY <2>1, <2>2
         DEF Next, Proceed, Arrive, CheckCooldown, ApplyCooldown, CheckSource, Cancel,
             Sweep, StartSweep, SweepSources, SweepCooldowns, Tick, vars
  <1>6. ASSUME NEW r \in Request, Allowed(r, k) PROVE After + Minute = Before
    <2>1. CASE req[r].pc = "bucket"
      BY <1>2, <1>6, <2>1 DEF Allowed
    <2>2. CASE req[r].pc = "source"
      <3>1. k \in Source
        BY <1>6, <2>2 DEF Allowed
      <3>. QED BY <3>1, ObserverAssumption
    <2>. QED BY <1>6, <2>1, <2>2 DEF Allowed
  <1>. QED BY <1>5, <1>6

\* What a step at one moment does to the level of a source.
LEMMA SourceLevel ==
    ASSUME Clocks, [Next]_vars, now' = now, NEW k \in Source,
           Holds(sourceBuckets, k, MaxRatePerSource)
    PROVE  /\ Holds(sourceBuckets', k, MaxRatePerSource)
           /\ LevelOf(sourceBuckets', k, MaxRatePerSource)
                 <= LevelOf(sourceBuckets, k, MaxRatePerSource)
           /\ (\E r \in Request : Allowed(r, k)) =>
                 LevelOf(sourceBuckets', k, MaxRatePerSource) + Minute
                    = LevelOf(sourceBuckets, k, MaxRatePerSource)
  <1>. DEFINE Before == LevelOf(sourceBuckets, k, MaxRatePerSource)
              After == LevelOf(sourceBuckets', k, MaxRatePerSource)
              b == BucketOf(sourceBuckets, k, MaxRatePerSource)
  <1>0. MaxRatePerSource \in Nat \ {0} /\ now \in Nat /\ sweeper.at \in 0..now
        /\ Minute \in Nat /\ Before \in Nat
    BY LimiterAssumption, BucketAssumption, LevelType, CapacityType DEF Clocks
  <1>1. IsBucket(b, MaxRatePerSource) /\ Refill(b, now).tokens = Before
    BY <1>0, BucketOfType
  <1>2. ASSUME NEW r \in Request, CheckSource(r), SourceOf[req[r].url] = k
        PROVE  /\ Holds(sourceBuckets', k, MaxRatePerSource)
               /\ Consumes(b, now) => After + Minute = Before
               /\ ~ Consumes(b, now) => After = Before
    <2>1. sourceBuckets' = With(sourceBuckets, k, TryConsume(b, now))
      BY <1>2 DEF CheckSource
    <2>. QED BY <1>0, <1>1, <2>1, LevelAfterConsume
  <1>3. ASSUME NEW r \in Request, CheckSource(r), SourceOf[req[r].url] # k
        PROVE  Holds(sourceBuckets', k, MaxRatePerSource) /\ After = Before
    <2>1. PICK new : sourceBuckets' = With(sourceBuckets, SourceOf[req[r].url], new)
      BY <1>3 DEF CheckSource
    <2>. QED BY <1>3, <2>1, LevelOfOthers
  <1>4. SweepSources => Holds(sourceBuckets', k, MaxRatePerSource) /\ After = Before
    BY <1>0, LevelAfterSweep DEF SweepSources
  <1>5. Holds(sourceBuckets', k, MaxRatePerSource) /\ After <= Before
    <2>1. ASSUME NEW r \in Request, CheckSource(r)
          PROVE  Holds(sourceBuckets', k, MaxRatePerSource) /\ After <= Before
      <3>1. After \in Nat
        BY <1>0, <1>2, <1>3, <2>1, LevelType, CapacityType
      <3>. QED BY <1>0, <1>2, <1>3, <2>1, <3>1
    <2>2. CASE SweepSources \/ sourceBuckets' = sourceBuckets
      BY <1>0, <1>4, <2>2
    <2>. QED BY <2>1, <2>2
         DEF Next, Proceed, Arrive, CheckCooldown, CheckBucket, ApplyCooldown, Cancel,
             Sweep, StartSweep, SweepIps, SweepCooldowns, Tick, vars
  <1>6. ASSUME NEW r \in Request, Allowed(r, k) PROVE After + Minute = Before
    <2>1. CASE req[r].pc = "source"
      BY <1>2, <1>6, <2>1 DEF Allowed
    <2>2. CASE req[r].pc = "bucket"
      BY <1>6, <2>2, ObserverAssumption DEF Allowed
    <2>. QED BY <1>6, <2>1, <2>2 DEF Allowed
  <1>. QED BY <1>5, <1>6

\* What any step does to the level of a key.
LEMMA KeyLevel ==
    ASSUME Clocks, [Next]_vars, NEW k \in Key, Holds(MapOf(k), k, RateOf(k))
    PROVE  /\ Holds(MapOf(k), k, RateOf(k))'
           /\ now' = now => Level(k)' <= Level(k)
           /\ now' # now => now' = now + 1 /\ Level(k)' <= Level(k) + RateOf(k)
           /\ (\E r \in Request : Allowed(r, k)) =>
                 now' = now /\ Level(k)' + Minute = Level(k)
  <1>1. CASE now' = now /\ k \in IP
    BY <1>1, IpLevel DEF MapOf, RateOf, Level, LevelOf, Holds, IsBucket
  <1>2. CASE now' = now /\ k \notin IP
    BY <1>2, SourceLevel DEF Key, MapOf, RateOf, Level, LevelOf, Holds, IsBucket
  <1>3. CASE now' # now
    <2>1. now' = now + 1 /\ now \in Nat /\ MapOf(k)' = MapOf(k)
      BY <1>3, ClocksStay DEF MapOf, Clocks
    <2>2. RateOf(k) \in Nat \ {0}
      BY LimiterAssumption DEF RateOf
    <2>3. Holds(MapOf(k), k, RateOf(k))' /\ Level(k)' <= Level(k) + RateOf(k)
      BY <2>1, <2>2, LevelAfterTick DEF Level, LevelOf, Holds, IsBucket
    <2>4. ~ \E r \in Request : Allowed(r, k)
      BY <1>3 DEF Allowed, CheckBucket, CheckSource
    <2>. QED BY <1>3, <2>1, <2>3, <2>4
  <1>. QED BY <1>1, <1>2, <1>3

\* The invariant of the observer is inductive: what is handed out is taken from
\* the level, and what the eviction of a bucket forgets was full.
LEMMA ObserverInductive == ObserverInv /\ [ONext]_ovars => ObserverInv'
  <1>. SUFFICES ASSUME ObserverInv, [ONext]_ovars PROVE ObserverInv'
    OBVIOUS
  <1>1. [Next]_vars /\ start' = start /\ start \in Nat /\ Clocks
    BY DEF ONext, ovars, ObserverInv
  <1>2. Clocks'
    BY <1>1, ClocksStay
  <1>3. ASSUME NEW k \in Key
        PROVE  \/ since'[k] = since[k]
               \/ /\ since'[k] = since[k] + 1 /\ now >= start
                  /\ \E r \in Request : Allowed(r, k)
    BY DEF ONext, ovars
  <1>4. since' \in [Key -> Nat]
    <2>1. CASE UNCHANGED ovars
      BY <2>1 DEF ovars, ObserverInv
    <2>2. CASE ONext
      BY <2>2 DEF ONext, ObserverInv
    <2>. QED BY <2>1, <2>2
  <1>5. ASSUME NEW k \in Key PROVE Paid(k)'
    <2>. DEFINE rate == RateOf(k)
                full == Capacity(rate)
    <2>1. /\ Paid(k) /\ since[k] \in Nat /\ now \in Nat
          /\ rate \in Nat \ {0} /\ full \in Nat /\ Minute \in Nat
      BY <1>1, LimiterAssumption, CapacityType, BucketAssumption
      DEF ObserverInv, Clocks, RateOf
    <2>2. /\ Holds(MapOf(k), k, rate)'
          /\ now' = now => Level(k)' <= Level(k)
          /\ now' # now => now' = now + 1 /\ Level(k)' <= Level(k) + rate
          /\ (\E r \in Request : Allowed(r, k)) =>
                now' = now /\ Level(k)' + Minute = Level(k)
      BY <1>1, <2>1, KeyLevel DEF Paid
    <2>3. Level(k) \in Nat /\ Level(k)' \in Nat /\ Level(k)' <= full
      <3>1. Level(k) \in 0..full
        BY <2>1, LevelType DEF Paid, Level
      <3>2. (Level(k) \in 0..full)'
        <4>1. (k \in DOMAIN MapOf(k) => IsBucket(MapOf(k)[k], rate))' /\ now' \in Nat
          BY <1>2, <2>2 DEF Holds, Clocks
        <4>2. k \in DOMAIN MapOf(k)' => Refill(MapOf(k)'[k], now').tokens \in 0..full
          BY <2>1, <4>1, RefillBound DEF IsBucket
        <4>. QED BY <2>1, <4>2 DEF Level, LevelOf, RateOf
      <3>. QED BY <2>1, <3>1, <3>2
    <2>. HIDE DEF rate, full
    <2>4. CASE since'[k] = since[k] + 1 /\ now >= start /\ \E r \in Request : Allowed(r, k)
      <3>1. (since[k] + 1) * Minute = since[k] * Minute + Minute /\ since[k] * Minute \in Nat
        BY <2>1, Products
      <3>2. since[k] * Minute + Level(k) <= full + rate * (now - start)
        BY <2>1, <2>4 DEF Paid, rate, full
      <3>3. rate * (now - start) \in Nat
        BY <1>1, <2>1, <2>4, Products
      <3>4. (since[k] + 1) * Minute + Level(k)' <= full + rate * (now - start)
        BY <2>1, <2>2, <2>3, <2>4, <3>1, <3>2, <3>3
      <3>5. since'[k] * Minute + Level(k)' <= full + rate * (now' - start')
        BY <1>1, <2>2, <2>4, <3>4
      <3>. QED BY <1>1, <2>1, <2>2, <2>4, <3>5 DEF Paid, rate, full
    <2>5. CASE since'[k] = since[k]
      <3>1. CASE now < start
        <4>1. since[k] = 0
          BY <2>1, <3>1 DEF Paid
        <4>2. now' >= start => since'[k] * Minute + Level(k)' <= full + rate * (now' - start')
          <5>. SUFFICES ASSUME now' >= start
               PROVE  since'[k] * Minute + Level(k)' <= full + rate * (now' - start')
            OBVIOUS
          <5>1. now' = start
            BY <1>1, <2>1, <2>2, <3>1
          <5>2. rate * (now' - start') = 0 /\ since'[k] * Minute = 0
            BY <1>1, <2>1, <2>5, <4>1, <5>1
          <5>. QED BY <2>1, <2>3, <5>2
        <4>. QED BY <1>1, <2>1, <2>2, <2>5, <4>1, <4>2 DEF Paid, rate, full
      <3>2. CASE now >= start
        <4>1. since[k] * Minute + Level(k) <= full + rate * (now - start)
          BY <2>1, <3>2 DEF Paid, rate, full
        <4>2. since[k] * Minute \in Nat /\ rate * (now - start) \in Nat
          BY <1>1, <2>1, <3>2, Products
        <4>3. CASE now' = now
          <5>1. since'[k] * Minute + Level(k)' <= full + rate * (now' - start')
            BY <1>1, <2>1, <2>2, <2>3, <2>5, <4>1, <4>2, <4>3
          <5>. QED BY <1>1, <2>1, <2>2, <2>5, <3>2, <4>3, <5>1 DEF Paid, rate, full
        <4>4. CASE now' # now
          <5>1. rate * ((now + 1) - start) = rate * (now - start) + rate
            BY <1>1, <2>1, <3>2
          <5>2. since[k] * Minute + Level(k)' <= full + rate * ((now + 1) - start)
            BY <2>1, <2>2, <2>3, <4>1, <4>2, <4>4, <5>1
          <5>3. since'[k] * Minute + Level(k)' <= full + rate * (now' - start')
            BY <1>1, <2>2, <2>5, <4>4, <5>2
          <5>. QED BY <1>1, <2>1, <2>2, <2>5, <3>2, <4>4, <5>3 DEF Paid, rate, full
        <4>. QED BY <4>3, <4>4
      <3>. QED BY <1>1, <2>1, <3>1, <3>2
    <2>. QED BY <1>3, <2>4, <2>5
  <1>. QED BY <1>1, <1>2, <1>4, <1>5 DEF ObserverInv

\* In any interval an address or a source gets no more than a full bucket and what
\* flowed into it meanwhile, for any number of handlers and any sweeps.
THEOREM RateBound == OSpec => []RateIsBounded
  <1>1. OInit => ObserverInv
    <2>. SUFFICES ASSUME OInit PROVE ObserverInv
      OBVIOUS
    <2>1. Clocks /\ start \in Nat /\ since \in [Key -> Nat] /\ now = 0
      BY ObserverAssumption DEF OInit, Init, Clocks
    <2>2. ASSUME NEW k \in Key PROVE Paid(k)
      <3>1. k \notin DOMAIN MapOf(k) /\ since[k] = 0
        BY DEF OInit, Init, EmptyMap, MapOf
      <3>2. Level(k) = Capacity(RateOf(k)) /\ RateOf(k) \in Nat \ {0}
        BY <3>1, LimiterAssumption DEF Level, LevelOf, RateOf
      <3>3. Capacity(RateOf(k)) \in Nat /\ Minute \in Nat
        BY <3>2, CapacityType, BucketAssumption
      <3>4. now >= start => RateOf(k) * (now - start) = 0 /\ 0 * Minute = 0
        BY <2>1, <3>2, <3>3
      <3>. QED BY <3>1, <3>2, <3>3, <3>4 DEF Paid, Holds
    <2>. QED BY <2>1, <2>2 DEF ObserverInv
  <1>2. ObserverInv => RateIsBounded
    <2>. SUFFICES ASSUME ObserverInv, NEW k \in Key, now >= start
         PROVE  since[k] * Minute <= Capacity(RateOf(k)) + RateOf(k) * (now - start)
      BY DEF RateIsBounded
    <2>1. /\ since[k] * Minute + Level(k) <= Capacity(RateOf(k)) + RateOf(k) * (now - start)
          /\ Holds(MapOf(k), k, RateOf(k)) /\ since[k] \in Nat
          /\ now \in Nat /\ start \in Nat
      BY DEF ObserverInv, Paid, Clocks
    <2>2. RateOf(k) \in Nat \ {0} /\ Minute \in Nat
      BY LimiterAssumption, BucketAssumption DEF RateOf
    <2>3. Level(k) \in Nat /\ Capacity(RateOf(k)) \in Nat
      BY <2>1, <2>2, LevelType, CapacityType DEF Level
    <2>4. since[k] * Minute \in Nat /\ RateOf(k) * (now - start) \in Nat
      BY <2>1, <2>2, Products
    <2>. QED BY <2>1, <2>3, <2>4
  <1>. QED BY <1>1, <1>2, ObserverInductive, PTL DEF OSpec

-----------------------------------------------------------------------------
(***************************************************************************)
(* The times of requests that buckets keep.                                *)
(***************************************************************************)
\* No request is kept that is younger than the bucket's last use.
InOrder(b, rate) == IsBucket(b, rate) /\ b.times \in Seq(0..b.last)

\* Of the request times those within the window.
LEMMA InWindowType ==
    ASSUME NEW T, NEW times \in Seq(T)
    PROVE  InWindow(times, now) \in Seq(T)
  BY SelectType DEF InWindow

\* A new bucket is in order.
LEMMA NewInOrder ==
    ASSUME now \in Nat, NEW rate \in Nat \ {0}
    PROVE  InOrder(NewBucket(rate, now), rate)
  BY CapacityType DEF NewBucket, InOrder, IsBucket

\* So is the bucket a request is given.
LEMMA BucketOfInOrder ==
    ASSUME now \in Nat, NEW rate \in Nat \ {0}, NEW map, NEW k,
           k \in DOMAIN map => InOrder(map[k], rate)
    PROVE  InOrder(BucketOf(map, k, rate), rate)
  BY NewInOrder DEF BucketOf

\* Pruning leaves a bucket in order.
LEMMA PruneInOrder ==
    ASSUME now \in Nat, NEW rate \in Nat \ {0}, NEW b, InOrder(b, rate)
    PROVE  /\ InOrder(Prune(b, now), rate)
           /\ Prune(b, now).times = InWindow(b.times, now)
           /\ Prune(b, now).last = b.last
  <1>1. Prune(b, now).times = InWindow(b.times, now) /\ Prune(b, now).last = b.last
    BY DEF Prune, InOrder, IsBucket
  <1>2. InWindow(b.times, now) \in Seq(0..b.last)
    BY InWindowType DEF InOrder
  <1>. QED BY <1>1, <1>2, PruneType DEF InOrder

\* What try_consume does to the times, beside what it does to the tokens.
LEMMA TryConsumeTimes ==
    ASSUME now \in Nat, NEW rate \in Nat \ {0}, NEW b, InOrder(b, rate)
    PROVE  LET t == TryConsume(b, now)
           IN  /\ InOrder(t, rate) /\ t.last = now
               /\ b.times \in Seq(0..now)
               /\ Consumes(b, now) => t.times = Append(b.times, now)
               /\ ~ Consumes(b, now) => t.times = b.times
  <1>. DEFINE r == Refill(b, now)
              t == TryConsume(b, now)
  <1>1. IsBucket(t, rate) /\ t.last = now
    BY TryConsumeType DEF InOrder
  <1>2. r.times = b.times
    BY DEF Refill, InOrder, IsBucket
  <1>3. IsBucket(r, rate)
    BY RefillType DEF InOrder
  <1>. HIDE DEF r
  <1>4. /\ Consumes(b, now) => t.times = Append(b.times, now)
        /\ ~ Consumes(b, now) => t.times = b.times
    BY <1>2, <1>3 DEF TryConsume, Consumes, IsBucket, r
  <1>5. b.times \in Seq(0..now)
    <2>1. b.last \in 0..now
      BY DEF InOrder, IsBucket
    <2>2. 0..b.last \subseteq 0..now
      BY <2>1
    <2>. QED BY <2>2, WiderSequence DEF InOrder
  <1>. HIDE DEF t
  <1>6. t.times \in Seq(0..now)
    <2>1. now \in 0..now
      OBVIOUS
    <2>2. Append(b.times, now) \in Seq(0..now)
      BY <1>5, <2>1
    <2>. QED BY <1>4, <1>5, <2>2
  <1>. QED BY <1>1, <1>4, <1>5, <1>6 DEF InOrder, t

-----------------------------------------------------------------------------
(***************************************************************************)
(* What one step does to the recent requests of a key, in either map.      *)
(***************************************************************************)
OrderlyAt(map, k, rate) == k \in DOMAIN map => InOrder(map[k], rate)

\* The moment itself is recent.
LEMMA NowIsRecent == ASSUME now \in Nat PROVE now \in Recently(now)
  BY BucketAssumption DEF Recently

\* The bucket a request is given has the recent requests of its key, before and
\* after it is pruned.
LEMMA BucketOfRecent ==
    ASSUME now \in Nat, NEW rate \in Nat \ {0}, NEW map, NEW k, OrderlyAt(map, k, rate)
    PROVE  LET b == BucketOf(map, k, rate)
           IN  /\ InOrder(b, rate)
               /\ InWindow(b.times, now) = RecentOf(map, k)
               /\ Prune(b, now).times = RecentOf(map, k)
               /\ InWindow(Prune(b, now).times, now) = RecentOf(map, k)
  <1>. DEFINE b == BucketOf(map, k, rate)
  <1>1. InOrder(b, rate)
    BY BucketOfInOrder DEF OrderlyAt
  <1>2. InWindow(b.times, now) = RecentOf(map, k)
    <2>1. CASE k \in DOMAIN map
      BY <2>1 DEF BucketOf, RecentOf
    <2>2. CASE k \notin DOMAIN map
      <3>1. b.times = <<>>
        BY <2>2 DEF BucketOf, NewBucket
      <3>. QED BY <2>2, <3>1, SelectEmpty DEF InWindow, RecentOf
    <2>. QED BY <2>1, <2>2
  <1>. HIDE DEF b
  <1>3. b.times \in Seq(0..b.last)
    BY <1>1 DEF InOrder
  <1>4. Select(Select(b.times, Recently(now)), Recently(now))
          = Select(b.times, Recently(now) \cap Recently(now))
    BY <1>3, SelectTwice
  <1>5. InWindow(InWindow(b.times, now), now) = InWindow(b.times, now)
    BY <1>4 DEF InWindow
  <1>6. Prune(b, now).times = InWindow(b.times, now)
    BY <1>1, PruneInOrder
  <1>. QED BY <1>1, <1>2, <1>5, <1>6 DEF b

\* A token that is taken is a recent request.
LEMMA RecentAfterConsume ==
    ASSUME now \in Nat, NEW rate \in Nat \ {0}, NEW map, NEW k, NEW b, NEW map2,
           InOrder(b, rate), InWindow(b.times, now) = RecentOf(map, k),
           map2 = With(map, k, TryConsume(b, now))
    PROVE  /\ OrderlyAt(map2, k, rate)
           /\ Consumes(b, now) => RecentOf(map2, k) = Append(RecentOf(map, k), now)
           /\ ~ Consumes(b, now) => RecentOf(map2, k) = RecentOf(map, k)
  <1>. DEFINE t == TryConsume(b, now)
  <1>1. k \in DOMAIN map2 /\ map2[k] = t
    BY DEF With
  <1>2. /\ InOrder(t, rate) /\ b.times \in Seq(0..now)
        /\ Consumes(b, now) => t.times = Append(b.times, now)
        /\ ~ Consumes(b, now) => t.times = b.times
    BY TryConsumeTimes
  <1>. HIDE DEF t
  <1>3. RecentOf(map2, k) = InWindow(t.times, now)
    BY <1>1 DEF RecentOf
  <1>4. InWindow(Append(b.times, now), now) = Append(InWindow(b.times, now), now)
    <2>1. now \in 0..now
      OBVIOUS
    <2>. QED BY <1>2, <2>1, SelectAppend, NowIsRecent DEF InWindow
  <1>. QED BY <1>1, <1>2, <1>3, <1>4 DEF OrderlyAt

\* A bucket that is only pruned keeps what is recent.
LEMMA RecentAfterStore ==
    ASSUME NEW rate, NEW map, NEW k, NEW b, NEW map2,
           InOrder(b, rate), InWindow(b.times, now) = RecentOf(map, k),
           map2 = With(map, k, b)
    PROVE  OrderlyAt(map2, k, rate) /\ RecentOf(map2, k) = RecentOf(map, k)
  BY DEF With, OrderlyAt, RecentOf

\* The other keys' buckets are left alone.
LEMMA RecentOfOthers ==
    ASSUME NEW rate, NEW map, NEW k, NEW j, j # k, NEW b, NEW map2,
           map2 = With(map, j, b), OrderlyAt(map, k, rate)
    PROVE  OrderlyAt(map2, k, rate) /\ RecentOf(map2, k) = RecentOf(map, k)
  BY DEF With, OrderlyAt, RecentOf

\* A bucket that is stale has no recent requests, so that its eviction changes
\* nothing.
LEMMA RecentAfterSweep ==
    ASSUME now \in Nat, sweeper.at \in 0..now, NEW rate \in Nat \ {0}, NEW map, NEW k,
           NEW map2, map2 = Only(map, Fresh(map)), OrderlyAt(map, k, rate)
    PROVE  OrderlyAt(map2, k, rate) /\ RecentOf(map2, k) = RecentOf(map, k)
  <1>1. CASE k \in Fresh(map) \/ k \notin DOMAIN map
    BY <1>1 DEF Fresh, Only, OrderlyAt, RecentOf
  <1>2. CASE k \in DOMAIN map /\ k \notin Fresh(map)
    <2>. DEFINE b == map[k]
    <2>1. b.times \in Seq(0..b.last) /\ b.last \in 0..now
      BY <1>2 DEF OrderlyAt, InOrder, IsBucket
    <2>2. sweeper.at >= b.last + Stale
      BY <1>2, <2>1, LimiterAssumption DEF Fresh
    <2>3. (0..b.last) \cap Recently(now) = {}
      BY <2>1, <2>2, LimiterAssumption, BucketAssumption DEF Recently
    <2>4. InWindow(b.times, now) = <<>>
      BY <2>1, <2>3, SelectNone DEF InWindow
    <2>5. k \notin DOMAIN map2
      BY <1>2 DEF Only
    <2>. QED BY <1>2, <2>4, <2>5 DEF OrderlyAt, RecentOf
  <1>. QED BY <1>1, <1>2

\* The window moves.
LEMMA RecentAfterTick ==
    ASSUME now \in Nat, now' = now + 1, NEW rate \in Nat \ {0}, NEW map, NEW k,
           OrderlyAt(map, k, rate)
    PROVE  /\ OrderlyAt(map, k, rate)'
           /\ RecentOf(map, k)'
                = Select(RecentOf(map, k), {t \in 0..now : now + 1 - t < Window})
  <1>. DEFINE moved == {t \in 0..now : now + 1 - t < Window}
  <1>1. CASE k \notin DOMAIN map
    BY <1>1, SelectEmpty DEF OrderlyAt, RecentOf
  <1>2. CASE k \in DOMAIN map
    <2>. DEFINE times == map[k].times
    <2>1. times \in Seq(0..now)
      <3>1. times \in Seq(0..map[k].last) /\ map[k].last \in 0..now
        BY <1>2 DEF OrderlyAt, InOrder, IsBucket
      <3>2. 0..map[k].last \subseteq 0..now
        BY <3>1
      <3>. QED BY <3>1, <3>2, WiderSequence
    <2>2. Select(Select(times, Recently(now)), moved) = Select(times, Recently(now) \cap moved)
      BY <2>1, SelectTwice
    <2>3. (Recently(now) \cap moved) \cap (0..now) = Recently(now + 1) \cap (0..now)
      BY BucketAssumption DEF Recently
    <2>4. Select(times, Recently(now) \cap moved) = Select(times, Recently(now + 1))
      BY <2>1, <2>3, SelectSame
    <2>5. Recently(now)' = Recently(now + 1)
      BY DEF Recently
    <2>6. RecentOf(map, k)' = Select(times, Recently(now + 1))
      BY <1>2, <2>5 DEF RecentOf, InWindow
    <2>7. RecentOf(map, k) = Select(times, Recently(now))
      BY <1>2 DEF RecentOf, InWindow
    <2>8. OrderlyAt(map, k, rate)'
      BY <1>2 DEF OrderlyAt, InOrder, IsBucket
    <2>. QED BY <2>2, <2>4, <2>6, <2>7, <2>8
  <1>. QED BY <1>1, <1>2

\* In a moment exactly the rate flows in, up to a full bucket.
LEMMA LevelAtTick ==
    ASSUME now \in Nat, now' = now + 1, NEW rate \in Nat \ {0}, NEW map, NEW k,
           Holds(map, k, rate)
    PROVE  LevelOf(map, k, rate)'
             = IF LevelOf(map, k, rate) + rate <= Capacity(rate)
               THEN LevelOf(map, k, rate) + rate ELSE Capacity(rate)
  <1>0. Capacity(rate) \in Nat
    BY CapacityType
  <1>1. CASE k \notin DOMAIN map
    BY <1>0, <1>1 DEF LevelOf
  <1>2. CASE k \in DOMAIN map
    <2>. DEFINE b == map[k]
    <2>1. IsBucket(b, rate) /\ now - b.last \in Nat /\ b.tokens \in Nat
      BY <1>0, <1>2 DEF Holds, IsBucket
    <2>2. ((now + 1) - b.last) * rate = (now - b.last) * rate + rate
          /\ (now - b.last) * rate \in Nat
      <3>1. (now + 1) - b.last = (now - b.last) + 1
        BY <2>1 DEF IsBucket
      <3>. QED BY <2>1, <3>1, Products
    <2>3. Refill(b, now).tokens = Least(b.tokens + (now - b.last) * rate, Capacity(rate))
      BY <2>1, RefillTokens
    <2>4. Refill(b, now + 1).tokens = Least(b.tokens + ((now + 1) - b.last) * rate, Capacity(rate))
      BY <2>1, RefillTokens
    <2>5. Refill(b, now + 1).tokens
            = IF Refill(b, now).tokens + rate <= Capacity(rate)
              THEN Refill(b, now).tokens + rate ELSE Capacity(rate)
      BY <1>0, <2>1, <2>2, <2>3, <2>4 DEF Least
    <2>. QED BY <1>2, <2>5 DEF LevelOf
  <1>. QED BY <1>1, <1>2

-----------------------------------------------------------------------------
(***************************************************************************)
(* Type correctness.                                                       *)
(***************************************************************************)
Orderly(map, keys, rate) ==
    DOMAIN map \subseteq keys /\ \A k \in DOMAIN map : InOrder(map[k], rate)

LimiterInv ==
    /\ LockInv
    /\ Clocks
    /\ now <= MaxTime
    /\ ipLock \in Request \cup {Free}
    /\ Orderly(ipBuckets, IP, MaxRate)
    /\ Orderly(sourceBuckets, Source, MaxRatePerSource)
    /\ DOMAIN cooldowns \subseteq IP
    /\ \A ip \in DOMAIN cooldowns : cooldowns[ip] \in Nat
    /\ \A r \in Request : req[r].pc = "source" => req[r].url \in Url

\* A map stays in order when a bucket is stored in it that is.
LEMMA OrderlyWith ==
    ASSUME NEW map, NEW keys, NEW rate, Orderly(map, keys, rate),
           NEW k \in keys, NEW b, InOrder(b, rate)
    PROVE  Orderly(With(map, k, b), keys, rate)
  BY DEF Orderly, With

\* And when buckets are evicted.
LEMMA OrderlyOnly ==
    ASSUME NEW map, NEW keys, NEW rate, Orderly(map, keys, rate), NEW S \in SUBSET DOMAIN map
    PROVE  Orderly(Only(map, S), keys, rate)
  BY DEF Orderly, Only

\* And when time passes.
LEMMA OrderlyTick ==
    ASSUME now \in Nat, now' = now + 1, NEW map, NEW keys, NEW rate, Orderly(map, keys, rate)
    PROVE  Orderly(map, keys, rate)'
  BY DEF Orderly, InOrder, IsBucket

\* And when nothing happens to it.
LEMMA OrderlySame ==
    ASSUME now' = now, NEW map, NEW keys, NEW rate, Orderly(map, keys, rate)
    PROVE  Orderly(map, keys, rate)'
  BY DEF Orderly, InOrder, IsBucket

\* Where the requests are, with what they need there.
LEMMA UrlsStay ==
    ASSUME LimiterInv, [Next]_vars
    PROVE  \A r \in Request : req'[r].pc = "source" => req'[r].url \in Url
  <1>. USE DEF LimiterInv, LockInv
  <1>1. ASSUME NEW r \in Request, Answer(r)
        PROVE  \A q \in Request : req'[q].pc = "source" => req'[q].url \in Url
    BY <1>1, AnswerType
  <1>2. ASSUME NEW r \in Request, NEW pc \in PC, Goto(r, pc),
               pc = "source" => req[r].url \in Url
        PROVE  \A q \in Request : req'[q].pc = "source" => req'[q].url \in Url
    <2>1. req'[r].pc = pc /\ req'[r].url = req[r].url
      BY <1>2 DEF Goto, RequestState
    <2>. QED BY <1>2, <2>1, GotoType
  <1>3. ASSUME NEW r \in Request, NEW ip \in IP, NEW url \in Url \cup {NoUrl},
               Arrive(r, ip, url)
        PROVE  \A q \in Request : req'[q].pc = "source" => req'[q].url \in Url
    BY <1>3 DEF Arrive
  <1>4. ASSUME NEW r \in Request, Proceed(r) \/ Cancel(r)
        PROVE  \/ Answer(r)
               \/ \E pc \in PC : Goto(r, pc) /\ (pc = "source" => req[r].url \in Url)
    <2>1. req[r].url \in Url \cup {NoUrl}
      BY DEF RequestState
    <2>. QED BY <1>4, <2>1
         DEF Proceed, CheckCooldown, CheckBucket, ApplyCooldown, CheckSource, Cancel, PC
  <1>5. CASE req' = req
    BY <1>5
  <1>. QED BY <1>1, <1>2, <1>3, <1>4, <1>5
       DEF Next, Sweep, StartSweep, SweepIps, SweepSources, SweepCooldowns, Tick, vars

\* The invariant is inductive.
LEMMA LimiterInductive == LimiterInv /\ [Next]_vars => LimiterInv'
  <1>. SUFFICES ASSUME LimiterInv, [Next]_vars PROVE LimiterInv'
    OBVIOUS
  <1>. DEFINE CooldownsOK == /\ DOMAIN cooldowns \subseteq IP
                             /\ \A ip \in DOMAIN cooldowns : cooldowns[ip] \in Nat
              MapsOK == /\ Orderly(ipBuckets, IP, MaxRate)
                        /\ Orderly(sourceBuckets, Source, MaxRatePerSource)
              Rest == now <= MaxTime /\ ipLock \in Request \cup {Free} /\ MapsOK /\ CooldownsOK
  <1>1. LockInv' /\ Clocks' /\ Rest /\ now \in Nat
        /\ \A r \in Request : req'[r].pc = "source" => req'[r].url \in Url
    BY LockInductive, ClocksStay, UrlsStay DEF LimiterInv, Clocks
  <1>2. MaxRate \in Nat \ {0} /\ MaxRatePerSource \in Nat \ {0} /\ SourceOf \in [Url -> Source]
        /\ Cooldown \in Nat /\ MaxTime \in Nat
    BY LimiterAssumption
  <1>3. req \in [Request -> RequestState]
    BY DEF LimiterInv, LockInv
  <1>4. UNCHANGED <<now, ipBuckets, sourceBuckets>> => MapsOK'
    BY <1>1, OrderlySame
  <1>5. ASSUME NEW r \in Request, CheckBucket(r) PROVE Rest'
    <2>. DEFINE ip == req[r].ip
                b == Prune(BucketOf(ipBuckets, ip, MaxRate), now)
    <2>1. ip \in IP
      BY <1>3 DEF RequestState
    <2>2. InOrder(b, MaxRate)
      BY <1>1, <1>2, BucketOfInOrder, PruneInOrder DEF Orderly
    <2>3. InOrder(TryConsume(b, now), MaxRate)
      BY <1>1, <1>2, <2>2, TryConsumeTimes
    <2>4. \/ ipBuckets' = With(ipBuckets, ip, b)
          \/ ipBuckets' = With(ipBuckets, ip, TryConsume(b, now))
      BY <1>5 DEF CheckBucket
    <2>. HIDE DEF b, ip
    <2>5. Orderly(ipBuckets', IP, MaxRate)
      BY <1>1, <2>1, <2>2, <2>3, <2>4, OrderlyWith
    <2>6. now' = now /\ sourceBuckets' = sourceBuckets /\ cooldowns' = cooldowns
          /\ ipLock' \in Request \cup {Free}
      BY <1>1, <1>5 DEF CheckBucket
    <2>7. Orderly(ipBuckets, IP, MaxRate)'
      BY <2>5, <2>6 DEF Orderly, InOrder, IsBucket
    <2>8. Orderly(sourceBuckets, Source, MaxRatePerSource)'
      BY <1>1, <2>6, OrderlySame
    <2>. QED BY <1>1, <2>6, <2>7, <2>8
  <1>6. ASSUME NEW r \in Request, CheckSource(r) PROVE Rest'
    <2>. DEFINE source == SourceOf[req[r].url]
                b == BucketOf(sourceBuckets, source, MaxRatePerSource)
    <2>1. source \in Source
      BY <1>2, <1>6 DEF CheckSource, LimiterInv
    <2>2. InOrder(b, MaxRatePerSource)
      BY <1>1, <1>2, BucketOfInOrder DEF Orderly
    <2>3. InOrder(TryConsume(b, now), MaxRatePerSource)
      BY <1>1, <1>2, <2>2, TryConsumeTimes
    <2>4. sourceBuckets' = With(sourceBuckets, source, TryConsume(b, now))
      BY <1>6 DEF CheckSource
    <2>. HIDE DEF b, source
    <2>5. Orderly(sourceBuckets', Source, MaxRatePerSource)
      BY <1>1, <2>1, <2>3, <2>4, OrderlyWith
    <2>6. UNCHANGED <<now, ipBuckets, cooldowns, ipLock>>
      BY <1>6 DEF CheckSource
    <2>7. Orderly(sourceBuckets, Source, MaxRatePerSource)'
      BY <2>5, <2>6 DEF Orderly, InOrder, IsBucket
    <2>8. Orderly(ipBuckets, IP, MaxRate)'
      BY <1>1, <2>6, OrderlySame
    <2>. QED BY <1>1, <2>6, <2>7, <2>8
  <1>7. ASSUME NEW r \in Request, ApplyCooldown(r) PROVE Rest'
    <2>1. req[r].ip \in IP /\ now + Cooldown \in Nat
      BY <1>1, <1>2, <1>3 DEF RequestState
    <2>2. CooldownsOK'
      BY <1>1, <1>7, <2>1 DEF ApplyCooldown, With
    <2>. QED BY <1>1, <1>4, <1>7, <2>2 DEF ApplyCooldown
  <1>8. ASSUME SweepIps PROVE Rest'
    <2>1. Fresh(ipBuckets) \in SUBSET DOMAIN ipBuckets
      BY DEF Fresh
    <2>2. Orderly(ipBuckets', IP, MaxRate)
      BY <1>1, <1>8, <2>1, OrderlyOnly DEF SweepIps
    <2>3. UNCHANGED <<now, sourceBuckets, cooldowns, ipLock>>
      BY <1>8 DEF SweepIps
    <2>4. Orderly(ipBuckets, IP, MaxRate)'
      BY <2>2, <2>3 DEF Orderly, InOrder, IsBucket
    <2>5. Orderly(sourceBuckets, Source, MaxRatePerSource)'
      BY <1>1, <2>3, OrderlySame
    <2>. QED BY <1>1, <2>3, <2>4, <2>5
  <1>9. ASSUME SweepSources PROVE Rest'
    <2>1. Fresh(sourceBuckets) \in SUBSET DOMAIN sourceBuckets
      BY DEF Fresh
    <2>2. Orderly(sourceBuckets', Source, MaxRatePerSource)
      BY <1>1, <1>9, <2>1, OrderlyOnly DEF SweepSources
    <2>3. UNCHANGED <<now, ipBuckets, cooldowns, ipLock>>
      BY <1>9 DEF SweepSources
    <2>4. Orderly(sourceBuckets, Source, MaxRatePerSource)'
      BY <2>2, <2>3 DEF Orderly, InOrder, IsBucket
    <2>5. Orderly(ipBuckets, IP, MaxRate)'
      BY <1>1, <2>3, OrderlySame
    <2>. QED BY <1>1, <2>3, <2>4, <2>5
  <1>10. ASSUME SweepCooldowns PROVE Rest'
    <2>1. CooldownsOK'
      BY <1>1, <1>10 DEF SweepCooldowns, Only
    <2>. QED BY <1>1, <1>4, <1>10, <2>1 DEF SweepCooldowns
  <1>11. ASSUME Tick PROVE Rest'
    <2>1. now' = now + 1 /\ now' <= MaxTime
          /\ UNCHANGED <<ipBuckets, sourceBuckets, cooldowns, ipLock>>
      BY <1>1, <1>2, <1>11 DEF Tick
    <2>2. MapsOK'
      BY <1>1, <2>1, OrderlyTick
    <2>. QED BY <1>1, <2>1, <2>2
  <1>12. ASSUME NEW r \in Request, Cancel(r) PROVE Rest'
    BY <1>1, <1>4, <1>12 DEF Cancel
  <1>13. ASSUME UNCHANGED <<now, ipBuckets, sourceBuckets, cooldowns, ipLock>> PROVE Rest'
    BY <1>1, <1>4, <1>13
  <1>14. Rest'
    BY <1>5, <1>6, <1>7, <1>8, <1>9, <1>10, <1>11, <1>12, <1>13
    DEF Next, Proceed, Arrive, CheckCooldown, Sweep, StartSweep, vars
  <1>. QED BY <1>1, <1>14 DEF LimiterInv

LEMMA LimiterInit == Init => LimiterInv
  BY NoRequestType, NamesAssumption, LimiterAssumption
  DEF Init, EmptyMap, LimiterInv, LockInv, LockHeldToApply, Clocks, Orderly

\* The maps, the lock, the requests and the sweeper are what they should be, for
\* any addresses, sources, rates and numbers of requests.
THEOREM LimiterTypeCorrect == Spec => []TypeOK
  <1>1. LimiterInv => TypeOK
    <2>. SUFFICES ASSUME LimiterInv PROVE TypeOK
      OBVIOUS
    <2>1. ASSUME NEW b, NEW rate \in Nat \ {0}, InOrder(b, rate) PROVE b \in Bucket(rate)
      <3>1. b.times \in Seq(0..now)
        <4>1. 0..b.last \subseteq 0..now
          BY <2>1 DEF InOrder, IsBucket, LimiterInv, Clocks
        <4>. QED BY <2>1, <4>1, WiderSequence DEF InOrder
      <3>. QED BY <2>1, <3>1 DEF InOrder, IsBucket, Bucket
    <2>2. MaxRate \in Nat \ {0} /\ MaxRatePerSource \in Nat \ {0}
      BY LimiterAssumption
    <2>3. /\ \A ip \in DOMAIN ipBuckets : ipBuckets[ip] \in Bucket(MaxRate)
          /\ \A s \in DOMAIN sourceBuckets : sourceBuckets[s] \in Bucket(MaxRatePerSource)
      BY <2>1, <2>2 DEF LimiterInv, Orderly
    <2>. QED BY <2>3, LimiterAssumption DEF TypeOK, LimiterInv, LockInv, Clocks, Orderly
  <1>. QED BY <1>1, LimiterInit, LimiterInductive, PTL DEF Spec

-----------------------------------------------------------------------------
(***************************************************************************)
(* What one step does to the levels and recent requests of all keys of a   *)
(* map.                                                                    *)
(***************************************************************************)
\* All keys are worth the same in both maps.
SameWorth(map, map2, keys, rate) ==
    \A k \in keys : /\ LevelOf(map2, k, rate) = LevelOf(map, k, rate)
                    /\ RecentOf(map2, k) = RecentOf(map, k)

\* The key j had a token and has it no more; the others are worth the same.
TokenTaken(map, map2, j, keys, rate) ==
    /\ LevelOf(map, j, rate) >= Minute
    /\ LevelOf(map2, j, rate) = LevelOf(map, j, rate) - Minute
    /\ RecentOf(map2, j) = Append(RecentOf(map, j), now)
    /\ SameWorth(map, map2, keys \ {j}, rate)

\* A map in order holds buckets.
LEMMA OrderlyHolds ==
    ASSUME NEW map, NEW keys, NEW rate, Orderly(map, keys, rate), NEW k
    PROVE  OrderlyAt(map, k, rate) /\ Holds(map, k, rate)
  BY DEF Orderly, OrderlyAt, Holds, InOrder

\* A request takes a token of its key, if there is one.
LEMMA WorthAfterConsume ==
    ASSUME now \in Nat, NEW rate \in Nat \ {0}, NEW map, NEW keys, Orderly(map, keys, rate),
           NEW j \in keys, NEW b, InOrder(b, rate),
           Refill(b, now).tokens = LevelOf(map, j, rate),
           InWindow(b.times, now) = RecentOf(map, j),
           NEW map2, map2 = With(map, j, TryConsume(b, now))
    PROVE  /\ ~ Consumes(b, now) => SameWorth(map, map2, keys, rate)
           /\ Consumes(b, now) => TokenTaken(map, map2, j, keys, rate)
  <1>1. Holds(map, j, rate) /\ IsBucket(b, rate)
    BY OrderlyHolds DEF InOrder
  <1>2. /\ Consumes(b, now) => LevelOf(map2, j, rate) + Minute = LevelOf(map, j, rate)
        /\ ~ Consumes(b, now) => LevelOf(map2, j, rate) = LevelOf(map, j, rate)
        /\ Holds(map2, j, rate)
    BY <1>1, LevelAfterConsume
  <1>3. /\ Consumes(b, now) => RecentOf(map2, j) = Append(RecentOf(map, j), now)
        /\ ~ Consumes(b, now) => RecentOf(map2, j) = RecentOf(map, j)
    BY RecentAfterConsume
  <1>4. ASSUME NEW k \in keys \ {j}
        PROVE  /\ LevelOf(map2, k, rate) = LevelOf(map, k, rate)
               /\ RecentOf(map2, k) = RecentOf(map, k)
    BY OrderlyHolds, LevelOfOthers, RecentOfOthers
  <1>5. LevelOf(map, j, rate) \in Nat /\ LevelOf(map2, j, rate) \in Nat /\ Minute \in Nat
    BY <1>1, <1>2, LevelType, CapacityType, BucketAssumption
  <1>6. Consumes(b, now) => LevelOf(map, j, rate) >= Minute
                            /\ LevelOf(map2, j, rate) = LevelOf(map, j, rate) - Minute
    BY <1>2, <1>5
  <1>. QED BY <1>2, <1>3, <1>4, <1>6 DEF SameWorth, TokenTaken

\* A request that is a burst only prunes the bucket of its key.
LEMMA WorthAfterStore ==
    ASSUME NEW rate, NEW map, NEW keys, Orderly(map, keys, rate),
           NEW j, NEW b, InOrder(b, rate),
           Refill(b, now).tokens = LevelOf(map, j, rate),
           InWindow(b.times, now) = RecentOf(map, j),
           NEW map2, map2 = With(map, j, b)
    PROVE  SameWorth(map, map2, keys, rate)
  <1>1. ASSUME NEW k \in keys, k # j
        PROVE  /\ LevelOf(map2, k, rate) = LevelOf(map, k, rate)
               /\ RecentOf(map2, k) = RecentOf(map, k)
    BY <1>1, OrderlyHolds, LevelOfOthers, RecentOfOthers
  <1>2. IsBucket(b, rate)
    BY DEF InOrder
  <1>3. LevelOf(map2, j, rate) = LevelOf(map, j, rate)
    BY <1>2, LevelAfterStore
  <1>4. RecentOf(map2, j) = RecentOf(map, j)
    BY RecentAfterStore
  <1>. QED BY <1>1, <1>3, <1>4 DEF SameWorth

\* Eviction cannot be noticed.
LEMMA WorthAfterSweep ==
    ASSUME now \in Nat, sweeper.at \in 0..now, NEW rate \in Nat \ {0}, NEW map, NEW keys,
           Orderly(map, keys, rate)
    PROVE  SameWorth(map, Only(map, Fresh(map)), keys, rate)
  BY OrderlyHolds, LevelAfterSweep, RecentAfterSweep DEF SameWorth

-----------------------------------------------------------------------------
(***************************************************************************)
(* The addresses are burst-limited.                                        *)
(***************************************************************************)
\* The values of the refinement mapping.
IpLevels == [ip \in IP |-> LevelOf(ipBuckets, ip, MaxRate)]
IpRecents == [ip \in IP |-> RecentOf(ipBuckets, ip)]
IpLockouts == [ip \in IP |-> LockoutOf(ip)]
IpDetected == [ip \in IP |-> ipLock # Free /\ req[ipLock].ip = ip]

\* What is worth the same at the same moment is the same to the abstract limiter.
LEMMA IpWorth ==
    ASSUME now' = now, SameWorth(ipBuckets, ipBuckets', IP, MaxRate)
    PROVE  IpLevels' = IpLevels /\ IpRecents' = IpRecents
  BY DEF IpLevels, IpRecents, SameWorth, LevelOf, RecentOf

\* Cooldowns that stay are the same lockouts.
LEMMA LockoutsStay ==
    ASSUME now' = now, cooldowns' = cooldowns
    PROVE  IpLockouts' = IpLockouts
  BY DEF IpLockouts, LockoutOf, InCooldown

\* A burst is detected as long as the request that did holds the lock.
LEMMA DetectedStays ==
    ASSUME LimiterInv, ipLock' = ipLock, NEW r, ipLock # r,
           \A q \in Request \ {r} : req'[q] = req[q]
    PROVE  IpDetected' = IpDetected
  BY DEF IpDetected, LimiterInv

\* A step that changes neither of the four is none of the abstract limiter.
LEMMA IpStutter ==
    ASSUME now' = now, IpLevels' = IpLevels, IpRecents' = IpRecents,
           IpLockouts' = IpLockouts, IpDetected' = IpDetected
    PROVE  UNCHANGED IpView!lvars
  BY DEF IpView!lvars, IpLevels, IpRecents, IpLockouts, IpDetected

\* What the abstract limiter selects.
LEMMA IpSelect == ASSUME NEW s, NEW S PROVE IpView!Select(s, S) = Select(s, S)
  BY DEF IpView!Select, Select

\* A request whose address is in a burst is a detection; another one that gets a
\* token of its address is a grant; and a refused one is nothing.
LEMMA CheckBucketMaps ==
    ASSUME LimiterInv, LimiterInv', NEW r \in Request, CheckBucket(r)
    PROVE  IpView!LimitNext \/ UNCHANGED IpView!lvars
  <1>1. /\ now \in Nat /\ now' = now /\ MaxRate \in Nat \ {0}
        /\ Orderly(ipBuckets, IP, MaxRate) /\ req \in [Request -> RequestState]
    BY LimiterAssumption DEF LimiterInv, LockInv, Clocks, CheckBucket
  <1>2. PICK ip \in IP : ip = req[r].ip
    BY <1>1 DEF RequestState
  <1>. DEFINE a == BucketOf(ipBuckets, ip, MaxRate)
              b == Prune(a, now)
  <1>3. /\ InOrder(a, MaxRate) /\ b.times = RecentOf(ipBuckets, ip)
        /\ InWindow(b.times, now) = RecentOf(ipBuckets, ip)
        /\ Refill(a, now).tokens = LevelOf(ipBuckets, ip, MaxRate)
    BY <1>1, BucketOfRecent, BucketOfType, OrderlyHolds
  <1>4. /\ InOrder(b, MaxRate) /\ b.rate = MaxRate
        /\ Refill(b, now).tokens = LevelOf(ipBuckets, ip, MaxRate)
    <2>1. InOrder(b, MaxRate)
      BY <1>1, <1>3, PruneInOrder
    <2>2. Refill(b, now).tokens = LevelOf(ipBuckets, ip, MaxRate)
      BY <1>1, <1>3, PruneType DEF InOrder
    <2>. QED BY <2>1, <2>2 DEF InOrder, IsBucket
  <1>5. ipLock = Free /\ Free \notin Request /\ IpLockouts' = IpLockouts
        /\ IpDetected = [k \in IP |-> FALSE]
    BY <1>1, NamesAssumption, LockoutsStay DEF CheckBucket, IpDetected
  <1>6. CASE DetectsBurst(b, now) /\ ipBuckets' = With(ipBuckets, ip, b)
             /\ ipLock' = r /\ Goto(r, "apply")
    <2>. HIDE DEF a, b
    <2>1. SameWorth(ipBuckets, ipBuckets', IP, MaxRate)
      BY <1>1, <1>3, <1>4, <1>6, WorthAfterStore
    <2>2. IpLevels' = IpLevels /\ IpRecents' = IpRecents
      BY <1>1, <2>1, IpWorth
    <2>3. req'[r].ip = ip
      BY <1>1, <1>2, <1>6 DEF Goto, RequestState
    <2>4. IpDetected' = [IpDetected EXCEPT ![ip] = TRUE]
      BY <1>2, <1>5, <1>6, <2>3 DEF IpDetected
    <2>5. Len(IpRecents[ip]) > BurstThreshold(MaxRate)
      BY <1>2, <1>3, <1>4, <1>6 DEF DetectsBurst, IpRecents
    <2>6. IpView!Detect(ip)
      BY <1>1, <1>5, <2>2, <2>4, <2>5
      DEF IpView!Detect, IpLevels, IpRecents, IpLockouts, IpDetected
    <2>. QED BY <1>2, <2>6 DEF IpView!LimitNext
  <1>7. CASE ~ DetectsBurst(b, now) /\ ipBuckets' = With(ipBuckets, ip, TryConsume(b, now))
             /\ ipLock' = ipLock
    <2>. HIDE DEF a, b
    <2>1. IpDetected' = IpDetected
      BY <1>5, <1>7 DEF IpDetected
    <2>2. CASE ~ Consumes(b, now)
      <3>1. SameWorth(ipBuckets, ipBuckets', IP, MaxRate)
        BY <1>1, <1>2, <1>3, <1>4, <1>7, <2>2, WorthAfterConsume
      <3>. QED BY <1>1, <1>5, <2>1, <3>1, IpWorth, IpStutter
    <2>3. CASE Consumes(b, now)
      <3>1. TokenTaken(ipBuckets, ipBuckets', ip, IP, MaxRate)
        BY <1>1, <1>3, <1>4, <1>7, <2>3, WorthAfterConsume
      <3>2. /\ IpLevels[ip] >= Minute /\ ~ IpDetected[ip]
            /\ IpLevels' = [IpLevels EXCEPT ![ip] = @ - Minute]
        BY <1>1, <1>2, <1>5, <3>1 DEF IpLevels, TokenTaken, SameWorth, LevelOf
      <3>3. IpRecents' = [IpRecents EXCEPT ![ip] = Append(@, now)]
        BY <1>1, <1>2, <3>1 DEF IpRecents, TokenTaken, SameWorth, RecentOf
      <3>4. Len(IpRecents[ip]) <= BurstThreshold(MaxRate)
        <4>1. Len(RecentOf(ipBuckets, ip)) \in Nat
          <5>1. RecentOf(ipBuckets, ip) \in Seq(0..b.last)
            BY <1>3, <1>4 DEF InOrder
          <5>. QED BY <5>1
        <4>2. BurstThreshold(MaxRate) \in Nat
          BY <1>1, BucketAssumption DEF BurstThreshold, Greatest
        <4>3. ~ (Len(RecentOf(ipBuckets, ip)) > BurstThreshold(MaxRate))
          BY <1>3, <1>4, <1>7 DEF DetectsBurst
        <4>. QED BY <1>2, <4>1, <4>2, <4>3 DEF IpRecents
      <3>5. IpView!Grant(ip)
        BY <1>1, <1>5, <2>1, <3>2, <3>3, <3>4
        DEF IpView!Grant, IpLevels, IpRecents, IpLockouts, IpDetected
      <3>. QED BY <1>2, <3>5 DEF IpView!LimitNext
    <2>. QED BY <2>2, <2>3
  <1>. QED BY <1>2, <1>6, <1>7 DEF CheckBucket

\* A cooldown is a lockout.
LEMMA ApplyCooldownMaps ==
    ASSUME LimiterInv, NEW r \in Request, ApplyCooldown(r)
    PROVE  IpView!LimitNext
  <1>1. /\ now \in Nat /\ now' = now /\ ipBuckets' = ipBuckets
        /\ Orderly(ipBuckets, IP, MaxRate) /\ req \in [Request -> RequestState]
        /\ ipLock = r /\ ipLock' = Free /\ r # Free
        /\ cooldowns' = With(cooldowns, req[r].ip, now + Cooldown)
    BY NamesAssumption
    DEF LimiterInv, LockInv, LockHeldToApply, Clocks, ApplyCooldown
  <1>2. PICK ip \in IP : ip = req[r].ip
    BY <1>1 DEF RequestState
  <1>3. IpLevels' = IpLevels /\ IpRecents' = IpRecents
    BY <1>1, IpWorth DEF SameWorth
  <1>4. IpDetected[ip] /\ IpDetected' = [IpDetected EXCEPT ![ip] = FALSE]
    BY <1>1, <1>2 DEF IpDetected
  <1>5. IpLockouts' = [IpLockouts EXCEPT ![ip] = Cooldown]
    <2>1. LockoutOf(ip)' = Cooldown
      BY <1>1, <1>2, LimiterAssumption DEF LockoutOf, InCooldown, With
    <2>2. \A k \in IP \ {ip} : LockoutOf(k)' = LockoutOf(k)
      BY <1>1, <1>2 DEF LockoutOf, InCooldown, With
    <2>. QED BY <1>2, <2>1, <2>2 DEF IpLockouts
  <1>6. IpView!LockOut(ip)
    BY <1>1, <1>3, <1>4, <1>5
    DEF IpView!LockOut, IpLevels, IpRecents, IpLockouts, IpDetected
  <1>. QED BY <1>2, <1>6 DEF IpView!LimitNext

\* A client that goes away while its cooldown is applied avoids the lockout.
LEMMA CancelMaps ==
    ASSUME LimiterInv, NEW r \in Request, Cancel(r)
    PROVE  IpView!LimitNext \/ UNCHANGED IpView!lvars
  <1>1. /\ now' = now /\ ipBuckets' = ipBuckets /\ cooldowns' = cooldowns
        /\ req \in [Request -> RequestState] /\ r # Free
        /\ \A q \in Request \ {r} : req'[q] = req[q]
        /\ ipLock' = IF ipLock = r THEN Free ELSE ipLock
    BY NamesAssumption, AnswerType DEF LimiterInv, LockInv, Cancel
  <1>2. PICK ip \in IP : ip = req[r].ip
    BY <1>1 DEF RequestState
  <1>3. IpLevels' = IpLevels /\ IpRecents' = IpRecents /\ IpLockouts' = IpLockouts
    BY <1>1, IpWorth, LockoutsStay DEF SameWorth
  <1>4. CASE ipLock # r
    BY <1>1, <1>3, <1>4, DetectedStays, IpStutter
  <1>5. CASE ipLock = r
    <2>1. IpDetected[ip] /\ IpDetected' = [IpDetected EXCEPT ![ip] = FALSE]
      BY <1>1, <1>2, <1>5 DEF IpDetected
    <2>2. IpView!LockOut(ip)
      BY <1>1, <1>3, <2>1 DEF IpView!LockOut, IpLevels, IpRecents, IpLockouts, IpDetected
    <2>. QED BY <1>2, <2>2 DEF IpView!LimitNext
  <1>. QED BY <1>4, <1>5

\* Time passes for both.
LEMMA TickMaps ==
    ASSUME LimiterInv, Tick
    PROVE  IpView!PassTime
  <1>1. /\ now \in Nat /\ now' = now + 1 /\ MaxRate \in Nat \ {0}
        /\ UNCHANGED <<ipBuckets, cooldowns, ipLock, req>>
        /\ Orderly(ipBuckets, IP, MaxRate)
        /\ \A ip \in DOMAIN cooldowns : cooldowns[ip] \in Nat
    BY LimiterAssumption DEF LimiterInv, Clocks, Tick
  <1>2. IpLevels' = [ip \in IP |-> IF IpLevels[ip] + MaxRate <= MaxRate * Minute
                                   THEN IpLevels[ip] + MaxRate ELSE MaxRate * Minute]
    <2>1. ASSUME NEW ip \in IP
          PROVE  LevelOf(ipBuckets, ip, MaxRate)'
                   = IF LevelOf(ipBuckets, ip, MaxRate) + MaxRate <= MaxRate * Minute
                     THEN LevelOf(ipBuckets, ip, MaxRate) + MaxRate ELSE MaxRate * Minute
      BY <1>1, OrderlyHolds, LevelAtTick DEF Capacity, Token
    <2>. QED BY <1>1, <2>1 DEF IpLevels, LevelOf
  <1>3. IpRecents' = [ip \in IP |-> Select(IpRecents[ip], {t \in 0..now : now + 1 - t < Window})]
    <2>1. ASSUME NEW ip \in IP
          PROVE  RecentOf(ipBuckets, ip)'
                   = Select(RecentOf(ipBuckets, ip), {t \in 0..now : now + 1 - t < Window})
      BY <1>1, OrderlyHolds, RecentAfterTick
    <2>. QED BY <1>1, <2>1 DEF IpRecents, RecentOf
  <1>4. IpLockouts' = [ip \in IP |-> IF IpLockouts[ip] > 0 THEN IpLockouts[ip] - 1 ELSE 0]
    BY <1>1 DEF IpLockouts, LockoutOf, InCooldown
  <1>5. IpDetected' = IpDetected
    BY <1>1 DEF IpDetected
  <1>. QED BY <1>1, <1>2, <1>3, <1>4, <1>5, IpSelect
       DEF IpView!PassTime, IpView!Full, IpLevels, IpRecents, IpLockouts, IpDetected

\* Every other step is none of the abstract limiter: nothing that a sweep evicts is
\* missed, nor a cooldown that is over.
LEMMA OtherStepsMap ==
    ASSUME LimiterInv, LimiterInv',
           \/ \E r \in Request, ip \in IP, url \in Url \cup {NoUrl} : Arrive(r, ip, url)
           \/ \E r \in Request : CheckCooldown(r) \/ CheckSource(r)
           \/ Sweep
           \/ UNCHANGED vars
    PROVE  UNCHANGED IpView!lvars
  <1>1. /\ now \in Nat /\ now' = now /\ MaxRate \in Nat \ {0} /\ ipLock' = ipLock
        /\ sweeper.at \in 0..now /\ Orderly(ipBuckets, IP, MaxRate)
        /\ req \in [Request -> RequestState] /\ ipLock \in Request \cup {Free}
    BY LimiterAssumption
    DEF LimiterInv, LockInv, Clocks, Arrive, CheckCooldown, CheckSource, Sweep, StartSweep,
        SweepIps, SweepSources, SweepCooldowns, vars
  <1>2. IpLevels' = IpLevels /\ IpRecents' = IpRecents
    <2>1. ipBuckets' = ipBuckets \/ ipBuckets' = Only(ipBuckets, Fresh(ipBuckets))
      BY DEF Arrive, CheckCooldown, CheckSource, Sweep, StartSweep, SweepIps, SweepSources,
             SweepCooldowns, vars
    <2>2. SameWorth(ipBuckets, ipBuckets', IP, MaxRate)
      BY <1>1, <2>1, WorthAfterSweep DEF SameWorth
    <2>. QED BY <1>1, <2>2, IpWorth
  <1>3. IpLockouts' = IpLockouts
    <2>1. CASE cooldowns' = cooldowns
      BY <1>1, <2>1, LockoutsStay
    <2>2. CASE SweepCooldowns
      <3>1. cooldowns' = Only(cooldowns, {ip \in DOMAIN cooldowns : sweeper.at < cooldowns[ip]})
        BY <2>2 DEF SweepCooldowns
      <3>2. \A ip \in DOMAIN cooldowns : cooldowns[ip] \in Nat
        BY DEF LimiterInv
      <3>3. ASSUME NEW ip \in IP PROVE LockoutOf(ip)' = LockoutOf(ip)
        BY <1>1, <3>1, <3>2 DEF LockoutOf, InCooldown, Only
      <3>. QED BY <3>3 DEF IpLockouts
    <2>. QED BY <2>1, <2>2
         DEF Arrive, CheckCooldown, CheckSource, Sweep, StartSweep, SweepIps, SweepSources, vars
  <1>4. IpDetected' = IpDetected
    <2>1. CASE req' = req
      BY <1>1, <2>1 DEF IpDetected
    <2>2. ASSUME NEW r \in Request, ipLock # r, \A q \in Request \ {r} : req'[q] = req[q]
          PROVE  IpDetected' = IpDetected
      BY <1>1, <2>2, DetectedStays
    <2>3. ASSUME NEW r \in Request, NEW ip \in IP, NEW url \in Url \cup {NoUrl},
                 Arrive(r, ip, url)
          PROVE  ipLock # r /\ \A q \in Request \ {r} : req'[q] = req[q]
      BY <1>1, <2>3 DEF Arrive, LimiterInv, LockInv, LockHeldToApply
    <2>4. ASSUME NEW r \in Request, CheckCooldown(r) \/ CheckSource(r)
          PROVE  ipLock # r /\ \A q \in Request \ {r} : req'[q] = req[q]
      <3>1. Answer(r) \/ Goto(r, "bucket")
        BY <2>4 DEF CheckCooldown, CheckSource
      <3>2. req[r].pc # "apply"
        BY <2>4 DEF CheckCooldown, CheckSource
      <3>3. "bucket" \in PC
        BY DEF PC
      <3>4. \A q \in Request \ {r} : req'[q] = req[q]
        BY <1>1, <3>1, <3>3, AnswerType, GotoType
      <3>. QED BY <3>2, <3>4 DEF LimiterInv, LockInv, LockHeldToApply
    <2>. QED BY <2>1, <2>2, <2>3, <2>4
         DEF Sweep, StartSweep, SweepIps, SweepSources, SweepCooldowns, vars
  <1>. QED BY <1>1, <1>2, <1>3, <1>4, IpStutter

\* Every address is limited as by one token bucket with one burst detection that is
\* always there, for any number of addresses and requests, any rates and any sweeps.
THEOREM IpRefinement == Spec => IpsAreBurstLimited
  <1>1. Init => IpView!LimitInit
    <2>. SUFFICES ASSUME Init PROVE IpView!LimitInit
      OBVIOUS
    <2>1. IpLevels = [ip \in IP |-> MaxRate * Minute] /\ IpRecents = [ip \in IP |-> <<>>]
      BY DEF Init, EmptyMap, IpLevels, IpRecents, LevelOf, RecentOf, Capacity, Token
    <2>2. IpLockouts = [ip \in IP |-> 0] /\ IpDetected = [ip \in IP |-> FALSE]
      BY DEF Init, EmptyMap, IpLockouts, LockoutOf, InCooldown, IpDetected
    <2>. QED BY <2>1, <2>2
         DEF Init, IpView!LimitInit, IpView!Full, IpLevels, IpRecents, IpLockouts, IpDetected
  <1>2. LimiterInv /\ LimiterInv' /\ [Next]_vars => [IpView!LimitNext]_(IpView!lvars)
    <2>. SUFFICES ASSUME LimiterInv, LimiterInv', [Next]_vars
                  PROVE  IpView!LimitNext \/ UNCHANGED IpView!lvars
      OBVIOUS
    <2>1. ASSUME NEW r \in Request, Proceed(r) \/ Cancel(r)
          PROVE  IpView!LimitNext \/ UNCHANGED IpView!lvars
      BY <2>1, CheckBucketMaps, ApplyCooldownMaps, CancelMaps, OtherStepsMap DEF Proceed
    <2>2. CASE Tick
      BY <2>2, TickMaps DEF IpView!LimitNext
    <2>. QED BY <2>1, <2>2, OtherStepsMap DEF Next
  <1>. QED BY <1>1, <1>2, LimiterInit, LimiterInductive, PTL
       DEF Spec, IpsAreBurstLimited, IpView!LimitSpec

-----------------------------------------------------------------------------
(***************************************************************************)
(* The sources.  Their buckets are never pruned, so that the requests they *)
(* keep are accounted for: those since any time took no more tokens than a *)
(* full bucket and what flowed in since.                                   *)
(***************************************************************************)
From(t) == {u \in Nat : u >= t}

Afforded(b, rate) ==
    \A t \in 0..b.last :
        Len(Select(b.times, From(t))) * Minute + b.tokens
            <= Capacity(rate) + rate * (b.last - t)

SourcesInv ==
    /\ LimiterInv
    /\ \A s \in DOMAIN sourceBuckets : Afforded(sourceBuckets[s], MaxRatePerSource)

\* A new bucket has granted nothing.
LEMMA NewAfforded ==
    ASSUME now \in Nat, NEW rate \in Nat \ {0}
    PROVE  Afforded(NewBucket(rate, now), rate)
  <1>1. /\ NewBucket(rate, now).times = <<>> /\ NewBucket(rate, now).last = now
        /\ NewBucket(rate, now).tokens = Capacity(rate)
    BY DEF NewBucket
  <1>2. ASSUME NEW t \in 0..now
        PROVE  Len(Select(<<>>, From(t))) * Minute + Capacity(rate)
                  <= Capacity(rate) + rate * (now - t)
    <2>1. Len(Select(<<>>, From(t))) * Minute = 0
      BY SelectEmpty, BucketAssumption
    <2>2. rate * (now - t) \in Nat /\ Capacity(rate) \in Nat
      BY CapacityType, Products
    <2>. QED BY <2>1, <2>2
  <1>. QED BY <1>1, <1>2 DEF Afforded

\* A token that is taken was paid for by what was there or flowed in.
LEMMA ConsumeAfforded ==
    ASSUME now \in Nat, NEW rate \in Nat \ {0}, NEW b, InOrder(b, rate), Afforded(b, rate)
    PROVE  Afforded(TryConsume(b, now), rate)
  <1>. DEFINE c == TryConsume(b, now)
              full == Capacity(rate)
              level == Refill(b, now).tokens
              flow == (now - b.last) * rate
  <1>1. /\ IsBucket(b, rate) /\ b.times \in Seq(0..b.last)
        /\ b.last \in 0..now /\ b.tokens \in Nat /\ full \in Nat /\ Minute \in Nat \ {0}
    BY CapacityType, BucketAssumption DEF InOrder, IsBucket
  <1>2. /\ c.last = now /\ b.times \in Seq(0..now)
        /\ Consumes(b, now) => c.times = Append(b.times, now) /\ c.tokens + Minute = level
        /\ ~ Consumes(b, now) => c.times = b.times /\ c.tokens = level
    BY <1>1, TryConsumeTimes, TryConsumeType
  <1>3. level = Least(b.tokens + flow, full) /\ flow \in Nat
    BY <1>1, RefillTokens, Products
  <1>. HIDE DEF c, full, level
  <1>4. level \in Nat /\ level <= full /\ level <= b.tokens + flow
    <2>. HIDE DEF flow
    <2>. QED BY <1>1, <1>3 DEF Least
  <1>5. c.tokens \in Int
    <2>1. IsBucket(TryConsume(b, now), rate)
      BY <1>1, TryConsumeType
    <2>. QED BY <2>1 DEF IsBucket, c
  <1>6. ASSUME NEW t \in 0..now
        PROVE  Len(Select(c.times, From(t))) * Minute + c.tokens <= full + rate * (now - t)
    <2>. DEFINE before == Len(Select(b.times, From(t)))
                after == Len(Select(c.times, From(t)))
    <2>1. before \in Nat
      <3>1. Select(b.times, From(t)) \in Seq(0..b.last)
        BY <1>1, SelectType
      <3>. QED BY <3>1
    <2>2. before * Minute + level <= full + rate * (now - t)
      <3>1. CASE t <= b.last
        <4>1. before * Minute + b.tokens <= full + rate * (b.last - t)
          BY <1>1, <3>1 DEF Afforded, full
        <4>2. rate * (now - t) = rate * (b.last - t) + flow
          <5>1. now - t = (b.last - t) + (now - b.last)
            BY <1>1
          <5>2. b.last - t \in Nat /\ now - b.last \in Nat
            BY <1>1, <3>1
          <5>3. ((b.last - t) + (now - b.last)) * rate = (b.last - t) * rate + flow
            BY <5>2, Products
          <5>4. /\ rate * (now - t) = (now - t) * rate
                /\ rate * (b.last - t) = (b.last - t) * rate
            BY <1>1
          <5>. QED BY <5>1, <5>3, <5>4
        <4>3. rate * (b.last - t) \in Nat /\ before * Minute \in Nat
          BY <1>1, <2>1, <3>1, Products
        <4>. DEFINE spent == before * Minute
                    flowed == rate * (b.last - t)
                    flows == rate * (now - t)
        <4>. HIDE DEF flow, spent, flowed, flows
        <4>4. /\ spent + b.tokens <= full + flowed /\ flows = flowed + flow
              /\ spent \in Nat /\ flowed \in Nat
          BY <4>1, <4>2, <4>3 DEF spent, flowed, flows
        <4>5. spent + level <= full + flows
          BY <1>1, <1>3, <1>4, <4>4
        <4>. QED BY <4>5 DEF spent, flows
      <3>2. CASE t > b.last
        <4>1. (0..b.last) \cap From(t) = {}
          BY <1>1, <3>2 DEF From
        <4>2. before = 0
          BY <1>1, <4>1, SelectNone
        <4>3. rate * (now - t) \in Nat /\ 0 * Minute = 0
          BY <1>1, Products
        <4>. DEFINE flows == rate * (now - t)
        <4>. HIDE DEF before, flows
        <4>4. before * Minute = 0 /\ flows \in Nat
          BY <4>2, <4>3 DEF flows
        <4>5. before * Minute + level <= full + flows
          BY <1>1, <1>4, <4>4
        <4>. QED BY <4>5 DEF flows
      <3>. QED BY <1>1, <3>1, <3>2
    <2>3. CASE ~ Consumes(b, now)
      BY <1>2, <2>2, <2>3
    <2>4. CASE Consumes(b, now)
      <3>1. Select(c.times, From(t)) = Append(Select(b.times, From(t)), now)
        <4>1. now \in 0..now /\ now \in From(t)
          BY DEF From
        <4>2. Select(Append(b.times, now), From(t))
                = IF now \in From(t) THEN Append(Select(b.times, From(t)), now)
                  ELSE Select(b.times, From(t))
          <5>1. b.times \in Seq(0..now)
            BY <1>2
          <5>. QED BY <4>1, <5>1, SelectAppend, SMT
        <4>. QED BY <1>2, <2>4, <4>1, <4>2
      <3>2. after = before + 1
        <4>1. Select(b.times, From(t)) \in Seq(0..b.last)
          BY <1>1, SelectType
        <4>. QED BY <3>1, <4>1
      <3>. HIDE DEF before, after
      <3>3. (before + 1) * Minute = before * Minute + Minute /\ before * Minute \in Nat
        BY <1>1, <2>1, Products
      <3>4. rate * (now - t) \in Nat
        BY Products
      <3>5. after * Minute + c.tokens <= full + rate * (now - t)
        BY <1>1, <1>2, <1>4, <1>5, <2>2, <2>4, <3>2, <3>3, <3>4
      <3>. QED BY <3>5 DEF after
    <2>. QED BY <2>3, <2>4
  <1>. QED BY <1>2, <1>6 DEF Afforded, c, full

\* Within a window no more than two full buckets can have been handed out.
LEMMA AffordedBound ==
    ASSUME now \in Nat, NEW rate \in Nat \ {0}, NEW b, InOrder(b, rate), Afforded(b, rate)
    PROVE  Len(InWindow(b.times, now)) \in Nat /\ Len(InWindow(b.times, now)) <= 2 * rate
  <1>. DEFINE n == Len(InWindow(b.times, now))
              full == Capacity(rate)
  <1>1. /\ b.times \in Seq(0..b.last) /\ b.last \in 0..now /\ b.tokens \in Nat
        /\ full \in Nat /\ full = Minute * rate
        /\ Minute \in Nat \ {0} /\ Window \in Nat \ {0} /\ Window <= Minute
    BY CapacityType, BucketAssumption DEF InOrder, IsBucket
  <1>2. PICK first \in 0..now :
            now - first < Minute /\ first = IF now < Window THEN 0 ELSE now + 1 - Window
    <2>1. CASE now < Window
      <3>1. 0 \in 0..now /\ now - 0 < Minute
        BY <1>1, <2>1
      <3>. QED BY <2>1, <3>1
    <2>2. CASE ~ (now < Window)
      <3>1. now + 1 - Window \in 0..now /\ now - (now + 1 - Window) < Minute
        BY <1>1, <2>2
      <3>. QED BY <2>2, <3>1
    <2>. QED BY <2>1, <2>2
  <1>3. From(first) \cap (0..b.last) = Recently(now) \cap (0..b.last)
    BY <1>1, <1>2 DEF Recently, From
  <1>4. n = Len(Select(b.times, From(first))) /\ n \in Nat
    <2>1. Select(b.times, Recently(now)) = Select(b.times, From(first))
      <3>. DEFINE T == 0..b.last
      <3>1. b.times \in Seq(T) /\ From(first) \cap T = Recently(now) \cap T
        BY <1>1, <1>3
      <3>. HIDE DEF T
      <3>. QED BY <3>1, SelectSame
    <2>2. InWindow(b.times, now) \in Seq(0..b.last)
      BY <1>1, InWindowType
    <2>. QED BY <2>1, <2>2 DEF InWindow
  <1>5. n * Minute <= full + full
    <2>1. CASE first <= b.last
      <3>1. n * Minute + b.tokens <= full + rate * (b.last - first)
        <4>1. first \in 0..b.last
          BY <1>1, <1>2, <2>1
        <4>2. n = Len(Select(b.times, From(first)))
          BY <1>4
        <4>. HIDE DEF n
        <4>. QED BY <4>1, <4>2 DEF Afforded
      <3>2. rate * (b.last - first) <= full
        <4>1. b.last - first \in Nat /\ b.last - first <= Minute
          BY <1>1, <1>2, <2>1
        <4>2. (b.last - first) * rate <= Minute * rate
          BY <1>1, <4>1, Products
        <4>. QED BY <1>1, <1>2, <2>1, <4>2
      <3>3. rate * (b.last - first) \in Nat /\ n * Minute \in Nat
        <4>1. b.last - first \in Nat
          BY <1>1, <1>2, <2>1
        <4>. HIDE DEF n
        <4>. QED BY <1>1, <1>4, <4>1, Products
      <3>. HIDE DEF n, full
      <3>. QED BY <1>1, <3>1, <3>2, <3>3
    <2>2. CASE first > b.last
      <3>1. (0..b.last) \cap From(first) = {}
        BY <1>1, <1>2, <2>2 DEF From
      <3>2. n = 0
        <4>. DEFINE T == 0..b.last
        <4>1. b.times \in Seq(T) /\ T \cap From(first) = {}
          BY <1>1, <3>1
        <4>. HIDE DEF T
        <4>2. Select(b.times, From(first)) = <<>>
          BY <4>1, SelectNone, Zenon
        <4>3. n = Len(Select(b.times, From(first)))
          BY <1>4
        <4>. HIDE DEF n
        <4>. QED BY <4>2, <4>3
      <3>. HIDE DEF n
      <3>. QED BY <1>1, <3>2
    <2>. QED BY <1>1, <1>2, <2>1, <2>2
  <1>. HIDE DEF n
  <1>6. n <= 2 * rate
    <2>. SUFFICES ASSUME n > 2 * rate PROVE FALSE
      BY <1>4
    <2>1. 2 * rate + 1 \in Nat /\ 2 * rate + 1 <= n
      BY <1>4
    <2>2. (2 * rate + 1) * Minute <= n * Minute
      BY <1>1, <1>4, <2>1, Products
    <2>3. (2 * rate + 1) * Minute = (2 * rate) * Minute + Minute
      BY <1>1, Products
    <2>4. (2 * rate) * Minute = full + full
      BY <1>1
    <2>5. n * Minute \in Nat
      BY <1>1, <1>4, Products
    <2>. HIDE DEF full
    <2>. QED BY <1>1, <1>5, <2>2, <2>3, <2>4, <2>5
  <1>. QED BY <1>4, <1>6 DEF n

\* The accounts of the sources balance after every step.
LEMMA SourcesInductive == SourcesInv /\ [Next]_vars => SourcesInv'
  <1>. SUFFICES ASSUME SourcesInv, [Next]_vars
                PROVE  \A s \in DOMAIN sourceBuckets' :
                          Afforded(sourceBuckets'[s], MaxRatePerSource)
    BY LimiterInductive DEF SourcesInv, Afforded
  <1>1. /\ now \in Nat /\ MaxRatePerSource \in Nat \ {0}
        /\ Orderly(sourceBuckets, Source, MaxRatePerSource)
        /\ \A s \in DOMAIN sourceBuckets : Afforded(sourceBuckets[s], MaxRatePerSource)
    BY LimiterAssumption DEF SourcesInv, LimiterInv, Clocks
  <1>2. ASSUME NEW r \in Request, CheckSource(r)
        PROVE  \A s \in DOMAIN sourceBuckets' :
                  Afforded(sourceBuckets'[s], MaxRatePerSource)
    <2>. DEFINE source == SourceOf[req[r].url]
                b == BucketOf(sourceBuckets, source, MaxRatePerSource)
    <2>1. InOrder(b, MaxRatePerSource)
      BY <1>1, BucketOfInOrder DEF Orderly
    <2>2. Afforded(b, MaxRatePerSource)
      BY <1>1, NewAfforded DEF BucketOf
    <2>. HIDE DEF b
    <2>3. Afforded(TryConsume(b, now), MaxRatePerSource)
      BY <1>1, <2>1, <2>2, ConsumeAfforded
    <2>4. sourceBuckets' = With(sourceBuckets, source, TryConsume(b, now))
      BY <1>2 DEF CheckSource, b
    <2>. HIDE DEF source
    <2>. QED BY <1>1, <2>3, <2>4 DEF With
  <1>3. ASSUME SweepSources
        PROVE  \A s \in DOMAIN sourceBuckets' :
                  Afforded(sourceBuckets'[s], MaxRatePerSource)
    BY <1>1, <1>3 DEF SweepSources, Only, Fresh
  <1>. QED BY <1>1, <1>2, <1>3
       DEF Next, Proceed, Arrive, CheckCooldown, CheckBucket, ApplyCooldown, Cancel,
           Sweep, StartSweep, SweepIps, SweepCooldowns, Tick, vars

\* The values of the refinement mapping.
SourceLevels == [s \in Source |-> LevelOf(sourceBuckets, s, MaxRatePerSource)]
SourceRecents == [s \in Source |-> RecentOf(sourceBuckets, s)]

\* What is worth the same at the same moment is the same to the abstract limiter.
LEMMA SourceWorth ==
    ASSUME now' = now, SameWorth(sourceBuckets, sourceBuckets', Source, MaxRatePerSource)
    PROVE  UNCHANGED SourceView!lvars
  <1>1. SourceLevels' = SourceLevels /\ SourceRecents' = SourceRecents
    BY DEF SourceLevels, SourceRecents, SameWorth, LevelOf, RecentOf
  <1>. QED BY <1>1 DEF SourceView!lvars, SourceLevels, SourceRecents

\* What the abstract limiter selects.
LEMMA SourceSelect == ASSUME NEW s, NEW S PROVE SourceView!Select(s, S) = Select(s, S)
  BY DEF SourceView!Select, Select

\* A request that gets a token of its source is a grant.
LEMMA CheckSourceMaps ==
    ASSUME SourcesInv, NEW r \in Request, CheckSource(r)
    PROVE  SourceView!LimitNext \/ UNCHANGED SourceView!lvars
  <1>. DEFINE rate == MaxRatePerSource
  <1>1. /\ now \in Nat /\ now' = now /\ rate \in Nat \ {0} /\ Minute \in Nat
        /\ Orderly(sourceBuckets, Source, rate)
        /\ \A s \in DOMAIN sourceBuckets : Afforded(sourceBuckets[s], rate)
    BY LimiterAssumption, BucketAssumption DEF SourcesInv, LimiterInv, Clocks, CheckSource
  <1>2. PICK source \in Source : source = SourceOf[req[r].url]
    <2>1. req[r].url \in Url
      BY DEF SourcesInv, LimiterInv, CheckSource
    <2>. QED BY <2>1, LimiterAssumption
  <1>. DEFINE b == BucketOf(sourceBuckets, source, rate)
  <1>3. /\ InOrder(b, rate) /\ InWindow(b.times, now) = RecentOf(sourceBuckets, source)
        /\ Refill(b, now).tokens = LevelOf(sourceBuckets, source, rate)
    BY <1>1, BucketOfRecent, BucketOfType, OrderlyHolds
  <1>4. Afforded(b, rate)
    BY <1>1, NewAfforded DEF BucketOf
  <1>5. sourceBuckets' = With(sourceBuckets, source, TryConsume(b, now))
    BY <1>2 DEF CheckSource
  <1>. HIDE DEF b
  <1>6. CASE ~ Consumes(b, now)
    <2>1. SameWorth(sourceBuckets, sourceBuckets', Source, rate)
      BY <1>1, <1>3, <1>5, <1>6, WorthAfterConsume
    <2>. QED BY <1>1, <2>1, SourceWorth
  <1>7. CASE Consumes(b, now)
    <2>1. TokenTaken(sourceBuckets, sourceBuckets', source, Source, rate)
      BY <1>1, <1>3, <1>5, <1>7, WorthAfterConsume
    <2>2. /\ SourceLevels[source] >= Minute
          /\ SourceLevels' = [SourceLevels EXCEPT ![source] = @ - Minute]
      BY <1>1, <2>1 DEF SourceLevels, TokenTaken, SameWorth, LevelOf
    <2>3. SourceRecents' = [SourceRecents EXCEPT ![source] = Append(@, now)]
      BY <1>1, <2>1 DEF SourceRecents, TokenTaken, SameWorth, RecentOf
    <2>4. Len(SourceRecents[source]) <= 2 * rate
      <3>1. Len(InWindow(b.times, now)) <= 2 * rate
        BY <1>1, <1>3, <1>4, AffordedBound
      <3>. QED BY <1>3, <3>1 DEF SourceRecents
    <2>5. SourceView!Grant(source)
      BY <1>1, <2>2, <2>3, <2>4 DEF SourceView!Grant, SourceLevels, SourceRecents
    <2>. QED BY <2>5 DEF SourceView!LimitNext
  <1>. QED BY <1>6, <1>7

\* Time passes for both.
LEMMA SourceTickMaps ==
    ASSUME LimiterInv, Tick
    PROVE  SourceView!PassTime
  <1>. DEFINE rate == MaxRatePerSource
  <1>1. /\ now \in Nat /\ now' = now + 1 /\ rate \in Nat \ {0}
        /\ sourceBuckets' = sourceBuckets /\ Orderly(sourceBuckets, Source, rate)
    BY LimiterAssumption DEF LimiterInv, Clocks, Tick
  <1>2. SourceLevels' = [s \in Source |-> IF SourceLevels[s] + rate <= rate * Minute
                                          THEN SourceLevels[s] + rate ELSE rate * Minute]
    <2>1. ASSUME NEW s \in Source
          PROVE  LevelOf(sourceBuckets, s, rate)'
                   = IF LevelOf(sourceBuckets, s, rate) + rate <= rate * Minute
                     THEN LevelOf(sourceBuckets, s, rate) + rate ELSE rate * Minute
      BY <1>1, OrderlyHolds, LevelAtTick DEF Capacity, Token
    <2>. QED BY <1>1, <2>1 DEF SourceLevels, LevelOf
  <1>3. SourceRecents'
          = [s \in Source |-> Select(SourceRecents[s], {t \in 0..now : now + 1 - t < Window})]
    <2>1. ASSUME NEW s \in Source
          PROVE  RecentOf(sourceBuckets, s)'
                   = Select(RecentOf(sourceBuckets, s), {t \in 0..now : now + 1 - t < Window})
      BY <1>1, OrderlyHolds, RecentAfterTick
    <2>. QED BY <1>1, <2>1 DEF SourceRecents, RecentOf
  <1>. QED BY <1>1, <1>2, <1>3, SourceSelect
       DEF SourceView!PassTime, SourceView!Full, SourceLevels, SourceRecents

\* Every source is limited as by one token bucket that is always there, and its
\* requests within a window by twice the rate, for any numbers, rates and sweeps.
THEOREM SourceRefinement == Spec => SourcesAreLimited
  <1>1. Init => SourceView!LimitInit
    <2>. SUFFICES ASSUME Init PROVE SourceView!LimitInit
      OBVIOUS
    <2>1. /\ SourceLevels = [s \in Source |-> MaxRatePerSource * Minute]
          /\ SourceRecents = [s \in Source |-> <<>>]
      BY DEF Init, EmptyMap, SourceLevels, SourceRecents, LevelOf, RecentOf, Capacity, Token
    <2>. QED BY <2>1
         DEF Init, SourceView!LimitInit, SourceView!Full, SourceLevels, SourceRecents
  <1>2. SourcesInv /\ [Next]_vars => [SourceView!LimitNext]_(SourceView!lvars)
    <2>. SUFFICES ASSUME SourcesInv, [Next]_vars
                  PROVE  SourceView!LimitNext \/ UNCHANGED SourceView!lvars
      OBVIOUS
    <2>1. LimiterInv /\ now \in Nat /\ MaxRatePerSource \in Nat \ {0} /\ sweeper.at \in 0..now
          /\ Orderly(sourceBuckets, Source, MaxRatePerSource)
      BY LimiterAssumption DEF SourcesInv, LimiterInv, Clocks
    <2>2. ASSUME NEW r \in Request, CheckSource(r)
          PROVE  SourceView!LimitNext \/ UNCHANGED SourceView!lvars
      BY <2>2, CheckSourceMaps
    <2>3. CASE Tick
      BY <2>1, <2>3, SourceTickMaps DEF SourceView!LimitNext
    <2>4. CASE UNCHANGED <<now, sourceBuckets>>
      BY <2>4, SourceWorth DEF SameWorth
    <2>5. CASE SweepSources
      BY <2>1, <2>5, WorthAfterSweep, SourceWorth DEF SweepSources
    <2>. QED BY <2>2, <2>3, <2>4, <2>5
         DEF Next, Proceed, Arrive, CheckCooldown, CheckBucket, ApplyCooldown, Cancel,
             Sweep, StartSweep, SweepIps, SweepCooldowns, vars
  <1>3. Init => SourcesInv
    BY LimiterInit DEF SourcesInv, Init, EmptyMap
  <1>. QED BY <1>1, <1>2, <1>3, SourcesInductive, PTL
       DEF Spec, SourcesAreLimited, SourceView!LimitSpec

-----------------------------------------------------------------------------
(***************************************************************************)
(* What a refused client is told.                                          *)
(***************************************************************************)
\* A quotient that is rounded down is less than one too small.
LEMMA RoundedDown ==
    ASSUME NEW a \in Nat, NEW n \in Nat \ {0}
    PROVE  a \div n \in Nat /\ a < n * ((a \div n) + 1)
  OBVIOUS

\* Whoever waits for the time that a bucket lacks, and one second more, finds a token.
LEMMA WaitingSuffices ==
    ASSUME now \in Nat, NEW rate \in Nat \ {0}, NEW b, IsBucket(b, rate), b.last = now
    PROVE  Consumes(b, now + Second * (RetryAfterSecs(b, Second) + 1))
  <1>. DEFINE secs == RetryAfterSecs(b, Second)
              wait == Second * (secs + 1)
              full == Capacity(rate)
  <1>1. /\ Second \in Nat \ {0} /\ Minute \in Nat \ {0} /\ b.tokens \in Nat /\ b.rate = rate
        /\ full \in Nat /\ Minute <= full
    BY ObserverAssumption, BucketAssumption, CapacityType DEF IsBucket
  <1>2. wait \in Nat /\ b.tokens + wait * rate >= Minute /\ wait * rate \in Nat
    <2>1. CASE HasToken(b)
      <3>1. secs = 0 /\ b.tokens >= Minute
        BY <1>1, <2>1 DEF RetryAfterSecs, HasToken, Token
      <3>2. wait = Second
        BY <1>1, <3>1
      <3>3. Second * rate \in Nat
        BY <1>1
      <3>. HIDE DEF wait
      <3>. QED BY <1>1, <3>1, <3>2, <3>3
    <2>2. CASE ~ HasToken(b)
      <3>. DEFINE lack == Minute - b.tokens
                  ticks == lack \div rate
      <3>1. secs = ticks \div Second /\ lack \in Nat
        BY <1>1, <2>2 DEF RetryAfterSecs, HasToken, Token
      <3>. HIDE DEF lack
      <3>2. ticks \in Nat /\ lack < rate * (ticks + 1)
        BY <3>1, RoundedDown
      <3>. HIDE DEF ticks
      <3>3. secs \in Nat /\ ticks < wait
        BY <1>1, <3>1, <3>2, RoundedDown
      <3>. HIDE DEF secs
      <3>4. wait \in Nat
        BY <1>1, <3>3
      <3>. HIDE DEF wait
      <3>5. (ticks + 1) * rate <= wait * rate /\ wait * rate \in Nat
        BY <3>2, <3>3, <3>4, Products
      <3>6. rate * (ticks + 1) = (ticks + 1) * rate
        BY <3>2
      <3>7. lack < wait * rate
        BY <3>1, <3>2, <3>5, <3>6
      <3>. QED BY <1>1, <3>4, <3>5, <3>7 DEF lack
    <2>. QED BY <2>1, <2>2
  <1>. HIDE DEF wait, secs
  <1>3. Refill(b, now + wait).tokens = Least(b.tokens + wait * rate, full)
    <2>1. (now + wait) - b.last = wait
      BY <1>2
    <2>. QED BY <2>1, RefillTokens
  <1>4. Refill(b, now + wait).tokens >= Minute
    BY <1>1, <1>2, <1>3 DEF Least
  <1>5. Consumes(b, now + wait)
    BY <1>4 DEF Consumes, HasToken, Token
  <1>. QED BY <1>5 DEF wait, secs

\* A client that is refused by its address's or its source's bucket, and waits the
\* seconds it is told and one more, would find a token, for any rates and levels.
THEOREM RetryAfter == OSpec => []RetryAfterNearlySuffices
  <1>1. OInit => LimiterInv
    BY LimiterInit DEF OInit
  <1>2. LimiterInv /\ [ONext]_ovars => LimiterInv'
    <2>1. [ONext]_ovars => [Next]_vars
      BY DEF ONext, ovars
    <2>. QED BY <2>1, LimiterInductive
  <1>3. LimiterInv => RetryAfterNearlySuffices
    <2>. SUFFICES ASSUME LimiterInv PROVE RetryAfterNearlySuffices
      OBVIOUS
    <2>. DEFINE Enough(b) == Consumes(b, now + Second * (RetryAfterSecs(b, Second) + 1))
    <2>1. /\ now \in Nat /\ MaxRate \in Nat \ {0} /\ MaxRatePerSource \in Nat \ {0}
          /\ IP \cap Source = {} /\ SourceOf \in [Url -> Source]
          /\ req \in [Request -> RequestState]
      BY LimiterAssumption, ObserverAssumption DEF LimiterInv, LockInv, Clocks
    <2>2. ASSUME NEW map, NEW keys, NEW rate \in Nat \ {0}, Orderly(map, keys, rate), NEW k
          PROVE  Enough(TryConsume(BucketOf(map, k, rate), now))
      <3>1. IsBucket(BucketOf(map, k, rate), rate)
        BY <2>1, <2>2, OrderlyHolds, BucketOfType
      <3>2. LET b == TryConsume(BucketOf(map, k, rate), now)
            IN  IsBucket(b, rate) /\ b.last = now
        BY <2>1, <3>1, TryConsumeType
      <3>. QED BY <2>1, <3>2, WaitingSuffices
    <2>3. ASSUME NEW ip PROVE Enough(TryConsume(BucketOf(ipBuckets, ip, MaxRate), now))
      BY <2>1, <2>2 DEF LimiterInv
    <2>4. ASSUME NEW s PROVE Enough(TryConsume(BucketOf(sourceBuckets, s, MaxRatePerSource), now))
      BY <2>1, <2>2 DEF LimiterInv
    <2>. HIDE DEF Enough
    <2>5. ASSUME NEW r \in Request PROVE req[r].ip \in IP
      BY <2>1 DEF RequestState
    <2>6. ASSUME NEW r \in Request, req[r].pc = "source" PROVE SourceOf[req[r].url] \notin IP
      <3>1. req[r].url \in Url
        BY <2>6 DEF LimiterInv
      <3>. QED BY <2>1, <3>1
    <2>. QED BY <2>3, <2>4, <2>5, <2>6 DEF RetryAfterNearlySuffices, Enough
  <1>. QED BY <1>1, <1>2, <1>3, PTL DEF OSpec

=============================================================================
