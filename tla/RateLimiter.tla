---------------------------- MODULE RateLimiter ----------------------------
(***************************************************************************)
(* The rate limiter of the webmention ingress: RateLimiter in limiter.rs,  *)
(* called by any number of concurrent requests (handlers.rs) and swept by  *)
(* the background task of main.rs.                                         *)
(*                                                                         *)
(* The three maps have a lock each.  A section of code that holds a lock   *)
(* and awaits nothing is one action.  check_ip awaits the cooldowns' lock  *)
(* while it holds that of ip_buckets: ipLock says which request does.      *)
(* Time may pass between any two actions.  A client that disconnects makes *)
(* the server drop the request at an await: Cancel.                        *)
(***************************************************************************)
EXTENDS TokenBucket

CONSTANTS
    IP,                  \* client addresses
    Url,                 \* values of the source parameter
    Source,              \* what normalize_source_url maps them to
    SourceOf,            \* that mapping: query and fragment make no difference
    Request,             \* request handlers that may run at the same time
    MaxRate,             \* RateLimitConfig.max_rate_rpm
    MaxRatePerSource,    \* RateLimitConfig.max_rate_per_source
    Cooldown,            \* RateLimitConfig.cooldown_on_burst_ms, in ticks
    Stale,               \* stale_threshold of cleanup (300 s), in ticks
    MaxTime              \* bound on the modelled time

\* A rate of zero makes time_until_available divide by zero and panic.  A bucket
\* that is stale is full again and has seen no request within the window.
ASSUME LimiterAssumption ==
    /\ IP # {} /\ SourceOf \in [Url -> Source]
    /\ MaxRate \in Nat \ {0} /\ MaxRatePerSource \in Nat \ {0}
    /\ Cooldown \in Nat /\ MaxTime \in Nat
    /\ Stale \in Nat /\ Stale >= Minute /\ Stale >= Window

NoUrl == "none"    \* proxy_handler and /check without a source
Free == "free"

ASSUME NamesAssumption == NoUrl \notin Url /\ Free \notin Request

VARIABLES
    now,            \* Instant::now(), monotonic
    ipBuckets,      \* a map from addresses to buckets
    sourceBuckets,  \* a map from normalized sources to buckets
    cooldowns,      \* a map from addresses to the end of their cooldown
    ipLock,         \* the request that holds ip_buckets across an await
    req,            \* where each request handler is
    sweeper         \* where the cleanup task is and the time it started

vars == <<now, ipBuckets, sourceBuckets, cooldowns, ipLock, req, sweeper>>

PC == {"idle", "cooldown", "bucket", "apply", "source"}

RequestState == [pc : PC, ip : IP, url : Url \cup {NoUrl}]

Bucket(rate) ==
    [rate : {rate}, tokens : 0..Capacity(rate), last : 0..now, times : Seq(0..now)]

-----------------------------------------------------------------------------
\* A map with one more entry, or a changed one.
With(map, key, value) ==
    [k \in DOMAIN map \cup {key} |-> IF k = key THEN value ELSE map[k]]

Only(map, keep) == [k \in keep |-> map[k]]

\* entry(..).or_insert_with(..)
BucketOf(map, key, rate) ==
    IF key \in DOMAIN map THEN map[key] ELSE NewBucket(rate, now)

InCooldown(ip) == ip \in DOMAIN cooldowns /\ now < cooldowns[ip]

\* A handler that is free for a request.
NoRequest == [pc |-> "idle", ip |-> CHOOSE ip \in IP : TRUE, url |-> NoUrl]

\* The request is answered; what is answered follows from the maps.
Answer(r) == req' = [req EXCEPT ![r] = NoRequest]

Goto(r, pc) == req' = [req EXCEPT ![r].pc = pc]

-----------------------------------------------------------------------------
EmptyMap == [k \in {} |-> 0]

Init ==
    /\ now = 0
    /\ ipBuckets = EmptyMap
    /\ sourceBuckets = EmptyMap
    /\ cooldowns = EmptyMap
    /\ ipLock = Free
    /\ req = [r \in Request |-> NoRequest]
    /\ sweeper = [pc |-> "idle", at |-> 0]

\* A validated request reaches check (with a source) or check_ip (without).
Arrive(r, ip, url) ==
    /\ req[r].pc = "idle"
    /\ req' = [req EXCEPT ![r] = [pc |-> "cooldown", ip |-> ip, url |-> url]]
    /\ UNCHANGED <<now, ipBuckets, sourceBuckets, cooldowns, ipLock, sweeper>>

\* check_ip, first section: under the cooldowns' read lock.
CheckCooldown(r) ==
    /\ req[r].pc = "cooldown"
    /\ IF InCooldown(req[r].ip)
       THEN Answer(r)
       ELSE Goto(r, "bucket")
    /\ UNCHANGED <<now, ipBuckets, sourceBuckets, cooldowns, ipLock, sweeper>>

\* check_ip, second section: under the write lock of ip_buckets.  detect_burst
\* prunes the bucket, which is stored even when the request is refused.
CheckBucket(r) ==
    LET ip == req[r].ip
        b == Prune(BucketOf(ipBuckets, ip, MaxRate), now)
    IN  /\ req[r].pc = "bucket"
        /\ ipLock = Free
        /\ \/ /\ DetectsBurst(b, now)
              /\ ipBuckets' = With(ipBuckets, ip, b)
              /\ ipLock' = r
              /\ Goto(r, "apply")
           \/ /\ ~ DetectsBurst(b, now)
              /\ ipBuckets' = With(ipBuckets, ip, TryConsume(b, now))
              /\ ipLock' = ipLock
              /\ IF Consumes(b, now) /\ req[r].url # NoUrl
                 THEN Goto(r, "source")
                 ELSE Answer(r)
        /\ UNCHANGED <<now, sourceBuckets, cooldowns, sweeper>>

\* Variant: the section asks for ip_buckets again, which its own request holds.
ApplyCooldown_Reenters(r) ==
    /\ req[r].pc = "apply"
    /\ ipLock = Free
    /\ cooldowns' = With(cooldowns, req[r].ip, now + Cooldown)
    /\ Answer(r)
    /\ UNCHANGED <<now, ipBuckets, sourceBuckets, ipLock, sweeper>>

\* check_ip, third section: the cooldowns' write lock inside that of ip_buckets.
ApplyCooldown(r) ==
    /\ req[r].pc = "apply"
    /\ cooldowns' = With(cooldowns, req[r].ip, now + Cooldown)
    /\ ipLock' = Free
    /\ Answer(r)
    /\ UNCHANGED <<now, ipBuckets, sourceBuckets, sweeper>>

\* check_source: under the write lock of source_buckets, and no burst detection.
CheckSource(r) ==
    LET source == SourceOf[req[r].url]
        b == BucketOf(sourceBuckets, source, MaxRatePerSource)
    IN  /\ req[r].pc = "source"
        /\ sourceBuckets' = With(sourceBuckets, source, TryConsume(b, now))
        /\ Answer(r)
        /\ UNCHANGED <<now, ipBuckets, cooldowns, ipLock, sweeper>>

\* The client goes away: the handler is dropped at one of its awaits, and with
\* it the guard of ip_buckets.
Cancel(r) ==
    /\ req[r].pc # "idle"
    /\ Answer(r)
    /\ ipLock' = IF ipLock = r THEN Free ELSE ipLock
    /\ UNCHANGED <<now, ipBuckets, sourceBuckets, cooldowns, sweeper>>

-----------------------------------------------------------------------------
(***************************************************************************)
(* cleanup, which the task in main.rs calls every minute: the time is read *)
(* once, then each map is swept under its own lock.                        *)
(***************************************************************************)
\* Variant: a bucket is stale as soon as its window of requests has passed.
Fresh_Early(map) == {k \in DOMAIN map : sweeper.at < map[k].last + Window}

Fresh(map) == {k \in DOMAIN map : sweeper.at < map[k].last + Stale}

StartSweep ==
    /\ sweeper.pc = "idle"
    /\ sweeper' = [pc |-> "ips", at |-> now]
    /\ UNCHANGED <<now, ipBuckets, sourceBuckets, cooldowns, ipLock, req>>

SweepIps ==
    /\ sweeper.pc = "ips"
    /\ ipLock = Free
    /\ ipBuckets' = Only(ipBuckets, Fresh(ipBuckets))
    /\ sweeper' = [sweeper EXCEPT !.pc = "sources"]
    /\ UNCHANGED <<now, sourceBuckets, cooldowns, ipLock, req>>

SweepSources ==
    /\ sweeper.pc = "sources"
    /\ sourceBuckets' = Only(sourceBuckets, Fresh(sourceBuckets))
    /\ sweeper' = [sweeper EXCEPT !.pc = "cooldowns"]
    /\ UNCHANGED <<now, ipBuckets, cooldowns, ipLock, req>>

SweepCooldowns ==
    /\ sweeper.pc = "cooldowns"
    /\ cooldowns' = Only(cooldowns, {ip \in DOMAIN cooldowns : sweeper.at < cooldowns[ip]})
    /\ sweeper' = [pc |-> "idle", at |-> 0]
    /\ UNCHANGED <<now, ipBuckets, sourceBuckets, ipLock, req>>

Sweep == StartSweep \/ SweepIps \/ SweepSources \/ SweepCooldowns

Tick ==
    /\ now < MaxTime
    /\ now' = now + 1
    /\ UNCHANGED <<ipBuckets, sourceBuckets, cooldowns, ipLock, req, sweeper>>

Proceed(r) == CheckCooldown(r) \/ CheckBucket(r) \/ ApplyCooldown(r) \/ CheckSource(r)

Next ==
    \/ \E r \in Request, ip \in IP, url \in Url \cup {NoUrl} : Arrive(r, ip, url)
    \/ \E r \in Request : Proceed(r) \/ Cancel(r)
    \/ Sweep
    \/ Tick

Spec == Init /\ [][Next]_vars

\* Handlers are scheduled, and tokio's locks are granted in the order in which
\* they are asked for, so a handler that waits for one gets it.
FairSpec == Spec /\ \A r \in Request : SF_vars(Proceed(r))

-----------------------------------------------------------------------------
(***************************************************************************)
(* Properties.                                                             *)
(***************************************************************************)

\* Type correctness of the three maps, the lock, the handlers and the sweeper.
TypeOK ==
    /\ now \in 0..MaxTime
    /\ DOMAIN ipBuckets \subseteq IP
    /\ \A ip \in DOMAIN ipBuckets : ipBuckets[ip] \in Bucket(MaxRate)
    /\ DOMAIN sourceBuckets \subseteq Source
    /\ \A s \in DOMAIN sourceBuckets : sourceBuckets[s] \in Bucket(MaxRatePerSource)
    /\ DOMAIN cooldowns \subseteq IP
    /\ \A ip \in DOMAIN cooldowns : cooldowns[ip] \in Nat
    /\ ipLock \in Request \cup {Free}
    /\ req \in [Request -> RequestState]
    /\ sweeper \in [pc : {"idle", "ips", "sources", "cooldowns"}, at : 0..now]

(***************************************************************************)
(* What a bucket is worth to the next caller: an address or source that    *)
(* has none would be given a full one.                                     *)
(***************************************************************************)
LevelOf(map, k, rate) ==
    IF k \in DOMAIN map THEN Refill(map[k], now).tokens ELSE Capacity(rate)

RecentOf(map, k) ==
    IF k \in DOMAIN map THEN InWindow(map[k].times, now) ELSE <<>>

LockoutOf(ip) == IF InCooldown(ip) THEN cooldowns[ip] - now ELSE 0

\* The addresses as burst-limited token buckets that always existed.
IpView ==
    INSTANCE BurstLimit WITH
        Key <- IP, Rate <- MaxRate, Threshold <- BurstThreshold(MaxRate),
        clock <- now,
        level <- [ip \in IP |-> LevelOf(ipBuckets, ip, MaxRate)],
        recent <- [ip \in IP |-> RecentOf(ipBuckets, ip)],
        lockout <- [ip \in IP |-> LockoutOf(ip)],
        detected <- [ip \in IP |-> ipLock # Free /\ req[ipLock].ip = ip]

\* The sources as token buckets that always existed.  They have no detection of
\* bursts; no more than twice the rate can be granted within a window.
SourceView ==
    INSTANCE BurstLimit WITH
        Key <- Source, Rate <- MaxRatePerSource, Threshold <- 2 * MaxRatePerSource,
        clock <- now,
        level <- [s \in Source |-> LevelOf(sourceBuckets, s, MaxRatePerSource)],
        recent <- [s \in Source |-> RecentOf(sourceBuckets, s)],
        lockout <- [s \in Source |-> 0],
        detected <- [s \in Source |-> FALSE]

\* Every address is limited as by one token bucket with one burst detection,
\* whatever the interleaving of handlers; the creation of buckets on demand and
\* their eviction by cleanup (entries last used 300 s ago, ended cooldowns, a
\* time read before the locks were taken) cannot be observed.
IpsAreBurstLimited == IpView!LimitSpec

\* The same for every normalized source URL.
SourcesAreLimited == SourceView!LimitSpec

\* THREAT_MODEL_WEBMENTION.adoc, Burst Cooldown: "30s lockout after burst
\* detection".  A request that looked at the cooldowns before one was applied
\* can reach its bucket long after, when the window of the burst is over.
LockoutRefuses ==
    [][\A ip \in IP :
          LevelOf(ipBuckets, ip, MaxRate)' < LevelOf(ipBuckets, ip, MaxRate)
             => ~ InCooldown(ip)]_vars

\* Every request is answered in the end: the nested locks cannot block the
\* handlers, the cleanup task and each other.
RequestsAreAnswered ==
    \A r \in Request : req[r].pc # "idle" ~> req[r].pc = "idle"

=============================================================================
