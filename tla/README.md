# A TLA+ verification of civic-connect

This directory models the parts of the repository that keep state and change it
concurrently: the governance of DNS mutations, the webmention rate limiter, the
consent service with its WordPress client, the DNS records and their anchoring,
and the oblivious DNS pair. TLC checks each model on small instances
(`PROJECT.json` lists the runs) and TLAPS proves the theorems of section 4 for all
values of the constants. The parts that keep no state but decide something
(validation, hashes, signatures, levels) are modelled as functions.

Paths are relative to the repository. *IB* stands for `indieweb2-bastion`.

## 1. Inventory

| Component | State | Operations | What is hard | What makes it correct |
|---|---|---|---|---|
| Mutation governance, IB `graphql-dns-api/src/policy.rs`, called by `resolvers.rs` | the loaded policy; the proposals, in memory, under one `RwLock` | propose, approve, execute, restart | sequences of legal calls that reach an odd status; the wall clock; a restart with another policy | quorum of distinct privileged identities, timelock, execution once, nothing stranded |
| Webmention rate limiter, IB `services/webmention-rate-limiter/src/` | three maps (address buckets, source buckets, cooldowns), a lock each | `check_rate_limit`, `cleanup` | handlers that interleave between two locks; nested locks; dropped handlers; eviction by an old time | each key is limited as by one bucket that always existed; no deadlock |
| Webmention validator, same crate, `validator.rs` | the configuration | validate method, type, source and target | where the registrable domain of a host begins | self-pings are refused, and nothing else for being one |
| Consent API, IB `services/consent-api/mod.affine` | the global `db`; the table `consent` | POST, GET, DELETE `/consent`, check | lazy initialisation that awaits; select-then-write | one initialiser; a second record for an identity only from stores that overlap; what is acknowledged was stored |
| WordPress plugin, IB `wordpress/indieweb2-consent.php` | user meta data; the URL in the profile, which is the identity | save the form, update a profile, register | two sessions, lost and late posts, an ignored result; identities that change and are shared | the table allows only what a holder of the identity chose, and no save comes back that a later one replaced |
| GraphQL DNS records, IB `graphql-dns-api/src/{resolvers,db,models,consent}.rs` | tables of records, zones, provenances | create, update, delete; enable and rotate DNSSEC | read-modify-write without a lock; consent revoked between check and use | created under consent; a deleted record stays deleted |
| Blockchain anchoring, `blockchain.rs` | the chain (external) | send, await the receipt, store | the long wait; a crash before the store; a reorganisation after it | provenance is genuine |
| DNSSEC, `dnssec.rs` | the zones, in the database | generate keys, sign, verify | bytes of two schemes cut at offsets | both halves are needed; a zone that was upserted is found |
| oDNS proxy and resolver, IB `odns-rs/` | the pinned public key; the secret key under a `RwLock` | forward, open, resolve, rotate, restart | rotation against queries in flight and against restarts | a query is refused only for a reason a rotation or a crash gives; queries end |
| oDNS signatures, `signatures.rs`, `sphincs_fallback.rs` | none | sign, verify | the same, implemented anew; unused by both processes | both halves are needed |
| Ada core, `backend/ada-core/src/` | none yet: storing is left to do | calculate a level, verify; award and decay are placeholders | boundaries of levels | monotone levels, features only where earned |
| Rust API, `backend/rust-api/` | none: placeholders | - | - | - |
| Elixir chat, `backend/elixir-phoenix/` | none of its own | join, relay | - | - |
| Zig interface, `ffi/zig/src/main.zig` | a handle; the last error of a thread | init, process, free (examples) | use after free, who owns a string: the callers' part | - |
| Contracts, IB `contracts/`; canisters, IB `protocols/icp/` | balances, allowances, owners; consent and provenance tables | transfer, approve; record | sequences of calls, upgrades | conservation, ownership |
| The rest: voice-groove, `policy/run.js`, Idris ABI, templates, scripts, workflows | none at run time | - | - | - |

How they interact. The WordPress plugin posts each save to the consent API. The
GraphQL API asks the consent API before it creates a record, keeps the policy
enforcer in memory and sends transactions to a chain. The webmention ingress asks
the rate limiter about each request. The oDNS proxy sends sealed queries to the
resolver over TCP. The CivicConnect backend does not call any of these.

`PROJECT.json` lists every hazard at its line, with the properties that cover it.

## 2. Modules

| Module | Models | State |
|---|---|---|
| `Governance` | the enforcer and its resolvers | `policy`, `proposals`, wall clock, real time and leaps, history of executions |
| `TimelockedQuorum` | what governance promises, abstractly | items with a quorum, a delay and an electorate |
| `Selection` | `Vec::retain`, and the condition of a query | - |
| `TokenBucket` | one bucket as operators | - |
| `BurstLimit` | what the limiter promises for each key, abstractly | level, recent grants, lockout |
| `RateLimiter` | the limiter, its handlers and its cleanup task | the three maps, the held lock, handlers, sweeper |
| `RateObserver` | the limiter with an observer that counts the tokens handed out since some moment | `start`, `since` |
| `ConsentApi` | the consent service | `client` (the global `db`), `schema`, `records`, `calls`, history of ids (`drawn`, `overtaken`) |
| `ConsentSync` | the plugin, composed with `ConsentApi` (`EXTENDS`) | `url`, `meta`, `sessions`, history (`held`, `given`, `due`) |
| `DnsRecords` | records, consent checks, anchoring | the tables, `consent`, `chain`, `calls`, history (`past`, `upserted`) |
| `Odns` | proxies and resolver | `query` per connection, keys pinned, held, waiting, announced, forgotten |
| `WebmentionValidator` | the checks of the ingress and the domain of a host | - |
| `RecordData` | validation, content hash, queries and reverse lookup of DNS records | - |
| `HybridSignature` | both implementations of hybrid signatures | - |
| `Leveling` | levels, requirements and features of the Ada core | - |
| `PureFunctions` | the last four, asked one question after another | `question` |
| `GovernanceProofs`, `GovernanceRefinement`, `RateLimiterProofs`, `ConsentProofs`, `DnsRecordsProofs`, `OdnsProofs`, `FunctionProofs`, `SelectionProofs` | theorems (section 4) | - |
| `MC*` | instances for TLC | - |

How actions correspond to code. A Rust handler is cut at its `await`s, a handler
of the consent service at its `await`s too, since one thread runs all of them;
what lies between two is one action with every change it makes. The enforcer is
behind one lock that is held for a whole call, so each of its calls is one action.
Handlers that run at the same time are the members of a set (`Request`, `Call`,
`Session`, `Queries`), each with a program counter. Where the code takes an input,
an action has a parameter. Operators whose name has a suffix (`Update_Upsert`)
are variants of the operator they precede, with a fault a programmer could make;
no specification uses them. Each property of a passing run is violated when one
of them replaces its original.

### Governance

`propose_mutation`, `approve_proposal` and `execute_proposal` are the actions of
the same names; `Restart` loads one of `Policies` and forgets the proposals. Two
clocks: `uptime` is real time, `wallClock` is what `SystemTime::now()` gives. It
may be set back at any time, and forward, also to correct that: `leaps` is the
time by which it was set forward in all. The code cannot tell, and executes a
proposal early by that much. `TimelockServed` says by no more, and the clock of
`TimelockedQuorum` is real time and leaps. `leaps`, `bornAt` and `executions`
are history: the code has no such fields, and no call reads them. Identities
reach the resolvers through the request context; the model lets any identity
propose and approve, although `graphql_handler` in `main.rs` inserts none yet.
The payload of a proposal is left out: the code never looks at it, and executing
a proposal performs nothing else.

### Rate limiter

Time is counted in ticks and tokens in units of 1/`Minute` of a token, so that the
refill is exact; the rounding of `f64` is not modelled. `check_ip` has three parts:
the look at the cooldowns, the bucket under `ip_buckets`, and the wait for the
lock of `cooldowns` with `ip_buckets` still held (`apply`). A request may be
dropped at each await (`Cancel`). `cleanup` reads the time once and takes the
locks one by one. Rates are positive (`LimiterAssumption`): zero panics.
A missing source is possible: `/check` may come without one. The proxy handler
repeats the check of the address alone and is not routed.

`IpsAreBurstLimited` and `SourcesAreLimited` are refinements: the map of buckets
with entries created on demand and evicted is shown to implement `BurstLimit`, in
which every key has one bucket from the start. A key without an entry is mapped to
a full bucket, so an eviction that could be observed would not be a stutter.

### Consent

`client` runs from `null` over `created` (assigned, not connected) and `connected`
to `ready` (`use` done). The database executes one statement at a time; an
`UPDATE` of a record that is gone returns no row; a unique index refuses a second
record. Each of these may fail, before it takes effect or with its answer lost
(`DatabaseFails`), and the handler then answers 500. `overtaken` is history: the
records whose store had a rival.

`ConsentSync` adds PHP requests. `url` is the identity `get_user_identity` gives: a
profile update changes it, two users may have the same, and a request keeps the one
it began with. A request changes the meta data or the profile (`Begin`), reads the
preferences (`GetPreferences`), posts them (`Post` starts a call of `ConsentApi`),
and waits; a post may be lost, or its answer come too late while the call runs on.
A profile update posts nothing when the option for it is off. No other client
writes to the consent service. Three variables are history: `held` and `given` are
who had which identity, and who had it while the preference was on; `due` is what
the table may show of an identity, which is what the last post answered with
success and all that overlapped with it or came later carried.

### DNS records

The tables are maps in memory (`kv-mem`) and lost with the process. The database
is SurrealDB 3, in which `update` of a missing record gives none, as
`update_record` expects. The consent service answers what `consent` says, or
fails; consent changes at any time. The chain accepts, mines or drops a
transaction, and may be reorganised after that (`Reorganise`): a mined
transaction is orphaned, or mined again, and nothing tells the API, which waits
for one confirmation. `ProvenanceIsGenuine` therefore speaks of transactions
that were mined at some time. The identity of a caller comes from the request
context, as in governance: `graphql_handler` (`main.rs:52-64`) inserts none yet,
so that the shipped server answers every `createDNSRecord` with "Authentication
required". `past` is history: who created an id and which contents it had.
`EnableDnssec` and `RotateDnssecKeys` generate the keys of a zone and call the
upsert, which is an update and changes nothing where there is no zone;
`upserted` records for which zones it was called, and `UpsertedZonesAreFound` is
violated. Only `Valid` contents pass `validate_dns_record`; what that function
accepts is in `RecordData`.

### oDNS

A key pair is a number: `FileKey` is in the resolver's file, `n` is that of the
n-th rotation. A message opens only with the key it was sealed for. Rotation is
two actions, generating and announcing a key, and installing it under the lock.
A process that ends closes its connections, so the other side fails at once; the
loss of a whole host, which closes nothing, is not modelled. `forgotten` is
history: the last key that was generated when the resolver crashed, which it
lost with all rotations before. The answer in clear from upstream is not matched
to the question, as in the code. Queries above 63927 bytes (`Large`) are read
and cannot be framed once sealed. Zero-length messages are among those whose
read fails.

### Functions without state

A text is a sequence of symbols, cut at its dots, as far as the code looks at it.
`RegistrableDomain` of `WebmentionValidator` counts labels as the code does, and
`SameSite` says what it is for: two hosts whose registrable suffix is one.
`Preimage` of `RecordData` is what `content_hash` digests; the digest itself is
taken to be injective. `HybridSignature` holds the schemes symbolically: a byte
says of which key's signature of which message it is which byte, so that a cut at
a wrong offset is visible; the offsets are constants. Base64 and the forms of PEM
are left out. `Leveling` has the tables of the Ada body. `PureFunctions` is a
client that asks one question and forgets it, over inputs around the boundaries.

## 3. What the runs show

A passing run explores its state space completely. With two workers the largest,
`dns_records` (4.0 million states), `consent_service` (3.4 million),
`limiter_limits` and `governance_safety`, take two to four minutes each, the
others less, most of them seconds.

| Run | Instance | Result |
|---|---|---|
| `governance_safety` | 3 identities, 3 mutations, 2 proposals, 2 policies, 2 ticks, a clock set back at will and forward by 1 | quorum, execution once, statuses follow approvals, only the loaded policy counts; timelocks are cut at most by what the clock was set forward; the enforcer implements `TimelockedQuorum`; proposals only advance; one with its approvals is executed in the end |
| `limiter_handlers` | 2 handlers of 1 address and 1 source, bursts, cancelled handlers, cleanup | every request is answered, although `cooldowns` is awaited with `ip_buckets` held |
| `limiter_limits` | 2 requests, with and without a source, an observer that starts at 2 moments | over any interval at most a full bucket and its refill are handed out; a client that waits a second longer than told is served; addresses are limited by one bucket with one burst detection each, sources by one bucket |
| `limiter_lockout` | - | *violated*: a request that checked before a lockout is served during it |
| `consent_service` | 3 concurrent calls of 5, failing connections and statements, restarts, new database | one initialiser, duplicates only from stores that overlap, conflicts have a rival, a store is acknowledged only when it happened or a revocation intervened |
| `consent_sync` | 2 users, 2 identities that change and are shared, 2 sessions, 2 calls, 3 page requests, unreliable posts, failing statements | the table allows only an identity whose present or former holder chose so since having it; once a post is answered, no choice comes back whose post was over before |
| `dns_records` | 2 resolvers, 1 id, 3 contents, 2 transactions, 1 zone, reorganisations, restarts, dropped clients | consent at creation, no resurrection, genuine provenance |
| `dns_consent` | - | *violated*: an update needs no consent |
| `dns_zones` | - | *violated*: a zone that was upserted is not found |
| `odns` | 3 queries, one oversized, one malformed, 2 proxies, 2 rotations, 3 restarts | no refusal before the first rotation; what is refused was sealed for an older key, one that waits for the lock, or one lost in a crash; every query that was read ends |
| `odns_announced` | - | *violated*: after a restart the announced key opens nothing |
| `pure_functions` | inputs around the boundaries | self-pings and only they are blocked; hashes tell records apart; reverse names follow networks; both halves of a signature are needed; levels are earned |

The violated properties are statements of the repository's documents, comments or
messages; `PROJECT.json` quotes them under "findings". Each of their runs stops at
a shortest counterexample.

Bounds. `MaxUptime` and `MaxTime` bound time: the timelocks of governance are at
most 2 ticks long, so that one can pass, on a clock set back, set forward by
`MaxLeaps`, or both in either order. In the limiter a cooldown lasts one tick
and a bucket is stale after two, so `limiter_handlers` sees both end; a minute
is two ticks, so the three of `limiter_limits` see a full refill and an
eviction, and the burst threshold of three lies below the four tokens of a full
bucket. Larger rates and longer times are what the theorems are for. Two
handlers suffice for each race the code can have on one key, three for the
initialisation of the consent service (one connects, two use). `MaxCalls` bounds
the requests received, `MaxVisits` those for pages of the plugin (two that
overlap and a third that follows), `MaxTx` the transactions, `MaxRotations` and
`MaxRestarts` the rotations and restarts of a behaviour: with two rotations a
query can be sealed for a key that is neither the file's nor the one held, and
three restarts let both kinds of process come back and the resolver do so twice.
Where such a bound makes every behaviour stop (`ConsentSync`, `Odns`), the
configuration turns the deadlock check off; the others keep it. Symmetry is used
for identifiers and handlers that are interchangeable, never in a run with a
liveness property.

Fairness. Governance: time goes on and clients call `executeMutation` again for
a proposal that can be executed; nothing in the code does, so this is an
assumption about clients. Nothing is assumed of who sets the clock, so the
promise is for a clock that is not set back beyond the modelled time
(`WillBeServed`). Rate limiter: tokio's locks are granted in the order of
requests, hence a handler that is enabled again and again goes on (strong
fairness); nothing is assumed of the cleanup task. oDNS: tasks that can run are
polled, the upstream wait ends after five seconds, the write lock is granted in
turn; nothing is assumed of clients, restarts or rotations.

## 4. What is proved

Each theorem holds for all values of the constants that meet the named assumptions
of the modules it is about: no bound of a configuration enters. What a run checks
and a theorem states under the same definition is listed in `PROJECT.json`. Every
invariant and every action property of a passing run, and the three refinements,
are stated by a theorem.

**`GovernanceProofs`** (`TypeCorrect`, `QuorumCorrect`, `TimelockCorrect`,
`ExecutedOnceCorrect`, `PolicyMinimumCorrect`, `StatusCorrect`, `AdvanceCorrect`).
Assumed are the shape of the policies, which the loader accepts, and the types of
the clock's constants. The argument is `InductiveInv`: the safety properties speak of the
history and are not inductive alone. The list of approvals must be without
repetition for its length to be the number of approvers (quorum). The stored end
of the timelock must be the policy's, and since the proposal the wall clock must
not have gained more than the time that passed and what it was set forward by
(timelock): setting it back only makes that easier. An executed proposal that lives must say
so (once). A live proposal must be one of the loaded policy, since a restart
forgets the others (policy minimum). One lemma per action preserves it, and the
lemmas `ProposeEffect`, `ApproveEffect` and `ExecuteEffect` say what an action does
to a single proposal. `AdvanceCorrect`, the action property, compares a live
proposal before and after each action: an approval appends to the list, an
execution only sets the status, and the restart leaves nothing live to compare.

**`GovernanceRefinement`** (`Refinement`): the enforcer implements
`TimelockedQuorum`. `MappingInv` adds to `InductiveInv` that a live proposal is
marked executed only if the history records it; each action is then a step of the
abstract specification, or leaves what the mapping shows as it is.

**`RateLimiterProofs`** (`LimiterTypeCorrect`, `RateBound`, `IpRefinement`,
`SourceRefinement`, `RetryAfter`). `LockInv`, by construction, relates the lock to the
program counters, `LimiterInv` adds the types and that no bucket keeps a request
younger than its last use. The three that speak of rates are accounts.

- `ObserverInv`: the tokens handed out since the observer started and those left in
  the bucket (a full one, where the map has no entry) are at most a full bucket and
  what flowed in. A sweep keeps it because it removes only buckets older than
  `Stale`, which is long enough for them to be full again (`ObserverAssumption`,
  `LimiterAssumption`).
- The refinements map the bucket of a key to its level refilled up to the present
  and its request times to those within the window. In `IpRefinement` a
  detected burst is a handler that holds the lock; when it writes the cooldown, or
  is dropped, that is the abstract `LockOut` (`LockInv`: nobody else holds it). The
  steps of a sweep, of pruning and of a request that only looks are shown to leave
  the view as it is.
- The buckets of sources are never pruned, so `SourceRefinement` needs an account of
  the times they keep: since any moment those took at most a full bucket and what
  flowed in (`Afforded`). A window is at most a minute, 10 s of 60
  (`BucketAssumption`), which makes that twice the rate in a window.

`RetryAfter` is arithmetic: the seconds told round the ticks that lack down by less
than a second, which the second waited longer makes up for.

**`ConsentProofs`** (`TypeCorrect`, `OneConnects`, `DuplicatesExplained`,
`ConflictExplained`, `AcknowledgedStored`; with the plugin `STypeCorrect`,
`ConsentGiven`, `LastSaveCorrect`). `ConsentInv` says that a handler which connects
the client is alone and that the client is assigned; that an id is used once; and,
of a store between its select and its write, that what it read is still so unless a
rival or a revocation came between. A store that finds no record and creates one
although there is one by then has a rival, whether the index exists or not: that is
`DuplicatesExplained`.

`ChoiceInv` follows a choice from the form over the meta data, the request and the
call to the table: at each station an "on" is for an identity its user has or had,
and was given for it. `LastSaveCorrect` needs `DueInv` as well. Of each call and each
request that posts it says that its choice is due; of a request, that all that is
under way for its identity counts as overlapping (`Overlaps`); and of one whose post
was stored and that has not heard so, that the table shows nothing older
(`Replaced`), which a store that takes effect later cannot undo, being one of those
that overlap. The exception for two records of one identity is needed: an update
writes one of them and a query may return the other.

**`DnsRecordsProofs`** (`TypeCorrect`, `ProvenanceGenuine`,
`ConsentBeforeCreation`, `DeletedForGood`). `InductiveInv` says what is still true of
what a resolver holds across an await: the identity consented at some moment of the
call, the content was one the record has had, the transaction carries its hash and
was mined before it is stored, which a reorganisation does not take back.

**`OdnsProofs`** (`OdnsTypeCorrect`, `RefusalCorrect`, `RefusalsExplained`) from
`KeyInv`, which orders the keys generated, announced, waiting and held, and says
that before the first rotation there is only one. Its part `KeysAccounted` is what
explains a refusal: every key a process was told is the one held or older, waits
for the lock, or was lost in a crash.

**`FunctionProofs`** (`LevelsCorrect`, `HybridCorrect`, `SelfPingsCorrect`,
`HashesCorrect`, `ReverseNamesCorrect`): the properties of `PureFunctions` for
all points and activities, keys, signatures and bytes of any length, hosts of
any labels, records and addresses of any parts and tables of any length;
`QuestionsAssumption` gives only the types of what is asked. `Asked` says which
question is open, and each theorem then rests on a lemma about the functions
themselves (`LevelsEarned`, `HybridNeedsBothHalves`, `SitesAreDomains`,
`TextsTellRecordsApart`, `SuffixesAreNetworks`, `NamesTellApart`), which no
range of `PureFunctions` bounds. The hash is read from the front: the first
colon of the text ends the name, in the records the property is about, whose
names have none (`NamesEndTogether`), and what follows is of fixed length up to
the value.

**`SelectionProofs`** has the lemmas about `Select` these modules cite: what it
returns is of the sequence's type, in the set and in the sequence, appending
commutes with it, and selecting twice selects the intersection. The induction
theorems of the library take an operator as a parameter and cannot be
instantiated, so a claim about every number, or every sequence, is written as the
set of those that satisfy it, which is all of them because the numbers outside it
would have a least one (`LeastNumber`, `NumbersByInduction`).

Only model-checked is liveness (`EnoughApprovalsLeadToExecution`,
`RequestsAreAnswered`, `QueriesEnd`): the proof system does not reason about
fairness and ENABLED. The runs that expect a violation have counterexamples and
nothing to prove.

## 5. Other divergences met while modelling

The runs show four divergences, of which three take a race, a restart or a sequence
of calls to see. The others are plain to the eye once the lines stand side by side;
the models take the code's side.

| Where the code differs | From what |
|---|---|
| IB `graphql-dns-api/src/policy.rs:302`: only a Pending proposal becomes Approved, so one with a timelock stays TimelockActive however many approve | `graphql-dns-api/NICKEL-INTEGRATION.adoc:196`, "When enough approvals: status → APPROVED" |
| `policy.rs:243` and `:327`: the timelock is measured on the wall clock, and a step forward of it, even one that corrects a step back, ends timelocks early | the hours of the policy |
| IB `services/webmention-rate-limiter/src/limiter.rs:76`: a bucket starts full and refills, so nearly twice the rate is served in one minute | `config.rs:39`, "max" requests per minute |
| `handlers.rs:162`, same crate: the time to wait is truncated to seconds | a client told to wait one second may be refused after one |
| IB `services/consent-api/mod.affine:60`: the schema, with the unique index, is defined after the first awaits | `:79` relies on the index for one record per identity; duplicates created before keep it from ever being defined |
| `mod.affine:117`: a post whose record is revoked meanwhile updates nothing and answers 201 | `SONNET-TASKS.adoc:668`, a post stores the preferences and returns 201 |
| IB `wordpress/indieweb2-consent.php:281`: the posts of two sessions may arrive in either order | `wordpress/README.adoc:109`, consent is synchronised on save |
| `indieweb2-consent.php:176`: the notice of success is printed whatever the post returned | the notice itself |
| `indieweb2-consent.php:257`: the identity is the URL in the profile; a changed one leaves the record of the old one as it was, perhaps allowing, and two users with one URL share a record | `wordpress/README.adoc:109`, consent is synchronised when a profile is updated |
| IB `graphql-dns-api/src/blockchain.rs:101`: one confirmation is waited for, and a reorganisation after it is not noticed | a stored provenance is read as a proof |
| IB `graphql-dns-api/src/db.rs:275`: the statistic counts `blockchain_tx_hash`, which nothing assigns | `schema.graphql:163`, anchored records |
| `resolvers.rs:353`, same crate: `executeMutation` marks the proposal executed and performs no mutation | its name |
| `resolvers.rs:402`: the name of an IPv6 address is its text with dots, neither expanded nor reversed | the comment there calls it simplified |
| `dnssec.rs`: `generate_keys` drops the secret keys, so nothing can be signed with the keys of a zone | its result is stored as the zone's keys |
| `models.rs:101`: names with a colon pass validation and may give two records one hash | the hash stands for the record on the chain |
| IB `services/webmention-rate-limiter/src/validator.rs:104`: self-pings are refused only while source and target are required | `block_self_ping` is an option of its own |
| `validator.rs:225`, same crate: a host with a trailing dot counts one label more | it is the same host |
| IB `odns-rs/proxy/src/main.rs:137`: the proxy reads and logs the names its clients ask for | IB `PRIVACY.adoc:86`, queries are encrypted and not logged |
| `proxy/src/main.rs:105`: an IPv4-mapped address passes the IPv6-only switch | the switch's description at `:57` |
| `backend/ada-core/src/civicconnect-verification.ads:12`: at most three verifications a day | nothing in the package counts them |

## 6. What could follow

1. The Zig interface, when it has operations of its own; the storing operations of
   the Ada core and the Rust API, when they store.
2. The order in which saves reach the consent service, if posts get a number: then
   `LastSaveIsStored` could name the one save the table shows, without those that
   overlap.
3. A revocation of the old identity when a profile changes, if the plugin gets one:
   then `ConsentWasGiven` could speak of the present holder alone.

## 7. What is not modelled

- Cryptography beyond what a key opens or signs; digests, base64, PEM; the SPHINCS+
  fallback, whose functions wrap one library call each.
- How a URL, a JSON body or a DNS message is parsed; HTTP routing; logging;
  rendering of the plugin's pages.
- Names with a colon in what `HashTellsRecordsApart` claims (section 5), and the order
  and stability of the pages of a query, which are the database's.
- `f64` rounding in the rate limiter, its statistics, and those of the DNS API,
  which read four tables one after another and change nothing.
- Choice of network, verification of a hash and IPFS in `blockchain.rs`: calls to a
  node whose answers are passed on.
- The loss of a whole host in oDNS, which closes no connection.
- The ERC-20 and registry contracts (48 and 36 lines): each function is one atomic
  transaction of two or three checked assignments. The canisters: each message
  appends to a list or replaces an entry. The Zig interface: examples that test a
  handle. A property of any of them would restate an assignment.
- The Rust API, the Elixir channel and the Ada procedures that award or decay
  points: placeholders that keep nothing.
- Tools, templates, declarations: see `PROJECT.json`, each with its reason.
