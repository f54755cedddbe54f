-------------------------------- MODULE Odns --------------------------------
(***************************************************************************)
(* The oblivious DNS pair of indieweb2-bastion/odns-rs: proxies that take  *)
(* a client's DNS-over-TLS query, seal it for the resolver's public key    *)
(* and forward it, and a resolver that opens it, asks an upstream server   *)
(* and answers in clear.                                                   *)
(*                                                                         *)
(* A proxy reads its public key once, when it starts.  The resolver reads  *)
(* its secret key from a file when it starts and replaces it in memory on  *)
(* every rotation; the file is never written.  A key pair is named by a    *)
(* number: FileKey is the pair whose secret half is in the file, and n is  *)
(* the pair of the n-th rotation.  Sealing is modelled by what it does: a  *)
(* message opens only with the secret half of the key it was sealed for.   *)
(***************************************************************************)
EXTENDS Naturals

CONSTANTS
    Proxies,        \* the running proxy processes
    Queries,        \* client connections; each carries one query
    Large,          \* the queries above 63927 bytes: too long once sealed
    Malformed,      \* the queries that are not DNS messages
    MaxRotations,   \* bound on the rotations of a behaviour
    MaxRestarts     \* bound on the process restarts of a behaviour

ASSUME SubsetsAssumption ==
    /\ Large \subseteq Queries
    /\ Malformed \subseteq Queries

ASSUME BoundsAssumption ==
    /\ MaxRotations \in Nat
    /\ MaxRestarts \in Nat

VARIABLES
    query,      \* per connection: how far it is, its proxy and sealing key
    pinned,     \* the public key each proxy read when it started
    sk,         \* the secret key the resolver holds, NoKey while it is down
    next,       \* the key a rotation generated and waits to install, or NoKey
    generated,  \* the rotations that generated a key so far
    announced,  \* the public key the operator was last told to configure
    forgotten,  \* the last key generated before a crash of the resolver, history only
    restarts    \* process restarts so far

vars == <<query, pinned, sk, next, generated, announced, forgotten, restarts>>

FileKey == 0
Keys == 0 .. MaxRotations
NoKey == MaxRotations + 1

Stages == {"idle", "rejected", "accepted", "sealed", "sent", "opened",
           "resolved", "answered", "failed", "refused"}

\* A connection whose two handlers have ended, whatever the outcome.
Ended == {"answered", "failed", "refused", "rejected"}

Connections == [stage : Stages, proxy : Proxies, key : Keys]

Init ==
    /\ query \in [Queries -> {c \in Connections : c.stage = "idle"
                                                   /\ c.key = FileKey}]
    /\ pinned = [p \in Proxies |-> FileKey]
    /\ sk = FileKey
    /\ next = NoKey
    /\ generated = 0
    /\ announced = FileKey
    /\ forgotten = FileKey
    /\ restarts = 0

MoveTo(q, stage) == query' = [query EXCEPT ![q].stage = stage]

\* write_framed carries at most MAX_PAYLOAD bytes: a sealed query is its
\* plaintext and OVERHEAD, 1608 bytes of key ciphertext, nonce and tag.
FitsFrame(q) == q \notin Large

\* decrypt_query: decapsulating with another secret key gives another shared
\* secret, and the authentication of the message fails.
Opens(q, key) == query[q].key = key

\* The connections that die with the process that holds them.
Drop(lost) ==
    query' = [q \in Queries |->
                IF q \in lost THEN [query[q] EXCEPT !.stage = "failed"]
                               ELSE query[q]]

-----------------------------------------------------------------------------
(***************************************************************************)
(* The proxy.                                                              *)
(***************************************************************************)

\* The accept loop: a connection gets a task, unless --ipv6-only turns it away.
Accept(q) ==
    /\ query[q].stage = "idle"
    /\ \E stage \in {"accepted", "rejected"} : MoveTo(q, stage)
    /\ UNCHANGED <<pinned, sk, next, generated, announced, forgotten, restarts>>

\* handle_connection, up to the call of forward_to_resolver: the handshake
\* or the read fails, or the query is read and sealed.
ReadQuery(q) ==
    /\ query[q].stage = "accepted"
    /\ \/ MoveTo(q, "failed")
       \/ query' = [query EXCEPT ![q].stage = "sealed",
                                 ![q].key = pinned[query[q].proxy]]
    /\ UNCHANGED <<pinned, sk, next, generated, announced, forgotten, restarts>>

\* A proxy that waits for the resolver to come back.
ForwardToResolver_Waits(q) ==
    /\ query[q].stage = "sealed" /\ sk # NoKey
    /\ MoveTo(q, IF ~FitsFrame(q) THEN "failed" ELSE "sent")
    /\ UNCHANGED <<pinned, sk, next, generated, announced, forgotten, restarts>>

\* forward_to_resolver, up to the wait for the answer: connect, then
\* write_framed, which refuses a message longer than MAX_PAYLOAD.
ForwardToResolver(q) ==
    /\ query[q].stage = "sealed"
    /\ MoveTo(q, IF sk = NoKey \/ ~FitsFrame(q) THEN "failed" ELSE "sent")
    /\ UNCHANGED <<pinned, sk, next, generated, announced, forgotten, restarts>>

\* The resolver's answer is read and written to the client, if it is there.
Respond(q) ==
    /\ query[q].stage = "resolved"
    /\ \E stage \in {"answered", "failed"} : MoveTo(q, stage)
    /\ UNCHANGED <<pinned, sk, next, generated, announced, forgotten, restarts>>

\* A proxy is restarted, by a crash or to configure the announced key: it
\* loads the key it is given and its connections are gone.
RestartProxy(p) ==
    /\ restarts < MaxRestarts
    /\ restarts' = restarts + 1
    /\ \E key \in {pinned[p], announced} : pinned' = [pinned EXCEPT ![p] = key]
    /\ Drop({q \in Queries : query[q].proxy = p
                             /\ query[q].stage \notin Ended \union {"idle"}})
    /\ UNCHANGED <<sk, next, generated, announced, forgotten>>

-----------------------------------------------------------------------------
(***************************************************************************)
(* The resolver.                                                           *)
(***************************************************************************)

\* handle_connection, up to the upstream query: the key is read under the
\* lock, the message opened with it and parsed.
Decrypt(q) ==
    /\ query[q].stage = "sent" /\ sk # NoKey
    /\ MoveTo(q, IF ~Opens(q, sk) THEN "refused"
                 ELSE IF q \in Malformed THEN "failed" ELSE "opened")
    /\ UNCHANGED <<pinned, sk, next, generated, announced, forgotten, restarts>>

\* resolve_upstream: one datagram out; an answer that parses comes back
\* within five seconds, or the query fails.
ResolveUpstream(q) ==
    /\ query[q].stage = "opened"
    /\ \E stage \in {"resolved", "failed"} : MoveTo(q, stage)
    /\ UNCHANGED <<pinned, sk, next, generated, announced, forgotten, restarts>>

\* key_rotation_loop, up to the lock: the interval has passed, a pair is
\* generated and its public half logged for the operator.
GenerateKeypair ==
    /\ sk # NoKey /\ next = NoKey
    /\ generated < MaxRotations
    /\ generated' = generated + 1
    /\ next' = generated'
    /\ announced' = generated'
    /\ UNCHANGED <<query, pinned, sk, forgotten, restarts>>

\* A rotation that gives up when the lock is taken.
InstallKey_TryLock ==
    /\ next # NoKey
    /\ sk' \in {sk, next}
    /\ next' = NoKey
    /\ UNCHANGED <<query, pinned, generated, announced, forgotten, restarts>>

\* key_rotation_loop, under the write lock: the new key replaces the old
\* one, which no query can use from then on.
InstallKey ==
    /\ next # NoKey
    /\ sk' = next
    /\ next' = NoKey
    /\ UNCHANGED <<query, pinned, generated, announced, forgotten, restarts>>

\* A resolver whose end leaves the proxies' connections open.
CrashResolver_Undropped ==
    /\ sk # NoKey
    /\ restarts < MaxRestarts
    /\ restarts' = restarts + 1
    /\ forgotten' = generated
    /\ sk' = NoKey
    /\ next' = NoKey
    /\ UNCHANGED <<query, pinned, generated, announced>>

\* The resolver process ends: its key is lost with its connections.
CrashResolver ==
    /\ sk # NoKey
    /\ restarts < MaxRestarts
    /\ restarts' = restarts + 1
    /\ forgotten' = generated
    /\ sk' = NoKey
    /\ next' = NoKey
    /\ Drop({q \in Queries : query[q].stage \in {"sent", "opened"}})
    /\ UNCHANGED <<pinned, generated, announced>>

\* A resolver that generates its key instead of loading it.
StartResolver_Keygen ==
    /\ sk = NoKey
    /\ \E key \in Keys \ {FileKey} : sk' = key
    /\ UNCHANGED <<query, pinned, next, generated, announced, forgotten, restarts>>

\* main of the resolver: the secret key comes from the file.
StartResolver ==
    /\ sk = NoKey
    /\ sk' = FileKey
    /\ UNCHANGED <<query, pinned, next, generated, announced, forgotten, restarts>>

-----------------------------------------------------------------------------
Step(q) == ForwardToResolver(q) \/ Decrypt(q) \/ ResolveUpstream(q) \/ Respond(q)

Next ==
    \/ \E q \in Queries : Accept(q) \/ ReadQuery(q) \/ Step(q)
    \/ \E p \in Proxies : RestartProxy(p)
    \/ GenerateKeypair
    \/ InstallKey
    \/ CrashResolver
    \/ StartResolver

Spec == Init /\ [][Next]_vars

\* Tasks that can run are polled; the write lock is granted in turn; the
\* upstream wait is bounded.  Nothing is assumed of clients or of restarts.
Fairness ==
    /\ \A q \in Queries : WF_vars(Step(q))
    /\ WF_vars(InstallKey)

FairSpec == Spec /\ Fairness

-----------------------------------------------------------------------------
(***************************************************************************)
(* Properties.                                                             *)
(***************************************************************************)

\* The type invariant: the variables keep their types, and a query waits at
\* the resolver only while the resolver runs (a crash drops the others).
TypeOK ==
    /\ query \in [Queries -> Connections]
    /\ pinned \in [Proxies -> Keys]
    /\ sk \in Keys \union {NoKey}
    /\ next \in Keys \union {NoKey}
    /\ generated \in 0 .. MaxRotations
    /\ announced \in Keys
    /\ forgotten \in Keys
    /\ restarts \in 0 .. MaxRestarts
    /\ \A q \in Queries : query[q].stage \in {"sent", "opened"} => sk # NoKey

\* However often proxies and resolver restart, no query is refused for its
\* key before the first rotation: every process starts from the same pair
\* (load_secret_key, load_public_key).
RefusedOnlyAfterRotation ==
    generated = 0 => \A q \in Queries : query[q].stage # "refused"

\* A query in flight is refused for one of three reasons: a rotation has
\* replaced its key; its key was announced and waits for the lock; its key was
\* generated before a crash of the resolver, which lost it (key_rotation_loop).
\* A key that is announced and installed opens until the next of these.
RefusalsAreExplained ==
    [][\A q \in Queries :
          query[q].stage = "sent" /\ query'[q].stage = "refused" =>
              \/ query[q].key < sk
              \/ query[q].key = next
              \/ query[q].key <= forgotten]_vars

\* A query that was read from its client comes to an end, answered or not,
\* even when the resolver never comes back (handle_connection of both).
QueriesEnd ==
    \A q \in Queries :
        query[q].stage \in {"sealed", "sent", "opened", "resolved"}
            ~> query[q].stage \in Ended

\* "new public key -- update proxy configuration": once every proxy has
\* been given the announced key and no rotation is under way, a running
\* resolver opens what they seal.
AnnouncedKeyOpens ==
    (\A p \in Proxies : pinned[p] = announced) /\ next = NoKey
        => sk \in {NoKey, announced}
=============================================================================
