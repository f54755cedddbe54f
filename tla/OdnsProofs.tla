----------------------------- MODULE OdnsProofs -----------------------------
(***************************************************************************)
(* Theorems about Odns for any number of proxies, connections, rotations   *)
(* and restarts.                                                           *)
(***************************************************************************)
EXTENDS Odns, TLAPS

\* The keys in play: the key announced is the last one generated, a key that
\* waits for the lock is that one, the resolver then still runs, and the keys
\* that it holds and that it lost are among those generated.
KeyOrder ==
    /\ announced = generated
    /\ next \in {NoKey, announced}
    /\ next # NoKey => sk # NoKey
    /\ sk \in {NoKey} \union 0 .. generated
    /\ forgotten <= generated

\* A key that some process was told of is held or older than the one held,
\* waits for the lock, or was lost in a crash.
Accounted(key) ==
    \/ sk # NoKey /\ key <= sk
    \/ key = next
    \/ key <= forgotten

KeysAccounted ==
    /\ Accounted(announced)
    /\ \A p \in Proxies : Accounted(pinned[p]) /\ pinned[p] <= generated
    /\ \A q \in Queries : Accounted(query[q].key) /\ query[q].key <= generated

\* Before the first rotation every process and every message has one key.
OneKey ==
    generated = 0 =>
        /\ next = NoKey
        /\ sk \in {NoKey, FileKey}
        /\ \A p \in Proxies : pinned[p] = FileKey
        /\ \A q \in Queries : query[q].key = FileKey
                              /\ query[q].stage # "refused"

KeyInv == TypeOK /\ KeyOrder /\ KeysAccounted /\ OneKey

-----------------------------------------------------------------------------
\* Moving one connection to another stage keeps its proxy and its key, and
\* leaves the other connections alone.
LEMMA MoveToLemma ==
    ASSUME query \in [Queries -> Connections],
           NEW q \in Queries, NEW stage \in Stages, MoveTo(q, stage)
    PROVE  /\ query' \in [Queries -> Connections]
           /\ query'[q].stage = stage
           /\ \A r \in Queries : query'[r].key = query[r].key
           /\ \A r \in Queries : r # q => query'[r] = query[r]
<1>1. query' = [query EXCEPT ![q] = [query[q] EXCEPT !.stage = stage]]
  BY DEF MoveTo
<1>2. [query[q] EXCEPT !.stage = stage] \in Connections
  BY DEF Connections
<1>3. [query[q] EXCEPT !.stage = stage].stage = stage
      /\ [query[q] EXCEPT !.stage = stage].key = query[q].key
  BY DEF Connections
<1>. QED BY <1>1, <1>2, <1>3

\* A process that ends fails the connections it holds and no others.
LEMMA DropLemma ==
    ASSUME query \in [Queries -> Connections], NEW lost, Drop(lost)
    PROVE  /\ query' \in [Queries -> Connections]
           /\ \A r \in Queries : query'[r].key = query[r].key
           /\ \A r \in Queries : r \in lost => query'[r].stage = "failed"
           /\ \A r \in Queries : r \notin lost => query'[r] = query[r]
<1>1. ASSUME NEW r \in Queries
      PROVE  [query[r] EXCEPT !.stage = "failed"] \in Connections
             /\ [query[r] EXCEPT !.stage = "failed"].key = query[r].key
             /\ [query[r] EXCEPT !.stage = "failed"].stage = "failed"
  BY DEF Connections, Stages
<1>. QED BY <1>1 DEF Drop

\* The initial state satisfies the key invariant.
LEMMA KeyInit == Init => KeyInv
<1>. SUFFICES ASSUME Init PROVE KeyInv
  OBVIOUS
<1>. USE BoundsAssumption DEF Init, FileKey, Keys, NoKey
<1>1. TypeOK
  BY DEF TypeOK, Connections, Stages
<1>2. KeyOrder
  BY DEF KeyOrder
<1>3. KeysAccounted
  BY DEF KeysAccounted, Accounted
<1>4. OneKey
  BY DEF OneKey
<1>. QED BY <1>1, <1>2, <1>3, <1>4 DEF KeyInv

\* A connection step that leaves the keys alone keeps the key invariant, if
\* it refuses nothing and lets nothing wait at a resolver that is down.
LEMMA ConnectionStep ==
    ASSUME KeyInv, NEW q \in Queries, NEW stage \in Stages, MoveTo(q, stage),
           stage \in {"sent", "opened"} => sk # NoKey,
           stage = "refused" => generated # 0,
           UNCHANGED <<pinned, sk, next, generated, announced, forgotten, restarts>>
    PROVE  KeyInv'
<1>. USE DEF KeyInv
<1>1. /\ query' \in [Queries -> Connections]
      /\ query'[q].stage = stage
      /\ \A r \in Queries : query'[r].key = query[r].key
      /\ \A r \in Queries : r # q => query'[r] = query[r]
  BY MoveToLemma DEF TypeOK
<1>2. TypeOK'
  BY <1>1 DEF TypeOK, Keys, NoKey
<1>3. KeyOrder'
  BY DEF KeyOrder, NoKey
<1>4. KeysAccounted'
  BY <1>1 DEF KeysAccounted, Accounted, NoKey
<1>5. OneKey'
  BY <1>1 DEF OneKey, NoKey
<1>. QED BY <1>2, <1>3, <1>4, <1>5

\* Every step of a connection keeps the key invariant.
LEMMA ConnectionSteps ==
    ASSUME KeyInv, NEW q \in Queries,
           Accept(q) \/ ReadQuery(q) \/ ForwardToResolver(q) \/ Decrypt(q)
               \/ ResolveUpstream(q) \/ Respond(q)
    PROVE  KeyInv'
<1>. USE DEF Stages
<1>1. CASE Accept(q)
  <2>. PICK stage \in {"accepted", "rejected"} : MoveTo(q, stage)
    BY <1>1 DEF Accept
  <2>. QED BY <1>1, ConnectionStep DEF Accept
<1>2. CASE ReadQuery(q)
  <2>1. CASE MoveTo(q, "failed")
    BY <1>2, <2>1, ConnectionStep DEF ReadQuery
  <2>2. CASE query' = [query EXCEPT ![q].stage = "sealed",
                                    ![q].key = pinned[query[q].proxy]]
    <3>. DEFINE key == pinned[query[q].proxy]
                sealed == [query[q] EXCEPT !.stage = "sealed", !.key = key]
    <3>0. query \in [Queries -> Connections] /\ pinned \in [Proxies -> Keys]
      BY DEF KeyInv, TypeOK
    <3>1. query[q].proxy \in Proxies /\ key \in Keys
      BY <3>0 DEF Connections
    <3>2. sealed \in Connections /\ sealed.stage = "sealed" /\ sealed.key = key
      BY <3>0, <3>1 DEF Connections
    <3>3. query' = [query EXCEPT ![q] = sealed]
      BY <2>2
    <3>4. UNCHANGED <<pinned, sk, next, generated, announced, forgotten, restarts>>
      BY <1>2 DEF ReadQuery
    <3>5. /\ query' \in [Queries -> Connections]
          /\ query'[q].stage = "sealed" /\ query'[q].key = key
          /\ \A r \in Queries : r # q => query'[r] = query[r]
      BY <3>0, <3>2, <3>3
    <3>. HIDE DEF key, sealed
    <3>6. TypeOK'
      BY <3>4, <3>5 DEF KeyInv, TypeOK, Keys, NoKey
    <3>7. KeyOrder'
      BY <3>4 DEF KeyInv, KeyOrder, NoKey
    <3>8. KeysAccounted'
      BY <3>1, <3>4, <3>5 DEF KeyInv, KeysAccounted, Accounted, NoKey, key
    <3>9. OneKey'
      BY <3>1, <3>4, <3>5 DEF KeyInv, OneKey, NoKey, key
    <3>. QED BY <3>6, <3>7, <3>8, <3>9 DEF KeyInv
  <2>. QED BY <1>2, <2>1, <2>2 DEF ReadQuery
<1>3. CASE ForwardToResolver(q)
  BY <1>3, ConnectionStep DEF ForwardToResolver
<1>4. CASE Decrypt(q)
  <2>. DEFINE stage == IF ~Opens(q, sk) THEN "refused"
                       ELSE IF q \in Malformed THEN "failed" ELSE "opened"
  <2>1. stage \in Stages
    OBVIOUS
  <2>2. sk # NoKey /\ MoveTo(q, stage)
    BY <1>4 DEF Decrypt
  <2>3. generated = 0 => stage # "refused"
    BY <2>2 DEF KeyInv, OneKey, Opens
  <2>4. UNCHANGED <<pinned, sk, next, generated, announced, forgotten, restarts>>
    BY <1>4 DEF Decrypt
  <2>. HIDE DEF stage
  <2>. QED BY <2>1, <2>2, <2>3, <2>4, ConnectionStep
<1>5. CASE ResolveUpstream(q)
  <2>. PICK stage \in {"resolved", "failed"} : MoveTo(q, stage)
    BY <1>5 DEF ResolveUpstream
  <2>. QED BY <1>5, ConnectionStep DEF ResolveUpstream
<1>6. CASE Respond(q)
  <2>. PICK stage \in {"answered", "failed"} : MoveTo(q, stage)
    BY <1>6 DEF Respond
  <2>. QED BY <1>6, ConnectionStep DEF Respond
<1>. QED BY <1>1, <1>2, <1>3, <1>4, <1>5, <1>6

\* Every step keeps the key invariant.
LEMMA KeyStep == KeyInv /\ [Next]_vars => KeyInv'
<1>. SUFFICES ASSUME KeyInv, [Next]_vars PROVE KeyInv'
  OBVIOUS
<1>0. TypeOK /\ KeyOrder /\ KeysAccounted /\ OneKey
  BY DEF KeyInv
<1>1. ASSUME NEW q \in Queries, Accept(q) \/ ReadQuery(q) \/ Step(q)
      PROVE  KeyInv'
  BY <1>1, ConnectionSteps DEF Step
<1>2. ASSUME NEW p \in Proxies, RestartProxy(p)
      PROVE  KeyInv'
  <2>. DEFINE lost == {q \in Queries : query[q].proxy = p
                          /\ query[q].stage \notin Ended \union {"idle"}}
  <2>1. /\ query' \in [Queries -> Connections]
        /\ \A r \in Queries : query'[r].key = query[r].key
        /\ \A r \in Queries : r \in lost => query'[r].stage = "failed"
        /\ \A r \in Queries : r \notin lost => query'[r] = query[r]
    BY <1>0, <1>2, DropLemma DEF TypeOK, RestartProxy
  <2>. HIDE DEF lost
  <2>2. PICK key \in {pinned[p], announced} :
            pinned' = [pinned EXCEPT ![p] = key]
    BY <1>2 DEF RestartProxy
  <2>3. restarts < MaxRestarts /\ restarts' = restarts + 1
        /\ UNCHANGED <<sk, next, generated, announced, forgotten>>
    BY <1>2 DEF RestartProxy
  <2>4. TypeOK'
    BY <1>0, <2>1, <2>2, <2>3, BoundsAssumption DEF TypeOK, Keys, NoKey
  <2>5. KeyOrder'
    BY <1>0, <2>3 DEF KeyOrder, NoKey
  <2>6. KeysAccounted'
    <3>1. Accounted(key) /\ key <= generated
      BY <1>0, <2>2 DEF KeysAccounted, KeyOrder, TypeOK, Keys
    <3>2. \A r \in Proxies : Accounted(pinned'[r]) /\ pinned'[r] <= generated
      BY <1>0, <2>2, <3>1 DEF KeysAccounted, TypeOK
    <3>. QED BY <1>0, <2>1, <2>3, <3>2 DEF KeysAccounted, Accounted, NoKey
  <2>7. OneKey'
    BY <1>0, <2>1, <2>2, <2>3 DEF OneKey, KeyOrder, TypeOK, FileKey, NoKey
  <2>. QED BY <2>4, <2>5, <2>6, <2>7 DEF KeyInv
<1>3. CASE GenerateKeypair
  <2>1. TypeOK' /\ KeyOrder' /\ OneKey'
    BY <1>0, <1>3, BoundsAssumption
    DEF GenerateKeypair, TypeOK, KeyOrder, OneKey, Keys, NoKey, FileKey
  <2>2. KeysAccounted'
    BY <1>0, <1>3, BoundsAssumption
    DEF GenerateKeypair, TypeOK, KeyOrder, KeysAccounted, Accounted, Connections, Keys, NoKey, FileKey
  <2>. QED BY <2>1, <2>2 DEF KeyInv
<1>4. CASE InstallKey
  <2>1. TypeOK' /\ KeyOrder' /\ OneKey'
    BY <1>0, <1>4, BoundsAssumption
    DEF InstallKey, TypeOK, KeyOrder, OneKey, Keys, NoKey, FileKey
  <2>2. KeysAccounted'
    BY <1>0, <1>4, BoundsAssumption
    DEF InstallKey, TypeOK, KeyOrder, KeysAccounted, Accounted, Connections, Keys, NoKey, FileKey
  <2>. QED BY <2>1, <2>2 DEF KeyInv
<1>5. CASE CrashResolver
  <2>. DEFINE lost == {q \in Queries : query[q].stage \in {"sent", "opened"}}
  <2>1. /\ query' \in [Queries -> Connections]
        /\ \A r \in Queries : query'[r].key = query[r].key
        /\ \A r \in Queries : r \in lost => query'[r].stage = "failed"
        /\ \A r \in Queries : r \notin lost => query'[r] = query[r]
    BY <1>0, <1>5, DropLemma DEF TypeOK, CrashResolver
  <2>2. \A r \in Queries : query'[r].stage \notin {"sent", "opened"}
    BY <2>1
  <2>. HIDE DEF lost
  <2>3. /\ restarts < MaxRestarts /\ restarts' = restarts + 1
        /\ forgotten' = generated /\ sk' = NoKey /\ next' = NoKey
        /\ UNCHANGED <<pinned, generated, announced>>
    BY <1>5 DEF CrashResolver
  <2>4. TypeOK'
    BY <1>0, <2>1, <2>2, <2>3, BoundsAssumption DEF TypeOK, Keys, NoKey
  <2>5. KeyOrder'
    BY <1>0, <2>3, BoundsAssumption DEF KeyOrder, TypeOK, Keys, NoKey
  <2>6. KeysAccounted'
    BY <1>0, <2>1, <2>3, BoundsAssumption
    DEF KeysAccounted, KeyOrder, Accounted, TypeOK, Keys, NoKey
  <2>7. OneKey'
    BY <1>0, <2>1, <2>3 DEF OneKey, NoKey
  <2>. QED BY <2>4, <2>5, <2>6, <2>7 DEF KeyInv
<1>6. CASE StartResolver
  <2>1. TypeOK' /\ KeyOrder' /\ OneKey'
    BY <1>0, <1>6, BoundsAssumption
    DEF StartResolver, TypeOK, KeyOrder, OneKey, Keys, NoKey, FileKey
  <2>2. KeysAccounted'
    BY <1>0, <1>6, BoundsAssumption
    DEF StartResolver, TypeOK, KeyOrder, KeysAccounted, Accounted, Connections, Keys, NoKey, FileKey
  <2>. QED BY <2>1, <2>2 DEF KeyInv
<1>7. CASE UNCHANGED vars
  BY <1>0, <1>7
  DEF vars, KeyInv, TypeOK, KeyOrder, KeysAccounted, Accounted, OneKey, NoKey, Keys
<1>. QED BY <1>1, <1>2, <1>3, <1>4, <1>5, <1>6, <1>7 DEF Next

\* The key invariant holds in every reachable state: generated, announced,
\* waiting and held keys are in this order whatever restarts.
THEOREM KeyInvCorrect == Spec => []KeyInv
<1>. QED BY KeyInit, KeyStep, PTL DEF Spec

\* The variables keep their types, and no query waits at a resolver that is
\* down (handle_connection of the resolver).
THEOREM OdnsTypeCorrect == Spec => []TypeOK
<1>1. KeyInv => TypeOK
  BY DEF KeyInv
<1>. QED BY <1>1, KeyInvCorrect, PTL

\* No query is refused for its key before the first rotation
\* (load_secret_key, load_public_key).
THEOREM RefusalCorrect == Spec => []RefusedOnlyAfterRotation
<1>1. KeyInv => RefusedOnlyAfterRotation
  BY DEF KeyInv, OneKey, RefusedOnlyAfterRotation
<1>. QED BY <1>1, KeyInvCorrect, PTL

\* Only Decrypt refuses a query.
LEMMA OnlyDecryptRefuses ==
    ASSUME KeyInv, [Next]_vars, NEW q \in Queries,
           query[q].stage = "sent", query'[q].stage = "refused"
    PROVE  Decrypt(q)
<1>0. query \in [Queries -> Connections] /\ query'[q] # query[q]
  BY DEF KeyInv, TypeOK
<1>1. ASSUME NEW r \in Queries, r # q \/ ~ Decrypt(q),
             Accept(r) \/ ReadQuery(r) \/ Step(r)
      PROVE  FALSE
  BY <1>0, <1>1 DEF Accept, ReadQuery, Step, ForwardToResolver, Decrypt,
                    ResolveUpstream, Respond, MoveTo, Connections
<1>2. ASSUME NEW lost, Drop(lost) PROVE FALSE
  BY <1>0, <1>2, DropLemma
<1>. QED BY <1>0, <1>1, <1>2
     DEF Next, RestartProxy, GenerateKeypair, InstallKey, CrashResolver, StartResolver, vars

\* A query is refused for its key only after a rotation or a crash of the
\* resolver since its proxy was told of the key, or before the installation
\* (key_rotation_loop).
THEOREM RefusalsExplained == Spec => RefusalsAreExplained
<1>1. KeyInv /\ [Next]_vars =>
         [\A q \in Queries :
             query[q].stage = "sent" /\ query'[q].stage = "refused" =>
                 \/ query[q].key < sk
                 \/ query[q].key = next
                 \/ query[q].key <= forgotten]_vars
  <2>. SUFFICES ASSUME KeyInv, [Next]_vars, NEW q \in Queries,
                       query[q].stage = "sent", query'[q].stage = "refused",
                       query[q].key # next, ~ (query[q].key <= forgotten)
                PROVE  query[q].key < sk
    OBVIOUS
  <2>1. query[q].key \in Keys /\ sk # NoKey /\ sk \in Keys
    BY DEF KeyInv, TypeOK, Connections
  <2>2. query[q].key <= sk
    BY <2>1 DEF KeyInv, KeysAccounted, Accounted
  <2>3. query[q].key # sk
    <3>1. Decrypt(q)
      BY OnlyDecryptRefuses
    <3>2. PICK stage \in {"refused", "failed", "opened"} :
             MoveTo(q, stage) /\ (stage = "refused" => ~ Opens(q, sk))
      BY <3>1 DEF Decrypt
    <3>3. query \in [Queries -> Connections] /\ stage \in Stages
      BY DEF KeyInv, TypeOK, Stages
    <3>4. query'[q].stage = stage
      BY <3>2, <3>3, MoveToLemma
    <3>. QED BY <3>2, <3>4 DEF Opens
  <2>. QED BY <2>1, <2>2, <2>3 DEF Keys
<1>. QED BY <1>1, KeyInvCorrect, PTL DEF Spec, RefusalsAreExplained
=============================================================================
