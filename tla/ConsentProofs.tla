---------------------------- MODULE ConsentProofs ----------------------------
(***************************************************************************)
(* Proofs about ConsentApi and ConsentSync, for any number of identities,  *)
(* records, handlers, users and PHP requests, whether or not the database  *)
(* fails, the process restarts or posts are lost.                          *)
(***************************************************************************)
EXTENDS ConsentSync, FiniteSetTheorems, TLAPS

-----------------------------------------------------------------------------
(***************************************************************************)
(* The inductive invariant.                                                *)
(***************************************************************************)
Initialising(c) == calls[c].pc \in {"connect", "use", "schema"}

\* Who connects the client has assigned it, alone.
ClientInv ==
    /\ \A c \in Call : Initialising(c) => client # "null"
    /\ \A c, d \in Call : Initialising(c) /\ Initialising(d) => c = d

\* Ids are not used again: one that holds a record was drawn.
TableInv == DuplicatesOverlapped /\ DOMAIN records \subseteq drawn

\* What a store read before its digest may be wrong when it writes, but then
\* another one, or a revocation, has come between.
CallInv(c) ==
    LET call == calls[c]
    IN  /\ call.pc = "write" /\ call.found = NoRecord /\ Of(call.identity) # {}
              => call.rival
        /\ call.pc = "write" /\ call.found # NoRecord =>
              /\ call.found \in drawn
              /\ call.found \in DOMAIN records =>
                    records[call.found].identity = call.identity
              /\ call.found \notin DOMAIN records => call.revoked
        /\ call.status = "conflict" => call.rival
        /\ call.status = "stored" => call.took \/ call.revoked

ConsentInv ==
    /\ TypeOK
    /\ ClientInv
    /\ TableInv
    /\ \A c \in Call : CallInv(c)

-----------------------------------------------------------------------------
(***************************************************************************)
(* What becomes of calls.                                                  *)
(***************************************************************************)
\* A handler with nothing to do.
LEMMA NoCallType == ASSUME NEW i \in Identity PROVE NoCall(i) \in CallState
  BY DEF NoCall, CallState, PC, Kind, Choice, Status

\* A call that goes on changes its place only.
LEMMA GotoType ==
    ASSUME TypeOK, NEW c \in Call, NEW pc \in PC, Goto(c, pc)
    PROVE  /\ calls' \in [Call -> CallState]
           /\ calls'[c] = [calls[c] EXCEPT !.pc = pc] /\ calls'[c].pc = pc
           /\ calls'[c].status = calls[c].status /\ calls'[c].rival = calls[c].rival
           /\ calls'[c].took = calls[c].took /\ calls'[c].revoked = calls[c].revoked
           /\ \A d \in Call \ {c} : calls'[d] = calls[d]
  <1>. DEFINE next == [calls[c] EXCEPT !.pc = pc]
  <1>1. calls \in [Call -> CallState]
    BY DEF TypeOK
  <1>2. /\ next \in CallState /\ next.pc = pc
        /\ next.status = calls[c].status /\ next.rival = calls[c].rival
        /\ next.took = calls[c].took /\ next.revoked = calls[c].revoked
    BY <1>1 DEF CallState
  <1>3. calls' = [calls EXCEPT ![c] = next]
    BY <1>1 DEF Goto
  <1>. QED BY <1>1, <1>2, <1>3

\* A call that ends keeps what happened meanwhile.
LEMMA FinishType ==
    ASSUME TypeOK, NEW c \in Call, NEW status \in Status, Finish(c, status)
    PROVE  /\ calls' \in [Call -> CallState]
           /\ calls'[c].pc = "idle" /\ calls'[c].status = status
           /\ calls'[c].rival = calls[c].rival
           /\ calls'[c].took = calls[c].took /\ calls'[c].revoked = calls[c].revoked
           /\ \A d \in Call \ {c} : calls'[d] = calls[d]
  <1>. DEFINE next == [calls[c] EXCEPT !.pc = "idle", !.status = status]
  <1>1. calls \in [Call -> CallState]
    BY DEF TypeOK
  <1>2. /\ next \in CallState /\ next.pc = "idle" /\ next.status = status
        /\ next.rival = calls[c].rival
        /\ next.took = calls[c].took /\ next.revoked = calls[c].revoked
    BY <1>1 DEF CallState, PC
  <1>3. calls' = [calls EXCEPT ![c] = next]
    BY <1>1 DEF Finish
  <1>. QED BY <1>1, <1>2, <1>3

\* A store that took effect, and those of its identity that run beside it.
LEMMA StoredType ==
    ASSUME TypeOK, NEW c \in Call, NEW status \in Status, Stored(c, status)
    PROVE  /\ calls' \in [Call -> CallState]
           /\ calls'[c].pc = "idle" /\ calls'[c].status = status /\ calls'[c].took
           /\ \A d \in Call \ {c} :
                 /\ calls'[d].pc = calls[d].pc /\ calls'[d].identity = calls[d].identity
                 /\ calls'[d].found = calls[d].found /\ calls'[d].status = calls[d].status
                 /\ calls'[d].took = calls[d].took /\ calls'[d].revoked = calls[d].revoked
                 /\ calls[d].rival \/ calls[d].identity = calls[c].identity
                       => calls'[d].rival
  <1>1. calls \in [Call -> CallState]
    BY DEF TypeOK
  <1>2. /\ [calls[c] EXCEPT !.pc = "idle", !.status = status, !.took = TRUE] \in CallState
        /\ calls'[c] = [calls[c] EXCEPT !.pc = "idle", !.status = status, !.took = TRUE]
    BY <1>1 DEF CallState, PC, Stored
  <1>3. ASSUME NEW d \in Call \ {c}
        PROVE  /\ calls'[d] \in CallState
               /\ calls'[d].pc = calls[d].pc /\ calls'[d].identity = calls[d].identity
               /\ calls'[d].found = calls[d].found /\ calls'[d].status = calls[d].status
               /\ calls'[d].took = calls[d].took /\ calls'[d].revoked = calls[d].revoked
               /\ calls[d].rival \/ calls[d].identity = calls[c].identity
                     => calls'[d].rival
    <2>1. calls'[d] = IF calls[d].identity = calls[c].identity
                      THEN [calls[d] EXCEPT !.rival = TRUE] ELSE calls[d]
      BY DEF Stored
    <2>. QED BY <1>1, <2>1 DEF CallState
  <1>4. calls' = [d \in Call |-> calls'[d]]
    BY DEF Stored
  <1>5. calls' \in [Call -> CallState]
    BY <1>2, <1>3, <1>4
  <1>6. calls'[c].pc = "idle" /\ calls'[c].status = status /\ calls'[c].took
    BY <1>1, <1>2 DEF CallState
  <1>. QED BY <1>3, <1>5, <1>6

\* A call that another one's step does not touch stays in order while the table
\* is not written.
LEMMA CallStays ==
    ASSUME NEW c \in Call, CallInv(c), calls'[c] = calls[c], UNCHANGED <<records, drawn>>
    PROVE  CallInv(c)'
  BY DEF CallInv, Of

\* A step of one call that leaves the table alone.
LEMMA CallStep ==
    ASSUME ConsentInv, NEW c \in Call, UNCHANGED <<records, drawn, overtaken>>,
           calls' \in [Call -> CallState],
           \A d \in Call \ {c} : calls'[d] = calls[d],
           CallInv(c)', ClientInv',
           client' \in {"null", "created", "connected", "ready"}, schema' \in BOOLEAN,
           received' \in 0..MaxCalls
    PROVE  ConsentInv'
  <1>1. TypeOK'
    BY DEF ConsentInv, TypeOK
  <1>2. \A d \in Call : CallInv(d)'
    BY CallStays DEF ConsentInv
  <1>3. TableInv'
    BY DEF ConsentInv, TableInv, DuplicatesOverlapped
  <1>. QED BY <1>1, <1>2, <1>3 DEF ConsentInv

\* A request is received by a handler that is free.
LEMMA ReceiveStep ==
    ASSUME ConsentInv, NEW c \in Call, NEW kind \in Kind, NEW i \in Identity,
           NEW choice \in Choice, Receive(c, kind, i, choice)
    PROVE  ConsentInv'
  <1>. DEFINE call == [NoCall(i) EXCEPT !.pc = "init", !.kind = kind, !.choice = choice]
  <1>1. call \in CallState /\ call.pc = "init" /\ call.status = "none"
    BY NoCallType DEF CallState, PC, NoCall
  <1>2. /\ calls' \in [Call -> CallState] /\ calls'[c] = call
        /\ \A d \in Call \ {c} : calls'[d] = calls[d]
    BY <1>1 DEF ConsentInv, TypeOK, Receive
  <1>3. CallInv(c)'
    BY <1>1, <1>2 DEF CallInv
  <1>4. ClientInv'
    BY <1>1, <1>2 DEF ConsentInv, ClientInv, Initialising, Receive
  <1>5. received' \in 0..MaxCalls
    BY ConsentAssumption DEF ConsentInv, TypeOK, Receive
  <1>. QED BY <1>2, <1>3, <1>4, <1>5, CallStep DEF ConsentInv, TypeOK, Receive

\* Only the first handler connects.
LEMMA InitDatabaseStep ==
    ASSUME ConsentInv, NEW c \in Call, InitDatabase(c)
    PROVE  ConsentInv'
  <1>1. PICK pc \in {"query", "connect"} :
           /\ Goto(c, pc) /\ (pc = "connect" => client = "null")
           /\ client' = IF pc = "connect" THEN "created" ELSE client
    BY DEF InitDatabase
  <1>2. /\ calls' \in [Call -> CallState] /\ calls'[c].pc = pc
        /\ calls'[c].status = calls[c].status /\ calls'[c].rival = calls[c].rival
        /\ calls'[c].took = calls[c].took /\ calls'[c].revoked = calls[c].revoked
        /\ \A d \in Call \ {c} : calls'[d] = calls[d]
    BY <1>1, GotoType DEF ConsentInv, PC
  <1>3. CallInv(c)'
    BY <1>1, <1>2 DEF CallInv, ConsentInv
  <1>4. ClientInv'
    BY <1>1, <1>2 DEF ConsentInv, ClientInv, Initialising, InitDatabase
  <1>. QED BY <1>1, <1>2, <1>3, <1>4, CallStep
       DEF ConsentInv, TypeOK, InitDatabase

\* A call ends without a write.
LEMMA FinishStep ==
    ASSUME ConsentInv, NEW c \in Call, NEW status \in Status \ {"stored", "conflict"},
           Finish(c, status), UNCHANGED <<client, schema, records, received, drawn, overtaken>>
    PROVE  ConsentInv'
  <1>1. /\ calls' \in [Call -> CallState] /\ calls'[c].pc = "idle"
        /\ calls'[c].status = status
        /\ \A d \in Call \ {c} : calls'[d] = calls[d]
    BY FinishType DEF ConsentInv
  <1>2. CallInv(c)'
    BY <1>1 DEF CallInv
  <1>3. ClientInv'
    BY <1>1 DEF ConsentInv, ClientInv, Initialising
  <1>. QED BY <1>1, <1>2, <1>3, CallStep DEF ConsentInv, TypeOK

\* The handler that connects goes through its three awaits.
LEMMA ConnectingStep ==
    ASSUME ConsentInv, NEW c \in Call, Connect(c) \/ Use(c) \/ DefineSchema(c)
    PROVE  ConsentInv'
  <1>1. CASE Finish(c, "unavailable") /\ UNCHANGED <<client, schema>>
    BY <1>1, FinishStep DEF Status, Connect, Use, DefineSchema
  <1>2. ASSUME NEW pc \in {"use", "schema", "query"}, Goto(c, pc), Initialising(c),
               client' \in {"created", "connected", "ready"},
               schema' \in BOOLEAN, UNCHANGED <<records, received, drawn, overtaken>>
        PROVE  ConsentInv'
    <2>1. /\ calls' \in [Call -> CallState] /\ calls'[c].pc = pc
          /\ calls'[c].status = calls[c].status /\ calls'[c].rival = calls[c].rival
          /\ calls'[c].took = calls[c].took /\ calls'[c].revoked = calls[c].revoked
          /\ \A d \in Call \ {c} : calls'[d] = calls[d]
      BY <1>2, GotoType DEF ConsentInv, PC
    <2>2. CallInv(c)'
      BY <1>2, <2>1 DEF CallInv, ConsentInv
    <2>3. ClientInv'
      BY <1>2, <2>1 DEF ConsentInv, ClientInv, Initialising
    <2>. QED BY <1>2, <2>1, <2>2, <2>3, CallStep DEF ConsentInv, TypeOK
  <1>3. CASE Connect(c) /\ Goto(c, "use") /\ client' = "connected"
    BY <1>2, <1>3 DEF Connect, Initialising, ConsentInv, TypeOK
  <1>4. CASE Use(c) /\ Goto(c, "schema") /\ client' = "ready"
    BY <1>2, <1>4 DEF Use, Initialising, ConsentInv, TypeOK
  <1>5. CASE DefineSchema(c) /\ Goto(c, "query") /\ ~ Duplicates /\ schema' = TRUE
    <2>1. client \in {"created", "connected", "ready"}
      BY <1>5 DEF ConsentInv, ClientInv, Initialising, DefineSchema, TypeOK
    <2>. QED BY <1>2, <1>5, <2>1 DEF DefineSchema, Initialising
  <1>. QED BY <1>1, <1>3, <1>4, <1>5 DEF Connect, Use, DefineSchema

\* Statements that answer at once.
LEMMA AnswerStep ==
    ASSUME ConsentInv, NEW c \in Call, QueryTooEarly(c) \/ StatementFails(c) \/ Read(c)
    PROVE  ConsentInv'
  <1>1. PICK status \in Status \ {"stored", "conflict"} : Finish(c, status)
    BY DEF QueryTooEarly, StatementFails, Read, Status
  <1>. QED BY <1>1, FinishStep DEF QueryTooEarly, StatementFails, Read

\* What the first statement of a store finds is right when it is read.
LEMMA SelectStep ==
    ASSUME ConsentInv, NEW c \in Call, SelectExisting(c)
    PROVE  ConsentInv'
  <1>1. PICK id \in Select(calls[c].identity) :
           calls' = [calls EXCEPT ![c].pc = "write", ![c].found = id]
    BY DEF SelectExisting
  <1>. DEFINE call == [calls[c] EXCEPT !.pc = "write", !.found = id]
  <1>2. \/ id = NoRecord /\ Of(calls[c].identity) = {}
        \/ id \in DOMAIN records /\ records[id].identity = calls[c].identity
    BY DEF Select, Of
  <1>3. id \in RecordId \cup {NoRecord} /\ calls \in [Call -> CallState]
    BY <1>2 DEF ConsentInv, TypeOK
  <1>4. /\ call \in CallState /\ call.pc = "write" /\ call.found = id
        /\ call.identity = calls[c].identity /\ call.status = calls[c].status
        /\ call.rival = calls[c].rival
        /\ call.took = calls[c].took /\ call.revoked = calls[c].revoked
    BY <1>3 DEF CallState, PC
  <1>5. calls' = [calls EXCEPT ![c] = call]
    BY <1>1, <1>3
  <1>6. calls' \in [Call -> CallState] /\ calls'[c] = call
        /\ \A d \in Call \ {c} : calls'[d] = calls[d]
    BY <1>3, <1>4, <1>5
  <1>7. CallInv(c)
    BY DEF ConsentInv
  <1>8. id # NoRecord => id \in drawn
    BY <1>2 DEF ConsentInv, TableInv
  <1>10. CallInv(c)'
    <2>1. calls'[c].pc = "write" /\ calls'[c].found = id
          /\ calls'[c].identity = calls[c].identity /\ calls'[c].status = calls[c].status
          /\ calls'[c].rival = calls[c].rival
          /\ calls'[c].took = calls[c].took /\ calls'[c].revoked = calls[c].revoked
      BY <1>4, <1>6
    <2>2. records' = records /\ drawn' = drawn
      BY DEF SelectExisting
    <2>3. Of(calls[c].identity)' = Of(calls[c].identity)
      BY <2>1, <2>2 DEF Of
    <2>4. id # NoRecord => id \in DOMAIN records
      BY <1>2
    <2>5. id = NoRecord => Of(calls[c].identity) = {}
      BY <1>2, RecordAssumption DEF ConsentInv, TypeOK
    <2>. HIDE DEF call
    <2>. QED BY <1>2, <1>7, <1>8, <2>1, <2>2, <2>3, <2>4, <2>5, RecordAssumption DEF CallInv
  <1>11. ClientInv'
    BY <1>4, <1>6 DEF ConsentInv, ClientInv, Initialising, SelectExisting
  <1>. QED BY <1>6, <1>10, <1>11, CallStep
       DEF ConsentInv, TypeOK, SelectExisting

\* An update changes the preference and counts itself.
LEMMA UpdatedRecord ==
    ASSUME NEW record \in ConsentRecord, NEW choice \in Choice
    PROVE  LET next == [record EXCEPT !.dnsOperations = choice, !.version = @ + 1]
           IN  /\ next \in ConsentRecord /\ next.identity = record.identity
               /\ next.version = record.version + 1 /\ next.dnsOperations = choice
  <1>1. record.version + 1 \in Nat
    BY DEF ConsentRecord
  <1>2. ASSUME NEW v \in Nat
        PROVE  LET next == [record EXCEPT !.dnsOperations = choice, !.version = v]
               IN  /\ next \in ConsentRecord /\ next.identity = record.identity
                   /\ next.version = v /\ next.dnsOperations = choice
    BY DEF ConsentRecord
  <1>. QED BY <1>1, <1>2

\* An update of the record that was found, or of none if it was deleted.
LEMMA UpdateStep ==
    ASSUME ConsentInv, NEW c \in Call, UpdateExisting(c)
    PROVE  ConsentInv'
  <1>. DEFINE id == calls[c].found
  <1>1. calls \in [Call -> CallState] /\ CallInv(c) /\ calls[c].pc = "write" /\ id # NoRecord
    BY DEF ConsentInv, TypeOK, UpdateExisting
  <1>2. CASE id \in DOMAIN records
    <2>1. /\ records' = [records EXCEPT ![id].dnsOperations = calls[c].choice,
                                       ![id].version = @ + 1]
          /\ UNCHANGED <<client, schema, received, drawn, overtaken>>
      BY <1>2 DEF UpdateExisting
    <2>1a. PICK status \in {"stored", "unavailable"} : Stored(c, status)
      BY <1>2 DEF UpdateExisting, Outcomes
    <2>2. /\ calls' \in [Call -> CallState]
          /\ calls'[c].pc = "idle" /\ calls'[c].status = status /\ calls'[c].took
          /\ \A d \in Call \ {c} :
                /\ calls'[d].pc = calls[d].pc /\ calls'[d].identity = calls[d].identity
                /\ calls'[d].found = calls[d].found /\ calls'[d].status = calls[d].status
                /\ calls'[d].took = calls[d].took /\ calls'[d].revoked = calls[d].revoked
                /\ calls[d].rival \/ calls[d].identity = calls[c].identity
                      => calls'[d].rival
      BY <2>1a, StoredType DEF ConsentInv, Status
    <2>3. /\ records \in [DOMAIN records -> ConsentRecord] /\ DOMAIN records \subseteq RecordId
          /\ calls[c].choice \in Choice /\ id \in RecordId
      BY <1>1, <1>2 DEF ConsentInv, TypeOK, CallState
    <2>. DEFINE record == [records[id] EXCEPT !.dnsOperations = calls[c].choice,
                                              !.version = @ + 1]
    <2>4. record \in ConsentRecord /\ record.identity = records[id].identity
      BY <1>2, <2>3, UpdatedRecord
    <2>5. records' = [records EXCEPT ![id] = record]
      BY <2>1, <2>3, <1>2, Zenon
    <2>6. /\ DOMAIN records' = DOMAIN records /\ records' \in [DOMAIN records -> ConsentRecord]
          /\ \A k \in DOMAIN records : records'[k].identity = records[k].identity
      BY <1>2, <2>3, <2>4, <2>5
    <2>7. TypeOK'
      BY <2>1, <2>2, <2>3, <2>6 DEF ConsentInv, TypeOK
    <2>8. ClientInv'
      BY <2>1, <2>2 DEF ConsentInv, ClientInv, Initialising
    <2>9. TableInv'
      BY <2>1, <2>6 DEF ConsentInv, TableInv, DuplicatesOverlapped
    <2>10. ASSUME NEW d \in Call
           PROVE  CallInv(d)'
      <3>1. CASE d = c
        BY <3>1, <2>2 DEF CallInv
      <3>2. ASSUME d # c
            PROVE  CallInv(d)'
        <4>1. CallInv(d) /\ calls[d].found \in RecordId \cup {NoRecord}
          BY <1>1 DEF ConsentInv, CallState
        <4>2. Of(calls[d].identity)' = Of(calls[d].identity)
          BY <2>2, <2>6, <3>2 DEF Of
        <4>. QED BY <3>2, <4>1, <4>2, <2>1, <2>2, <2>6 DEF CallInv, Of
      <3>. QED BY <3>1, <3>2
    <2>. QED BY <2>7, <2>8, <2>9, <2>10 DEF ConsentInv
  <1>3. ASSUME id \notin DOMAIN records
        PROVE  ConsentInv'
    <2>1. /\ Finish(c, "stored")
          /\ UNCHANGED <<client, schema, records, received, drawn, overtaken>>
      BY <1>3 DEF UpdateExisting
    <2>2. calls[c].revoked
      BY <1>1, <1>3 DEF CallInv
    <2>3. /\ calls' \in [Call -> CallState] /\ calls'[c].pc = "idle"
          /\ calls'[c].status = "stored" /\ calls'[c].revoked = calls[c].revoked
          /\ \A d \in Call \ {c} : calls'[d] = calls[d]
      BY <2>1, FinishType DEF ConsentInv, Status
    <2>4. CallInv(c)'
      BY <2>2, <2>3 DEF CallInv
    <2>5. ClientInv'
      BY <2>1, <2>3 DEF ConsentInv, ClientInv, Initialising
    <2>. QED BY <2>1, <2>3, <2>4, <2>5, CallStep DEF ConsentInv, TypeOK
  <1>. QED BY <1>2, <1>3

\* A record under an id that was never drawn, unless the index refuses it.
LEMMA CreateStep ==
    ASSUME ConsentInv, NEW c \in Call, NEW id \in RecordId, CreateNew(c, id)
    PROVE  ConsentInv'
  <1>. DEFINE i == calls[c].identity
  <1>1. /\ calls \in [Call -> CallState] /\ CallInv(c) /\ calls[c].pc = "write"
        /\ calls[c].found = NoRecord /\ id \notin drawn
        /\ i \in Identity /\ calls[c].choice \in Choice
    BY DEF ConsentInv, TypeOK, CreateNew, CallState
  <1>2. ASSUME NEW status \in {"stored", "unavailable"}, Stored(c, status),
               drawn' = drawn \cup {id},
               overtaken' = IF calls[c].rival THEN overtaken \cup {id} ELSE overtaken,
               records' = [k \in DOMAIN records \cup {id} |->
                             IF k = id
                             THEN [identity |-> i, dnsOperations |-> calls[c].choice,
                                   version |-> 1]
                             ELSE records[k]]
        PROVE  ConsentInv'
    <2>1. UNCHANGED <<client, schema, received>>
      BY DEF CreateNew
    <2>2. /\ calls' \in [Call -> CallState]
          /\ calls'[c].pc = "idle" /\ calls'[c].status = status /\ calls'[c].took
          /\ \A d \in Call \ {c} :
                /\ calls'[d].pc = calls[d].pc /\ calls'[d].identity = calls[d].identity
                /\ calls'[d].found = calls[d].found /\ calls'[d].status = calls[d].status
                /\ calls'[d].took = calls[d].took /\ calls'[d].revoked = calls[d].revoked
                /\ calls[d].rival \/ calls[d].identity = i => calls'[d].rival
      BY <1>2, StoredType DEF ConsentInv, Status
    <2>3. /\ records \in [DOMAIN records -> ConsentRecord] /\ DOMAIN records \subseteq RecordId
          /\ DOMAIN records \subseteq drawn
          /\ drawn \subseteq RecordId /\ overtaken \subseteq RecordId
      BY DEF ConsentInv, TypeOK, TableInv
    <2>4. id \notin DOMAIN records
      BY <1>1, <2>3
    <2>. DEFINE record == [identity |-> i, dnsOperations |-> calls[c].choice, version |-> 1]
    <2>5. record \in ConsentRecord /\ record.identity = i
      BY <1>1 DEF ConsentRecord
    <2>6. /\ DOMAIN records' = DOMAIN records \cup {id} /\ records'[id] = record
          /\ \A k \in DOMAIN records : records'[k] = records[k]
      BY <1>2, <2>4
    <2>7. records' \in [DOMAIN records' -> ConsentRecord]
      BY <1>2, <2>3, <2>5, <2>6
    <2>8. TypeOK'
      BY <1>2, <2>1, <2>2, <2>3, <2>6, <2>7 DEF ConsentInv, TypeOK
    <2>9. ClientInv'
      BY <2>1, <2>2 DEF ConsentInv, ClientInv, Initialising
    <2>10. DuplicatesOverlapped'
      <3>1. ASSUME NEW a \in DOMAIN records', NEW b \in DOMAIN records',
                   a # b, records'[a].identity = records'[b].identity
            PROVE  a \in overtaken' \/ b \in overtaken'
        <4>1. CASE a # id /\ b # id
          BY <1>2, <3>1, <4>1, <2>6 DEF ConsentInv, TableInv, DuplicatesOverlapped
        <4>2. CASE a = id \/ b = id
          <5>1. PICK k \in DOMAIN records : records[k].identity = i
            BY <3>1, <4>2, <2>5, <2>6
          <5>2. Of(i) # {}
            BY <5>1 DEF Of
          <5>3. calls[c].rival
            BY <1>1, <5>2 DEF CallInv
          <5>. QED BY <1>2, <4>2, <5>3
        <4>. QED BY <4>1, <4>2
      <3>. QED BY <3>1 DEF DuplicatesOverlapped
    <2>11. DOMAIN records' \subseteq drawn'
      BY <1>2, <2>3, <2>6
    <2>12. ASSUME NEW d \in Call
           PROVE  CallInv(d)'
      <3>1. CASE d = c
        BY <3>1, <2>2 DEF CallInv
      <3>2. ASSUME d # c
            PROVE  CallInv(d)'
        <4>1. CallInv(d) /\ calls[d].found \in RecordId \cup {NoRecord}
          BY <1>1 DEF ConsentInv, CallState
        <4>2. calls[d].identity # i => Of(calls[d].identity)' = Of(calls[d].identity)
          BY <2>2, <2>4, <2>5, <2>6, <3>2 DEF Of
        <4>3. calls[d].found # NoRecord /\ calls[d].found \in drawn =>
                 /\ calls[d].found # id /\ calls[d].found \in drawn'
                 /\ calls[d].found \in DOMAIN records' => calls[d].found \in DOMAIN records
                 /\ calls[d].found \in DOMAIN records =>
                        records'[calls[d].found] = records[calls[d].found]
          BY <1>1, <1>2, <2>6, <4>1
        <4>. QED BY <3>2, <4>1, <4>2, <4>3, <2>2, <2>6 DEF CallInv
      <3>. QED BY <3>1, <3>2
    <2>. QED BY <2>8, <2>9, <2>10, <2>11, <2>12 DEF ConsentInv, TableInv
  <1>3. ASSUME schema, Of(i) # {}, Finish(c, "conflict"),
               UNCHANGED <<records, drawn, overtaken>>
        PROVE  ConsentInv'
    <2>1. UNCHANGED <<client, schema, received>>
      BY DEF CreateNew
    <2>2. calls[c].rival
      BY <1>1, <1>3 DEF CallInv
    <2>3. /\ calls' \in [Call -> CallState] /\ calls'[c].pc = "idle"
          /\ calls'[c].status = "conflict" /\ calls'[c].rival = calls[c].rival
          /\ \A d \in Call \ {c} : calls'[d] = calls[d]
      BY <1>3, FinishType DEF ConsentInv, Status
    <2>4. CallInv(c)'
      BY <2>2, <2>3 DEF CallInv
    <2>5. ClientInv'
      BY <2>1, <2>3 DEF ConsentInv, ClientInv, Initialising
    <2>. QED BY <1>3, <2>1, <2>3, <2>4, <2>5, CallStep DEF ConsentInv, TypeOK
  <1>. QED BY <1>2, <1>3 DEF CreateNew, Outcomes

\* A revocation deletes what other calls may have found.
LEMMA RevokeStep ==
    ASSUME ConsentInv, NEW c \in Call, Revoke(c)
    PROVE  ConsentInv'
  <1>. DEFINE i == calls[c].identity
  <1>1. /\ calls \in [Call -> CallState] /\ CallInv(c)
        /\ UNCHANGED <<client, schema, received, drawn, overtaken>>
        /\ records' = [id \in DOMAIN records \ Of(i) |-> records[id]]
    BY DEF ConsentInv, TypeOK, Revoke
  <1>1a. PICK status \in Status \ {"stored", "conflict"} :
           calls' = [d \in Call |->
                       IF d = c THEN [calls[c] EXCEPT !.pc = "idle", !.status = status]
                       ELSE IF calls[d].identity = i
                            THEN [calls[d] EXCEPT !.revoked = TRUE]
                            ELSE calls[d]]
    BY DEF Revoke, Outcomes, Status
  <1>2. /\ calls'[c] = [calls[c] EXCEPT !.pc = "idle", !.status = status]
        /\ \A d \in Call \ {c} : calls'[d] = IF calls[d].identity = i
                                              THEN [calls[d] EXCEPT !.revoked = TRUE]
                                              ELSE calls[d]
        /\ calls' = [d \in Call |-> calls'[d]]
    BY <1>1a
  <1>3. /\ calls'[c] \in CallState /\ calls'[c].pc = "idle" /\ calls'[c].status = status
    <2>1. calls[c] \in CallState /\ calls'[c] = [calls[c] EXCEPT !.pc = "idle", !.status = status]
      BY <1>1, <1>2
    <2>. QED BY <2>1 DEF CallState, PC
  <1>4. ASSUME NEW d \in Call \ {c}
        PROVE  /\ calls'[d] \in CallState
               /\ calls'[d].pc = calls[d].pc /\ calls'[d].identity = calls[d].identity
               /\ calls'[d].found = calls[d].found /\ calls'[d].status = calls[d].status
               /\ calls'[d].took = calls[d].took /\ calls'[d].rival = calls[d].rival
               /\ calls[d].revoked \/ calls[d].identity = i => calls'[d].revoked
    <2>1. calls'[d] = IF calls[d].identity = i
                      THEN [calls[d] EXCEPT !.revoked = TRUE] ELSE calls[d]
      BY <1>2
    <2>. QED BY <1>1, <2>1 DEF CallState
  <1>5. calls' \in [Call -> CallState]
    BY <1>2, <1>3, <1>4
  <1>6. /\ DOMAIN records' \subseteq DOMAIN records
        /\ \A id \in DOMAIN records' : records'[id] = records[id]
        /\ \A id \in DOMAIN records \ DOMAIN records' : records[id].identity = i
    BY <1>1 DEF Of
  <1>7. TypeOK'
    <2>1. records \in [DOMAIN records -> ConsentRecord]
      BY DEF ConsentInv, TypeOK
    <2>2. records' \in [DOMAIN records' -> ConsentRecord]
      BY <1>1, <1>6, <2>1
    <2>. QED BY <1>1, <1>5, <1>6, <2>2 DEF ConsentInv, TypeOK
  <1>8. ClientInv'
    BY <1>1, <1>3, <1>4 DEF ConsentInv, ClientInv, Initialising
  <1>9. TableInv'
    BY <1>1, <1>6 DEF ConsentInv, TableInv, DuplicatesOverlapped
  <1>10. ASSUME NEW d \in Call
         PROVE  CallInv(d)'
    <2>1. CASE d = c
      BY <2>1, <1>3 DEF CallInv
    <2>2. ASSUME d # c
          PROVE  CallInv(d)'
      <3>1. CallInv(d)
        BY DEF ConsentInv
      <3>2. Of(calls[d].identity)' \subseteq Of(calls[d].identity)
        BY <2>2, <1>4, <1>6 DEF Of
      <3>. QED BY <2>2, <3>1, <3>2, <1>1, <1>4, <1>6 DEF CallInv
    <2>. QED BY <2>1, <2>2
  <1>. QED BY <1>7, <1>8, <1>9, <1>10 DEF ConsentInv

\* Nothing of a handler survives the end of the process.
LEMMA RestartStep ==
    ASSUME ConsentInv, Restart
    PROVE  ConsentInv'
  <1>1. calls \in [Call -> CallState] /\ UNCHANGED <<schema, records, received, drawn, overtaken>>
        /\ client' = "null" /\ calls' = [c \in Call |-> NoCall(calls[c].identity)]
    BY DEF ConsentInv, TypeOK, Restart
  <1>2. ASSUME NEW c \in Call
        PROVE  /\ calls'[c] \in CallState
               /\ calls'[c].pc = "idle" /\ calls'[c].status = "none"
    BY <1>1, NoCallType DEF NoCall, CallState
  <1>3. TypeOK'
    BY <1>1, <1>2 DEF ConsentInv, TypeOK
  <1>4. ClientInv' /\ \A c \in Call : CallInv(c)'
    BY <1>2 DEF ClientInv, Initialising, CallInv
  <1>5. TableInv'
    BY <1>1 DEF ConsentInv, TableInv, DuplicatesOverlapped
  <1>. QED BY <1>3, <1>4, <1>5 DEF ConsentInv

LEMMA InitInv == ASSUME Init PROVE ConsentInv
  <1>. DEFINE i == CHOOSE i \in Identity : TRUE
  <1>1. i \in Identity
    BY ConsentAssumption
  <1>2. \A c \in Call : calls[c] = NoCall(i)
    BY DEF Init
  <1>3. NoCall(i).pc = "idle" /\ NoCall(i).status = "none"
    BY DEF NoCall
  <1>4. TypeOK
    BY <1>1, NoCallType, ConsentAssumption DEF Init, TypeOK
  <1>5. ClientInv /\ \A c \in Call : CallInv(c)
    BY <1>2, <1>3 DEF ClientInv, Initialising, CallInv
  <1>6. TableInv
    BY DEF Init, TableInv, DuplicatesOverlapped
  <1>. QED BY <1>4, <1>5, <1>6 DEF ConsentInv

\* A step of a handler that runs.
LEMMA StepInv == ASSUME ConsentInv, NEW c \in Call, Step(c) PROVE ConsentInv'
  BY InitDatabaseStep, ConnectingStep, AnswerStep, SelectStep, UpdateStep, CreateStep,
     RevokeStep DEF Step

LEMMA NextInv == ASSUME ConsentInv, [Next]_vars PROVE ConsentInv'
  <1>1. CASE UNCHANGED vars
    BY <1>1 DEF vars, ConsentInv, TypeOK, ClientInv, TableInv, CallInv, Initialising,
                DuplicatesOverlapped, Of
  <1>. QED BY <1>1, ReceiveStep, StepInv, RestartStep DEF Next

-----------------------------------------------------------------------------
(***************************************************************************)
(* The theorems about the service.                                         *)
(***************************************************************************)
\* The invariant holds in every state the service reaches.
THEOREM Invariance == Spec => []ConsentInv
  BY InitInv, NextInv, PTL DEF Spec

\* The client, the table and the handlers always have their types.
THEOREM TypeCorrect == Spec => []TypeOK
  <1>1. ConsentInv => TypeOK
    BY DEF ConsentInv
  <1>. QED BY <1>1, Invariance, PTL

\* initDatabase assigns db before its first await: one handler at most connects.
THEOREM OneConnects == Spec => []OneInitialiser
  <1>1. ConsentInv => OneInitialiser
    <2>. SUFFICES ASSUME ConsentInv PROVE OneInitialiser
      OBVIOUS
    <2>. DEFINE S == {c \in Call : Initialising(c)}
    <2>1. CASE S = {}
      BY <2>1, FS_EmptySet DEF OneInitialiser, Initialising
    <2>2. CASE S # {}
      <3>1. PICK c \in Call : S = {c}
        BY <2>2 DEF ConsentInv, ClientInv
      <3>. QED BY <3>1, FS_Singleton DEF OneInitialiser, Initialising
    <2>. QED BY <2>1, <2>2
  <1>. QED BY <1>1, Invariance, PTL

\* While the index is missing, only a store that another one overtook between its
\* query and its write gives an identity a second record.
THEOREM DuplicatesExplained == Spec => []DuplicatesOverlapped
  <1>1. ConsentInv => DuplicatesOverlapped
    BY DEF ConsentInv, TableInv
  <1>. QED BY <1>1, Invariance, PTL

\* A store fails on the unique index only when another one overtook it.
THEOREM ConflictExplained == Spec => []ConflictHasRival
  <1>1. ConsentInv => ConflictHasRival
    BY DEF ConsentInv, CallInv, ConflictHasRival
  <1>. QED BY <1>1, Invariance, PTL

\* A store answered 201 took effect, unless a revocation came between its query
\* and its update.
THEOREM AcknowledgedStored == Spec => []AcknowledgedUnlessRevoked
  <1>1. ConsentInv => AcknowledgedUnlessRevoked
    BY DEF ConsentInv, CallInv, AcknowledgedUnlessRevoked
  <1>. QED BY <1>1, Invariance, PTL

-----------------------------------------------------------------------------
(***************************************************************************)
(* The plugin in front of the service.                                     *)
(***************************************************************************)
\* A session posts for an identity that its user had, and "on" only when that was
\* given for it.
SessionInv(s) ==
    LET session == sessions[s]
    IN  /\ session.pc # "idle" => <<session.user, session.identity>> \in held
        /\ session.pc \in {"post", "wait"} =>
              /\ session.choice \in Choice
              /\ session.choice = "on" => <<session.user, session.identity>> \in given

CallGiven(c) ==
    calls[c].choice = "on" => \E u \in User : <<u, calls[c].identity>> \in given

\* What the users chose, what is kept in their meta data and what travels to the
\* table agree.
ChoiceInv ==
    /\ STypeOK
    /\ \A u \in User : url[u] # Nothing => <<u, url[u]>> \in held
    /\ \A p \in held : meta[p[1]] = "on" => p \in given
    /\ \A s \in Session : SessionInv(s)
    /\ \A c \in Call : CallGiven(c)
    /\ ConsentWasGiven

SyncInv == ConsentInv /\ ChoiceInv

\* What a handler was asked for, and for whom.
Request(call) == <<call.kind, call.identity, call.choice>>

\* A handler keeps the request it was given.
LEMMA RequestKept ==
    ASSUME TypeOK, NEW c \in Call, Step(c), NEW d \in Call
    PROVE  Request(calls'[d]) = Request(calls[d])
  <1>. USE DEF Request
  <1>1. calls \in [Call -> CallState]
    BY DEF TypeOK
  <1>2. ASSUME NEW pc, Goto(c, pc)
        PROVE  Request(calls'[d]) = Request(calls[d])
    BY <1>1, <1>2 DEF Goto, CallState
  <1>3. ASSUME NEW status, Finish(c, status)
        PROVE  Request(calls'[d]) = Request(calls[d])
    BY <1>1, <1>3 DEF Finish, CallState
  <1>4. ASSUME NEW status, Stored(c, status)
        PROVE  Request(calls'[d]) = Request(calls[d])
    BY <1>1, <1>4 DEF Stored, CallState
  <1>5. CASE SelectExisting(c)
    BY <1>1, <1>5 DEF SelectExisting, CallState
  <1>6. CASE Revoke(c)
    BY <1>1, <1>6 DEF Revoke, CallState
  <1>7. CASE InitDatabase(c) \/ Connect(c) \/ Use(c) \/ DefineSchema(c)
    BY <1>2, <1>3, <1>7 DEF InitDatabase, Connect, Use, DefineSchema
  <1>8. CASE QueryTooEarly(c) \/ StatementFails(c) \/ Read(c)
    BY <1>3, <1>8 DEF QueryTooEarly, StatementFails, Read
  <1>9. CASE UpdateExisting(c) \/ \E id \in RecordId : CreateNew(c, id)
    BY <1>3, <1>4, <1>9 DEF UpdateExisting, CreateNew
  <1>. QED BY <1>5, <1>6, <1>7, <1>8, <1>9 DEF Step

\* A record says what it said, or what the handler was asked to store for its
\* identity.
LEMMA RecordOrigin ==
    ASSUME ConsentInv, NEW c \in Call, Step(c), NEW id \in DOMAIN records'
    PROVE  \/ /\ id \in DOMAIN records
              /\ records'[id].identity = records[id].identity
              /\ records'[id].dnsOperations = records[id].dnsOperations
           \/ /\ records'[id].identity = calls[c].identity
              /\ records'[id].dnsOperations = calls[c].choice
  <1>1. CASE UNCHANGED records
    BY <1>1
  <1>2. CASE Revoke(c)
    BY <1>2 DEF Revoke
  <1>3. CASE \E k \in RecordId : CreateNew(c, k)
    BY <1>3 DEF CreateNew
  <1>4. CASE UpdateExisting(c) /\ records' # records
    <2>. DEFINE k == calls[c].found
    <2>1. /\ k \in DOMAIN records /\ calls[c].pc = "write" /\ k # NoRecord
          /\ records' = [records EXCEPT ![k].dnsOperations = calls[c].choice,
                                       ![k].version = @ + 1]
      BY <1>4 DEF UpdateExisting
    <2>2. records[k].identity = calls[c].identity
      BY <2>1 DEF ConsentInv, CallInv
    <2>3. records[k] \in ConsentRecord /\ calls[c].choice \in Choice
      BY <2>1 DEF ConsentInv, TypeOK, CallState
    <2>. DEFINE record == [records[k] EXCEPT !.dnsOperations = calls[c].choice,
                                             !.version = @ + 1]
    <2>4. record.identity = records[k].identity /\ record.dnsOperations = calls[c].choice
      BY <2>3, UpdatedRecord
    <2>5. records' = [records EXCEPT ![k] = record]
      BY <2>1, Zenon
    <2>. QED BY <2>1, <2>2, <2>4, <2>5
  <1>. QED BY <1>1, <1>2, <1>3, <1>4
       DEF Step, InitDatabase, Connect, Use, DefineSchema, QueryTooEarly, StatementFails,
           SelectExisting, Read

LEMMA SInitInv == ASSUME SInit PROVE SyncInv
  <1>1. ConsentInv
    BY InitInv DEF SInit
  <1>2. \A s \in Session : sessions[s].pc = "idle"
    BY DEF SInit, Idle
  <1>3. sessions \in [Session -> SessionState]
    BY DEF SInit, Idle, SessionState
  <1>4. STypeOK
    BY <1>1, <1>3, SyncAssumption DEF SInit, STypeOK, Choice, Default, ConsentInv
  <1>5. \A u \in User : url[u] # Nothing => <<u, url[u]>> \in held
    BY DEF SInit
  <1>6. \A p \in held : meta[p[1]] # "on"
    BY DEF SInit, Default
  <1>7. \A c \in Call : calls[c].choice = "off"
    BY DEF SInit, Init, NoCall
  <1>. QED BY <1>1, <1>2, <1>4, <1>5, <1>6, <1>7
       DEF SyncInv, ChoiceInv, SessionInv, CallGiven, SInit, Init, ConsentWasGiven

\* What was had and given stays so, and the service has not moved.
LEMMA PageKeeps ==
    ASSUME SyncInv, UNCHANGED vars, held \subseteq held', given \subseteq given',
           STypeOK',
           \A u \in User : url'[u] # Nothing => <<u, url'[u]>> \in held',
           \A p \in held' : meta'[p[1]] = "on" => p \in given',
           \A s \in Session : SessionInv(s)'
    PROVE  SyncInv'
  <1>1. ConsentInv'
    BY NextInv DEF SyncInv
  <1>2. \A c \in Call : CallGiven(c)'
    BY DEF SyncInv, ChoiceInv, vars, CallGiven
  <1>3. ConsentWasGiven'
    BY DEF SyncInv, ChoiceInv, ConsentWasGiven, vars
  <1>. QED BY <1>1, <1>2, <1>3 DEF SyncInv, ChoiceInv

\* The types of what a page request changes.
LEMMA PageTypes ==
    ASSUME SyncInv, UNCHANGED vars
    PROVE  TypeOK'
  BY NextInv DEF SyncInv, ConsentInv

\* A session that begins, or none.
LEMMA BeginType ==
    ASSUME SyncInv, NEW s \in Session, NEW u \in User, NEW i \in Identity, Begin(s, u, i)
    PROVE  /\ sessions' \in [Session -> SessionState]
           /\ sessions'[s].pc = "sync" /\ sessions'[s].user = u /\ sessions'[s].identity = i
           /\ \A t \in Session \ {s} : sessions'[t] = sessions[t]
  <1>. DEFINE session == [Idle EXCEPT !.pc = "sync", !.user = u, !.identity = i]
  <1>1. /\ session \in SessionState /\ session.pc = "sync"
        /\ session.user = u /\ session.identity = i
    BY DEF Idle, SessionState
  <1>2. sessions \in [Session -> SessionState] /\ sessions' = [sessions EXCEPT ![s] = session]
    BY DEF SyncInv, ChoiceInv, STypeOK, Begin
  <1>. QED BY <1>1, <1>2

\* A session of a user for an identity the user has, the others being as before.
LEMMA BegunInv ==
    ASSUME SyncInv, NEW s \in Session, NEW u, NEW i, <<u, i>> \in held',
           held \subseteq held', given \subseteq given',
           \/ UNCHANGED sessions
           \/ /\ sessions'[s].pc = "sync"
              /\ sessions'[s].user = u /\ sessions'[s].identity = i
              /\ \A t \in Session \ {s} : sessions'[t] = sessions[t]
    PROVE  \A t \in Session : SessionInv(t)'
  BY DEF SyncInv, ChoiceInv, SessionInv

LEMMA SaveStep ==
    ASSUME SyncInv, NEW s \in Session, NEW u \in User, NEW choice \in Choice,
           SaveForm(s, u, choice)
    PROVE  SyncInv'
  <1>1. /\ url \in [User -> Identity \cup {Nothing}] /\ meta \in [User -> Choice]
        /\ url[u] # Nothing /\ visits \in 0..MaxVisits /\ Begin(s, u, url[u])
        /\ UNCHANGED <<vars, url, held, due>>
        /\ visits < MaxVisits /\ visits' = visits + 1
        /\ meta' = [meta EXCEPT ![u] = choice]
        /\ given' = given \cup {p \in held : p[1] = u /\ choice = "on"}
        /\ held \subseteq User \X Identity /\ given \subseteq User \X Identity
        /\ due \in [Identity -> SUBSET (Choice \cup {Nothing})]
    BY DEF SyncInv, ChoiceInv, STypeOK, SaveForm, Visit
  <1>2. url[u] \in Identity /\ <<u, url[u]>> \in held'
    BY <1>1 DEF SyncInv, ChoiceInv
  <1>3. /\ sessions' \in [Session -> SessionState]
        /\ sessions'[s].pc = "sync" /\ sessions'[s].user = u /\ sessions'[s].identity = url[u]
        /\ \A t \in Session \ {s} : sessions'[t] = sessions[t]
    BY <1>1, <1>2, BeginType
  <1>4. \A t \in Session : SessionInv(t)'
    BY <1>1, <1>2, <1>3, BegunInv
  <1>5. visits' \in 0..MaxVisits
    BY <1>1, SyncAssumption
  <1>6. STypeOK'
    BY <1>1, <1>3, <1>5, PageTypes DEF STypeOK
  <1>7. \A v \in User : url'[v] # Nothing => <<v, url'[v]>> \in held'
    BY <1>1 DEF SyncInv, ChoiceInv
  <1>8. ASSUME NEW p \in held', meta'[p[1]] = "on"
        PROVE  p \in given'
    <2>1. p \in held /\ p[1] \in User
      BY <1>1
    <2>. QED BY <1>1, <1>8, <2>1 DEF SyncInv, ChoiceInv
  <1>. QED BY <1>1, <1>4, <1>6, <1>7, <1>8, PageKeeps

LEMMA MoveStep ==
    ASSUME SyncInv, NEW s \in Session, NEW u \in User, NEW i \in Identity, Move(u, i),
           Begin(s, u, i) \/ UNCHANGED sessions
    PROVE  SyncInv'
  <1>1. /\ url \in [User -> Identity \cup {Nothing}] /\ meta \in [User -> Choice]
        /\ visits \in 0..MaxVisits /\ sessions \in [Session -> SessionState]
        /\ UNCHANGED <<vars, meta, due>>
        /\ visits < MaxVisits /\ visits' = visits + 1
        /\ url' = [url EXCEPT ![u] = i] /\ held' = held \cup {<<u, i>>}
        /\ given' = IF meta[u] = "on" THEN given \cup {<<u, i>>} ELSE given
        /\ held \subseteq User \X Identity /\ given \subseteq User \X Identity
        /\ due \in [Identity -> SUBSET (Choice \cup {Nothing})]
    BY DEF SyncInv, ChoiceInv, STypeOK, Move, Visit
  <1>2. \/ UNCHANGED sessions
        \/ /\ sessions' \in [Session -> SessionState]
           /\ sessions'[s].pc = "sync" /\ sessions'[s].user = u /\ sessions'[s].identity = i
           /\ \A t \in Session \ {s} : sessions'[t] = sessions[t]
    BY BeginType
  <1>3. \A t \in Session : SessionInv(t)'
    BY <1>1, <1>2, BegunInv
  <1>4. visits' \in 0..MaxVisits
    BY <1>1, SyncAssumption
  <1>5. STypeOK'
    BY <1>1, <1>2, <1>4, PageTypes DEF STypeOK
  <1>6. \A v \in User : url'[v] # Nothing => <<v, url'[v]>> \in held'
    BY <1>1 DEF SyncInv, ChoiceInv
  <1>7. \A p \in held' : meta'[p[1]] = "on" => p \in given'
    BY <1>1 DEF SyncInv, ChoiceInv
  <1>. QED BY <1>1, <1>3, <1>5, <1>6, <1>7, PageKeeps

\* A session that reads the preferences has a user and an identity.
LEMMA PreparedUser ==
    ASSUME SyncInv, NEW s \in Session, GetPreferences(s)
    PROVE  /\ sessions[s].user \in User /\ sessions[s].identity \in Identity
           /\ meta[sessions[s].user] \in Choice
  <1>1. /\ <<sessions[s].user, sessions[s].identity>> \in held
        /\ held \subseteq User \X Identity /\ meta \in [User -> Choice]
    BY DEF SyncInv, ChoiceInv, STypeOK, SessionInv, GetPreferences, Prepare
  <1>. QED BY <1>1

\* What session s reads is kept for its post, and the others get to know it.
Prepared(s, u, i, saved) ==
    /\ sessions[s].pc = "sync" /\ <<u, i>> \in held
    /\ sessions' \in [Session -> SessionState]
    /\ due' \in [Identity -> SUBSET (Choice \cup {Nothing})]
    /\ due'[i] = due[i] \cup {saved} /\ \A j \in Identity \ {i} : due'[j] = due[j]
    /\ sessions'[s].pc = "post" /\ sessions'[s].user = u
    /\ sessions'[s].identity = i /\ sessions'[s].choice = saved
    /\ saved \in sessions'[s].since
    /\ \A t \in Session :
          sessions[t].pc \in {"post", "wait"} /\ sessions[t].identity = i =>
              sessions[t].choice \in sessions'[s].since
    /\ \A c \in Call : calls[c].pc # "idle" /\ calls[c].identity = i =>
          calls[c].choice \in sessions'[s].since
    /\ \A t \in Session \ {s} :
          /\ sessions'[t].pc = sessions[t].pc /\ sessions'[t].user = sessions[t].user
          /\ sessions'[t].identity = sessions[t].identity
          /\ sessions'[t].choice = sessions[t].choice
          /\ sessions'[t].call = sessions[t].call
          /\ sessions[t].since \subseteq sessions'[t].since
          /\ sessions[t].pc \in {"post", "wait"} /\ sessions[t].identity = i =>
                 saved \in sessions'[t].since

\* What is read and kept for the post is what was given.
LEMMA PreparedType ==
    ASSUME SyncInv, NEW s \in Session, GetPreferences(s),
           NEW u \in User, u = sessions[s].user, NEW i \in Identity, i = sessions[s].identity,
           NEW saved \in Choice, saved = meta[u]
    PROVE  Prepared(s, u, i, saved)
  <1>. DEFINE since == {sessions[t].choice : t \in Posting(i)}
                          \cup {calls[c].choice : c \in Running(i)} \cup {saved}
              session == [sessions[s] EXCEPT !.pc = "post", !.choice = saved, !.since = since]
  <1>1. /\ sessions \in [Session -> SessionState] /\ meta \in [User -> Choice]
        /\ held \subseteq User \X Identity /\ calls \in [Call -> CallState]
        /\ sessions[s].pc = "sync" /\ <<u, i>> \in held
    BY DEF SyncInv, ChoiceInv, STypeOK, TypeOK, SessionInv, GetPreferences, Prepare
  <1>3. /\ \A t \in Posting(i) : sessions[t].choice \in Choice
        /\ \A c \in Running(i) : calls[c].choice \in Choice
    BY <1>1 DEF Posting, Running, SyncInv, ChoiceInv, SessionInv, CallState
  <1>4. since \subseteq Choice
    BY <1>3
  <1>. HIDE DEF since
  <1>5. /\ session \in SessionState /\ session.pc = "post" /\ session.user = u
        /\ session.identity = i /\ session.choice = saved /\ session.since = since
    BY <1>1, <1>4 DEF SessionState
  <1>6. /\ sessions' = [t \in Session |->
                          IF t = s THEN session
                          ELSE IF t \in Posting(i)
                               THEN [sessions[t] EXCEPT !.since = @ \cup {saved}]
                               ELSE sessions[t]]
        /\ due' = [due EXCEPT ![i] = @ \cup {saved}]
    BY DEF GetPreferences, Prepare, since
  <1>6a. /\ due' \in [Identity -> SUBSET (Choice \cup {Nothing})]
         /\ due'[i] = due[i] \cup {saved} /\ \A j \in Identity \ {i} : due'[j] = due[j]
    BY <1>6 DEF SyncInv, ChoiceInv, STypeOK
  <1>. HIDE DEF session
  <1>7. ASSUME NEW t \in Session \ {s}
        PROVE  /\ sessions'[t] \in SessionState
               /\ sessions'[t].pc = sessions[t].pc /\ sessions'[t].user = sessions[t].user
               /\ sessions'[t].identity = sessions[t].identity
               /\ sessions'[t].choice = sessions[t].choice
               /\ sessions'[t].call = sessions[t].call
               /\ sessions[t].since \subseteq sessions'[t].since
               /\ sessions[t].pc \in {"post", "wait"} /\ sessions[t].identity = i =>
                      saved \in sessions'[t].since
    <2>1. sessions[t] \in SessionState
      BY <1>1
    <2>2. sessions'[t] = IF t \in Posting(i)
                         THEN [sessions[t] EXCEPT !.since = @ \cup {saved}]
                         ELSE sessions[t]
      BY <1>6
    <2>. QED BY <2>1, <2>2 DEF SessionState, Posting
  <1>8. sessions' \in [Session -> SessionState] /\ sessions'[s] = session
    BY <1>5, <1>6, <1>7
  <1>9. /\ saved \in since
        /\ \A t \in Session :
              sessions[t].pc \in {"post", "wait"} /\ sessions[t].identity = i =>
                  sessions[t].choice \in since
        /\ \A c \in Call : calls[c].pc # "idle" /\ calls[c].identity = i =>
              calls[c].choice \in since
    BY DEF since, Posting, Running
  <1>. QED BY <1>1, <1>5, <1>6a, <1>7, <1>8, <1>9 DEF Prepared

LEMMA PrepareStep ==
    ASSUME SyncInv, NEW s \in Session, GetPreferences(s)
    PROVE  SyncInv'
  <1>0. PICK u \in User, i \in Identity, saved \in Choice :
           u = sessions[s].user /\ i = sessions[s].identity /\ saved = meta[u]
    BY PreparedUser
  <1>0a. Prepared(s, u, i, saved)
    BY <1>0, PreparedType
  <1>1. /\ <<u, i>> \in held
        /\ sessions' \in [Session -> SessionState]
        /\ due' \in [Identity -> SUBSET (Choice \cup {Nothing})]
        /\ sessions'[s].pc = "post" /\ sessions'[s].user = u
        /\ sessions'[s].identity = i /\ sessions'[s].choice = saved
        /\ \A t \in Session \ {s} :
              /\ sessions'[t].pc = sessions[t].pc /\ sessions'[t].user = sessions[t].user
              /\ sessions'[t].identity = sessions[t].identity
              /\ sessions'[t].choice = sessions[t].choice
    BY <1>0a DEF Prepared
  <1>2. UNCHANGED <<vars, url, meta, visits, held, given>>
    BY DEF GetPreferences, Prepare
  <1>4. STypeOK'
    BY <1>1, <1>2, PageTypes DEF SyncInv, ChoiceInv, STypeOK
  <1>5. saved = "on" => <<u, i>> \in given
    BY <1>0, <1>1 DEF SyncInv, ChoiceInv
  <1>6. ASSUME NEW t \in Session PROVE SessionInv(t)'
    <2>1. CASE t = s
      BY <1>1, <1>2, <1>5, <2>1 DEF SessionInv
    <2>2. CASE t # s
      BY <1>1, <1>2, <2>2 DEF SyncInv, ChoiceInv, SessionInv
    <2>. QED BY <2>1, <2>2
  <1>. QED BY <1>2, <1>4, <1>6, PageKeeps DEF SyncInv, ChoiceInv

\* A post hands what was read to a handler that no session awaits.
LEMMA PostedType ==
    ASSUME SyncInv, NEW s \in Session, NEW c \in Call, Post(s, c)
    PROVE  /\ sessions[s].pc = "post" /\ calls[c].pc = "idle"
           /\ sessions[s].identity \in Identity /\ sessions[s].choice \in Choice
           /\ sessions' \in [Session -> SessionState]
           /\ sessions'[s].pc = "wait" /\ sessions'[s].call = c
           /\ sessions'[s].user = sessions[s].user
           /\ sessions'[s].identity = sessions[s].identity
           /\ sessions'[s].choice = sessions[s].choice
           /\ sessions'[s].since = sessions[s].since
           /\ \A t \in Session \ {s} : sessions'[t] = sessions[t]
           /\ \A t \in Session : sessions[t].call # c
           /\ calls'[c].pc = "init" /\ calls'[c].kind = "store"
           /\ calls'[c].identity = sessions[s].identity
           /\ calls'[c].choice = sessions[s].choice
           /\ calls'[c].status = "none" /\ ~ calls'[c].revoked
           /\ \A d \in Call \ {c} : calls'[d] = calls[d]
           /\ UNCHANGED <<records, url, meta, visits, held, given, due>>
  <1>. DEFINE session == [sessions[s] EXCEPT !.pc = "wait", !.call = c]
  <1>1. /\ sessions \in [Session -> SessionState] /\ held \subseteq User \X Identity
        /\ sessions[s].pc = "post" /\ calls \in [Call -> CallState]
    BY DEF SyncInv, ChoiceInv, STypeOK, TypeOK, Post
  <1>2. sessions[s].identity \in Identity /\ sessions[s].choice \in Choice
    BY <1>1 DEF SyncInv, ChoiceInv, SessionInv
  <1>3. /\ session \in SessionState /\ session.pc = "wait" /\ session.call = c
        /\ session.user = sessions[s].user /\ session.identity = sessions[s].identity
        /\ session.choice = sessions[s].choice /\ session.since = sessions[s].since
    BY <1>1 DEF SessionState
  <1>4. sessions' = [sessions EXCEPT ![s] = session]
    BY <1>1, Zenon DEF Post
  <1>5. /\ sessions' \in [Session -> SessionState] /\ sessions'[s] = session
        /\ \A t \in Session \ {s} : sessions'[t] = sessions[t]
    BY <1>1, <1>3, <1>4
  <1>. DEFINE call == [NoCall(sessions[s].identity) EXCEPT !.pc = "init", !.kind = "store",
                                                           !.choice = sessions[s].choice]
  <1>6. /\ call.pc = "init" /\ call.kind = "store" /\ call.identity = sessions[s].identity
        /\ call.choice = sessions[s].choice /\ call.status = "none" /\ ~ call.revoked
    BY DEF NoCall
  <1>7. /\ calls[c].pc = "idle" /\ calls' = [calls EXCEPT ![c] = call]
        /\ \A t \in Session : sessions[t].call # c
        /\ UNCHANGED <<records, url, meta, visits, held, given, due>>
    BY DEF Post, Receive
  <1>8. calls'[c] = call /\ \A d \in Call \ {c} : calls'[d] = calls[d]
    BY <1>1, <1>7
  <1>. HIDE DEF session, call
  <1>. QED BY <1>1, <1>2, <1>3, <1>5, <1>6, <1>7, <1>8

LEMMA PostStep ==
    ASSUME SyncInv, NEW s \in Session, NEW c \in Call, Post(s, c)
    PROVE  SyncInv'
  <1>1. /\ sessions[s].pc = "post"
        /\ sessions[s].identity \in Identity /\ sessions[s].choice \in Choice
        /\ sessions' \in [Session -> SessionState]
        /\ sessions'[s].pc = "wait" /\ sessions'[s].user = sessions[s].user
        /\ sessions'[s].identity = sessions[s].identity
        /\ sessions'[s].choice = sessions[s].choice
        /\ \A t \in Session \ {s} : sessions'[t] = sessions[t]
        /\ calls'[c].identity = sessions[s].identity
        /\ calls'[c].choice = sessions[s].choice
        /\ \A d \in Call \ {c} : calls'[d] = calls[d]
        /\ UNCHANGED <<records, url, meta, visits, held, given, due>>
    BY PostedType
  <1>2. ConsentInv'
    BY <1>1, ReceiveStep DEF SyncInv, Kind, Post
  <1>3. STypeOK'
    BY <1>1, <1>2 DEF SyncInv, ChoiceInv, STypeOK, ConsentInv
  <1>4. /\ <<sessions[s].user, sessions[s].identity>> \in held
        /\ sessions[s].choice = "on" => <<sessions[s].user, sessions[s].identity>> \in given
    BY <1>1 DEF SyncInv, ChoiceInv, SessionInv
  <1>5. ASSUME NEW t \in Session PROVE SessionInv(t)'
    <2>1. CASE t = s
      BY <1>1, <1>4, <2>1 DEF SessionInv
    <2>2. CASE t # s
      BY <1>1, <2>2 DEF SyncInv, ChoiceInv, SessionInv
    <2>. QED BY <2>1, <2>2
  <1>6. ASSUME NEW d \in Call PROVE CallGiven(d)'
    <2>1. CASE d = c
      <3>1. sessions[s].user \in User
        BY <1>4 DEF SyncInv, ChoiceInv, STypeOK
      <3>. QED BY <1>1, <1>4, <2>1, <3>1 DEF CallGiven
    <2>2. CASE d # c
      BY <1>1, <2>2 DEF SyncInv, ChoiceInv, CallGiven
    <2>. QED BY <2>1, <2>2
  <1>7. ConsentWasGiven'
    BY <1>1 DEF SyncInv, ChoiceInv, ConsentWasGiven
  <1>. QED BY <1>1, <1>2, <1>3, <1>5, <1>6, <1>7 DEF SyncInv, ChoiceInv

LEMMA ReturnStep ==
    ASSUME SyncInv, NEW s \in Session, Answered(s) \/ GiveUp(s)
    PROVE  SyncInv'
  <1>1. /\ sessions \in [Session -> SessionState] /\ held \subseteq User \X Identity
        /\ due \in [Identity -> SUBSET (Choice \cup {Nothing})]
        /\ sessions' = [sessions EXCEPT ![s] = Idle] /\ sessions[s].pc \in {"post", "wait"}
        /\ UNCHANGED <<vars, url, meta, visits, held, given>>
        /\ \/ due' = due
           \/ due' = [due EXCEPT ![sessions[s].identity] = sessions[s].since]
    BY DEF SyncInv, ChoiceInv, STypeOK, Answered, GiveUp, Return
  <1>2. Idle \in SessionState /\ Idle.pc = "idle"
    BY DEF Idle, SessionState
  <1>3. sessions' \in [Session -> SessionState]
    BY <1>1, <1>2
  <1>4. sessions[s].since \subseteq Choice
    BY <1>1 DEF SessionState
  <1>5. due' \in [Identity -> SUBSET (Choice \cup {Nothing})]
    BY <1>1, <1>4
  <1>6. STypeOK'
    BY <1>1, <1>3, <1>5, PageTypes DEF SyncInv, ChoiceInv, STypeOK
  <1>7. \A t \in Session : SessionInv(t)'
    BY <1>1, <1>2 DEF SyncInv, ChoiceInv, SessionInv
  <1>. QED BY <1>1, <1>6, <1>7, PageKeeps DEF SyncInv, ChoiceInv

LEMMA PageStep ==
    ASSUME SyncInv, NEW s \in Session, Page(s)
    PROVE  SyncInv'
  BY SaveStep, MoveStep, PrepareStep, PostStep, ReturnStep
  DEF Page, UpdateProfile, Register

\* What a handler writes is what it was posted, for the identity it was posted for.
LEMMA ServeStep == ASSUME SyncInv, Serve PROVE SyncInv'
  <1>1. PICK c \in Call : Step(c)
    BY DEF Serve
  <1>2. UNCHANGED <<url, meta, sessions, visits, held, given, due>>
    BY DEF Serve, pvars
  <1>3. ConsentInv'
    BY <1>1, StepInv DEF SyncInv
  <1>4. STypeOK'
    BY <1>2, <1>3 DEF SyncInv, ChoiceInv, STypeOK, ConsentInv
  <1>5. ASSUME NEW d \in Call PROVE CallGiven(d)'
    <2>1. calls'[d].identity = calls[d].identity /\ calls'[d].choice = calls[d].choice
      BY <1>1, RequestKept DEF SyncInv, ConsentInv, Request
    <2>. QED BY <1>2, <2>1 DEF SyncInv, ChoiceInv, CallGiven
  <1>6. ConsentWasGiven'
    BY <1>1, <1>2, RecordOrigin DEF SyncInv, ChoiceInv, ConsentWasGiven, CallGiven
  <1>7. \A s \in Session : SessionInv(s)'
    BY <1>2 DEF SyncInv, ChoiceInv, SessionInv
  <1>. QED BY <1>2, <1>3, <1>4, <1>5, <1>6, <1>7 DEF SyncInv, ChoiceInv

LEMMA SNextInv == ASSUME SyncInv, [SNext]_svars PROVE SyncInv'
  <1>1. CASE UNCHANGED svars
    <2>1. STypeOK' /\ \A s \in Session : SessionInv(s)'
      BY <1>1, PageTypes DEF svars, pvars, SyncInv, ChoiceInv, STypeOK, SessionInv
    <2>. QED BY <1>1, <2>1, PageKeeps DEF svars, pvars, SyncInv, ChoiceInv
  <1>. QED BY <1>1, PageStep, ServeStep DEF SNext

\* The invariant holds in every state the plugin and the service reach.
THEOREM SyncInvariance == SSpec => []SyncInv
  BY SInitInv, SNextInv, PTL DEF SSpec

\* The meta data and the requests of the plugin always have their types.
THEOREM STypeCorrect == SSpec => []STypeOK
  <1>1. SyncInv => STypeOK
    BY DEF SyncInv, ChoiceInv
  <1>. QED BY <1>1, SyncInvariance, PTL

\* However posts are delayed or reordered and profiles are changed, the table allows
\* DNS operations for no identity for which no holder has had the preference "on".
THEOREM ConsentGiven == SSpec => []ConsentWasGiven
  <1>1. SyncInv => ConsentWasGiven
    BY DEF SyncInv, ChoiceInv
  <1>. QED BY <1>1, SyncInvariance, PTL

-----------------------------------------------------------------------------
(***************************************************************************)
(* What the table may show.  Whatever is under way for an identity is due  *)
(* there, and counts as posted while each session that waits posts.        *)
(***************************************************************************)
Posts(s) == sessions[s].pc \in {"post", "wait"}

\* The handlers serve posts only, and nobody revokes.
OnlyStores ==
    \A c \in Call :
        /\ ~ calls[c].revoked
        /\ calls[c].pc # "idle" =>
              calls[c].kind = "store" /\ calls[c].choice \in due[calls[c].identity]

\* What session s posts is due, and what is under way beside it is known to it.
Overlaps(s) ==
    Posts(s) =>
        /\ sessions[s].choice \in due[sessions[s].identity]
        /\ \A t \in Session :
              Posts(t) /\ sessions[t].identity = sessions[s].identity =>
                  sessions[t].choice \in sessions[s].since
        /\ \A c \in Call :
              calls[c].pc # "idle" /\ calls[c].identity = sessions[s].identity =>
                  calls[c].choice \in sessions[s].since

\* Once the post of s is stored, the table shows nothing older.
Replaced(s) ==
    sessions[s].pc = "wait" =>
        /\ sessions[s].call \in Call
        /\ calls[sessions[s].call].identity = sessions[s].identity
        /\ ~ Duplicates /\ calls[sessions[s].call].pc = "idle"
              /\ calls[sessions[s].call].status = "stored" =>
                 Shown(sessions[s].identity) \subseteq sessions[s].since

DueInv ==
    /\ OnlyStores
    /\ \A s \in Session : Overlaps(s) /\ Replaced(s)
    /\ LastSaveIsStored

LEMMA DueInit == ASSUME SInit PROVE DueInv
  <1>1. \A c \in Call : calls[c].pc = "idle" /\ ~ calls[c].revoked
    BY DEF SInit, Init, NoCall
  <1>2. \A s \in Session : sessions[s].pc = "idle"
    BY DEF SInit, Idle
  <1>3. \A i \in Identity : Shown(i) = {Nothing} /\ due[i] = {Nothing}
    BY DEF SInit, Init, Shown, Of
  <1>. QED BY <1>1, <1>2, <1>3 DEF DueInv, OnlyStores, Overlaps, Replaced, Posts, LastSaveIsStored

\* The table and the handlers as they are, nobody else posts or waits for more.
LEMMA DueKept ==
    ASSUME SyncInv, DueInv, UNCHANGED <<records, calls, due>>,
           \A s \in Session :
              \/ sessions'[s].pc \notin {"post", "wait"}
              \/ sessions'[s] = sessions[s]
    PROVE  DueInv'
  <1>1. OnlyStores'
    BY DEF DueInv, OnlyStores
  <1>2. \A i : Shown(i)' = Shown(i)
    BY DEF Shown, Of
  <1>3. (Duplicates <=> Duplicates')
    BY DEF Duplicates
  <1>4. LastSaveIsStored'
    BY <1>2, <1>3 DEF DueInv, LastSaveIsStored
  <1>5. ASSUME NEW s \in Session PROVE Overlaps(s)'
    BY DEF DueInv, Overlaps, Posts
  <1>6. ASSUME NEW s \in Session PROVE Replaced(s)'
    BY <1>2, <1>3 DEF DueInv, Replaced
  <1>. QED BY <1>1, <1>4, <1>5, <1>6 DEF DueInv

\* Pages that save, move or register only begin a session, if any.
LEMMA DueBegin ==
    ASSUME SyncInv, DueInv, NEW s \in Session, UNCHANGED <<vars, due>>,
           \/ UNCHANGED sessions
           \/ /\ sessions'[s].pc = "sync"
              /\ \A t \in Session \ {s} : sessions'[t] = sessions[t]
    PROVE  DueInv'
  BY DueKept DEF vars

\* A choice that is going to be posted is due from then on.
LEMMA DuePrepare ==
    ASSUME SyncInv, DueInv, NEW s \in Session, GetPreferences(s)
    PROVE  DueInv'
  <1>0. PICK u \in User, i \in Identity, saved \in Choice :
           u = sessions[s].user /\ i = sessions[s].identity /\ saved = meta[u]
    BY PreparedUser
  <1>0a. Prepared(s, u, i, saved)
    BY <1>0, PreparedType
  <1>1. /\ sessions[s].pc = "sync" /\ UNCHANGED <<records, calls>>
        /\ due \in [Identity -> SUBSET (Choice \cup {Nothing})]
    BY DEF GetPreferences, Prepare, vars, SyncInv, ChoiceInv, STypeOK
  <1>2. /\ due'[i] = due[i] \cup {saved} /\ \A j \in Identity \ {i} : due'[j] = due[j]
        /\ sessions'[s].pc = "post" /\ sessions'[s].identity = i /\ sessions'[s].choice = saved
        /\ \A t \in Session \ {s} :
              /\ sessions'[t].pc = sessions[t].pc
              /\ sessions'[t].identity = sessions[t].identity
              /\ sessions'[t].choice = sessions[t].choice
              /\ sessions'[t].call = sessions[t].call
    BY <1>0a DEF Prepared
  <1>2a. /\ saved \in sessions'[s].since
         /\ \A t \in Session :
               sessions[t].pc \in {"post", "wait"} /\ sessions[t].identity = i =>
                   sessions[t].choice \in sessions'[s].since
         /\ \A c \in Call : calls[c].pc # "idle" /\ calls[c].identity = i =>
               calls[c].choice \in sessions'[s].since
    BY <1>0a DEF Prepared
  <1>2b. \A t \in Session \ {s} :
            /\ sessions[t].since \subseteq sessions'[t].since
            /\ sessions[t].pc \in {"post", "wait"} /\ sessions[t].identity = i =>
                   saved \in sessions'[t].since
    BY <1>0a DEF Prepared
  <1>3. \A j \in Identity : due[j] \subseteq due'[j]
    BY <1>2
  <1>4. OnlyStores'
    <2>1. \A c \in Call : calls[c].identity \in Identity
      BY DEF SyncInv, ConsentInv, TypeOK, CallState
    <2>. QED BY <1>1, <1>3, <2>1 DEF DueInv, OnlyStores
  <1>5. (\A j : Shown(j)' = Shown(j)) /\ (Duplicates <=> Duplicates')
    BY <1>1 DEF Shown, Of, Duplicates
  <1>6. LastSaveIsStored'
    BY <1>3, <1>5 DEF DueInv, LastSaveIsStored
  <1>7. ASSUME NEW t \in Session PROVE Overlaps(t)'
    <2>1. CASE t = s
      BY <1>0, <1>1, <1>2, <1>2a, <2>1 DEF Overlaps, Posts
    <2>2. CASE t # s
      <3>1. Posts(t) => sessions[t].identity \in Identity
        BY DEF SyncInv, ChoiceInv, STypeOK, SessionInv, Posts
      <3>2. Overlaps(t)
        BY DEF DueInv
      <3>. QED BY <1>1, <1>2, <1>2b, <1>3, <2>2, <3>1, <3>2 DEF Overlaps, Posts
    <2>. QED BY <2>1, <2>2
  <1>8. ASSUME NEW t \in Session PROVE Replaced(t)'
    <2>1. CASE t = s
      BY <1>2, <2>1 DEF Replaced
    <2>2. CASE t # s
      BY <1>1, <1>2, <1>2b, <1>5, <2>2 DEF DueInv, Replaced
    <2>. QED BY <2>1, <2>2
  <1>. QED BY <1>4, <1>6, <1>7, <1>8 DEF DueInv

\* A post that arrives is under way as before.
LEMMA DuePost ==
    ASSUME SyncInv, DueInv, NEW s \in Session, NEW c \in Call, Post(s, c)
    PROVE  DueInv'
  <1>1. /\ sessions[s].pc = "post" /\ calls[c].pc = "idle"
        /\ sessions'[s].pc = "wait" /\ sessions'[s].call = c
        /\ sessions'[s].identity = sessions[s].identity
        /\ sessions'[s].choice = sessions[s].choice
        /\ sessions'[s].since = sessions[s].since
        /\ \A t \in Session \ {s} : sessions'[t] = sessions[t]
        /\ \A t \in Session : sessions[t].call # c
        /\ calls'[c].pc = "init" /\ calls'[c].kind = "store"
        /\ calls'[c].identity = sessions[s].identity
        /\ calls'[c].choice = sessions[s].choice
        /\ calls'[c].status = "none" /\ ~ calls'[c].revoked
        /\ \A d \in Call \ {c} : calls'[d] = calls[d]
        /\ UNCHANGED <<records, due>>
    BY PostedType
  <1>2. Overlaps(s)
    BY DEF DueInv
  <1>3. OnlyStores'
    BY <1>1, <1>2 DEF DueInv, OnlyStores, Overlaps, Posts
  <1>4. (\A j : Shown(j)' = Shown(j)) /\ (Duplicates <=> Duplicates')
    BY <1>1 DEF Shown, Of, Duplicates
  <1>5. LastSaveIsStored'
    BY <1>1, <1>4 DEF DueInv, LastSaveIsStored
  <1>6. ASSUME NEW t \in Session PROVE Overlaps(t)'
    <2>1. /\ Posts(t)' <=> Posts(t)
          /\ sessions'[t].identity = sessions[t].identity
          /\ sessions'[t].choice = sessions[t].choice /\ sessions'[t].since = sessions[t].since
      BY <1>1 DEF Posts
    <2>2. \A r \in Session : /\ Posts(r)' <=> Posts(r)
                             /\ sessions'[r].identity = sessions[r].identity
                             /\ sessions'[r].choice = sessions[r].choice
      BY <1>1 DEF Posts
    <2>3. Overlaps(t) /\ Posts(s)
      BY <1>1 DEF DueInv, Posts
    <2>. QED BY <1>1, <2>1, <2>2, <2>3 DEF Overlaps
  <1>7. ASSUME NEW t \in Session PROVE Replaced(t)'
    <2>1. CASE t = s
      BY <1>1, <2>1 DEF Replaced
    <2>2. CASE t # s
      BY <1>1, <1>4, <2>2 DEF DueInv, Replaced
    <2>. QED BY <2>1, <2>2
  <1>. QED BY <1>3, <1>5, <1>6, <1>7 DEF DueInv

\* After a post that was stored, what is due is what was under way beside it.
LEMMA DueAnswered ==
    ASSUME SyncInv, DueInv, NEW s \in Session, Answered(s)
    PROVE  DueInv'
  <1>0. PICK i, since :
         i \in Identity /\ i = sessions[s].identity /\ since = sessions[s].since
    BY DEF SyncInv, ChoiceInv, STypeOK, SessionInv, Answered
  <1>. i \in Identity
    BY <1>0
  <1>1. /\ sessions[s].pc = "wait" /\ sessions'[s].pc = "idle"
        /\ \A t \in Session \ {s} : sessions'[t] = sessions[t]
        /\ calls[sessions[s].call].pc = "idle"
        /\ UNCHANGED <<records, calls>>
        /\ due \in [Identity -> SUBSET (Choice \cup {Nothing})]
        /\ \/ due' = due
           \/ calls[sessions[s].call].status = "stored" /\ due' = [due EXCEPT ![i] = since]
    BY <1>0 DEF SyncInv, ChoiceInv, STypeOK, Answered, Return, Idle, vars
  <1>2. CASE due' = due
    BY <1>1, <1>2, DueKept
  <1>3. CASE calls[sessions[s].call].status = "stored" /\ due' = [due EXCEPT ![i] = since]
    <2>1. due'[i] = since /\ \A j \in Identity \ {i} : due'[j] = due[j]
      BY <1>1, <1>3
    <2>2. Overlaps(s) /\ Replaced(s) /\ Posts(s)
      BY <1>1 DEF DueInv, Posts
    <2>3. (\A j : Shown(j)' = Shown(j)) /\ (Duplicates <=> Duplicates')
      BY <1>1 DEF Shown, Of, Duplicates
    <2>4. OnlyStores'
      <3>1. \A c \in Call : calls[c].identity \in Identity
        BY DEF SyncInv, ConsentInv, TypeOK, CallState
      <3>. QED BY <1>0, <1>1, <2>1, <2>2, <3>1 DEF DueInv, OnlyStores, Overlaps
    <2>5. LastSaveIsStored'
      BY <1>0, <1>1, <1>3, <2>1, <2>2, <2>3 DEF DueInv, LastSaveIsStored, Replaced
    <2>6. ASSUME NEW t \in Session PROVE Overlaps(t)'
      <3>1. CASE t = s
        BY <1>1, <3>1 DEF Overlaps, Posts
      <3>2. CASE t # s
        <4>1. Posts(t) => sessions[t].identity \in Identity
          BY DEF SyncInv, ChoiceInv, STypeOK, SessionInv, Posts
        <4>2. Overlaps(t)
          BY DEF DueInv
        <4>3. Posts(t) => sessions[t].choice \in due'[sessions[t].identity]
          BY <1>0, <2>1, <2>2, <4>1, <4>2 DEF Overlaps
        <4>. QED BY <1>1, <3>2, <4>2, <4>3 DEF Overlaps, Posts
      <3>. QED BY <3>1, <3>2
    <2>7. ASSUME NEW t \in Session PROVE Replaced(t)'
      BY <1>1, <2>3 DEF DueInv, Replaced
    <2>. QED BY <2>4, <2>5, <2>6, <2>7 DEF DueInv
  <1>. QED BY <1>1, <1>2, <1>3

-----------------------------------------------------------------------------
\* The record that a store writes.
Writes(id, i, choice) ==
    /\ DOMAIN records' = DOMAIN records \cup {id}
    /\ records'[id].identity = i /\ records'[id].dnsOperations = choice
    /\ id \in DOMAIN records => records[id].identity = i
    /\ \A k \in DOMAIN records \ {id} : records'[k] = records[k]

\* It alone is what the table shows of the identity then, unless that has two.
LEMMA ShownAfter ==
    ASSUME NEW id, NEW i \in Identity, NEW choice, Writes(id, i, choice), ~ Duplicates'
    PROVE  /\ Shown(i)' = {choice} /\ ~ Duplicates
           /\ \A j \in Identity \ {i} : Shown(j)' = Shown(j)
  <1>1. /\ DOMAIN records' = DOMAIN records \cup {id}
        /\ records'[id].identity = i /\ records'[id].dnsOperations = choice
        /\ id \in DOMAIN records => records[id].identity = i
        /\ \A k \in DOMAIN records \ {id} : records'[k] = records[k]
    BY DEF Writes
  <1>2. Of(i)' = {id}
    BY <1>1 DEF Of, Duplicates
  <1>3. Shown(i)' = {choice}
    BY <1>1, <1>2 DEF Shown
  <1>4. ~ Duplicates
    <2>1. ASSUME NEW a \in DOMAIN records, NEW b \in DOMAIN records, a # b,
                 records[a].identity = records[b].identity
          PROVE  FALSE
      <3>1. records'[a].identity = records[a].identity /\ records'[b].identity = records[b].identity
        BY <1>1, <2>1
      <3>. QED BY <1>1, <2>1, <3>1 DEF Duplicates
    <2>. QED BY <2>1 DEF Duplicates
  <1>5. ASSUME NEW j \in Identity \ {i} PROVE Shown(j)' = Shown(j)
    <2>1. Of(j)' = Of(j)
      BY <1>1 DEF Of
    <2>2. \A k \in Of(j) : records'[k] = records[k]
      BY <1>1 DEF Of
    <2>. QED BY <2>1, <2>2 DEF Shown
  <1>. QED BY <1>3, <1>4, <1>5

\* The call that stores is not revoked by it.
LEMMA StoredKeeps ==
    ASSUME TypeOK, NEW c \in Call, NEW status \in Status, Stored(c, status)
    PROVE  calls'[c].revoked = calls[c].revoked
  <1>1. calls[c] \in CallState
        /\ calls'[c] = [calls[c] EXCEPT !.pc = "idle", !.status = status, !.took = TRUE]
    BY DEF TypeOK, Stored
  <1>. QED BY <1>1 DEF CallState

\* A store that goes on: it leaves the table alone and does not succeed yet, or it
\* writes what it was asked for.
LEMMA StoreStep ==
    ASSUME ConsentInv, NEW c \in Call, Step(c), calls[c].kind = "store", ~ calls[c].revoked
    PROVE  /\ calls[c].pc # "idle" /\ ~ calls'[c].revoked
           /\ \A d \in Call \ {c} :
                 /\ calls'[d].pc = calls[d].pc /\ calls'[d].status = calls[d].status
                 /\ calls'[d].revoked = calls[d].revoked
           /\ \/ /\ UNCHANGED records
                 /\ calls'[c].pc = "idle" => calls'[c].status # "stored"
              \/ \E id \in RecordId : Writes(id, calls[c].identity, calls[c].choice)
  <1>1. TypeOK /\ calls \in [Call -> CallState]
    BY DEF ConsentInv, TypeOK
  <1>2. calls[c].pc # "idle"
    BY DEF Step, InitDatabase, Connect, Use, DefineSchema, QueryTooEarly, StatementFails,
           SelectExisting, UpdateExisting, CreateNew, Revoke, Read
  <1>3. ASSUME NEW pc \in PC \ {"idle"}, Goto(c, pc)
        PROVE  /\ ~ calls'[c].revoked /\ calls'[c].pc # "idle"
               /\ \A d \in Call \ {c} : calls'[d] = calls[d]
    <2>1. /\ calls'[c].revoked = calls[c].revoked /\ calls'[c].pc = pc
          /\ \A d \in Call \ {c} : calls'[d] = calls[d]
      BY <1>1, <1>3, GotoType
    <2>. QED BY <2>1
  <1>4. ASSUME NEW status \in Status, Finish(c, status)
        PROVE  /\ ~ calls'[c].revoked /\ calls'[c].status = status
               /\ \A d \in Call \ {c} : calls'[d] = calls[d]
    BY <1>1, <1>4, FinishType
  <1>5. CASE InitDatabase(c) \/ Connect(c) \/ Use(c) \/ DefineSchema(c)
    <2>1. \/ Finish(c, "unavailable")
          \/ \E pc \in PC \ {"idle"} : Goto(c, pc)
      BY <1>5 DEF InitDatabase, Connect, Use, DefineSchema, PC
    <2>2. UNCHANGED records
      BY <1>5 DEF InitDatabase, Connect, Use, DefineSchema
    <2>. QED BY <1>2, <1>3, <1>4, <2>1, <2>2 DEF Status
  <1>6. CASE QueryTooEarly(c) \/ StatementFails(c)
    BY <1>2, <1>4, <1>6 DEF QueryTooEarly, StatementFails, Status
  <1>7. CASE SelectExisting(c)
    <2>1. PICK id \in Select(calls[c].identity) :
             calls' = [calls EXCEPT ![c].pc = "write", ![c].found = id]
      BY <1>7 DEF SelectExisting
    <2>2. /\ calls'[c].pc = "write" /\ ~ calls'[c].revoked
          /\ \A d \in Call \ {c} : calls'[d] = calls[d]
      BY <1>1, <2>1 DEF CallState
    <2>. QED BY <1>2, <1>7, <2>2 DEF SelectExisting
  <1>8. CASE UpdateExisting(c)
    <2>0. PICK id \in RecordId \cup {NoRecord} : id = calls[c].found
      BY <1>1 DEF CallState
    <2>1. calls[c].pc = "write" /\ id # NoRecord /\ id \in DOMAIN records
          /\ records[id].identity = calls[c].identity
      BY <1>8, <2>0 DEF UpdateExisting, ConsentInv, CallInv
    <2>2. /\ records' = [records EXCEPT ![id].dnsOperations = calls[c].choice,
                                       ![id].version = @ + 1]
          /\ \E status \in {"stored", "unavailable"} : Stored(c, status)
      BY <1>8, <2>0, <2>1 DEF UpdateExisting, Outcomes
    <2>3. /\ records[id] \in ConsentRecord /\ calls[c].choice \in Choice
          /\ records \in [DOMAIN records -> ConsentRecord]
      BY <1>1, <2>1 DEF TypeOK, CallState
    <2>. DEFINE record == [records[id] EXCEPT !.dnsOperations = calls[c].choice,
                                              !.version = @ + 1]
    <2>4. record.identity = records[id].identity /\ record.dnsOperations = calls[c].choice
      BY <2>3, UpdatedRecord
    <2>5. records' = [records EXCEPT ![id] = record]
      BY <2>2, Zenon
    <2>6. /\ DOMAIN records' = DOMAIN records /\ records'[id] = record
          /\ \A k \in DOMAIN records \ {id} : records'[k] = records[k]
      BY <2>1, <2>3, <2>5
    <2>. HIDE DEF record
    <2>7. Writes(id, calls[c].identity, calls[c].choice)
      BY <2>1, <2>4, <2>6 DEF Writes
    <2>8. /\ ~ calls'[c].revoked
          /\ \A d \in Call \ {c} :
                /\ calls'[d].pc = calls[d].pc /\ calls'[d].status = calls[d].status
                /\ calls'[d].revoked = calls[d].revoked
      BY <1>1, <2>2, StoredType, StoredKeeps DEF Status
    <2>. QED BY <1>2, <2>1, <2>7, <2>8
  <1>9. ASSUME NEW id \in RecordId, CreateNew(c, id)
        PROVE  /\ ~ calls'[c].revoked
               /\ \A d \in Call \ {c} :
                     /\ calls'[d].pc = calls[d].pc /\ calls'[d].status = calls[d].status
                     /\ calls'[d].revoked = calls[d].revoked
               /\ \/ /\ UNCHANGED records
                     /\ calls'[c].pc = "idle" => calls'[c].status # "stored"
                  \/ Writes(id, calls[c].identity, calls[c].choice)
    <2>1. id \notin DOMAIN records
      BY <1>9 DEF CreateNew, ConsentInv, TableInv
    <2>2. CASE Finish(c, "conflict") /\ UNCHANGED records
      BY <1>4, <2>2 DEF Status
    <2>3. CASE /\ \E status \in {"stored", "unavailable"} : Stored(c, status)
               /\ records' = [k \in DOMAIN records \cup {id} |->
                                IF k = id
                                THEN [identity |-> calls[c].identity,
                                      dnsOperations |-> calls[c].choice, version |-> 1]
                                ELSE records[k]]
      <3>1. Writes(id, calls[c].identity, calls[c].choice)
        BY <2>1, <2>3 DEF Writes
      <3>. QED BY <1>1, <2>3, <3>1, StoredType, StoredKeeps DEF Status
    <2>. QED BY <1>9, <2>2, <2>3 DEF CreateNew, Outcomes
  <1>10. CASE Revoke(c) \/ Read(c)
    BY <1>10 DEF Revoke, Read
  <1>. QED BY <1>2, <1>5, <1>6, <1>7, <1>8, <1>9, <1>10 DEF Step

\* What a handler writes for an identity was due there, and known to who waits.
LEMMA DueServe ==
    ASSUME SyncInv, DueInv, Serve
    PROVE  DueInv'
  <1>1. PICK c \in Call : Step(c)
    BY DEF Serve
  <1>2. /\ UNCHANGED <<sessions, due>> /\ TypeOK /\ ConsentInv
        /\ calls[c].identity \in Identity /\ calls[c].choice \in Choice
    BY DEF Serve, pvars, SyncInv, ConsentInv, TypeOK, CallState
  <1>3. calls[c].pc # "idle"
    BY <1>1 DEF Step, InitDatabase, Connect, Use, DefineSchema, QueryTooEarly, StatementFails,
                SelectExisting, UpdateExisting, CreateNew, Revoke, Read
  <1>4. calls[c].kind = "store" /\ ~ calls[c].revoked
    BY <1>3 DEF DueInv, OnlyStores
  <1>5. /\ ~ calls'[c].revoked
        /\ \A d \in Call \ {c} :
              /\ calls'[d].pc = calls[d].pc /\ calls'[d].status = calls[d].status
              /\ calls'[d].revoked = calls[d].revoked
        /\ \/ /\ UNCHANGED records
              /\ calls'[c].pc = "idle" => calls'[c].status # "stored"
           \/ \E id \in RecordId : Writes(id, calls[c].identity, calls[c].choice)
    BY <1>1, <1>2, <1>4, StoreStep
  <1>6. \A d \in Call : /\ calls'[d].kind = calls[d].kind /\ calls'[d].choice = calls[d].choice
                        /\ calls'[d].identity = calls[d].identity
                        /\ calls'[d].pc # "idle" => calls[d].pc # "idle"
    BY <1>1, <1>2, <1>3, <1>5, RequestKept DEF Request
  <1>7. OnlyStores'
    BY <1>2, <1>5, <1>6 DEF DueInv, OnlyStores
  <1>8. ASSUME NEW s \in Session PROVE Overlaps(s)'
    BY <1>2, <1>6 DEF DueInv, Overlaps, Posts
  <1>9. CASE UNCHANGED records /\ (calls'[c].pc = "idle" => calls'[c].status # "stored")
    <2>1. (\A j : Shown(j)' = Shown(j)) /\ (Duplicates <=> Duplicates')
      BY <1>9 DEF Shown, Of, Duplicates
    <2>2. LastSaveIsStored'
      BY <1>2, <2>1 DEF DueInv, LastSaveIsStored
    <2>3. ASSUME NEW s \in Session PROVE Replaced(s)'
      BY <1>2, <1>5, <1>6, <1>9, <2>1 DEF DueInv, Replaced
    <2>. QED BY <1>7, <1>8, <2>2, <2>3 DEF DueInv
  <1>10. CASE \E id \in RecordId : Writes(id, calls[c].identity, calls[c].choice)
    <2>1. PICK i \in Identity, choice \in Choice : i = calls[c].identity /\ choice = calls[c].choice
      BY <1>2
    <2>2. ~ Duplicates' =>
             /\ Shown(i)' = {choice} /\ ~ Duplicates
             /\ \A j \in Identity \ {i} : Shown(j)' = Shown(j)
      BY <1>10, <2>1, ShownAfter
    <2>3. choice \in due[i]
      BY <1>3, <2>1 DEF DueInv, OnlyStores
    <2>4. LastSaveIsStored'
      BY <1>2, <2>2, <2>3 DEF DueInv, LastSaveIsStored
    <2>5. ASSUME NEW s \in Session PROVE Replaced(s)'
      <3>1. Overlaps(s) /\ Replaced(s)
        BY DEF DueInv
      <3>2. sessions[s].pc = "wait" /\ sessions[s].identity = i => choice \in sessions[s].since
        BY <1>3, <2>1, <3>1 DEF Overlaps, Posts
      <3>3. sessions[s].pc = "wait" => sessions[s].identity \in Identity
        BY <1>2, <3>1 DEF Replaced, TypeOK, CallState
      <3>4. sessions[s].pc = "wait" /\ sessions[s].call # c /\ ~ Duplicates'
               /\ calls'[sessions[s].call].pc = "idle"
               /\ calls'[sessions[s].call].status = "stored" =>
            Shown(sessions[s].identity)' \subseteq sessions[s].since
        BY <1>2, <1>5, <2>2, <3>1, <3>2, <3>3 DEF Replaced
      <3>5. sessions[s].pc = "wait" /\ sessions[s].call = c /\ ~ Duplicates' =>
            Shown(sessions[s].identity)' \subseteq sessions[s].since
        BY <1>2, <2>1, <2>2, <3>1, <3>2 DEF Replaced
      <3>. QED BY <1>2, <1>6, <3>1, <3>4, <3>5 DEF Replaced
    <2>. QED BY <1>7, <1>8, <2>4, <2>5 DEF DueInv
  <1>. QED BY <1>5, <1>9, <1>10

LEMMA DueNext == ASSUME SyncInv, DueInv, [SNext]_svars PROVE DueInv'
  <1>1. CASE UNCHANGED svars
    BY <1>1, DueKept DEF svars, pvars, vars
  <1>2. ASSUME NEW s \in Session, Page(s)
        PROVE  DueInv'
    <2>1. CASE \E u \in User, choice \in Choice : SaveForm(s, u, choice)
      <3>1. PICK u \in User, choice \in Choice : SaveForm(s, u, choice)
        BY <2>1
      <3>2. url[u] \in Identity
        BY <3>1 DEF SyncInv, ChoiceInv, STypeOK, SaveForm
      <3>. QED BY <3>1, <3>2, BeginType, DueBegin DEF SaveForm
    <2>2. CASE \E u \in User, i \in Identity : UpdateProfile(s, u, i) \/ Register(s, u, i)
      BY <2>2, BeginType, DueBegin DEF UpdateProfile, Register, Move
    <2>3. CASE GiveUp(s)
      BY <2>3, DueKept DEF GiveUp, Return, Idle, vars, SyncInv, ChoiceInv, STypeOK
    <2>. QED BY <1>2, <2>1, <2>2, <2>3, DuePrepare, DuePost, DueAnswered DEF Page
  <1>. QED BY <1>1, <1>2, DueServe DEF SNext

\* However sessions, late posts and handlers interleave, and whoever shares or leaves
\* an identity, no choice whose post was over comes back after a later one was
\* answered with success, as long as the identity has one record.
THEOREM LastSaveCorrect == SSpec => []LastSaveIsStored
  <1>1. SInit => SyncInv /\ DueInv
    BY SInitInv, DueInit
  <1>2. SyncInv /\ DueInv /\ [SNext]_svars => (SyncInv /\ DueInv)'
    BY SNextInv, DueNext
  <1>3. DueInv => LastSaveIsStored
    BY DEF DueInv
  <1>. QED BY <1>1, <1>2, <1>3, PTL DEF SSpec

=============================================================================
