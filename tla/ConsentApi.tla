----------------------------- MODULE ConsentApi -----------------------------
(***************************************************************************)
(* The consent service (indieweb2-bastion/services/consent-api/mod.affine) *)
(* and its table in SurrealDB.                                             *)
(*                                                                         *)
(* One thread runs all handlers: what lies between two awaits is one       *)
(* action.  The digest that storeConsent awaits touches no shared state,   *)
(* so the query before it and the write after it are the only two actions  *)
(* of a store once there is a connection.                                  *)
(*                                                                         *)
(* Of the preferences only dnsOperations is kept; the others travel the    *)
(* same way.  The database executes one statement at a time, and an UPDATE *)
(* of a record that is gone returns no record and changes nothing.         *)
(***************************************************************************)
EXTENDS Naturals, FiniteSets

CONSTANTS
    Identity,        \* identities of users
    RecordId,        \* ids that SurrealDB may draw
    Call,            \* handlers that may run at the same time
    FreshDatabase,   \* TRUE when the table has not been defined before
    DatabaseFails,   \* TRUE when connecting or any statement may fail
    Restarts,        \* TRUE when the process may be restarted
    MaxCalls         \* bound on the number of requests received

ASSUME ConsentAssumption ==
    /\ Identity # {} /\ MaxCalls \in Nat
    /\ FreshDatabase \in BOOLEAN /\ DatabaseFails \in BOOLEAN /\ Restarts \in BOOLEAN

NoRecord == "no record"

ASSUME RecordAssumption == NoRecord \notin RecordId

VARIABLES
    client,    \* the global db and how far it is connected
    schema,    \* whether the table has its unique index on identity
    records,   \* the table, a map from ids to records
    calls,     \* the handlers
    received,  \* requests received so far, bounded by MaxCalls
    drawn,     \* ids that were drawn for a record so far
    overtaken  \* those of them created by a store that had a rival, history only

vars == <<client, schema, records, calls, received, drawn, overtaken>>

Choice == {"on", "off"}

ConsentRecord == [identity : Identity, dnsOperations : Choice, version : Nat]

Kind == {"store", "revoke", "get", "check"}

PC == {"idle", "init", "connect", "use", "schema", "query", "write"}

\* none while a call runs; unavailable is the 500 of a failed connection or
\* statement, conflict that of the unique index.
Status ==
    {"none", "unavailable", "conflict", "stored", "revoked", "found", "absent",
     "allowed", "denied"}

\* took: the call's write took effect; rival, revoked: that of another store, or
\* of a revocation, for the same identity did while this one ran.  History only.
CallState ==
    [pc : PC, kind : Kind, identity : Identity, choice : Choice,
     found : RecordId \cup {NoRecord}, status : Status, took : BOOLEAN, rival : BOOLEAN,
     revoked : BOOLEAN]

-----------------------------------------------------------------------------
Of(i) == {id \in DOMAIN records : records[id].identity = i}

\* SELECT * FROM consent WHERE identity = i, of which the first row is taken.
Select(i) == IF Of(i) = {} THEN {NoRecord} ELSE Of(i)

\* checkConsentForOperation with its default for dnsOperations.
Allowed(id) == IF id = NoRecord THEN FALSE ELSE records[id].dnsOperations = "on"

Duplicates == \E a, b \in DOMAIN records :
                 a # b /\ records[a].identity = records[b].identity

Finish(c, status) ==
    calls' = [calls EXCEPT ![c].pc = "idle", ![c].status = status]

Goto(c, pc) == calls' = [calls EXCEPT ![c].pc = pc]

\* How a call may end whose statement took effect: the answer of the database may
\* be lost, and what is thrown then is caught by the handler.
Outcomes(status) == {status} \cup IF DatabaseFails THEN {"unavailable"} ELSE {}

\* Call c ends after its write took effect.
Stored(c, status) ==
    calls' = [d \in Call |->
                IF d = c
                THEN [calls[c] EXCEPT !.pc = "idle", !.status = status, !.took = TRUE]
                ELSE IF calls[d].identity = calls[c].identity
                     THEN [calls[d] EXCEPT !.rival = TRUE]
                     ELSE calls[d]]

-----------------------------------------------------------------------------
NoCall(i) ==
    [pc |-> "idle", kind |-> "get", identity |-> i, choice |-> "off",
     found |-> NoRecord, status |-> "none", took |-> FALSE, rival |-> FALSE,
     revoked |-> FALSE]

Init ==
    /\ client = "null"
    /\ schema = ~ FreshDatabase
    /\ records = [id \in {} |-> 0]
    /\ calls = [c \in Call |-> NoCall(CHOOSE i \in Identity : TRUE)]
    /\ received = 0
    /\ drawn = {} /\ overtaken = {}

\* handler, up to the call of the function for the route.
Receive(c, kind, i, choice) ==
    /\ calls[c].pc = "idle"
    /\ received < MaxCalls
    /\ received' = received + 1
    /\ calls' = [calls EXCEPT ![c] = [NoCall(i) EXCEPT !.pc = "init", !.kind = kind,
                                                       !.choice = choice]]
    /\ UNCHANGED <<client, schema, records, drawn, overtaken>>

\* Variant: db is assigned when the connection stands, not before.
InitDatabase_AssignLate(c) ==
    /\ calls[c].pc = "init"
    /\ Goto(c, IF client \in {"null", "created"} THEN "connect" ELSE "query")
    /\ client' = IF client = "null" THEN "created" ELSE client
    /\ UNCHANGED <<schema, records, received, drawn, overtaken>>

\* initDatabase: any client that is there is used, connected or not.
InitDatabase(c) ==
    /\ calls[c].pc = "init"
    /\ \/ client # "null" /\ Goto(c, "query") /\ client' = client
       \/ client = "null" /\ Goto(c, "connect") /\ client' = "created"
    /\ UNCHANGED <<schema, records, received, drawn, overtaken>>

\* A failure leaves db as it is: no later call tries again.
Connect(c) ==
    /\ calls[c].pc = "connect"
    /\ \/ Goto(c, "use") /\ client' = "connected"
       \/ DatabaseFails /\ Finish(c, "unavailable") /\ client' = client
    /\ UNCHANGED <<schema, records, received, drawn, overtaken>>

\* So does one here: the client is connected then and has no database selected.
Use(c) ==
    /\ calls[c].pc = "use"
    /\ \/ Goto(c, "schema") /\ client' = "ready"
       \/ DatabaseFails /\ Finish(c, "unavailable") /\ client' = client
    /\ UNCHANGED <<schema, records, received, drawn, overtaken>>

\* A unique index cannot be built over duplicates.
DefineSchema(c) ==
    /\ calls[c].pc = "schema"
    /\ \/ ~ Duplicates /\ Goto(c, "query") /\ schema' = TRUE
       \/ (Duplicates \/ DatabaseFails) /\ Finish(c, "unavailable") /\ schema' = schema
    /\ UNCHANGED <<client, records, received, drawn, overtaken>>

\* A statement on a client that is not connected, or has no database selected.
QueryTooEarly(c) ==
    /\ calls[c].pc = "query"
    /\ client # "ready"
    /\ Finish(c, "unavailable")
    /\ UNCHANGED <<client, schema, records, received, drawn, overtaken>>

\* A statement that the database refuses, or that is lost on the way to it.
StatementFails(c) ==
    /\ calls[c].pc \in {"query", "write"}
    /\ client = "ready" /\ DatabaseFails
    /\ Finish(c, "unavailable")
    /\ UNCHANGED <<client, schema, records, received, drawn, overtaken>>

\* Variant: no row is ever found.
SelectExisting_Blind(c) ==
    /\ calls[c].pc = "query" /\ calls[c].kind = "store"
    /\ client = "ready"
    /\ Goto(c, "write")
    /\ UNCHANGED <<client, schema, records, received, drawn, overtaken>>

\* The first statement of storeConsent.
SelectExisting(c) ==
    /\ calls[c].pc = "query" /\ calls[c].kind = "store"
    /\ client = "ready"
    /\ \E id \in Select(calls[c].identity) :
          calls' = [calls EXCEPT ![c].pc = "write", ![c].found = id]
    /\ UNCHANGED <<client, schema, records, received, drawn, overtaken>>

\* Variant: the new content replaces the whole record and has no version.
UpdateExisting_Replaces(c) ==
    LET id == calls[c].found
    IN  /\ calls[c].pc = "write"
        /\ id \in DOMAIN records
        /\ records' = [records EXCEPT ![id] = [identity |-> calls[c].identity,
                                              dnsOperations |-> calls[c].choice]]
        /\ Stored(c, "stored")
        /\ UNCHANGED <<client, schema, received, drawn, overtaken>>

\* Variant: an UPSERT, which brings back a record that was deleted meanwhile.
UpdateExisting_Upsert(c) ==
    LET id == calls[c].found
        i == calls[c].identity
        version == IF id \in DOMAIN records THEN records[id].version + 1 ELSE 1
    IN  /\ calls[c].pc = "write"
        /\ id # NoRecord
        /\ schema => Of(i) \subseteq {id}
        /\ records' = [k \in DOMAIN records \cup {id} |->
                          IF k = id
                          THEN [identity |-> i, dnsOperations |-> calls[c].choice,
                                version |-> version]
                          ELSE records[k]]
        /\ Stored(c, "stored")
        /\ UNCHANGED <<client, schema, received, drawn, overtaken>>

\* storeConsent, first branch.  The record may have been deleted meanwhile.
UpdateExisting(c) ==
    LET id == calls[c].found
    IN  /\ calls[c].pc = "write"
        /\ id # NoRecord
        /\ \/ /\ id \in DOMAIN records
              /\ records' = [records EXCEPT ![id].dnsOperations = calls[c].choice,
                                            ![id].version = @ + 1]
              /\ \E status \in Outcomes("stored") : Stored(c, status)
           \/ /\ id \notin DOMAIN records
              /\ Finish(c, "stored")
              /\ records' = records
        /\ UNCHANGED <<client, schema, received, drawn, overtaken>>

\* Variant: the error of the unique index is swallowed.
CreateNew_IgnoresConflict(c, id) ==
    LET i == calls[c].identity
    IN  /\ calls[c].pc = "write"
        /\ calls[c].found = NoRecord
        /\ id \notin drawn
        /\ IF schema /\ Of(i) # {}
           THEN Finish(c, "stored") /\ UNCHANGED <<records, drawn, overtaken>>
           ELSE /\ records' = [k \in DOMAIN records \cup {id} |->
                                 IF k = id
                                 THEN [identity |-> i, dnsOperations |-> calls[c].choice,
                                       version |-> 1]
                                 ELSE records[k]]
                /\ drawn' = drawn \cup {id}
                /\ overtaken' = IF calls[c].rival THEN overtaken \cup {id} ELSE overtaken
                /\ Stored(c, "stored")
        /\ UNCHANGED <<client, schema, received>>

\* storeConsent, second branch, under a new id.
CreateNew(c, id) ==
    LET i == calls[c].identity
    IN  /\ calls[c].pc = "write"
        /\ calls[c].found = NoRecord
        /\ id \notin drawn
        /\ \/ /\ schema => Of(i) = {}
              /\ records' = [k \in DOMAIN records \cup {id} |->
                                IF k = id
                                THEN [identity |-> i, dnsOperations |-> calls[c].choice,
                                      version |-> 1]
                                ELSE records[k]]
              /\ drawn' = drawn \cup {id}
              /\ overtaken' = IF calls[c].rival THEN overtaken \cup {id} ELSE overtaken
              /\ \E status \in Outcomes("stored") : Stored(c, status)
           \/ /\ schema /\ Of(i) # {}
              /\ Finish(c, "conflict")
              /\ UNCHANGED <<records, drawn, overtaken>>
        /\ UNCHANGED <<client, schema, received>>

\* revokeConsent deletes every record of the identity.
Revoke(c) ==
    /\ calls[c].pc = "query" /\ calls[c].kind = "revoke"
    /\ client = "ready"
    /\ records' = [id \in DOMAIN records \ Of(calls[c].identity) |-> records[id]]
    /\ \E status \in Outcomes("revoked") :
          calls' = [d \in Call |->
                   IF d = c THEN [calls[c] EXCEPT !.pc = "idle", !.status = status]
                   ELSE IF calls[d].identity = calls[c].identity
                        THEN [calls[d] EXCEPT !.revoked = TRUE]
                        ELSE calls[d]]
    /\ UNCHANGED <<client, schema, received, drawn, overtaken>>

\* getConsent, alone or for checkConsentForOperation.
Read(c) ==
    /\ calls[c].pc = "query" /\ calls[c].kind \in {"get", "check"}
    /\ client = "ready"
    /\ \E id \in Select(calls[c].identity) :
          Finish(c, IF calls[c].kind = "get"
                    THEN IF id = NoRecord THEN "absent" ELSE "found"
                    ELSE IF Allowed(id) THEN "allowed" ELSE "denied")
    /\ UNCHANGED <<client, schema, records, received, drawn, overtaken>>

\* The process ends, and starts anew with the same database.
Restart ==
    /\ Restarts
    /\ client' = "null"
    /\ calls' = [c \in Call |-> NoCall(calls[c].identity)]
    /\ UNCHANGED <<schema, records, received, drawn, overtaken>>

Step(c) ==
    \/ InitDatabase(c) \/ Connect(c) \/ Use(c) \/ DefineSchema(c)
    \/ QueryTooEarly(c) \/ StatementFails(c) \/ SelectExisting(c) \/ UpdateExisting(c)
    \/ \E id \in RecordId : CreateNew(c, id)
    \/ Revoke(c) \/ Read(c)

Next ==
    \/ \E c \in Call, kind \in Kind, i \in Identity, choice \in Choice :
          Receive(c, kind, i, choice)
    \/ \E c \in Call : Step(c)
    \/ Restart

Spec == Init /\ [][Next]_vars

-----------------------------------------------------------------------------
\* Type correctness.
TypeOK ==
    /\ client \in {"null", "created", "connected", "ready"}
    /\ schema \in BOOLEAN
    /\ DOMAIN records \subseteq RecordId
    /\ records \in [DOMAIN records -> ConsentRecord]
    /\ calls \in [Call -> CallState]
    /\ received \in 0..MaxCalls
    /\ drawn \subseteq RecordId /\ overtaken \subseteq RecordId

\* The test and the assignment of db lie before the first await of initDatabase,
\* so that at most one handler ever connects the client of this process.
OneInitialiser ==
    Cardinality({c \in Call : calls[c].pc \in {"connect", "use", "schema"}}) <= 1

\* The index that mod.affine:79 relies on may be missing: handlers use db while
\* another one still connects it, and it cannot be defined any more once they have
\* created two records for one identity.  But two records of an identity always
\* come from stores that overlapped: when storeConsent runs alone its query finds
\* what is there, however often records are revoked and created again.
DuplicatesOverlapped ==
    \A a, b \in DOMAIN records :
        a # b /\ records[a].identity = records[b].identity
            => a \in overtaken \/ b \in overtaken

\* A store is refused for a duplicate only if another one for the same identity
\* took effect while it ran.
ConflictHasRival ==
    \A c \in Call : calls[c].status = "conflict" => calls[c].rival

\* A store that is answered 201 took effect, unless a revocation came while it
\* ran: then its update may have found no record, and is answered 201 as well.
AcknowledgedUnlessRevoked ==
    \A c \in Call : calls[c].status = "stored" => calls[c].took \/ calls[c].revoked

=============================================================================
