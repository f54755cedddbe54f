----------------------------- MODULE DnsRecords -----------------------------
(***************************************************************************)
(* The DNS mutations of the GraphQL API (resolvers.rs) over its tables     *)
(* (db.rs), the consent service they ask (consent.rs) and the blockchain   *)
(* they anchor records in (blockchain.rs), all in                          *)
(* indieweb2-bastion/graphql-dns-api/src/.                                 *)
(*                                                                         *)
(* Calls run concurrently and without a lock: what lies between two awaits *)
(* is one action.  The tables are in memory (main.rs) and lost with the    *)
(* process.  The database's update replaces a record that is there and     *)
(* returns none otherwise.                                                 *)
(*                                                                         *)
(* graphql_handler (main.rs) puts no identity into the context of a        *)
(* request, so that the server as it is refuses every createDNSRecord:     *)
(* what is said of creations is said of the resolver, for a context that   *)
(* carries an identity.                                                    *)
(***************************************************************************)
EXTENDS Naturals, Sequences, FiniteSets

CONSTANTS
    Identity,   \* identities that a request context may carry
    RecordId,   \* UUIDs that may be drawn
    Content,    \* name, type, ttl and value: what content_hash is taken of
    Valid,      \* those that validate_dns_record accepts
    Zone,       \* zones that DNSSEC is asked for
    PublicKey,  \* hybrid public keys that may be generated
    Call,       \* resolvers that may run at the same time
    MaxTx       \* bound on the transactions sent

ASSUME RecordsAssumption ==
    Valid \subseteq Content /\ Content # {} /\ RecordId # {} /\ MaxTx \in Nat

VARIABLES
    records,      \* the table dns_records, a map from ids
    provenances,  \* the table blockchain_provenance
    zones,        \* the table dnssec_zones, a map from names of zones
    consent,      \* what the consent service answers for an identity
    chain,        \* the transactions sent, in order
    calls,        \* the resolvers
    past,         \* for each id its creator and all contents so far, history only
    upserted      \* zones that were upserted since the process began, history only

vars == <<records, provenances, zones, consent, chain, calls, past, upserted>>

Nobody == "nobody"

ASSUME NobodyAssumption == Nobody \notin Identity

\* DNSRecord; blockchain_tx_hash is never assigned.
DNSRecord == [content : Content, dnssec : BOOLEAN]

Flag == {"unset", "true", "false"}    \* the optional dnssec of an input

BlockchainProvenance == [record : RecordId, hash : Content, tx : 1..MaxTx]

\* An orphaned transaction was in a block that is no longer of the chain.
Transaction == [hash : Content, state : {"pending", "mined", "dropped", "orphaned"}]

WasMined(tx) == tx.state \in {"mined", "orphaned"}

PC == {"idle", "consent", "insert", "put", "send", "confirm", "store"}

\* read is the record got before an await.  consented says that the identity's
\* consent held at some moment of the call, history only.
CallState ==
    [pc : PC, identity : Identity \cup {Nobody}, id : RecordId, content : Content,
     dnssec : Flag, read : DNSRecord, tx : 0..MaxTx, consented : BOOLEAN]

-----------------------------------------------------------------------------
Live == DOMAIN records

\* A resolver that has not begun, or has ended.
NoCall ==
    LET content == CHOOSE x \in Content : TRUE
    IN  [pc |-> "idle", identity |-> Nobody, id |-> CHOOSE id \in RecordId : TRUE,
         content |-> content, dnssec |-> "unset",
         read |-> [content |-> content, dnssec |-> FALSE],
         tx |-> 0, consented |-> FALSE]

Goto(c, pc) == calls' = [calls EXCEPT ![c].pc = pc]

Finish(c) == calls' = [calls EXCEPT ![c] = NoCall]

\* The flag that is given, or else the one the record had.
Dnssec(flag, old) == IF flag = "unset" THEN old ELSE flag = "true"

With(map, key, value) ==
    [k \in DOMAIN map \cup {key} |-> IF k = key THEN value ELSE map[k]]

\* Variant: a record that is gone is created again.
Update_Upsert(map, key, value) == With(map, key, value)

\* db.update(..).content(..) of the database.
Update(map, key, value) == IF key \in DOMAIN map THEN [map EXCEPT ![key] = value] ELSE map

-----------------------------------------------------------------------------
\* What the queries find: get_record, get_dnssec_zone, and get_provenance, which
\* takes the first of those that are there, in no order.
GetRecord(id) == {records[k] : k \in Live \cap {id}}
GetDnssecZone(zone) == {zones[z] : z \in DOMAIN zones \cap {zone}}
GetProvenance(id) == {p \in provenances : p.record = id}

-----------------------------------------------------------------------------
EmptyMap == [k \in {} |-> 0]

NoPast == [creator |-> Nobody, contents |-> {}]

Init ==
    /\ records = EmptyMap
    /\ provenances = {}
    /\ zones = EmptyMap
    /\ consent \in [Identity -> BOOLEAN]
    /\ chain = <<>>
    /\ calls = [c \in Call |-> NoCall]
    /\ past = [id \in RecordId |-> NoPast]
    /\ upserted = {}

\* createDNSRecord: a context without an identity is rejected at once.
CreateDnsRecord(c, i, content, flag) ==
    /\ calls[c] = NoCall
    /\ calls' = [calls EXCEPT ![c] = [NoCall EXCEPT !.pc = "consent", !.identity = i,
                                        !.content = content, !.dnssec = flag,
                                        !.consented = consent[i]]]
    /\ UNCHANGED <<records, provenances, zones, consent, chain, past, upserted>>

\* Variant: a consent service that cannot be reached stops nobody.
RequireDnsConsent_FailOpen(c) ==
    /\ calls[c].pc = "consent"
    /\ \/ Goto(c, "insert")
       \/ ~ consent[calls[c].identity] /\ Finish(c)
    /\ UNCHANGED <<records, provenances, zones, consent, chain, past, upserted>>

\* require_dns_consent: refused without consent and when the service fails.
\* Then validate_dns_record, before the next await.
RequireDnsConsent(c) ==
    /\ calls[c].pc = "consent"
    /\ \/ /\ consent[calls[c].identity] /\ calls[c].content \in Valid
          /\ Goto(c, "insert")
       \/ Finish(c)
    /\ UNCHANGED <<records, provenances, zones, consent, chain, past, upserted>>

\* DNSRecord::new under a new id, and create_record.
InsertRecord(c, id) ==
    LET call == calls[c]
    IN  /\ call.pc = "insert"
        /\ past[id] = NoPast
        /\ records' = With(records, id, [content |-> call.content,
                                         dnssec |-> Dnssec(call.dnssec, FALSE)])
        /\ past' = [past EXCEPT ![id] = [creator |-> call.identity,
                                         contents |-> {call.content}]]
        /\ Finish(c)
        /\ UNCHANGED <<provenances, zones, consent, chain, upserted>>

\* updateDNSRecord, to the end of get_record and validate_dns_record.
UpdateDnsRecord(c, id, content, flag) ==
    /\ calls[c] = NoCall /\ content \in Valid
    /\ \E record \in GetRecord(id) :
          calls' = [calls EXCEPT ![c] = [NoCall EXCEPT !.pc = "put", !.id = id,
                                           !.content = content, !.dnssec = flag,
                                           !.read = record]]
    /\ UNCHANGED <<records, provenances, zones, consent, chain, past, upserted>>

\* Variant: only the fields of the input are written.
PutRecord_InputOnly(c) ==
    LET call == calls[c]
    IN  /\ call.pc = "put"
        /\ records' = Update(records, call.id, [content |-> call.content])
        /\ past' = IF call.id \in Live
                   THEN [past EXCEPT ![call.id].contents = @ \cup {call.content}]
                   ELSE past
        /\ Finish(c)
        /\ UNCHANGED <<provenances, zones, consent, chain, upserted>>

\* update_record with the record that was read, its fields replaced.
PutRecord(c) ==
    LET call == calls[c]
    IN  /\ call.pc = "put"
        /\ records' = Update(records, call.id,
                             [call.read EXCEPT !.content = call.content,
                                               !.dnssec = Dnssec(call.dnssec, @)])
        /\ past' = IF call.id \in Live
                   THEN [past EXCEPT ![call.id].contents = @ \cup {call.content}]
                   ELSE past
        /\ Finish(c)
        /\ UNCHANGED <<provenances, zones, consent, chain, upserted>>

\* deleteDNSRecord is done whether or not there was a record.
DeleteDnsRecord(c, id) ==
    /\ calls[c] = NoCall
    /\ records' = [k \in Live \ {id} |-> records[k]]
    /\ UNCHANGED <<provenances, zones, consent, chain, calls, past, upserted>>

-----------------------------------------------------------------------------
\* anchorToBlockchain, to the end of get_record; the hash is taken at once.
AnchorToBlockchain(c, id) ==
    /\ calls[c] = NoCall
    /\ \E record \in GetRecord(id) :
          calls' = [calls EXCEPT ![c] = [NoCall EXCEPT !.pc = "send", !.id = id,
                                           !.read = record]]
    /\ UNCHANGED <<records, provenances, zones, consent, chain, past, upserted>>

\* anchor_hash: without a wallet, or when the node refuses, nothing is sent.
SendTransaction(c) ==
    /\ calls[c].pc = "send"
    /\ \/ /\ Len(chain) < MaxTx
          /\ chain' = Append(chain, [hash |-> calls[c].read.content, state |-> "pending"])
          /\ calls' = [calls EXCEPT ![c].pc = "confirm", ![c].tx = Len(chain) + 1]
       \/ Finish(c) /\ UNCHANGED chain
    /\ UNCHANGED <<records, provenances, zones, consent, past, upserted>>

\* A receipt, after one block, or an error: no receipt, or the node is lost while
\* it is awaited.
AwaitReceipt(c) ==
    /\ calls[c].pc = "confirm"
    /\ \/ chain[calls[c].tx].state = "mined" /\ Goto(c, "store")
       \/ Finish(c)
    /\ UNCHANGED <<records, provenances, zones, consent, chain, past, upserted>>

\* Variant: the hash is taken of the record as it is now.
StoreProvenance_Reread(c) ==
    LET call == calls[c]
    IN  /\ call.pc = "store"
        /\ call.id \in Live
        /\ provenances' = provenances \cup
             {[record |-> call.id, hash |-> records[call.id].content, tx |-> call.tx]}
        /\ Finish(c)
        /\ UNCHANGED <<records, zones, consent, chain, past, upserted>>

\* store_provenance, whatever became of the record.
StoreProvenance(c) ==
    LET call == calls[c]
    IN  /\ call.pc = "store"
        /\ provenances' = provenances \cup
             {[record |-> call.id, hash |-> call.read.content, tx |-> call.tx]}
        /\ Finish(c)
        /\ UNCHANGED <<records, zones, consent, chain, past, upserted>>

\* A transaction is mined, or dropped from the pool.
Mine(n) ==
    /\ chain[n].state = "pending"
    /\ \E state \in {"mined", "dropped"} : chain' = [chain EXCEPT ![n].state = state]
    /\ UNCHANGED <<records, provenances, zones, consent, calls, past, upserted>>

\* The chain is reorganised: a block leaves it with its transactions, or the
\* transaction of one that left is mined again.
Reorganise(n) ==
    /\ WasMined(chain[n])
    /\ chain' = [chain EXCEPT ![n].state = IF @ = "mined" THEN "orphaned" ELSE "mined"]
    /\ UNCHANGED <<records, provenances, zones, consent, calls, past, upserted>>

-----------------------------------------------------------------------------
\* generate_keys: public keys for zone and signing, and a digest of the first;
\* the secret keys are dropped.
GenerateKeys(zone) == {[ksk |-> k, zsk |-> z, ds |-> <<zone, k>>] : k, z \in PublicKey}

\* enableDNSSEC, which ends in upsert_dnssec_zone.
EnableDnssec(zone) ==
    /\ \E keys \in GenerateKeys(zone) :
          zones' = Update(zones, zone, [enabled |-> TRUE, keys |-> keys])
    /\ upserted' = upserted \cup {zone}
    /\ UNCHANGED <<records, provenances, consent, chain, calls, past>>

\* rotateDNSSECKeys: an error without the zone.
RotateDnssecKeys(zone) ==
    /\ IF GetDnssecZone(zone) = {} THEN UNCHANGED <<zones, upserted>>
       ELSE /\ \E keys \in GenerateKeys(zone) :
                  zones' = Update(zones, zone, [zones[zone] EXCEPT !.keys = keys])
            /\ upserted' = upserted \cup {zone}
    /\ UNCHANGED <<records, provenances, consent, chain, calls, past>>

-----------------------------------------------------------------------------
\* The user grants or revokes consent.
ChangeConsent(i) ==
    /\ consent' = [consent EXCEPT ![i] = ~ @]
    /\ calls' = [c \in Call |->
                   [calls[c] EXCEPT !.consented = @ \/ (calls[c].identity = i /\ ~ consent[i])]]
    /\ UNCHANGED <<records, provenances, zones, chain, past, upserted>>

\* The client goes away and the server drops its resolver at an await.
Cancel(c) ==
    /\ calls[c] # NoCall
    /\ Finish(c)
    /\ UNCHANGED <<records, provenances, zones, consent, chain, past, upserted>>

\* The process ends and takes its tables with it.
Restart ==
    /\ records' = EmptyMap /\ provenances' = {} /\ zones' = EmptyMap /\ upserted' = {}
    /\ calls' = [c \in Call |-> NoCall]
    /\ UNCHANGED <<consent, chain, past>>

Mutation(c) ==
    \/ \E i \in Identity, x \in Content, f \in Flag : CreateDnsRecord(c, i, x, f)
    \/ RequireDnsConsent(c)
    \/ \E id \in RecordId : InsertRecord(c, id)
    \/ \E id \in RecordId, x \in Content, f \in Flag : UpdateDnsRecord(c, id, x, f)
    \/ PutRecord(c)
    \/ \E id \in RecordId : DeleteDnsRecord(c, id)
    \/ \E id \in RecordId : AnchorToBlockchain(c, id)
    \/ SendTransaction(c) \/ AwaitReceipt(c) \/ StoreProvenance(c)
    \/ Cancel(c)

Next ==
    \/ \E c \in Call : Mutation(c)
    \/ \E n \in DOMAIN chain : Mine(n) \/ Reorganise(n)
    \/ \E zone \in Zone : EnableDnssec(zone) \/ RotateDnssecKeys(zone)
    \/ \E i \in Identity : ChangeConsent(i)
    \/ Restart

Spec == Init /\ [][Next]_vars

-----------------------------------------------------------------------------
\* Type correctness.
TypeOK ==
    /\ records \in [Live -> DNSRecord] /\ Live \subseteq RecordId
    /\ provenances \subseteq BlockchainProvenance
    /\ DOMAIN zones \subseteq Zone
    /\ consent \in [Identity -> BOOLEAN]
    /\ chain \in Seq(Transaction) /\ Len(chain) <= MaxTx
    /\ calls \in [Call -> CallState]
    /\ past \in [RecordId -> [creator : Identity \cup {Nobody}, contents : SUBSET Content]]
    /\ upserted \subseteq Zone

\* No record is created for an identity that at no moment of the call consented
\* to DNS operations: failures of the consent service refuse, and a revocation
\* that comes after the check is only late.
CreatedUnderConsent ==
    [][\A id \in DOMAIN records' \ Live :
          \E c \in Call : /\ calls[c].pc = "insert" /\ calls[c].consented
                          /\ past'[id].creator = calls[c].identity]_vars

\* A deleted record does not come back, although an update that read it before
\* writes the whole record after.
DeletedStaysDeleted ==
    [][\A id \in DOMAIN records' \ Live : past[id] = NoPast]_vars

\* What blockchainProvenance answers of a record is what the record once held,
\* and what a transaction holds that was mined: not what an update made of it
\* meanwhile.  The block may leave the chain later, and nothing is told of it.
ProvenanceIsGenuine ==
    \A id \in RecordId : \A p \in GetProvenance(id) :
        /\ p.hash \in past[id].contents
        /\ chain[p.tx].hash = p.hash /\ WasMined(chain[p.tx])

\* db.rs of upsert_dnssec_zone: "Create or update DNSSEC zone".  It only updates:
\* without a zone enableDNSSEC ends in an error, and rotateDNSSECKeys before it,
\* so that dnssecZone never finds what was to be enabled.
UpsertedZonesAreFound == \A zone \in upserted : GetDnssecZone(zone) # {}

\* README.adoc of the plugin: "GraphQL DNS API enforces consent before
\* operations".  Only createDNSRecord asks, and asks before it waits.
ConsentIsEnforced ==
    [][\A id \in Live \cap DOMAIN records' :
          records'[id] # records[id] => consent[past[id].creator]]_vars

=============================================================================
