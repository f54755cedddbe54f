-------------------------- MODULE DnsRecordsProofs --------------------------
(***************************************************************************)
(* Proofs about DnsRecords, for any number of identities, records,         *)
(* concurrent resolvers and transactions.                                  *)
(***************************************************************************)
EXTENDS DnsRecords, TLAPS

-----------------------------------------------------------------------------
(***************************************************************************)
(* The inductive invariant.  What a resolver holds across an await is      *)
(* stale, and the invariant says what of it is still true: that the        *)
(* identity consented at some moment, that the content that was read is    *)
(* one the record has had, that the transaction holds its hash.            *)
(***************************************************************************)
CallInOrder(c) ==
    LET call == calls[c]
    IN  /\ call.pc \in {"consent", "insert"} => call.identity \in Identity
        /\ call.pc = "consent" /\ consent[call.identity] => call.consented
        /\ call.pc = "insert" => call.consented
        /\ call.pc \in {"send", "confirm", "store"} =>
              call.read.content \in past[call.id].contents
        /\ call.pc \in {"confirm", "store"} =>
              /\ call.tx \in DOMAIN chain
              /\ chain[call.tx].hash = call.read.content
        /\ call.pc = "store" => WasMined(chain[call.tx])

\* A record's content is one of those it has had.
RecordsInOrder == \A id \in Live : records[id].content \in past[id].contents

\* No provenance is of a transaction that was not sent.
ProvenancesInOrder ==
    \A p \in provenances :
        /\ p.tx \in DOMAIN chain
        /\ p.hash \in past[p.record].contents
        /\ chain[p.tx].hash = p.hash /\ WasMined(chain[p.tx])

InOrder ==
    /\ \A c \in Call : CallInOrder(c)
    /\ RecordsInOrder
    /\ ProvenancesInOrder

InductiveInv == TypeOK /\ InOrder

-----------------------------------------------------------------------------
(***************************************************************************)
(* What becomes of calls.                                                  *)
(***************************************************************************)
\* An ended call is a call.
LEMMA NoCallType == NoCall \in CallState
  BY RecordsAssumption DEF NoCall, CallState, PC, Flag, DNSRecord, Nobody

\* A call that goes on changes its place only.
LEMMA GotoType ==
    ASSUME TypeOK, NEW c \in Call, NEW pc \in PC, Goto(c, pc)
    PROVE  /\ calls' \in [Call -> CallState]
           /\ calls'[c] = [calls[c] EXCEPT !.pc = pc]
           /\ \A d \in Call \ {c} : calls'[d] = calls[d]
  <1>1. calls \in [Call -> CallState]
    BY DEF TypeOK
  <1>2. [calls[c] EXCEPT !.pc = pc] \in CallState
    BY <1>1 DEF CallState
  <1>3. calls' = [calls EXCEPT ![c] = [calls[c] EXCEPT !.pc = pc]]
    BY <1>1 DEF Goto
  <1>. QED BY <1>1, <1>2, <1>3

\* A call that ends leaves the others alone.
LEMMA FinishType ==
    ASSUME TypeOK, NEW c \in Call, Finish(c)
    PROVE  /\ calls' \in [Call -> CallState]
           /\ calls'[c] = NoCall
           /\ \A d \in Call \ {c} : calls'[d] = calls[d]
  BY NoCallType DEF TypeOK, Finish

\* A call replaced by another leaves the others alone.
LEMMA ReplaceType ==
    ASSUME TypeOK, NEW c \in Call, NEW call \in CallState,
           calls' = [calls EXCEPT ![c] = call]
    PROVE  /\ calls' \in [Call -> CallState]
           /\ calls'[c] = call
           /\ \A d \in Call \ {c} : calls'[d] = calls[d]
  BY DEF TypeOK

-----------------------------------------------------------------------------
(***************************************************************************)
(* What other calls and provenances rely on only grows: the contents that  *)
(* a record has had, the transactions, and those that were mined.          *)
(***************************************************************************)
Grows ==
    /\ \A id \in RecordId : past[id].contents \subseteq past'[id].contents
    /\ DOMAIN chain \subseteq DOMAIN chain'
    /\ \A n \in DOMAIN chain :
          /\ chain'[n].hash = chain[n].hash
          /\ WasMined(chain[n]) => WasMined(chain'[n])

\* Nothing grows when neither the history nor the chain changes.
LEMMA NothingGrows == ASSUME UNCHANGED <<past, chain>> PROVE Grows
  BY DEF Grows

\* A call that another one's step does not touch stays in order.
LEMMA CallStays ==
    ASSUME TypeOK, NEW c \in Call, CallInOrder(c), calls'[c] = calls[c],
           consent' = consent, Grows
    PROVE  CallInOrder(c)'
  <1>1. calls[c] \in CallState
    BY DEF TypeOK
  <1>. QED BY <1>1 DEF CallInOrder, Grows, CallState

\* An ended call is in order.
LEMMA NoCallInOrder == ASSUME NEW c \in Call, calls'[c] = NoCall PROVE CallInOrder(c)'
  BY DEF CallInOrder, NoCall

\* Provenances that are not touched stay in order.
LEMMA ProvenancesStay ==
    ASSUME TypeOK, TypeOK', ProvenancesInOrder, provenances' \subseteq provenances, Grows
    PROVE  ProvenancesInOrder'
  <1>. SUFFICES ASSUME NEW p \in provenances'
       PROVE  /\ p.tx \in DOMAIN chain'
              /\ p.hash \in past'[p.record].contents
              /\ chain'[p.tx].hash = p.hash /\ WasMined(chain'[p.tx])
    BY DEF ProvenancesInOrder
  <1>1. /\ p.tx \in DOMAIN chain /\ p.hash \in past[p.record].contents
        /\ chain[p.tx].hash = p.hash /\ WasMined(chain[p.tx])
    BY DEF ProvenancesInOrder
  <1>2. p.record \in RecordId
    BY DEF TypeOK, BlockchainProvenance
  <1>. QED BY <1>1, <1>2 DEF Grows

-----------------------------------------------------------------------------
(***************************************************************************)
(* The initial states, and one lemma per action.                           *)
(***************************************************************************)
\* Nothing is there and nobody calls.
LEMMA InitInv == Init => InductiveInv
  <1>. SUFFICES ASSUME Init PROVE InductiveInv
    OBVIOUS
  <1>1. TypeOK
    <2>1. records \in [Live -> DNSRecord] /\ Live \subseteq RecordId /\ Live = {}
      BY DEF Init, EmptyMap, Live
    <2>2. calls \in [Call -> CallState]
      BY NoCallType DEF Init
    <2>3. past \in [RecordId -> [creator : Identity \cup {Nobody}, contents : SUBSET Content]]
      BY DEF Init, NoPast
    <2>4. chain \in Seq(Transaction) /\ Len(chain) <= MaxTx
      BY RecordsAssumption DEF Init
    <2>. QED BY <2>1, <2>2, <2>3, <2>4 DEF Init, TypeOK, EmptyMap
  <1>2. InOrder
    BY DEF Init, InOrder, CallInOrder, RecordsInOrder, ProvenancesInOrder, NoCall,
           EmptyMap, Live
  <1>. QED BY <1>1, <1>2 DEF InductiveInv

\* A step of one call that changes nothing else.
LEMMA CallStep ==
    ASSUME InductiveInv, NEW c \in Call,
           UNCHANGED <<records, provenances, zones, consent, chain, past, upserted>>,
           calls' \in [Call -> CallState],
           \A d \in Call \ {c} : calls'[d] = calls[d],
           CallInOrder(c)'
    PROVE  InductiveInv'
  <1>1. TypeOK'
    BY DEF InductiveInv, TypeOK, Live
  <1>2. \A d \in Call \ {c} : CallInOrder(d)'
    BY CallStays, NothingGrows DEF InductiveInv, InOrder
  <1>3. RecordsInOrder' /\ ProvenancesInOrder'
    BY DEF InductiveInv, InOrder, RecordsInOrder, ProvenancesInOrder, Live
  <1>. QED BY <1>1, <1>2, <1>3 DEF InductiveInv, InOrder

\* A call that ends, alone.
LEMMA FinishStep ==
    ASSUME InductiveInv, NEW c \in Call, Finish(c),
           UNCHANGED <<records, provenances, zones, consent, chain, past, upserted>>
    PROVE  InductiveInv'
  BY FinishType, NoCallInOrder, CallStep DEF InductiveInv

\* createDNSRecord starts: the history notes whether the identity consents.
LEMMA CreateDnsRecordStep ==
    ASSUME InductiveInv, NEW c \in Call, NEW i \in Identity, NEW x \in Content,
           NEW f \in Flag, CreateDnsRecord(c, i, x, f)
    PROVE  InductiveInv'
  <1>. DEFINE call == [NoCall EXCEPT !.pc = "consent", !.identity = i, !.content = x,
                                     !.dnssec = f, !.consented = consent[i]]
  <1>1. call \in CallState
    BY NoCallType DEF CallState, PC, InductiveInv, TypeOK
  <1>2. calls' = [calls EXCEPT ![c] = call]
    BY DEF CreateDnsRecord
  <1>3. calls'[c] = call /\ calls' \in [Call -> CallState]
        /\ \A d \in Call \ {c} : calls'[d] = calls[d]
    BY <1>1, <1>2, ReplaceType DEF InductiveInv
  <1>4. CallInOrder(c)'
    BY <1>3 DEF CallInOrder, NoCall, CreateDnsRecord
  <1>. QED BY <1>3, <1>4, CallStep DEF CreateDnsRecord

\* The consent service answers: who may go on consented at some moment.
LEMMA RequireDnsConsentStep ==
    ASSUME InductiveInv, NEW c \in Call, RequireDnsConsent(c)
    PROVE  InductiveInv'
  <1>1. CASE consent[calls[c].identity] /\ Goto(c, "insert")
    <2>1. /\ calls' \in [Call -> CallState]
          /\ calls'[c] = [calls[c] EXCEPT !.pc = "insert"]
          /\ \A d \in Call \ {c} : calls'[d] = calls[d]
      BY <1>1, GotoType DEF InductiveInv, PC
    <2>2. calls[c] \in CallState /\ CallInOrder(c)
      BY DEF InductiveInv, InOrder, TypeOK
    <2>3. calls[c].identity \in Identity /\ calls[c].consented
      BY <1>1, <2>2 DEF CallInOrder, RequireDnsConsent
    <2>4. calls'[c].identity = calls[c].identity /\ calls'[c].consented = calls[c].consented
          /\ calls'[c].pc = "insert"
      BY <2>1, <2>2 DEF CallState
    <2>5. CallInOrder(c)'
      BY <2>3, <2>4 DEF CallInOrder
    <2>. QED BY <2>1, <2>5, CallStep DEF RequireDnsConsent
  <1>2. CASE Finish(c)
    BY <1>2, FinishStep DEF RequireDnsConsent
  <1>. QED BY <1>1, <1>2 DEF RequireDnsConsent

\* A record is created under an id that was never used.
LEMMA InsertRecordStep ==
    ASSUME InductiveInv, NEW c \in Call, NEW id \in RecordId, InsertRecord(c, id)
    PROVE  InductiveInv'
  <1>. DEFINE call == calls[c]
              record == [content |-> call.content, dnssec |-> Dnssec(call.dnssec, FALSE)]
              entry == [creator |-> call.identity, contents |-> {call.content}]
  <1>1. call \in CallState /\ call.identity \in Identity
    BY DEF InductiveInv, InOrder, CallInOrder, TypeOK, InsertRecord
  <1>2. calls' \in [Call -> CallState] /\ calls'[c] = NoCall
        /\ \A d \in Call \ {c} : calls'[d] = calls[d]
    BY FinishType DEF InductiveInv, InsertRecord
  <1>3. record \in DNSRecord
    BY <1>1 DEF CallState, DNSRecord, Dnssec
  <1>4. entry \in [creator : Identity \cup {Nobody}, contents : SUBSET Content]
    BY <1>1 DEF CallState
  <1>5. past' = [past EXCEPT ![id] = entry] /\ records' = With(records, id, record)
    BY DEF InsertRecord
  <1>6. /\ Live' = Live \cup {id} /\ records'[id] = record
        /\ \A k \in Live \ {id} : records'[k] = records[k]
        /\ records' = [k \in Live' |-> records'[k]]
    BY <1>5 DEF Live, With
  <1>7. past'[id] = entry /\ \A k \in RecordId \ {id} : past'[k] = past[k]
    BY <1>5 DEF InductiveInv, TypeOK
  <1>8. TypeOK'
    <2>1. records' \in [Live' -> DNSRecord] /\ Live' \subseteq RecordId
      BY <1>3, <1>6 DEF InductiveInv, TypeOK
    <2>2. past' \in [RecordId -> [creator : Identity \cup {Nobody}, contents : SUBSET Content]]
      BY <1>4, <1>5 DEF InductiveInv, TypeOK
    <2>. QED BY <1>2, <2>1, <2>2 DEF InductiveInv, TypeOK, InsertRecord, Live
  <1>9. Grows
    BY <1>7 DEF Grows, InsertRecord, NoPast
  <1>10. \A d \in Call : CallInOrder(d)'
    BY <1>2, <1>9, CallStays, NoCallInOrder DEF InductiveInv, InOrder, InsertRecord
  <1>11. RecordsInOrder'
    BY <1>6, <1>7 DEF InductiveInv, InOrder, RecordsInOrder, TypeOK
  <1>12. ProvenancesInOrder'
    BY <1>8, <1>9, ProvenancesStay DEF InductiveInv, InOrder, InsertRecord
  <1>. QED BY <1>8, <1>10, <1>11, <1>12 DEF InductiveInv, InOrder

\* An update starts with the record it found.
LEMMA UpdateDnsRecordStep ==
    ASSUME InductiveInv, NEW c \in Call, NEW id \in RecordId, NEW x \in Content,
           NEW f \in Flag, UpdateDnsRecord(c, id, x, f)
    PROVE  InductiveInv'
  <1>1. PICK record \in GetRecord(id) :
           calls' = [calls EXCEPT ![c] = [NoCall EXCEPT !.pc = "put", !.id = id,
                                            !.content = x, !.dnssec = f,
                                            !.read = record]]
    BY DEF UpdateDnsRecord
  <1>. DEFINE call == [NoCall EXCEPT !.pc = "put", !.id = id, !.content = x,
                                     !.dnssec = f, !.read = record]
  <1>2. record \in DNSRecord
    BY DEF GetRecord, InductiveInv, TypeOK
  <1>3. call \in CallState
    BY <1>2, NoCallType DEF CallState, PC
  <1>4. calls'[c] = call /\ calls' \in [Call -> CallState]
        /\ \A d \in Call \ {c} : calls'[d] = calls[d]
    BY <1>1, <1>3, ReplaceType DEF InductiveInv
  <1>5. CallInOrder(c)'
    BY <1>4 DEF CallInOrder, NoCall
  <1>. QED BY <1>4, <1>5, CallStep DEF UpdateDnsRecord

\* What is written becomes a content the record has had, even when another call
\* deleted it meanwhile and nothing is written.
LEMMA PutRecordStep ==
    ASSUME InductiveInv, NEW c \in Call, PutRecord(c)
    PROVE  InductiveInv'
  <1>. DEFINE call == calls[c]
              record == [call.read EXCEPT !.content = call.content,
                                          !.dnssec = Dnssec(call.dnssec, @)]
              entry == [past[call.id] EXCEPT !.contents = @ \cup {call.content}]
  <1>1. call \in CallState
    BY DEF InductiveInv, TypeOK
  <1>2. calls' \in [Call -> CallState] /\ calls'[c] = NoCall
        /\ \A d \in Call \ {c} : calls'[d] = calls[d]
    BY FinishType DEF InductiveInv, PutRecord
  <1>3. CASE call.id \notin Live
    <2>1. UNCHANGED <<records, past>>
      BY <1>3 DEF PutRecord, Update, Live
    <2>. QED BY <2>1, FinishStep DEF PutRecord
  <1>4. CASE call.id \in Live
    <2>1. record \in DNSRecord /\ record.content = call.content
      BY <1>1 DEF CallState, DNSRecord, Dnssec
    <2>2. records' = [records EXCEPT ![call.id] = record]
          /\ past' = [past EXCEPT ![call.id] = entry]
      BY <1>4 DEF PutRecord, Update, Live
    <2>3. past[call.id] \in [creator : Identity \cup {Nobody}, contents : SUBSET Content]
      BY <1>1 DEF InductiveInv, TypeOK, CallState
    <2>4. entry \in [creator : Identity \cup {Nobody}, contents : SUBSET Content]
          /\ entry.contents = past[call.id].contents \cup {call.content}
      BY <1>1, <2>3 DEF CallState
    <2>5. TypeOK'
      <3>1. records' \in [Live' -> DNSRecord] /\ Live' \subseteq RecordId
        BY <2>1, <2>2, <1>4 DEF InductiveInv, TypeOK, Live
      <3>2. past' \in [RecordId -> [creator : Identity \cup {Nobody},
                                    contents : SUBSET Content]]
        BY <2>2, <2>4 DEF InductiveInv, TypeOK
      <3>. QED BY <1>2, <3>1, <3>2 DEF InductiveInv, TypeOK, PutRecord, Live
    <2>6. past'[call.id] = entry /\ \A k \in RecordId \ {call.id} : past'[k] = past[k]
      BY <1>1, <2>2 DEF InductiveInv, TypeOK, CallState
    <2>7. Grows
      BY <2>4, <2>6 DEF Grows, PutRecord
    <2>8. \A d \in Call : CallInOrder(d)'
      BY <1>2, <2>7, CallStays, NoCallInOrder DEF InductiveInv, InOrder, PutRecord
    <2>9. /\ Live' = Live /\ records'[call.id] = record
          /\ \A k \in Live \ {call.id} : records'[k] = records[k]
      BY <1>4, <2>2 DEF InductiveInv, TypeOK, Live
    <2>10. RecordsInOrder'
      <3>1. record.content \in entry.contents
        BY <2>1, <2>4
      <3>2. \A k \in Live \ {call.id} : records'[k].content \in past'[k].contents
        BY <2>6, <2>9 DEF InductiveInv, InOrder, RecordsInOrder, TypeOK
      <3>. QED BY <3>1, <3>2, <2>6, <2>9 DEF RecordsInOrder
    <2>11. ProvenancesInOrder'
      BY <2>5, <2>7, ProvenancesStay DEF InductiveInv, InOrder, PutRecord
    <2>. QED BY <2>5, <2>8, <2>10, <2>11 DEF InductiveInv, InOrder
  <1>. QED BY <1>3, <1>4

\* A record disappears.
LEMMA DeleteDnsRecordStep ==
    ASSUME InductiveInv, NEW c \in Call, NEW id \in RecordId, DeleteDnsRecord(c, id)
    PROVE  InductiveInv'
  <1>1. Live' = Live \ {id} /\ \A k \in Live' : records'[k] = records[k]
    BY DEF DeleteDnsRecord, Live
  <1>2. TypeOK'
    BY <1>1 DEF DeleteDnsRecord, InductiveInv, TypeOK, Live
  <1>3. \A d \in Call : CallInOrder(d)'
    BY CallStays, NothingGrows DEF InductiveInv, InOrder, DeleteDnsRecord
  <1>4. RecordsInOrder'
    BY <1>1 DEF InductiveInv, InOrder, RecordsInOrder, DeleteDnsRecord
  <1>5. ProvenancesInOrder'
    BY DEF InductiveInv, InOrder, ProvenancesInOrder, DeleteDnsRecord
  <1>. QED BY <1>2, <1>3, <1>4, <1>5 DEF InductiveInv, InOrder

\* An anchoring starts with a content that the record has had.
LEMMA AnchorToBlockchainStep ==
    ASSUME InductiveInv, NEW c \in Call, NEW id \in RecordId, AnchorToBlockchain(c, id)
    PROVE  InductiveInv'
  <1>1. PICK record \in GetRecord(id) :
           calls' = [calls EXCEPT ![c] = [NoCall EXCEPT !.pc = "send", !.id = id,
                                            !.read = record]]
    BY DEF AnchorToBlockchain
  <1>. DEFINE call == [NoCall EXCEPT !.pc = "send", !.id = id, !.read = record]
  <1>2. record \in DNSRecord /\ record.content \in past[id].contents
    BY DEF GetRecord, InductiveInv, InOrder, RecordsInOrder, TypeOK
  <1>3. call \in CallState
    BY <1>2, NoCallType DEF CallState, PC
  <1>4. calls'[c] = call /\ calls' \in [Call -> CallState]
        /\ \A d \in Call \ {c} : calls'[d] = calls[d]
    BY <1>1, <1>3, ReplaceType DEF InductiveInv
  <1>5. CallInOrder(c)'
    BY <1>2, <1>4 DEF CallInOrder, NoCall, AnchorToBlockchain
  <1>. QED BY <1>4, <1>5, CallStep DEF AnchorToBlockchain

\* The transaction that is sent holds the hash of what was read.
LEMMA SendTransactionStep ==
    ASSUME InductiveInv, NEW c \in Call, SendTransaction(c)
    PROVE  InductiveInv'
  <1>. DEFINE call == calls[c]
              tx == [hash |-> call.read.content, state |-> "pending"]
              next == [call EXCEPT !.pc = "confirm", !.tx = Len(chain) + 1]
  <1>1. call \in CallState /\ CallInOrder(c) /\ call.pc = "send"
    BY DEF InductiveInv, InOrder, TypeOK, SendTransaction
  <1>2. CASE Finish(c) /\ UNCHANGED chain
    BY <1>2, FinishStep DEF SendTransaction
  <1>3. CASE /\ Len(chain) < MaxTx /\ chain' = Append(chain, tx)
             /\ calls' = [calls EXCEPT ![c].pc = "confirm", ![c].tx = Len(chain) + 1]
    <2>1. tx \in Transaction
      BY <1>1 DEF CallState, DNSRecord, Transaction
    <2>2. chain \in Seq(Transaction) /\ Len(chain) \in Nat
      BY DEF InductiveInv, TypeOK
    <2>3. /\ chain' \in Seq(Transaction) /\ Len(chain') = Len(chain) + 1
          /\ \A n \in DOMAIN chain : n \in DOMAIN chain' /\ chain'[n] = chain[n]
          /\ Len(chain) + 1 \in DOMAIN chain' /\ chain'[Len(chain) + 1] = tx
      BY <1>3, <2>1, <2>2
    <2>4. next \in CallState /\ next.read = call.read /\ next.id = call.id
          /\ next.pc = "confirm" /\ next.tx = Len(chain) + 1
      <3>1. Len(chain) + 1 \in 0..MaxTx
        BY <1>3, <2>2, RecordsAssumption
      <3>. HIDE DEF call
      <3>. QED BY <1>1, <3>1 DEF CallState, PC
    <2>5. calls' = [calls EXCEPT ![c] = next]
      BY <1>3 DEF InductiveInv, TypeOK
    <2>6. calls'[c] = next /\ calls' \in [Call -> CallState]
          /\ \A d \in Call \ {c} : calls'[d] = calls[d]
      BY <2>4, <2>5, ReplaceType DEF InductiveInv
    <2>7. TypeOK'
      BY <1>3, <2>2, <2>3, <2>6, RecordsAssumption
      DEF InductiveInv, TypeOK, SendTransaction, Live
    <2>8. Grows
      BY <2>3 DEF Grows, SendTransaction
    <2>9. CallInOrder(c)'
      BY <1>1, <2>3, <2>4, <2>6 DEF CallInOrder, SendTransaction
    <2>10. \A d \in Call \ {c} : CallInOrder(d)'
      BY <2>6, <2>8, CallStays DEF InductiveInv, InOrder, SendTransaction
    <2>11. RecordsInOrder'
      BY DEF InductiveInv, InOrder, RecordsInOrder, SendTransaction, Live
    <2>12. ProvenancesInOrder'
      BY <2>7, <2>8, ProvenancesStay DEF InductiveInv, InOrder, SendTransaction
    <2>. QED BY <2>7, <2>9, <2>10, <2>11, <2>12 DEF InductiveInv, InOrder
  <1>. QED BY <1>2, <1>3 DEF SendTransaction

\* Only the receipt of a mined transaction leads to a provenance.
LEMMA AwaitReceiptStep ==
    ASSUME InductiveInv, NEW c \in Call, AwaitReceipt(c)
    PROVE  InductiveInv'
  <1>1. calls[c] \in CallState /\ CallInOrder(c) /\ calls[c].pc = "confirm"
    BY DEF InductiveInv, InOrder, TypeOK, AwaitReceipt
  <1>2. CASE chain[calls[c].tx].state = "mined" /\ Goto(c, "store")
    <2>1. /\ calls' \in [Call -> CallState]
          /\ calls'[c] = [calls[c] EXCEPT !.pc = "store"]
          /\ \A d \in Call \ {c} : calls'[d] = calls[d]
      BY <1>2, GotoType DEF InductiveInv, PC
    <2>2. /\ calls'[c].read = calls[c].read /\ calls'[c].tx = calls[c].tx
          /\ calls'[c].id = calls[c].id /\ calls'[c].pc = "store"
      BY <1>1, <2>1 DEF CallState
    <2>3. CallInOrder(c)'
      BY <1>1, <1>2, <2>2 DEF CallInOrder, AwaitReceipt, WasMined
    <2>. QED BY <2>1, <2>3, CallStep DEF AwaitReceipt
  <1>3. CASE Finish(c)
    BY <1>3, FinishStep DEF AwaitReceipt
  <1>. QED BY <1>2, <1>3 DEF AwaitReceipt

\* What is stored is what the call held: a content the record has had, and the
\* hash of a transaction that was mined.
LEMMA StoreProvenanceStep ==
    ASSUME InductiveInv, NEW c \in Call, StoreProvenance(c)
    PROVE  InductiveInv'
  <1>. DEFINE call == calls[c]
              new == [record |-> call.id, hash |-> call.read.content, tx |-> call.tx]
  <1>1. call \in CallState /\ CallInOrder(c) /\ call.pc = "store"
    BY DEF InductiveInv, InOrder, TypeOK, StoreProvenance
  <1>2. calls' \in [Call -> CallState] /\ calls'[c] = NoCall
        /\ \A d \in Call \ {c} : calls'[d] = calls[d]
    BY FinishType DEF InductiveInv, StoreProvenance
  <1>3. /\ call.tx \in DOMAIN chain /\ chain[call.tx] \in Transaction
        /\ chain[call.tx].hash = call.read.content /\ WasMined(chain[call.tx])
        /\ call.read.content \in past[call.id].contents
    BY <1>1 DEF CallInOrder, InductiveInv, TypeOK
  <1>4. new \in BlockchainProvenance
    <2>1. call.tx \in 1..MaxTx
      BY <1>1, <1>3, RecordsAssumption DEF CallState, InductiveInv, TypeOK
    <2>. QED BY <1>1, <2>1 DEF CallState, DNSRecord, BlockchainProvenance
  <1>5. provenances' = provenances \cup {new}
    BY DEF StoreProvenance
  <1>6. TypeOK'
    BY <1>2, <1>4, <1>5 DEF InductiveInv, TypeOK, StoreProvenance, Live
  <1>7. \A d \in Call : CallInOrder(d)'
    BY <1>2, CallStays, NothingGrows, NoCallInOrder
    DEF InductiveInv, InOrder, StoreProvenance
  <1>8. RecordsInOrder'
    BY DEF InductiveInv, InOrder, RecordsInOrder, StoreProvenance, Live
  <1>9. ProvenancesInOrder'
    <2>1. chain[new.tx].hash = new.hash /\ WasMined(chain[new.tx])
      BY <1>3
    <2>2. UNCHANGED <<chain, past>>
      BY DEF StoreProvenance
    <2>3. new.tx = call.tx /\ new.hash = call.read.content /\ new.record = call.id
      OBVIOUS
    <2>. HIDE DEF new, call
    <2>. QED BY <1>3, <1>5, <2>1, <2>2, <2>3
         DEF InductiveInv, InOrder, ProvenancesInOrder
  <1>. QED BY <1>6, <1>7, <1>8, <1>9 DEF InductiveInv, InOrder

\* A transaction that was mined remains one that was, whatever becomes of its
\* block, and its hash does not change.
LEMMA TransactionStep ==
    ASSUME InductiveInv, NEW n \in DOMAIN chain,
           NEW state \in {"mined", "dropped", "orphaned"},
           chain' = [chain EXCEPT ![n] = [chain[n] EXCEPT !.state = state]],
           WasMined(chain[n]) => state # "dropped",
           UNCHANGED <<records, provenances, zones, consent, calls, past, upserted>>
    PROVE  InductiveInv'
  <1>. DEFINE tx == [chain[n] EXCEPT !.state = state]
  <1>2. chain \in Seq(Transaction) /\ chain[n] \in Transaction
    BY DEF InductiveInv, TypeOK
  <1>3. /\ tx \in Transaction /\ tx.hash = chain[n].hash
        /\ WasMined(chain[n]) => WasMined(tx)
        /\ chain' = [chain EXCEPT ![n] = tx]
    BY <1>2 DEF Transaction, WasMined
  <1>. HIDE DEF tx
  <1>4. /\ chain' \in Seq(Transaction) /\ Len(chain') = Len(chain)
        /\ DOMAIN chain' = DOMAIN chain
        /\ chain'[n].hash = chain[n].hash
        /\ WasMined(chain[n]) => WasMined(chain'[n])
        /\ \A m \in DOMAIN chain \ {n} : chain'[m] = chain[m]
    BY <1>2, <1>3
  <1>5. TypeOK'
    BY <1>4 DEF InductiveInv, TypeOK, Live
  <1>6. Grows
    BY <1>2, <1>4 DEF Grows
  <1>7. \A d \in Call : CallInOrder(d)'
    BY <1>6, CallStays DEF InductiveInv, InOrder
  <1>8. RecordsInOrder'
    BY DEF InductiveInv, InOrder, RecordsInOrder, Live
  <1>9. ProvenancesInOrder'
    BY <1>5, <1>6, ProvenancesStay DEF InductiveInv, InOrder
  <1>. QED BY <1>5, <1>7, <1>8, <1>9 DEF InductiveInv, InOrder

\* Only a pending transaction is mined or dropped.
LEMMA MineStep ==
    ASSUME InductiveInv, NEW n \in DOMAIN chain, Mine(n)
    PROVE  InductiveInv'
  <1>1. PICK state \in {"mined", "dropped"} :
           chain' = [chain EXCEPT ![n] = [chain[n] EXCEPT !.state = state]]
    BY DEF Mine
  <1>2. ~ WasMined(chain[n])
    BY DEF Mine, WasMined
  <1>. QED BY <1>1, <1>2, TransactionStep DEF Mine

\* A reorganisation takes away the block, not that there was one.
LEMMA ReorganiseStep ==
    ASSUME InductiveInv, NEW n \in DOMAIN chain, Reorganise(n)
    PROVE  InductiveInv'
  <1>. DEFINE state == IF chain[n].state = "mined" THEN "orphaned" ELSE "mined"
  <1>1. state \in {"mined", "dropped", "orphaned"} /\ state # "dropped"
    OBVIOUS
  <1>2. chain' = [chain EXCEPT ![n] = [chain[n] EXCEPT !.state = state]]
    BY DEF Reorganise
  <1>3. UNCHANGED <<records, provenances, zones, consent, calls, past, upserted>>
    BY DEF Reorganise
  <1>. HIDE DEF state
  <1>. QED BY <1>1, <1>2, <1>3, TransactionStep

\* An update adds no zone, so that the zones remain zones.
LEMMA ZoneStep ==
    ASSUME InductiveInv, NEW zone \in Zone,
           EnableDnssec(zone) \/ RotateDnssecKeys(zone)
    PROVE  InductiveInv'
  <1>1. UNCHANGED <<records, provenances, consent, chain, calls, past>>
    BY DEF EnableDnssec, RotateDnssecKeys
  <1>2. DOMAIN zones' = DOMAIN zones /\ upserted' \subseteq upserted \cup {zone}
    BY DEF EnableDnssec, RotateDnssecKeys, Update
  <1>3. TypeOK'
    BY <1>1, <1>2 DEF InductiveInv, TypeOK, Live
  <1>4. InOrder'
    BY <1>1 DEF InductiveInv, InOrder, CallInOrder, RecordsInOrder, ProvenancesInOrder, Live
  <1>. QED BY <1>3, <1>4 DEF InductiveInv

\* The history notes of each call of the identity that it now consents.
LEMMA ChangeConsentStep ==
    ASSUME InductiveInv, NEW i \in Identity, ChangeConsent(i)
    PROVE  InductiveInv'
  <1>. DEFINE Changed(c) ==
                [calls[c] EXCEPT !.consented = @ \/ (calls[c].identity = i /\ ~ consent[i])]
  <1>1. consent' = [consent EXCEPT ![i] = ~ consent[i]]
        /\ consent' \in [Identity -> BOOLEAN]
    BY DEF ChangeConsent, InductiveInv, TypeOK
  <1>2. ASSUME NEW c \in Call
        PROVE  /\ Changed(c) \in CallState
               /\ Changed(c).consented =
                     (calls[c].consented \/ (calls[c].identity = i /\ ~ consent[i]))
               /\ Changed(c).pc = calls[c].pc /\ Changed(c).identity = calls[c].identity
               /\ Changed(c).read = calls[c].read /\ Changed(c).tx = calls[c].tx
               /\ Changed(c).id = calls[c].id
    <2>1. calls[c] \in CallState
      BY DEF InductiveInv, TypeOK
    <2>. QED BY <2>1 DEF CallState
  <1>3. calls' = [c \in Call |-> Changed(c)]
    BY DEF ChangeConsent
  <1>. HIDE DEF Changed
  <1>4. TypeOK'
    <2>1. calls' \in [Call -> CallState]
      BY <1>2, <1>3
    <2>. QED BY <1>1, <2>1 DEF InductiveInv, TypeOK, ChangeConsent, Live
  <1>5. ASSUME NEW c \in Call PROVE CallInOrder(c)'
    <2>1. CallInOrder(c) /\ calls'[c] = Changed(c) /\ UNCHANGED <<past, chain>>
      BY <1>3 DEF InductiveInv, InOrder, ChangeConsent
    <2>2. ASSUME calls[c].pc = "consent", consent'[calls[c].identity]
          PROVE  Changed(c).consented
      <3>1. calls[c].identity \in Identity
        BY <2>1, <2>2 DEF CallInOrder
      <3>2. CASE calls[c].identity = i
        BY <1>1, <1>2, <2>2, <3>2 DEF InductiveInv, TypeOK
      <3>3. CASE calls[c].identity # i
        <4>1. consent[calls[c].identity]
          BY <1>1, <2>2, <3>1, <3>3 DEF InductiveInv, TypeOK
        <4>2. calls[c].consented
          BY <2>1, <2>2, <4>1 DEF CallInOrder
        <4>. QED BY <1>2, <4>2
      <3>. QED BY <3>2, <3>3
    <2>3. ASSUME calls[c].pc = "insert" PROVE Changed(c).consented
      <3>1. calls[c].consented
        BY <2>1, <2>3 DEF CallInOrder
      <3>. QED BY <1>2, <3>1
    <2>4. /\ Changed(c).pc = calls[c].pc /\ Changed(c).identity = calls[c].identity
          /\ Changed(c).read = calls[c].read /\ Changed(c).tx = calls[c].tx
          /\ Changed(c).id = calls[c].id
      BY <1>2
    <2>. QED BY <2>1, <2>2, <2>3, <2>4 DEF CallInOrder
  <1>6. RecordsInOrder' /\ ProvenancesInOrder'
    BY DEF InductiveInv, InOrder, RecordsInOrder, ProvenancesInOrder, ChangeConsent, Live
  <1>. QED BY <1>4, <1>5, <1>6 DEF InductiveInv, InOrder

\* The tables are lost, the chain is not.
LEMMA RestartStep == ASSUME InductiveInv, Restart PROVE InductiveInv'
  <1>1. Live' = {} /\ records' \in [Live' -> DNSRecord]
    BY DEF Restart, EmptyMap, Live
  <1>2. TypeOK'
    BY <1>1, NoCallType DEF InductiveInv, TypeOK, Restart, EmptyMap
  <1>3. InOrder'
    BY <1>1, NoCallInOrder
    DEF InOrder, RecordsInOrder, ProvenancesInOrder, Restart, EmptyMap
  <1>. QED BY <1>2, <1>3 DEF InductiveInv

-----------------------------------------------------------------------------
\* The invariant is inductive.
LEMMA Inductive == InductiveInv /\ [Next]_vars => InductiveInv'
  <1>. SUFFICES ASSUME InductiveInv, [Next]_vars PROVE InductiveInv'
    OBVIOUS
  <1>1. ASSUME NEW c \in Call, Mutation(c) PROVE InductiveInv'
    <2>1. ASSUME NEW i \in Identity, NEW x \in Content, NEW f \in Flag,
                 CreateDnsRecord(c, i, x, f)
          PROVE  InductiveInv'
      BY <2>1, CreateDnsRecordStep
    <2>2. CASE RequireDnsConsent(c)
      BY <2>2, RequireDnsConsentStep
    <2>3. ASSUME NEW id \in RecordId, InsertRecord(c, id) PROVE InductiveInv'
      BY <2>3, InsertRecordStep
    <2>4. ASSUME NEW id \in RecordId, NEW x \in Content, NEW f \in Flag,
                 UpdateDnsRecord(c, id, x, f)
          PROVE  InductiveInv'
      BY <2>4, UpdateDnsRecordStep
    <2>5. CASE PutRecord(c)
      BY <2>5, PutRecordStep
    <2>6. ASSUME NEW id \in RecordId, DeleteDnsRecord(c, id) PROVE InductiveInv'
      BY <2>6, DeleteDnsRecordStep
    <2>7. ASSUME NEW id \in RecordId, AnchorToBlockchain(c, id) PROVE InductiveInv'
      BY <2>7, AnchorToBlockchainStep
    <2>8. CASE SendTransaction(c)
      BY <2>8, SendTransactionStep
    <2>9. CASE AwaitReceipt(c)
      BY <2>9, AwaitReceiptStep
    <2>10. CASE StoreProvenance(c)
      BY <2>10, StoreProvenanceStep
    <2>11. CASE Cancel(c)
      BY <2>11, FinishStep DEF Cancel
    <2>. QED BY <1>1, <2>1, <2>2, <2>3, <2>4, <2>5, <2>6, <2>7, <2>8, <2>9, <2>10, <2>11
         DEF Mutation
  <1>2. ASSUME NEW n \in DOMAIN chain, Mine(n) \/ Reorganise(n) PROVE InductiveInv'
    BY <1>2, MineStep, ReorganiseStep
  <1>3. ASSUME NEW zone \in Zone, EnableDnssec(zone) \/ RotateDnssecKeys(zone)
        PROVE  InductiveInv'
    BY <1>3, ZoneStep
  <1>4. ASSUME NEW i \in Identity, ChangeConsent(i) PROVE InductiveInv'
    BY <1>4, ChangeConsentStep
  <1>5. CASE Restart
    BY <1>5, RestartStep
  <1>6. CASE UNCHANGED vars
    BY <1>6 DEF vars, InductiveInv, TypeOK, InOrder, CallInOrder, RecordsInOrder,
                ProvenancesInOrder, Live
  <1>. QED BY <1>1, <1>2, <1>3, <1>4, <1>5, <1>6 DEF Next

\* The invariant holds throughout every behaviour.
THEOREM Invariance == Spec => []InductiveInv
  BY InitInv, Inductive, PTL DEF Spec

\* Types: every table holds rows of its type under ids that were drawn, and every
\* resolver what its place in the code says.
THEOREM TypeCorrect == Spec => []TypeOK
  <1>1. InductiveInv => TypeOK
    BY DEF InductiveInv
  <1>. QED BY <1>1, Invariance, PTL

\* What blockchainProvenance answers of a record is what it once held and what a
\* transaction holds that was mined, for any number of concurrent updates and anchorings.
THEOREM ProvenanceGenuine == Spec => []ProvenanceIsGenuine
  <1>1. InductiveInv => ProvenanceIsGenuine
    BY DEF InductiveInv, InOrder, ProvenancesInOrder, ProvenanceIsGenuine, GetProvenance
  <1>. QED BY <1>1, Invariance, PTL

-----------------------------------------------------------------------------
(***************************************************************************)
(* Which steps make a record: insertions alone, because the database's     *)
(* update touches only what is there.                                      *)
(***************************************************************************)
\* A record that appears was inserted under an id of its own.
LEMMA OnlyInsertsCreate ==
    ASSUME [Next]_vars, NEW id \in DOMAIN records' \ Live
    PROVE  \E c \in Call : id \in RecordId /\ InsertRecord(c, id)
  <1>1. ASSUME NEW c \in Call, Mutation(c)
        PROVE  \E d \in Call : id \in RecordId /\ InsertRecord(d, id)
    <2>1. ASSUME NEW k \in RecordId, InsertRecord(c, k)
          PROVE  \E d \in Call : id \in RecordId /\ InsertRecord(d, id)
      <3>1. DOMAIN records' = Live \cup {k}
        BY <2>1 DEF InsertRecord, With, Live
      <3>. QED BY <2>1, <3>1
    <2>2. CASE PutRecord(c)
      BY <2>2 DEF PutRecord, Update, Live
    <2>3. CASE \E k \in RecordId : DeleteDnsRecord(c, k)
      BY <2>3 DEF DeleteDnsRecord, Live
    <2>4. CASE records' = records
      BY <2>4 DEF Live
    <2>. QED BY <1>1, <2>1, <2>2, <2>3, <2>4
         DEF Mutation, CreateDnsRecord, RequireDnsConsent, UpdateDnsRecord,
             AnchorToBlockchain, SendTransaction, AwaitReceipt, StoreProvenance, Cancel
  <1>2. CASE Restart
    BY <1>2 DEF Restart, EmptyMap
  <1>3. CASE records' = records
    BY <1>3 DEF Live
  <1>. QED BY <1>1, <1>2, <1>3
       DEF Next, Mine, Reorganise, EnableDnssec, RotateDnssecKeys, ChangeConsent, vars

\* No record is created for an identity that at no moment of the call consented:
\* for any interleaving with grants and revocations.
THEOREM ConsentBeforeCreation == Spec => CreatedUnderConsent
  <1>1. InductiveInv /\ [Next]_vars =>
           [\A id \in DOMAIN records' \ Live :
               \E c \in Call : /\ calls[c].pc = "insert" /\ calls[c].consented
                               /\ past'[id].creator = calls[c].identity]_vars
    <2>. SUFFICES ASSUME InductiveInv, [Next]_vars, NEW id \in DOMAIN records' \ Live
         PROVE  \E c \in Call : /\ calls[c].pc = "insert" /\ calls[c].consented
                                /\ past'[id].creator = calls[c].identity
      OBVIOUS
    <2>1. PICK c \in Call : id \in RecordId /\ InsertRecord(c, id)
      BY OnlyInsertsCreate
    <2>2. calls[c].pc = "insert" /\ calls[c].consented
      BY <2>1 DEF InsertRecord, InductiveInv, InOrder, CallInOrder
    <2>3. past'[id] = [creator |-> calls[c].identity, contents |-> {calls[c].content}]
      BY <2>1 DEF InsertRecord, InductiveInv, TypeOK
    <2>. QED BY <2>2, <2>3
  <1>. QED BY <1>1, Invariance, PTL DEF Spec, CreatedUnderConsent

\* A deleted record does not come back, whatever updates were under way.
THEOREM DeletedForGood == Spec => DeletedStaysDeleted
  <1>1. [Next]_vars => [\A id \in DOMAIN records' \ Live : past[id] = NoPast]_vars
    BY OnlyInsertsCreate DEF InsertRecord
  <1>. QED BY <1>1, PTL DEF Spec, DeletedStaysDeleted

=============================================================================
