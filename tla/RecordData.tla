----------------------------- MODULE RecordData -----------------------------
(***************************************************************************)
(* The functions of the GraphQL DNS API on the data of records: what is    *)
(* accepted (resolvers.rs), what is hashed for the blockchain (models.rs)  *)
(* and what the queries return (db.rs, resolvers.rs), all in               *)
(* indieweb2-bastion/graphql-dns-api/src/.                                 *)
(*                                                                         *)
(* A text is the sequence of what lies between its dots, which are not     *)
(* written; a colon, and a number that is printed, is a symbol of its own. *)
(***************************************************************************)
EXTENDS Integers, Sequences, Selection

Colon == -1
InAddrArpa == -2
Ip6Arpa == -3

DNSRecordType ==
    <<"A", "AAAA", "CNAME", "MX", "TXT", "SRV", "CAA", "TLSA", "NS", "SOA", "PTR">>

RecordType == {DNSRecordType[n] : n \in DOMAIN DNSRecordType}

\* What is hashed of a record, and the row of one in the table.
Content == [name : Seq(Int), type : RecordType, ttl : Int, value : Seq(Int)]
TableRow == [id : Nat, name : Seq(Int), type : RecordType]

\* A variant as u16: its place in the declaration.
AsU16(type) == (CHOOSE n \in DOMAIN DNSRecordType : DNSRecordType[n] = type) - 1

\* Variant: the fields one after the other.
Preimage_Unseparated(c) == c.name \o <<AsU16(c.type), c.ttl>> \o c.value

\* What content_hash takes the hash of.
Preimage(c) ==
    c.name \o <<Colon, AsU16(c.type), Colon, c.ttl, Colon>> \o c.value

Has(text, symbol) == \E n \in DOMAIN text : text[n] = symbol

\* validate_dns_record: each part of an A is a byte, however many there are.
ValidateDnsRecord(c) ==
    /\ c.name # <<>>
    /\ c.ttl >= 0
    /\ c.value # <<>>
    /\ c.type = "A" => \A n \in DOMAIN c.value : c.value[n] \in 0..255
    /\ c.type = "AAAA" => Has(c.value, Colon)

-----------------------------------------------------------------------------
\* LIMIT and START of the database.
Page(rows, limit, offset) ==
    SubSeq(rows, offset + 1,
           IF offset + limit < Len(rows) THEN offset + limit ELSE Len(rows))

\* query_records over the rows in the order of their keys; a condition that is
\* not given is the set of all names, or of all types.
QueryRecords(table, names, types, limit, offset) ==
    Page(Select(table, [id : Nat, name : names, type : types]), limit, offset)

NoName == <<>>

\* An address as it is written: its parts, between dots or between colons.
Ip(version, parts) == [version |-> version, parts |-> parts]
Address == [version : {4, 6}, parts : Seq(Int)]

\* Variant: the parts of an IPv4 address stay in their order too.
ReverseName_InOrder(ip) ==
    IF ip.version = 6 THEN ip.parts \o <<Ip6Arpa>>
    ELSE IF Len(ip.parts) # 4 THEN NoName
    ELSE ip.parts \o <<InAddrArpa>>

\* ip_to_reverse_name: with a colon the groups in their order, the empty ones
\* too; else of four parts, which may be anything, the reverse.  NoName is the
\* error.
ReverseName(ip) ==
    LET p == ip.parts
    IN  IF ip.version = 6 THEN p \o <<Ip6Arpa>>
        ELSE IF Len(p) # 4 THEN NoName
        ELSE <<p[4], p[3], p[2], p[1], InAddrArpa>>

\* reverseDNS
ReverseDns(table, ip) ==
    IF ReverseName(ip) = NoName THEN <<>>
    ELSE QueryRecords(table, {ReverseName(ip)}, {"PTR"}, 100, 0)

=============================================================================
