-------------------------- MODULE HybridSignature --------------------------
(***************************************************************************)
(* Hybrid signatures, twice implemented: in the library of the oDNS        *)
(* services (odns-rs/common/src/signatures.rs) and for DNSSEC              *)
(* (graphql-dns-api/src/dnssec.rs), both in indieweb2-bastion/.            *)
(*                                                                         *)
(* The schemes themselves are symbolic.  Key k of a scheme has a public    *)
(* key of so many bytes, and a signature of a message is a sequence of     *)
(* bytes that it alone makes; each byte tells what it is a byte of.  A     *)
(* classical key or signature that is none does not decode; a post-quantum *)
(* one of the right length does, and verifies nothing.                     *)
(***************************************************************************)
EXTENDS Naturals, Sequences

CONSTANTS
    Key,          \* secret keys, of every scheme
    Message,
    ED448_PK_LEN, ED448_SIG_LEN, DIL5_PK_LEN, DIL5_SIG_LEN

ASSUME LengthsAssumption ==
    {ED448_PK_LEN, ED448_SIG_LEN, DIL5_PK_LEN, DIL5_SIG_LEN} \subseteq Nat \ {0}

HYBRID_PK_LEN == ED448_PK_LEN + DIL5_PK_LEN
HYBRID_SIG_LEN == ED448_SIG_LEN + DIL5_SIG_LEN

\* What a byte is a byte of, or noise.
Origin ==
    ({"ed448 vk", "dil5 pk"} \X Key) \cup ({"ed448 sig", "dil5 sig"} \X Key \X Message)
        \cup {<<"noise">>}

Byte == [of : Origin, at : Nat]

\* n bytes of something.
Bytes(what, n) == [i \in 1..n |-> [of |-> what, at |-> i]]

Ed448Vk(k) == Bytes(<<"ed448 vk", k>>, ED448_PK_LEN)
Dil5Pk(k) == Bytes(<<"dil5 pk", k>>, DIL5_PK_LEN)
Ed448Sign(k, m) == Bytes(<<"ed448 sig", k, m>>, ED448_SIG_LEN)
Dil5Sign(k, m) == Bytes(<<"dil5 sig", k, m>>, DIL5_SIG_LEN)

Ed448VkDecodes(bytes) == \E k \in Key : bytes = Ed448Vk(k)
Ed448SigDecodes(bytes) == \E k \in Key, m \in Message : bytes = Ed448Sign(k, m)

\* A signature verifies under a public key when one key made both.
Ed448Verifies(vk, sig, m) == \E k \in Key : vk = Ed448Vk(k) /\ sig = Ed448Sign(k, m)
Dil5Verifies(pk, sig, m) == \E k \in Key : pk = Dil5Pk(k) /\ sig = Dil5Sign(k, m)

First(bytes, n) == SubSeq(bytes, 1, n)
Rest(bytes, n) == SubSeq(bytes, n + 1, Len(bytes))

-----------------------------------------------------------------------------
(***************************************************************************)
(* signatures.rs: a key pair is a key of each scheme.                      *)
(***************************************************************************)
HybridKeyPair == [ed448 : Key, dil5 : Key]

PublicKey(pair) == [ed448 |-> Ed448Vk(pair.ed448), dil5 |-> Dil5Pk(pair.dil5)]

HybridSign(m, pair) ==
    [ed448 |-> Ed448Sign(pair.ed448, m), dil5 |-> Dil5Sign(pair.dil5, m)]

Verified == [ok |-> TRUE]
Err(error) == [ok |-> FALSE, error |-> error]

\* Variant: the second half is not looked at.
HybridVerify_OneHalf(m, sig, pk) ==
    IF ~ Ed448Verifies(pk.ed448, sig.ed448, m) THEN Err("Ed448VerifyFailed") ELSE Verified

\* hybrid_verify: the first half that fails is reported.
HybridVerify(m, sig, pk) ==
    IF ~ Ed448Verifies(pk.ed448, sig.ed448, m) THEN Err("Ed448VerifyFailed")
    ELSE IF ~ Dil5Verifies(pk.dil5, sig.dil5, m) THEN Err("Dilithium5VerifyFailed")
    ELSE Verified

\* to_bytes of both.
ToBytes(x) == x.ed448 \o x.dil5

Split(bytes, n) == [ed448 |-> First(bytes, n), dil5 |-> Rest(bytes, n)]

\* Variant: the halves are cut where those of a signature are.
Decoded_SignatureCut(bytes, n) == [ok |-> TRUE, value |-> Split(bytes, ED448_SIG_LEN)]

Decoded(bytes, n) == [ok |-> TRUE, value |-> Split(bytes, n)]

PublicKeyFromBytes(bytes) ==
    IF Len(bytes) # HYBRID_PK_LEN THEN Err("InvalidPublicKey")
    ELSE IF ~ Ed448VkDecodes(First(bytes, ED448_PK_LEN)) THEN Err("InvalidEd448Key")
    ELSE Decoded(bytes, ED448_PK_LEN)

SignatureFromBytes(bytes) ==
    IF Len(bytes) # HYBRID_SIG_LEN THEN Err("InvalidSignature")
    ELSE IF ~ Ed448SigDecodes(First(bytes, ED448_SIG_LEN)) THEN Err("InvalidEd448Signature")
    ELSE Decoded(bytes, ED448_SIG_LEN)

-----------------------------------------------------------------------------
(***************************************************************************)
(* dnssec.rs: the same scheme over bytes.  A signature that does not       *)
(* verify is an answer, one that does not decode an error.                 *)
(***************************************************************************)
Answered(yes) == [ok |-> TRUE, verified |-> yes]

\* Variant: a signature that is too long is cut, as is a key.
DnssecHybridVerify_Prefix(data, sig, pk) ==
    LET halves == Split(First(sig, HYBRID_SIG_LEN), ED448_SIG_LEN)
        keys == Split(First(pk, HYBRID_PK_LEN), ED448_PK_LEN)
    IN  IF Len(pk) < HYBRID_PK_LEN \/ Len(sig) < HYBRID_SIG_LEN THEN Err("length")
        ELSE Answered(/\ Ed448Verifies(keys.ed448, halves.ed448, data)
                      /\ Dil5Verifies(keys.dil5, halves.dil5, data))

\* hybrid_verify
DnssecHybridVerify(data, sig, pk) ==
    LET halves == Split(sig, ED448_SIG_LEN)
        keys == Split(pk, ED448_PK_LEN)
    IN  IF Len(pk) # HYBRID_PK_LEN \/ Len(sig) # HYBRID_SIG_LEN THEN Err("length")
        ELSE IF ~ Ed448VkDecodes(keys.ed448) \/ ~ Ed448SigDecodes(halves.ed448)
             THEN Err("encoding")
        ELSE Answered(/\ Ed448Verifies(keys.ed448, halves.ed448, data)
                      /\ Dil5Verifies(keys.dil5, halves.dil5, data))

\* HybridDNSSECKey: sign and public_key_bytes.
DnssecSign(data, pair) == ToBytes(HybridSign(data, pair))
DnssecPublicKey(pair) == ToBytes(PublicKey(pair))

-----------------------------------------------------------------------------
(***************************************************************************)
(* What verification means.                                                *)
(***************************************************************************)
\* The library's way from the wire to a verdict.
LibraryAccepts(m, sig, pk) ==
    LET s == SignatureFromBytes(sig)
        p == PublicKeyFromBytes(pk)
    IN  s.ok /\ p.ok /\ HybridVerify(m, s.value, p.value).ok

DnssecAccepts(m, sig, pk) == DnssecHybridVerify(m, sig, pk) = Answered(TRUE)

\* Both halves of the key, and no other key, signed this message, and nothing
\* surrounds the signature or the key.
SignedByBoth(m, sig, pk) ==
    \E pair \in HybridKeyPair : pk = DnssecPublicKey(pair) /\ sig = DnssecSign(m, pair)

=============================================================================
