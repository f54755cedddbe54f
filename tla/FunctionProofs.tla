---------------------------- MODULE FunctionProofs ----------------------------
(***************************************************************************)
(* Proofs about the functions without state, whatever they are asked: the  *)
(* levels of users, hybrid signatures of any sizes over any bytes, hosts   *)
(* of any labels, records of any texts, and tables of any length.          *)
(***************************************************************************)
EXTENDS PureFunctions, SelectionProofs

-----------------------------------------------------------------------------
(***************************************************************************)
(* Levels.                                                                 *)
(***************************************************************************)
LEMMA HighestLevel ==
    ASSUME NEW levels \in SUBSET LevelNumber, levels # {}
    PROVE  /\ Highest(levels) \in levels
           /\ \A k \in levels : k <= Highest(levels)
  <1>1. \E L \in levels : \A k \in levels : k <= L
    <2>1. \A L \in levels : L \in 0..5
      BY DEF LevelNumber
    <2>. QED BY <2>1
  <1>. QED BY <1>1 DEF Highest

LEMMA ThresholdsRise ==
    /\ \A L \in LevelNumber : Thresholds[L] \in Nat
    /\ Thresholds[0] = 0
    /\ \A k, L \in LevelNumber : k <= L => Thresholds[k] <= Thresholds[L]
  <1>1. /\ Thresholds[0] = 0 /\ Thresholds[1] = 100 /\ Thresholds[2] = 500
        /\ Thresholds[3] = 1500 /\ Thresholds[4] = 4000 /\ Thresholds[5] = 10000
    BY DEF Thresholds, LevelNumber
  <1>. QED BY <1>1 DEF LevelNumber

LEMMA RequirementsType == \A L \in LevelNumber : Requirements[L] \in Activity
  BY DEF Requirements, Requirement, LevelNumber, Activity

\* A level is the highest that the points reach and whose requirements are met.
LEMMA LevelIsHighest ==
    ASSUME NEW xp \in Nat, NEW a \in Activity
    PROVE  LET level == CalculateLevel(xp, a)
           IN  /\ level \in LevelNumber
               /\ level # 0 => xp >= Thresholds[level] /\ MeetsRequirements(level, a)
               /\ \A L \in 1..5 : xp >= Thresholds[L] /\ MeetsRequirements(L, a) => L <= level
  <1>. DEFINE reached == {L \in LevelNumber : xp >= Thresholds[L]}
              potential == Highest(reached)
              met == {0} \cup {L \in 1..potential : MeetsRequirements(L, a)}
  <1>1. 0 \in reached /\ reached \subseteq LevelNumber
    BY ThresholdsRise DEF LevelNumber
  <1>2. potential \in reached /\ \A k \in reached : k <= potential
    BY <1>1, HighestLevel
  <1>3. potential \in LevelNumber /\ xp >= Thresholds[potential]
    BY <1>1, <1>2
  <1>. HIDE DEF potential
  <1>4. met \subseteq LevelNumber /\ 0 \in met
    BY <1>3 DEF LevelNumber
  <1>5. Highest(met) \in met /\ \A k \in met : k <= Highest(met)
    BY <1>4, HighestLevel
  <1>6. CalculateLevel(xp, a) = Highest(met)
    BY DEF CalculateLevel, potential
  <1>. DEFINE level == CalculateLevel(xp, a)
  <1>7. level \in met /\ level \in LevelNumber
    BY <1>4, <1>5, <1>6
  <1>8. level # 0 => xp >= Thresholds[level] /\ MeetsRequirements(level, a)
    BY <1>3, <1>7, ThresholdsRise DEF LevelNumber
  <1>9. ASSUME NEW L \in 1..5, xp >= Thresholds[L], MeetsRequirements(L, a)
        PROVE  L <= level
    <2>1. L \in reached
      BY <1>9 DEF LevelNumber
    <2>2. L \in met
      BY <1>2, <1>3, <1>9, <2>1 DEF LevelNumber
    <2>. QED BY <1>5, <1>6, <2>2
  <1>. QED BY <1>7, <1>8, <1>9

\* Who has done at least as much meets at least as many requirements.
LEMMA RequirementsMonotone ==
    ASSUME NEW a \in Activity, NEW b \in Activity, AtLeast(b, a),
           NEW L \in LevelNumber, MeetsRequirements(L, a)
    PROVE  MeetsRequirements(L, b)
  BY RequirementsType DEF MeetsRequirements, AtLeast, Activity

\* The requirements of a level include those of the levels below.
LEMMA RequirementsRise ==
    ASSUME NEW a \in Activity, NEW k \in LevelNumber, NEW L \in LevelNumber, k <= L,
           MeetsRequirements(L, a)
    PROVE  MeetsRequirements(k, a)
  BY DEF MeetsRequirements, Requirements, Requirement, AtLeast, Activity, LevelNumber

\* Calculate_Level: no level is lost by doing more, whoever has a level meets all
\* that is asked for it and for the levels below, and what the next level still
\* asks can be done at this one.
THEOREM LevelsEarned ==
    \A xp, more \in Nat, a, b \in Activity :
        LET level == CalculateLevel(xp, a)
        IN  /\ AtLeast(b, a) /\ more >= xp => CalculateLevel(more, b) >= level
            /\ \A L \in 1..level : MeetsRequirements(L, a) /\ xp >= Thresholds[L]
            /\ level < 5 =>
                  /\ Requirements[level + 1].organized > a.organized => CanCreateEvents(level)
                  /\ Requirements[level + 1].mentees > a.mentees => CanMentor(level)
  <1>. SUFFICES ASSUME NEW xp \in Nat, NEW more \in Nat, NEW a \in Activity, NEW b \in Activity
                PROVE  LET level == CalculateLevel(xp, a)
                       IN  /\ AtLeast(b, a) /\ more >= xp => CalculateLevel(more, b) >= level
                           /\ \A L \in 1..level : MeetsRequirements(L, a) /\ xp >= Thresholds[L]
                           /\ level < 5 =>
                                 /\ Requirements[level + 1].organized > a.organized => CanCreateEvents(level)
                                 /\ Requirements[level + 1].mentees > a.mentees => CanMentor(level)
    OBVIOUS
  <1>. DEFINE level == CalculateLevel(xp, a)
              later == CalculateLevel(more, b)
  <1>1. /\ level \in LevelNumber
        /\ level # 0 => xp >= Thresholds[level] /\ MeetsRequirements(level, a)
    BY LevelIsHighest
  <1>2. /\ later \in LevelNumber
        /\ \A L \in 1..5 : more >= Thresholds[L] /\ MeetsRequirements(L, b) => L <= later
    BY LevelIsHighest
  <1>. HIDE DEF level, later
  <1>3. ASSUME AtLeast(b, a), more >= xp
        PROVE  later >= level
    <2>1. CASE level = 0
      BY <1>2, <2>1 DEF LevelNumber
    <2>2. CASE level # 0
      <3>1. MeetsRequirements(level, b)
        BY <1>1, <1>3, <2>2, RequirementsMonotone
      <3>2. more >= Thresholds[level]
        BY <1>1, <1>3, <2>2, ThresholdsRise
      <3>. QED BY <1>1, <1>2, <2>2, <3>1, <3>2 DEF LevelNumber
    <2>. QED BY <2>1, <2>2
  <1>4. ASSUME NEW L \in 1..level
        PROVE  MeetsRequirements(L, a) /\ xp >= Thresholds[L]
    <2>1. level # 0 /\ L \in LevelNumber /\ L <= level
      BY <1>1 DEF LevelNumber
    <2>2. MeetsRequirements(L, a)
      BY <1>1, <2>1, RequirementsRise
    <2>3. xp >= Thresholds[L]
      BY <1>1, <2>1, ThresholdsRise
    <2>. QED BY <2>2, <2>3
  <1>5. ASSUME level < 5
        PROVE  /\ Requirements[level + 1].organized > a.organized => CanCreateEvents(level)
               /\ Requirements[level + 1].mentees > a.mentees => CanMentor(level)
    <2>1. level \in {0, 1, 2, 3, 4} /\ a.organized \in Nat /\ a.mentees \in Nat
      BY <1>1, <1>5 DEF LevelNumber, Activity
    <2>2. /\ Requirements[1].organized = 0 /\ Requirements[2].organized = 0
          /\ Requirements[1].mentees = 0 /\ Requirements[2].mentees = 0
          /\ Requirements[3].mentees = 0
      BY DEF Requirements, Requirement, LevelNumber
    <2>. QED BY <2>1, <2>2 DEF CanCreateEvents, CanMentor
  <1>. QED BY <1>3, <1>4, <1>5 DEF level, later

-----------------------------------------------------------------------------
(***************************************************************************)
(* Hybrid signatures.                                                      *)
(***************************************************************************)
LEMMA BytesType ==
    ASSUME NEW what, NEW n \in Nat
    PROVE  \E S : Bytes(what, n) \in Seq(S) /\ Len(Bytes(what, n)) = n
  <1>. DEFINE S == {[of |-> what, at |-> i] : i \in 1..n}
  <1>1. Bytes(what, n) \in Seq(S) /\ Len(Bytes(what, n)) = n
    BY DEF Bytes
  <1>. QED BY <1>1

\* What is put together comes apart again where the first part ends.
LEMMA SplitConcat ==
    ASSUME NEW S, NEW T, NEW s \in Seq(S), NEW t \in Seq(T)
    PROVE  /\ Len(s \o t) = Len(s) + Len(t)
           /\ First(s \o t, Len(s)) = s /\ Rest(s \o t, Len(s)) = t
  <1>. DEFINE U == S \cup T
  <1>1. s \in Seq(U) /\ t \in Seq(U)
    OBVIOUS
  <1>2. s \o t \in Seq(U) /\ Len(s \o t) = Len(s) + Len(t)
    BY <1>1
  <1>3. \A i \in 1..Len(s) : (s \o t)[i] = s[i]
    BY <1>1
  <1>4. \A i \in 1..Len(t) : (s \o t)[Len(s) + i] = t[i]
    BY <1>1
  <1>5. First(s \o t, Len(s)) = s
    BY <1>1, <1>2, <1>3 DEF First
  <1>6. Rest(s \o t, Len(s)) = t
    BY <1>1, <1>2, <1>4 DEF Rest
  <1>. QED BY <1>2, <1>5, <1>6

\* The halves of a public key.
LEMMA KeyParts ==
    ASSUME NEW k, NEW d
    PROVE  LET a == Ed448Vk(k)
               b == Dil5Pk(d)
           IN  /\ Len(a \o b) = HYBRID_PK_LEN
               /\ First(a \o b, ED448_PK_LEN) = a /\ Rest(a \o b, ED448_PK_LEN) = b
  <1>. DEFINE a == Ed448Vk(k)
              b == Dil5Pk(d)
  <1>1. ED448_PK_LEN \in Nat /\ DIL5_PK_LEN \in Nat
    BY LengthsAssumption
  <1>2. PICK S : a \in Seq(S) /\ Len(a) = ED448_PK_LEN
    BY <1>1, BytesType DEF Ed448Vk
  <1>3. PICK T : b \in Seq(T) /\ Len(b) = DIL5_PK_LEN
    BY <1>1, BytesType DEF Dil5Pk
  <1>. HIDE DEF a, b
  <1>4. /\ Len(a \o b) = Len(a) + Len(b)
        /\ First(a \o b, Len(a)) = a /\ Rest(a \o b, Len(a)) = b
    BY <1>2, <1>3, SplitConcat
  <1>. QED BY <1>2, <1>3, <1>4 DEF HYBRID_PK_LEN, a, b

\* And those of a signature.
LEMMA SignatureParts ==
    ASSUME NEW k, NEW d, NEW m
    PROVE  LET a == Ed448Sign(k, m)
               b == Dil5Sign(d, m)
           IN  /\ Len(a \o b) = HYBRID_SIG_LEN
               /\ First(a \o b, ED448_SIG_LEN) = a /\ Rest(a \o b, ED448_SIG_LEN) = b
  <1>. DEFINE a == Ed448Sign(k, m)
              b == Dil5Sign(d, m)
  <1>1. ED448_SIG_LEN \in Nat /\ DIL5_SIG_LEN \in Nat
    BY LengthsAssumption
  <1>2. PICK S : a \in Seq(S) /\ Len(a) = ED448_SIG_LEN
    BY <1>1, BytesType DEF Ed448Sign
  <1>3. PICK T : b \in Seq(T) /\ Len(b) = DIL5_SIG_LEN
    BY <1>1, BytesType DEF Dil5Sign
  <1>. HIDE DEF a, b
  <1>4. /\ Len(a \o b) = Len(a) + Len(b)
        /\ First(a \o b, Len(a)) = a /\ Rest(a \o b, Len(a)) = b
    BY <1>2, <1>3, SplitConcat
  <1>. QED BY <1>2, <1>3, <1>4 DEF HYBRID_SIG_LEN, a, b

\* What was taken apart is put together again.
LEMMA ConcatSplit ==
    ASSUME NEW S, NEW s \in Seq(S), NEW n \in 0..Len(s)
    PROVE  First(s, n) \o Rest(s, n) = s
  <1>. DEFINE a == First(s, n)
              b == Rest(s, n)
  <1>0. n \in Nat /\ Len(s) \in Nat
    OBVIOUS
  <1>1. /\ a \in Seq(S) /\ Len(a) = n
        /\ \A i \in 1..n : a[i] = s[i]
    BY DEF First
  <1>2. /\ b \in Seq(S) /\ Len(b) = Len(s) - n
        /\ \A i \in 1..Len(s) - n : b[i] = s[n + i]
    BY DEF Rest
  <1>. HIDE DEF a, b
  <1>3. /\ a \o b \in Seq(S) /\ Len(a \o b) = Len(s)
        /\ \A i \in 1..Len(s) : (a \o b)[i] = IF i <= n THEN a[i] ELSE b[i - n]
    BY <1>1, <1>2
  <1>4. ASSUME NEW i \in 1..Len(s)
        PROVE  (a \o b)[i] = s[i]
    <2>1. CASE i <= n
      BY <1>1, <1>3, <2>1
    <2>2. CASE i > n
      <3>1. i - n \in 1..Len(s) - n /\ n + (i - n) = i
        BY <2>2
      <3>2. (a \o b)[i] = b[i - n]
        BY <1>3, <2>2
      <3>3. b[i - n] = s[n + (i - n)]
        BY <1>2, <3>1
      <3>. QED BY <3>1, <3>2, <3>3
    <2>3. i <= n \/ i > n
      BY <1>0
    <2>. QED BY <2>1, <2>2, <2>3, Zenon
  <1>. QED BY <1>3, <1>4, SeqEqual DEF a, b

\* What verifies can be decoded.
LEMMA VerifiedDecodes ==
    ASSUME NEW m \in Message, NEW vk, NEW sig, Ed448Verifies(vk, sig, m)
    PROVE  Ed448VkDecodes(vk) /\ Ed448SigDecodes(sig)
  BY DEF Ed448Verifies, Ed448VkDecodes, Ed448SigDecodes

\* A key pair made a signature when each half of it verifies under the half of
\* the public key that is at its place.
LEMMA HalvesDecide ==
    ASSUME NEW B, NEW sig \in Seq(B), NEW pk \in Seq(B), NEW m \in Message
    PROVE  SignedByBoth(m, sig, pk) <=>
             /\ Len(sig) = HYBRID_SIG_LEN /\ Len(pk) = HYBRID_PK_LEN
             /\ Ed448Verifies(First(pk, ED448_PK_LEN), First(sig, ED448_SIG_LEN), m)
             /\ Dil5Verifies(Rest(pk, ED448_PK_LEN), Rest(sig, ED448_SIG_LEN), m)
  <1>1. /\ ED448_PK_LEN \in Nat /\ ED448_SIG_LEN \in Nat
        /\ DIL5_PK_LEN \in Nat /\ DIL5_SIG_LEN \in Nat
    BY LengthsAssumption
  <1>3. ASSUME NEW pair \in HybridKeyPair, pk = DnssecPublicKey(pair),
               sig = DnssecSign(m, pair)
        PROVE  /\ Len(sig) = HYBRID_SIG_LEN /\ Len(pk) = HYBRID_PK_LEN
               /\ Ed448Verifies(First(pk, ED448_PK_LEN), First(sig, ED448_SIG_LEN), m)
               /\ Dil5Verifies(Rest(pk, ED448_PK_LEN), Rest(sig, ED448_SIG_LEN), m)
    <2>1. pair.ed448 \in Key /\ pair.dil5 \in Key
      BY DEF HybridKeyPair
    <2>2. /\ pk = Ed448Vk(pair.ed448) \o Dil5Pk(pair.dil5)
          /\ sig = Ed448Sign(pair.ed448, m) \o Dil5Sign(pair.dil5, m)
      BY <1>3 DEF DnssecPublicKey, DnssecSign, ToBytes, PublicKey, HybridSign
    <2>3. /\ Len(pk) = HYBRID_PK_LEN
          /\ First(pk, ED448_PK_LEN) = Ed448Vk(pair.ed448)
          /\ Rest(pk, ED448_PK_LEN) = Dil5Pk(pair.dil5)
      BY <2>2, KeyParts
    <2>4. /\ Len(sig) = HYBRID_SIG_LEN
          /\ First(sig, ED448_SIG_LEN) = Ed448Sign(pair.ed448, m)
          /\ Rest(sig, ED448_SIG_LEN) = Dil5Sign(pair.dil5, m)
      BY <2>2, SignatureParts
    <2>. QED BY <2>1, <2>3, <2>4 DEF Ed448Verifies, Dil5Verifies
  <1>4. ASSUME Len(sig) = HYBRID_SIG_LEN, Len(pk) = HYBRID_PK_LEN,
               Ed448Verifies(First(pk, ED448_PK_LEN), First(sig, ED448_SIG_LEN), m),
               Dil5Verifies(Rest(pk, ED448_PK_LEN), Rest(sig, ED448_SIG_LEN), m)
        PROVE  \E pair \in HybridKeyPair : pk = DnssecPublicKey(pair) /\ sig = DnssecSign(m, pair)
    <2>1. PICK k \in Key : /\ First(pk, ED448_PK_LEN) = Ed448Vk(k)
                           /\ First(sig, ED448_SIG_LEN) = Ed448Sign(k, m)
      BY <1>4 DEF Ed448Verifies
    <2>2. PICK d \in Key : /\ Rest(pk, ED448_PK_LEN) = Dil5Pk(d)
                           /\ Rest(sig, ED448_SIG_LEN) = Dil5Sign(d, m)
      BY <1>4 DEF Dil5Verifies
    <2>. DEFINE pair == [ed448 |-> k, dil5 |-> d]
    <2>3. pair \in HybridKeyPair /\ pair.ed448 = k /\ pair.dil5 = d
      BY DEF HybridKeyPair
    <2>4. ED448_PK_LEN \in 0..Len(pk) /\ ED448_SIG_LEN \in 0..Len(sig)
      BY <1>1, <1>4 DEF HYBRID_PK_LEN, HYBRID_SIG_LEN
    <2>5. pk = Ed448Vk(k) \o Dil5Pk(d) /\ sig = Ed448Sign(k, m) \o Dil5Sign(d, m)
      BY <2>1, <2>2, <2>4, ConcatSplit
    <2>. QED BY <2>3, <2>5 DEF DnssecPublicKey, DnssecSign, ToBytes, PublicKey, HybridSign
  <1>. QED BY <1>3, <1>4 DEF SignedByBoth

\* The library of the oDNS services and the DNSSEC code accept the same bytes,
\* of whatever sizes keys and signatures are: both signatures of the message by
\* the two keys of one pair, in this order and with nothing around them.
THEOREM HybridNeedsBothHalves ==
    ASSUME NEW B, NEW sig \in Seq(B), NEW pk \in Seq(B), NEW m \in Message
    PROVE  /\ LibraryAccepts(m, sig, pk) <=> SignedByBoth(m, sig, pk)
           /\ DnssecAccepts(m, sig, pk) <=> SignedByBoth(m, sig, pk)
  <1>. DEFINE vk1 == First(pk, ED448_PK_LEN)
              vk2 == Rest(pk, ED448_PK_LEN)
              sig1 == First(sig, ED448_SIG_LEN)
              sig2 == Rest(sig, ED448_SIG_LEN)
              lengths == Len(sig) = HYBRID_SIG_LEN /\ Len(pk) = HYBRID_PK_LEN
  <1>1. SignedByBoth(m, sig, pk) <=>
          lengths /\ Ed448Verifies(vk1, sig1, m) /\ Dil5Verifies(vk2, sig2, m)
    BY HalvesDecide
  <1>2. LibraryAccepts(m, sig, pk) <=>
          /\ lengths /\ Ed448VkDecodes(vk1) /\ Ed448SigDecodes(sig1)
          /\ Ed448Verifies(vk1, sig1, m) /\ Dil5Verifies(vk2, sig2, m)
    BY DEF LibraryAccepts, SignatureFromBytes, PublicKeyFromBytes, HybridVerify, Decoded,
           Split, Err, Verified
  <1>3. DnssecAccepts(m, sig, pk) <=>
          /\ lengths /\ Ed448VkDecodes(vk1) /\ Ed448SigDecodes(sig1)
          /\ Ed448Verifies(vk1, sig1, m) /\ Dil5Verifies(vk2, sig2, m)
    BY DEF DnssecAccepts, DnssecHybridVerify, Split, Err, Answered
  <1>4. Ed448Verifies(vk1, sig1, m) => Ed448VkDecodes(vk1) /\ Ed448SigDecodes(sig1)
    BY VerifiedDecodes
  <1>. QED BY <1>1, <1>2, <1>3, <1>4

-----------------------------------------------------------------------------
(***************************************************************************)
(* The questions.                                                          *)
(***************************************************************************)
\* What may be asked.
Mentioned(q) == \E c \in Configs, m \in Mentions :
                    q = [about |-> "mention", config |-> c, mention |-> m]

Compared(q) == \E x, y \in Contents : q = [about |-> "contents", x |-> x, y |-> y]

Addressed(q) == \E rows \in Tables, a, b \in Addresses :
                    q = [about |-> "addresses", rows |-> rows, a |-> a, b |-> b]

Signed(q) == \E m \in Message, sig \in Signatures, pk \in PublicKeys :
                 q = [about |-> "signature", message |-> m, sig |-> sig, pk |-> pk]

Levelled(q) == \E xp, more \in Points, a, b \in Activities :
                   q = [about |-> "level", xp |-> xp, more |-> more, a |-> a, b |-> b]

Asked == \/ question = None
         \/ Mentioned(question) \/ Compared(question)
         \/ Addressed(question) \/ Signed(question) \/ Levelled(question)

\* A question tells what it is about.
LEMMA AboutTells ==
    ASSUME Asked
    PROVE  /\ question.about = "mention" => Mentioned(question)
           /\ question.about = "contents" => Compared(question)
           /\ question.about = "addresses" => Addressed(question)
           /\ question.about = "signature" => Signed(question)
           /\ question.about = "level" => Levelled(question)
  <1>1. question = None => question.about = "nothing"
    BY DEF None
  <1>2. /\ Mentioned(question) => question.about = "mention"
        /\ Compared(question) => question.about = "contents"
        /\ Addressed(question) => question.about = "addresses"
        /\ Signed(question) => question.about = "signature"
        /\ Levelled(question) => question.about = "level"
    BY DEF Mentioned, Compared, Addressed, Signed, Levelled
  <1>. QED BY <1>1, <1>2 DEF Asked

\* Nothing else is asked.
LEMMA AlwaysAsked == Spec => []Asked
  <1>1. Init => Asked
    BY DEF Init, Asked
  <1>2. ASSUME Asked, [Next]_question PROVE Asked'
    <2>1. CASE UNCHANGED question
      BY <1>2, <2>1 DEF Asked
    <2>2. CASE AskMention
      BY <2>2 DEF AskMention, Asked, Mentioned
    <2>3. CASE AskContents
      BY <2>3 DEF AskContents, Asked, Compared
    <2>5. CASE AskAddresses
      BY <2>5 DEF AskAddresses, Asked, Addressed
    <2>6. CASE AskSignature
      BY <2>6 DEF AskSignature, Asked, Signed
    <2>7. CASE AskLevel
      BY <2>7 DEF AskLevel, Asked, Levelled
    <2>8. CASE Answer
      BY <2>8 DEF Answer, Asked
    <2>. QED BY <1>2, <2>1, <2>2, <2>3, <2>5, <2>6, <2>7, <2>8 DEF Next
  <1>. QED BY <1>1, <1>2, PTL DEF Spec

\* Calculate_Level answers all questions about levels as LevelsEarned says.
THEOREM LevelsCorrect == Spec => []LevelsAreEarned
  <1>1. ASSUME Asked PROVE LevelsAreEarned
    <2>. SUFFICES ASSUME question.about = "level" PROVE LevelsAreEarned
      BY DEF LevelsAreEarned
    <2>1. PICK xp \in Points, more \in Points, a \in Activities, b \in Activities :
             question = [about |-> "level", xp |-> xp, more |-> more, a |-> a, b |-> b]
      BY <1>1, AboutTells DEF Levelled
    <2>2. question.xp = xp /\ question.more = more /\ question.a = a /\ question.b = b
      BY <2>1
    <2>3. xp \in Nat /\ more \in Nat /\ a \in Activity /\ b \in Activity
      BY QuestionsAssumption
    <2>. QED BY <2>2, <2>3, LevelsEarned DEF LevelsAreEarned
  <1>. QED BY <1>1, AlwaysAsked, PTL

\* Of all questions about signatures both implementations accept those of which
\* both halves of the key signed the message.
THEOREM HybridCorrect == Spec => []HybridNeedsBoth
  <1>1. ASSUME Asked PROVE HybridNeedsBoth
    <2>. SUFFICES ASSUME question.about = "signature" PROVE HybridNeedsBoth
      BY DEF HybridNeedsBoth
    <2>1. PICK m \in Message, sig \in Signatures, pk \in PublicKeys :
             question = [about |-> "signature", message |-> m, sig |-> sig, pk |-> pk]
      BY <1>1, AboutTells DEF Signed
    <2>2. question.message = m /\ question.sig = sig /\ question.pk = pk
      BY <2>1
    <2>3. sig \in Seq(Byte) /\ pk \in Seq(Byte)
      BY QuestionsAssumption
    <2>. QED BY <2>2, <2>3, HybridNeedsBothHalves DEF HybridNeedsBoth
  <1>. QED BY <1>1, AlwaysAsked, PTL

-----------------------------------------------------------------------------
(***************************************************************************)
(* Sites.                                                                  *)
(***************************************************************************)
LEMMA LastLabels ==
    ASSUME NEW S, NEW host \in Seq(S), NEW n \in 0..Len(host)
    PROVE  /\ Last(host, n) \in Seq(S) /\ Len(Last(host, n)) = n
           /\ \A i \in 1..n : Last(host, n)[i] = host[Len(host) - n + i]
  <1>1. n \in Nat /\ Len(host) \in Nat /\ n <= Len(host)
    OBVIOUS
  <1>. QED BY <1>1 DEF Last

\* The last labels of a host's last labels are those of the host.
LEMMA LastOfLast ==
    ASSUME NEW S, NEW host \in Seq(S), NEW n \in 0..Len(host), NEW m \in 0..n
    PROVE  Last(Last(host, n), m) = Last(host, m)
  <1>0. n \in Nat /\ m \in Nat /\ Len(host) \in Nat /\ m \in 0..Len(host)
    OBVIOUS
  <1>. DEFINE last == Last(host, n)
  <1>1. /\ last \in Seq(S) /\ Len(last) = n
        /\ \A i \in 1..n : last[i] = host[Len(host) - n + i]
    BY LastLabels
  <1>. HIDE DEF last
  <1>2. /\ Last(host, m) \in Seq(S) /\ Len(Last(host, m)) = m
        /\ \A i \in 1..m : Last(host, m)[i] = host[Len(host) - m + i]
    BY <1>0, LastLabels
  <1>3. /\ Last(last, m) \in Seq(S) /\ Len(Last(last, m)) = m
        /\ \A i \in 1..m : Last(last, m)[i] = last[n - m + i]
    BY <1>1, LastLabels
  <1>4. ASSUME NEW i \in 1..m
        PROVE  Last(last, m)[i] = Last(host, m)[i]
    <2>1. n - m + i \in 1..n /\ Len(host) - n + (n - m + i) = Len(host) - m + i
      BY <1>0
    <2>. QED BY <1>1, <1>2, <1>3, <2>1
  <1>5. Last(last, m) = Last(host, m)
    BY <1>2, <1>3, <1>4, SeqEqual
  <1>. QED BY <1>5 DEF last

LEMMA WholeHost ==
    ASSUME NEW S, NEW host \in Seq(S)
    PROVE  Last(host, Len(host)) = host
  <1>1. Len(host) \in Nat /\ Len(host) - Len(host) + 1 = 1
    OBVIOUS
  <1>2. /\ Last(host, Len(host)) \in Seq(S) /\ Len(Last(host, Len(host))) = Len(host)
        /\ \A i \in 1..Len(host) : Last(host, Len(host))[i] = host[Len(host) - Len(host) + i]
    BY <1>1, LastLabels
  <1>. QED BY <1>1, <1>2, SeqEqual

\* What can be registered is found, however many labels stand before it.
LEMMA DomainOfHost ==
    ASSUME NEW S, NEW h \in Seq(S)
    PROVE  /\ Len(h) <= 2 => RegistrableDomain(h) = h
           /\ \A n \in {2, 3} : n <= Len(h) =>
                 /\ Len(Last(h, n)) = n
                 /\ Registrable(Last(h, n)) => RegistrableDomain(h) = Last(h, n)
           /\ Len(h) >= 3 => \E n \in {2, 3} : /\ RegistrableDomain(h) = Last(h, n)
                                              /\ Registrable(Last(h, n))
           /\ Len(h) = 2 => Last(h, 2) = h
  <1>0. Len(h) \in Nat /\ (Len(h) >= 2 => Len(h) = 2 \/ ~ (Len(h) <= 2)) /\ 2 # 3
    <2>1. Len(h) \in Nat /\ 2 # 3
      OBVIOUS
    <2>2. \A l \in Nat : l >= 2 => l = 2 \/ ~ (l <= 2)
      OBVIOUS
    <2>. QED BY <2>1, <2>2, Zenon
  <1>1. ASSUME NEW n \in {2, 3}, n <= Len(h) PROVE Len(Last(h, n)) = n
    <2>1. n \in 0..Len(h)
      BY <1>0, <1>1
    <2>. QED BY <2>1, LastLabels
  <1>2. ASSUME Len(h) >= 3 PROVE Last(Last(h, 3), 2) = Last(h, 2)
    <2>1. 3 \in 0..Len(h) /\ 2 \in 0..3
      BY <1>0, <1>2
    <2>. QED BY <2>1, LastOfLast
  <1>3. ASSUME Len(h) = 2 PROVE Last(h, 2) = h
    BY <1>3, WholeHost
  <1>4. ASSUME Len(h) >= 2, Registrable(Last(h, 2)) PROVE RegistrableDomain(h) = Last(h, 2)
    <2>1. Len(Last(h, 2)) = 2
      BY <1>1, <1>4
    <2>2. ~ IsTwoPartTld(Last(h, 2))
      BY <1>0, <1>4, <2>1, Zenon DEF Registrable
    <2>3. CASE Len(h) = 2
      BY <1>3, <2>3 DEF RegistrableDomain
    <2>4. CASE Len(h) # 2
      BY <1>0, <1>4, <2>2, <2>4, Zenon DEF RegistrableDomain
    <2>. QED BY <2>3, <2>4
  <1>5. ASSUME Len(h) >= 3, Registrable(Last(h, 3)) PROVE RegistrableDomain(h) = Last(h, 3)
    <2>1. Len(Last(h, 3)) = 3
      BY <1>1, <1>5
    <2>2. IsTwoPartTld(Last(h, 2))
      <3>1. IsTwoPartTld(Last(Last(h, 3), 2))
        BY <1>0, <1>5, <2>1, Zenon DEF Registrable
      <3>. QED BY <1>2, <1>5, <3>1
    <2>. QED BY <1>0, <1>5, <2>2 DEF RegistrableDomain
  <1>6. ASSUME Len(h) >= 3
        PROVE  \E n \in {2, 3} : RegistrableDomain(h) = Last(h, n) /\ Registrable(Last(h, n))
    <2>0. Len(Last(h, 2)) = 2 /\ Len(Last(h, 3)) = 3
      BY <1>0, <1>1, <1>6
    <2>1. CASE IsTwoPartTld(Last(h, 2))
      BY <1>0, <1>2, <1>6, <2>0, <2>1 DEF RegistrableDomain, Registrable
    <2>2. CASE ~ IsTwoPartTld(Last(h, 2))
      BY <1>0, <1>6, <2>0, <2>2 DEF RegistrableDomain, Registrable
    <2>. QED BY <2>1, <2>2
  <1>7. Len(h) <= 2 => RegistrableDomain(h) = h
    BY DEF RegistrableDomain
  <1>. QED BY <1>1, <1>3, <1>4, <1>5, <1>6, <1>7

\* A host of at most two labels is one site with a longer one of its domain.
LEMMA ShortAndLong ==
    ASSUME NEW S, NEW a \in Seq(S), NEW b \in Seq(S), Len(a) <= 2, Len(b) >= 3,
           RegistrableDomain(a) = RegistrableDomain(b)
    PROVE  SameSite(a, b) /\ SameSite(b, a)
  <1>1. Len(a) \in Nat /\ Len(b) \in Nat
    OBVIOUS
  <1>2. PICK n \in {2, 3} : RegistrableDomain(b) = Last(b, n) /\ Registrable(Last(b, n))
    BY DomainOfHost
  <1>3. a = Last(b, n) /\ Len(Last(b, n)) = n /\ n <= Len(b)
    BY <1>1, <1>2, DomainOfHost
  <1>4. n = 2 /\ Len(a) = 2 /\ Last(a, 2) = a
    BY <1>1, <1>3, DomainOfHost
  <1>5. 2 <= Len(a) /\ 2 <= Len(b) /\ Last(a, 2) = Last(b, 2) /\ Registrable(Last(a, 2))
    BY <1>1, <1>2, <1>3, <1>4
  <1>. QED BY <1>5 DEF SameSite

\* Whatever the labels are, two hosts have one registrable domain exactly when
\* they are one host or below one name that can be registered.
LEMMA SitesAreDomains ==
    ASSUME NEW S, NEW a \in Seq(S), NEW b \in Seq(S)
    PROVE  RegistrableDomain(a) = RegistrableDomain(b) <=> SameSite(a, b)
  <1>0. Len(a) \in Nat /\ Len(b) \in Nat
    OBVIOUS
  <1>1. ASSUME RegistrableDomain(a) = RegistrableDomain(b) PROVE SameSite(a, b)
    <2>1. CASE Len(a) <= 2 /\ Len(b) <= 2
      BY <1>1, <2>1, DomainOfHost DEF SameSite
    <2>2. CASE Len(a) >= 3 /\ Len(b) >= 3
      <3>1. PICK n \in {2, 3} : RegistrableDomain(a) = Last(a, n) /\ Registrable(Last(a, n))
        BY <2>2, DomainOfHost
      <3>2. PICK m \in {2, 3} : RegistrableDomain(b) = Last(b, m)
        BY <2>2, DomainOfHost
      <3>3. n <= Len(a) /\ n <= Len(b) /\ m <= Len(b)
        BY <1>0, <2>2
      <3>4. n = m
        <4>1. Len(Last(a, n)) = n
          BY <3>3, DomainOfHost
        <4>2. Len(Last(b, m)) = m
          BY <3>3, DomainOfHost
        <4>. QED BY <1>1, <3>1, <3>2, <4>1, <4>2
      <3>. QED BY <1>1, <3>1, <3>2, <3>3, <3>4 DEF SameSite
    <2>3. CASE Len(a) <= 2 /\ Len(b) >= 3
      BY <1>1, <2>3, ShortAndLong
    <2>4. CASE Len(b) <= 2 /\ Len(a) >= 3
      BY <1>1, <2>4, ShortAndLong
    <2>. QED BY <1>0, <2>1, <2>2, <2>3, <2>4
  <1>2. ASSUME SameSite(a, b) PROVE RegistrableDomain(a) = RegistrableDomain(b)
    <2>1. CASE a = b
      BY <2>1
    <2>2. ASSUME NEW n \in {2, 3}, n <= Len(a), n <= Len(b), Last(a, n) = Last(b, n),
                 Registrable(Last(a, n))
          PROVE  RegistrableDomain(a) = RegistrableDomain(b)
      <3>1. RegistrableDomain(a) = Last(a, n)
        BY <2>2, DomainOfHost
      <3>2. RegistrableDomain(b) = Last(b, n)
        BY <2>2, DomainOfHost
      <3>. QED BY <2>2, <3>1, <3>2
    <2>. QED BY <1>2, <2>1, <2>2 DEF SameSite
  <1>. QED BY <1>1, <1>2

\* The self-ping check refuses what is within one site and nothing else, whatever
\* labels the hosts have and however many.
THEOREM SelfPingsCorrect == Spec => []OnlySelfPingsAreBlocked
  <1>1. ASSUME Asked PROVE OnlySelfPingsAreBlocked
    <2>. SUFFICES ASSUME question.about = "mention", question.config.require_source_target,
                         question.config.block_self_ping
                  PROVE  OnlySelfPingsAreBlocked
      BY DEF OnlySelfPingsAreBlocked
    <2>1. PICK c \in Configs, m \in Mentions :
             question = [about |-> "mention", config |-> c, mention |-> m]
      BY <1>1, AboutTells DEF Mentioned
    <2>2. question.config = c /\ question.mention = m
      BY <2>1
    <2>3. c \in ValidationConfig /\ m \in Mention
      BY QuestionsAssumption
    <2>. DEFINE without == [c EXCEPT !.block_self_ping = FALSE]
    <2>4. /\ without.types = c.types /\ without.require_source_target = c.require_source_target
          /\ without.block_self_ping = FALSE
          /\ c.require_source_target = TRUE /\ c.block_self_ping = TRUE
      BY <2>2, <2>3 DEF ValidationConfig
    <2>. HIDE DEF without
    <2>5. m.source \in Parameter /\ m.target \in Parameter
      BY <2>3 DEF Mention
    <2>. DEFINE passes == /\ IsUrl(m.source) /\ IsUrl(m.target)
                          /\ IsWeb(m.source) /\ IsWeb(m.target)
    <2>6. /\ ValidateSourceTarget(without, m.source, m.target).valid <=> passes
          /\ ValidateSourceTarget(c, m.source, m.target).valid
                <=> passes /\ ~ SelfPing(m.source, m.target)
      BY <2>4 DEF ValidateSourceTarget, Valid, Invalid, Missing, IsUrl
    <2>7. IsUrl(m.source) /\ IsUrl(m.target) =>
             (SelfPing(m.source, m.target) <=> SameSite(m.source.host, m.target.host))
      <3>1. ASSUME NEW p \in Parameter, IsUrl(p) PROVE p.host \in Seq(STRING)
        BY <3>1 DEF Parameter, IsUrl, Absent, Blank, Garbage
      <3>. QED BY <2>5, <3>1, SitesAreDomains DEF SelfPing
    <2>8. Validate(c, m).valid <=> Validate(without, m).valid /\ ~ SameSite(m.source.host, m.target.host)
      BY <2>4, <2>6, <2>7 DEF Validate, ValidateContentType, Valid, Invalid
    <2>. QED BY <2>2, <2>8 DEF OnlySelfPingsAreBlocked, without
  <1>. QED BY <1>1, AlwaysAsked, PTL

-----------------------------------------------------------------------------
(***************************************************************************)
(* What is hashed of a record.                                             *)
(***************************************************************************)
\* The number of a type stands for it alone.
LEMMA NumberOfType ==
    ASSUME NEW type \in RecordType
    PROVE  AsU16(type) \in Int /\ DNSRecordType[AsU16(type) + 1] = type
  <1>1. DOMAIN DNSRecordType = 1..11
    BY DEF DNSRecordType
  <1>2. \E n \in DOMAIN DNSRecordType : DNSRecordType[n] = type
    BY DEF RecordType
  <1>3. PICK n \in 1..11 :
           n = (CHOOSE k \in DOMAIN DNSRecordType : DNSRecordType[k] = type)
           /\ DNSRecordType[n] = type
    BY <1>1, <1>2
  <1>4. AsU16(type) = n - 1
    BY <1>3 DEF AsU16
  <1>5. n - 1 \in Int /\ (n - 1) + 1 = n
    OBVIOUS
  <1>. QED BY <1>3, <1>4, <1>5, Zenon

\* Where the elements of two sequences are when one is put behind the other.
Behind(joined, s, t, k) ==
    /\ Len(joined) = k + Len(t)
    /\ \A i \in 1..k : joined[i] = s[i]
    /\ \A i \in 1..Len(t) : joined[k + i] = t[i]

LEMMA Joined ==
    ASSUME NEW S, NEW s \in Seq(S), NEW t \in Seq(S), NEW k \in Nat, Len(s) = k
    PROVE  s \o t \in Seq(S) /\ Behind(s \o t, s, t, k)
  BY DEF Behind

\* The text of a record, and the length of its name.
TextOf(text, k, c) ==
    /\ Len(c.name) = k /\ Len(text) = (k + 5) + Len(c.value)
    /\ \A i \in 1..k : text[i] = c.name[i]
    /\ text[k + 1] = Colon /\ text[k + 2] = AsU16(c.type) /\ text[k + 4] = c.ttl
    /\ \A i \in 1..Len(c.value) : text[(k + 5) + i] = c.value[i]

LEMMA PreimageParts ==
    ASSUME NEW c \in Content
    PROVE  \E k \in Nat : TextOf(Preimage(c), k, c)
  <1>1. PICK name \in Seq(Int), n \in Int, ttl \in Int, value \in Seq(Int) :
           name = c.name /\ n = AsU16(c.type) /\ ttl = c.ttl /\ value = c.value
    BY NumberOfType DEF Content
  <1>2. PICK k \in Nat : Len(name) = k
    OBVIOUS
  <1>. DEFINE middle == <<Colon, n, Colon, ttl, Colon>>
              head == name \o middle
              text == head \o value
  <1>3. /\ middle \in Seq(Int) /\ Len(middle) = 5 /\ middle[1] = Colon
        /\ middle[2] = n /\ middle[4] = ttl
    BY DEF Colon
  <1>. HIDE DEF middle
  <1>4. head \in Seq(Int) /\ Behind(head, name, middle, k)
    BY <1>2, <1>3, Joined
  <1>. HIDE DEF head
  <1>5. /\ Len(head) = k + 5
        /\ \A i \in 1..k : head[i] = name[i]
        /\ \A i \in 1..5 : head[k + i] = middle[i]
    BY <1>3, <1>4 DEF Behind
  <1>6. k + 5 \in Nat
    OBVIOUS
  <1>7. text \in Seq(Int) /\ Behind(text, head, value, k + 5)
    BY <1>4, <1>5, <1>6, Joined
  <1>. HIDE DEF text
  <1>8. /\ Len(text) = (k + 5) + Len(value)
        /\ \A i \in 1..k + 5 : text[i] = head[i]
        /\ \A i \in 1..Len(value) : text[(k + 5) + i] = value[i]
    BY <1>7 DEF Behind
  <1>9. k + 1 \in 1..k + 5 /\ k + 2 \in 1..k + 5 /\ k + 4 \in 1..k + 5 /\ 1..k \subseteq 1..k + 5
    OBVIOUS
  <1>10. text[k + 1] = Colon /\ text[k + 2] = n /\ text[k + 4] = ttl
    BY <1>3, <1>5, <1>8, <1>9
  <1>11. \A i \in 1..k : text[i] = name[i]
    BY <1>5, <1>8, <1>9
  <1>12. TextOf(text, k, c)
    BY <1>1, <1>2, <1>8, <1>10, <1>11 DEF TextOf
  <1>13. Preimage(c) = text
    BY <1>1 DEF Preimage, text, head, middle
  <1>. QED BY <1>12, <1>13

\* A name without colons ends at the first colon of the text.
LEMMA NamesEndTogether ==
    ASSUME NEW x \in Content, NEW y \in Content, NEW text, NEW k \in Nat, NEW l \in Nat,
           TextOf(text, k, x), TextOf(text, l, y),
           ~ Has(x.name, Colon), ~ Has(y.name, Colon)
    PROVE  k = l
  <1>1. /\ x.name \in Seq(Int) /\ y.name \in Seq(Int)
        /\ Len(x.name) = k /\ Len(y.name) = l
    BY DEF Content, TextOf
  <1>2. \A i \in 1..k : x.name[i] # Colon
    BY <1>1 DEF Has
  <1>3. \A i \in 1..l : y.name[i] # Colon
    BY <1>1 DEF Has
  <1>4. text[k + 1] = Colon /\ \A i \in 1..k : text[i] # Colon
    BY <1>2 DEF TextOf
  <1>5. text[l + 1] = Colon /\ \A i \in 1..l : text[i] # Colon
    BY <1>3 DEF TextOf
  <1>6. k < l => k + 1 \in 1..l
    OBVIOUS
  <1>7. l < k => l + 1 \in 1..k
    OBVIOUS
  <1>. QED BY <1>4, <1>5, <1>6, <1>7

\* Records whose names have no colons are told apart by the text that is hashed,
\* whatever the texts of their names and values.
LEMMA TextsTellRecordsApart ==
    ASSUME NEW x \in Content, NEW y \in Content, Preimage(x) = Preimage(y),
           ~ Has(x.name, Colon), ~ Has(y.name, Colon)
    PROVE  x = y
  <1>1. PICK text : text = Preimage(x) /\ text = Preimage(y)
    OBVIOUS
  <1>2. PICK k \in Nat : TextOf(text, k, x)
    BY <1>1, PreimageParts
  <1>3. PICK l \in Nat : TextOf(text, l, y)
    BY <1>1, PreimageParts
  <1>4. TextOf(text, k, y)
    BY <1>2, <1>3, NamesEndTogether
  <1>5. /\ x.name \in Seq(Int) /\ y.name \in Seq(Int)
        /\ x.value \in Seq(Int) /\ y.value \in Seq(Int)
        /\ x.type \in RecordType /\ y.type \in RecordType
    BY DEF Content
  <1>6. x.name = y.name
    <2>1. /\ Len(x.name) = k /\ Len(y.name) = k
          /\ \A i \in 1..k : x.name[i] = y.name[i]
      BY <1>2, <1>4 DEF TextOf
    <2>. QED BY <1>5, <2>1, SeqEqual
  <1>7. x.type = y.type
    <2>1. AsU16(x.type) = AsU16(y.type)
      BY <1>2, <1>4 DEF TextOf
    <2>. QED BY <1>5, <2>1, NumberOfType
  <1>8. x.ttl = y.ttl
    BY <1>2, <1>4 DEF TextOf
  <1>9. x.value = y.value
    <2>1. PICK m \in Nat, n \in Nat : m = Len(x.value) /\ n = Len(y.value)
      BY <1>5
    <2>2. (k + 5) + m = (k + 5) + n
      BY <1>2, <1>4, <2>1 DEF TextOf
    <2>3. m = n
      BY <2>2
    <2>4. \A i \in 1..m : x.value[i] = y.value[i]
      BY <1>2, <1>4, <2>1, <2>3 DEF TextOf
    <2>. QED BY <1>5, <2>1, <2>3, <2>4, SeqEqual
  <1>10. /\ x = [name |-> x.name, type |-> x.type, ttl |-> x.ttl, value |-> x.value]
         /\ y = [name |-> y.name, type |-> y.type, ttl |-> y.ttl, value |-> y.value]
    BY DEF Content
  <1>. QED BY <1>6, <1>7, <1>8, <1>9, <1>10

\* Different valid records without a colon in their names have different hashes,
\* of whatever lengths their names and values are.
THEOREM HashesCorrect == Spec => []HashTellsRecordsApart
  <1>1. ASSUME Asked PROVE HashTellsRecordsApart
    <2>. SUFFICES ASSUME question.about = "contents" PROVE HashTellsRecordsApart
      BY DEF HashTellsRecordsApart
    <2>1. PICK x \in Contents, y \in Contents :
             question = [about |-> "contents", x |-> x, y |-> y]
      BY <1>1, AboutTells DEF Compared
    <2>2. question.x = x /\ question.y = y
      BY <2>1
    <2>3. x \in Content /\ y \in Content
      BY QuestionsAssumption
    <2>. QED BY <2>2, <2>3, TextsTellRecordsApart DEF HashTellsRecordsApart
  <1>. QED BY <1>1, AlwaysAsked, PTL

-----------------------------------------------------------------------------
(***************************************************************************)
(* Names of addresses.                                                     *)
(***************************************************************************)
\* The parts of an IPv4 address in the reverse order, and the suffix.
Reversed(name, parts) ==
    /\ name \in Seq(Int) /\ Len(name) = 5 /\ parts \in Seq(Int) /\ Len(parts) = 4
    /\ \A j \in 1..4 : name[j] = parts[5 - j]
    /\ name[5] = InAddrArpa

LEMMA NameOfVersion4 ==
    ASSUME NEW ip \in Address, ip.version = 4, ReverseName(ip) # NoName
    PROVE  Reversed(ReverseName(ip), ip.parts)
  <1>1. PICK p \in Seq(Int) : p = ip.parts
    BY DEF Address
  <1>2. Len(p) = 4
    BY <1>1 DEF ReverseName
  <1>3. ReverseName(ip) = <<p[4], p[3], p[2], p[1], InAddrArpa>>
    BY <1>1, <1>2 DEF ReverseName
  <1>4. p[1] \in Int /\ p[2] \in Int /\ p[3] \in Int /\ p[4] \in Int
    <2>1. \A i \in 1..Len(p) : p[i] \in Int
      OBVIOUS
    <2>2. 1 \in 1..4 /\ 2 \in 1..4 /\ 3 \in 1..4 /\ 4 \in 1..4
      OBVIOUS
    <2>. QED BY <1>2, <2>1, <2>2, Zenon
  <1>5. PICK name : name = <<p[4], p[3], p[2], p[1], InAddrArpa>>
    OBVIOUS
  <1>6. /\ name \in Seq(Int) /\ Len(name) = 5 /\ name[5] = InAddrArpa
        /\ name[1] = p[4] /\ name[2] = p[3] /\ name[3] = p[2] /\ name[4] = p[1]
    BY <1>4, <1>5 DEF InAddrArpa
  <1>7. \A j \in 1..4 : name[j] = p[5 - j]
    <2>1. \A j \in 1..4 : j = 1 \/ j = 2 \/ j = 3 \/ j = 4
      OBVIOUS
    <2>2. 5 - 1 = 4 /\ 5 - 2 = 3 /\ 5 - 3 = 2 /\ 5 - 4 = 1
      OBVIOUS
    <2>. QED BY <1>6, <2>1, <2>2, Zenon
  <1>. QED BY <1>1, <1>2, <1>3, <1>5, <1>6, <1>7 DEF Reversed

\* That of an IPv6 address has its groups in their order.
LEMMA NameOfVersion6 ==
    ASSUME NEW ip \in Address, ip.version = 6
    PROVE  \E k \in Nat : /\ Len(ip.parts) = k /\ ip.parts \in Seq(Int)
                          /\ Behind(ReverseName(ip), ip.parts, <<Ip6Arpa>>, k)
  <1>1. PICK p \in Seq(Int) : p = ip.parts
    BY DEF Address
  <1>2. PICK k \in Nat : k = Len(p)
    OBVIOUS
  <1>3. ReverseName(ip) = p \o <<Ip6Arpa>>
    BY <1>1 DEF ReverseName
  <1>4. <<Ip6Arpa>> \in Seq(Int)
    BY DEF Ip6Arpa
  <1>5. Behind(p \o <<Ip6Arpa>>, p, <<Ip6Arpa>>, k)
    BY <1>2, <1>4, Joined
  <1>. QED BY <1>1, <1>2, <1>3, <1>5

\* The first parts are the same when each of them is.
LEMMA FirstParts ==
    ASSUME NEW S, NEW s \in Seq(S), NEW t \in Seq(S), NEW n \in Nat, n <= Len(s), n <= Len(t)
    PROVE  SubSeq(s, 1, n) = SubSeq(t, 1, n) <=> \A i \in 1..n : s[i] = t[i]
  <1>1. ASSUME NEW u \in Seq(S), n <= Len(u)
        PROVE  /\ SubSeq(u, 1, n) \in Seq(S) /\ Len(SubSeq(u, 1, n)) = n
               /\ \A i \in 1..n : SubSeq(u, 1, n)[i] = u[i]
    BY <1>1
  <1>2. PICK a \in Seq(S) : a = SubSeq(s, 1, n) /\ Len(a) = n /\ \A i \in 1..n : a[i] = s[i]
    BY <1>1
  <1>3. PICK b \in Seq(S) : b = SubSeq(t, 1, n) /\ Len(b) = n /\ \A i \in 1..n : b[i] = t[i]
    BY <1>1
  <1>4. (\A i \in 1..n : s[i] = t[i]) => a = b
    BY <1>2, <1>3, SeqEqual
  <1>. QED BY <1>2, <1>3, <1>4

\* So many elements behind the first ones are the same.
SameFrom(s, t, first, n) == \A i \in 1..n : s[first + i] = t[first + i]

\* And so are the last.
LEMMA LastParts ==
    ASSUME NEW S, NEW s \in Seq(S), NEW t \in Seq(S), NEW l \in Nat, Len(s) = l, Len(t) = l,
           NEW n \in 0..l
    PROVE  Last(s, n) = Last(t, n) <=> SameFrom(s, t, l - n, n)
  <1>0. ASSUME NEW u \in Seq(S), Len(u) = l
        PROVE  /\ Last(u, n) \in Seq(S) /\ Len(Last(u, n)) = n
               /\ \A i \in 1..n : Last(u, n)[i] = u[(l - n) + i]
    BY <1>0 DEF Last
  <1>1. PICK a \in Seq(S) : a = Last(s, n) /\ Len(a) = n /\ \A i \in 1..n : a[i] = s[(l - n) + i]
    BY <1>0
  <1>2. PICK b \in Seq(S) : b = Last(t, n) /\ Len(b) = n /\ \A i \in 1..n : b[i] = t[(l - n) + i]
    BY <1>0
  <1>3. (\A i \in 1..n : s[(l - n) + i] = t[(l - n) + i]) => a = b
    BY <1>1, <1>2, SeqEqual
  <1>. QED BY <1>1, <1>2, <1>3 DEF SameFrom

\* Addresses of one network have names below one suffix, and no others have.
LEMMA SuffixesAreNetworks ==
    ASSUME NEW p, NEW q, NEW x, NEW y, Reversed(x, p), Reversed(y, q), NEW n \in 1..4
    PROVE  SubSeq(p, 1, n) = SubSeq(q, 1, n) <=> Last(x, n + 1) = Last(y, n + 1)
  <1>1. /\ p \in Seq(Int) /\ q \in Seq(Int) /\ Len(p) = 4 /\ Len(q) = 4
        /\ x \in Seq(Int) /\ y \in Seq(Int) /\ Len(x) = 5 /\ Len(y) = 5
        /\ \A j \in 1..4 : x[j] = p[5 - j]
        /\ \A j \in 1..4 : y[j] = q[5 - j]
        /\ x[5] = y[5]
    BY DEF Reversed
  <1>2. SubSeq(p, 1, n) = SubSeq(q, 1, n) <=> \A i \in 1..n : p[i] = q[i]
    <2>1. n \in Nat /\ n <= Len(p) /\ n <= Len(q)
      BY <1>1
    <2>. QED BY <1>1, <2>1, FirstParts
  <1>3. PICK k \in 2..5 : k = n + 1
    OBVIOUS
  <1>4. Last(x, k) = Last(y, k) <=> SameFrom(x, y, 5 - k, k)
    <2>1. k \in 0..5 /\ 5 \in Nat
      OBVIOUS
    <2>. QED BY <1>1, <2>1, LastParts
  <1>5. ASSUME \A i \in 1..n : p[i] = q[i], NEW i \in 1..k
        PROVE  x[(5 - k) + i] = y[(5 - k) + i]
    <2>1. PICK j \in 1..5 : j = (5 - k) + i
      OBVIOUS
    <2>2. j # 5 => j \in 1..4 /\ 5 - j \in 1..n
      BY <1>3, <2>1
    <2>. QED BY <1>1, <1>5, <2>1, <2>2
  <1>6. ASSUME \A i \in 1..k : x[(5 - k) + i] = y[(5 - k) + i], NEW i \in 1..n
        PROVE  p[i] = q[i]
    <2>1. PICK j \in 1..4 : 5 - j = i
      <3>1. 5 - i \in 1..4 /\ 5 - (5 - i) = i
        OBVIOUS
      <3>. QED BY <3>1
    <2>2. k - i \in 1..k /\ (5 - k) + (k - i) = j
      BY <1>3, <2>1
    <2>3. x[j] = y[j]
      BY <1>6, <2>2
    <2>. QED BY <1>1, <2>1, <2>3
  <1>. QED BY <1>2, <1>3, <1>4, <1>5, <1>6 DEF SameFrom

\* A name stands for one address.
LEMMA NamesTellApart ==
    ASSUME NEW a \in Address, NEW b \in Address, ReverseName(a) = ReverseName(b),
           ReverseName(a) # NoName
    PROVE  a = b
  <1>1. a.version \in {4, 6} /\ b.version \in {4, 6}
        /\ a = [version |-> a.version, parts |-> a.parts]
        /\ b = [version |-> b.version, parts |-> b.parts]
    BY DEF Address
  <1>2. ASSUME a.version = 4, b.version = 4 PROVE a.parts = b.parts
    <2>0. Reversed(ReverseName(a), a.parts) /\ Reversed(ReverseName(a), b.parts)
      BY <1>2, NameOfVersion4
    <2>1. PICK p, q, x : p = a.parts /\ q = b.parts /\ Reversed(x, p) /\ Reversed(x, q)
      BY <2>0
    <2>2. /\ p \in Seq(Int) /\ q \in Seq(Int) /\ Len(p) = 4 /\ Len(q) = 4
          /\ \A j \in 1..4 : x[j] = p[5 - j]
          /\ \A j \in 1..4 : x[j] = q[5 - j]
      BY <2>1 DEF Reversed
    <2>3. ASSUME NEW i \in 1..4 PROVE p[i] = q[i]
      <3>1. PICK j \in 1..4 : 5 - j = i
        <4>1. 5 - i \in 1..4 /\ 5 - (5 - i) = i
          OBVIOUS
        <4>. QED BY <4>1
      <3>. QED BY <2>2, <3>1
    <2>. QED BY <2>1, <2>2, <2>3, SeqEqual
  <1>3. ASSUME a.version = 6, b.version = 6 PROVE a.parts = b.parts
    <2>1. PICK x : x = ReverseName(a) /\ x = ReverseName(b)
      OBVIOUS
    <2>2. PICK k \in Nat : /\ Len(a.parts) = k /\ a.parts \in Seq(Int)
                           /\ Behind(x, a.parts, <<Ip6Arpa>>, k)
      BY <1>3, <2>1, NameOfVersion6
    <2>3. PICK l \in Nat : /\ Len(b.parts) = l /\ b.parts \in Seq(Int)
                           /\ Behind(x, b.parts, <<Ip6Arpa>>, l)
      BY <1>3, <2>1, NameOfVersion6
    <2>4. Len(<<Ip6Arpa>>) = 1
      OBVIOUS
    <2>5. k + 1 = l + 1
      BY <2>2, <2>3, <2>4 DEF Behind
    <2>6. k = l
      BY <2>5
    <2>7. \A i \in 1..k : a.parts[i] = b.parts[i]
      BY <2>2, <2>3, <2>6 DEF Behind
    <2>. QED BY <2>2, <2>3, <2>6, <2>7, SeqEqual
  <1>4. ASSUME NEW c \in Address, NEW d \in Address, c.version = 4, d.version = 6,
               ReverseName(c) # NoName, ReverseName(c) = ReverseName(d)
        PROVE  FALSE
    <2>1. PICK x : x = ReverseName(c) /\ Len(x) = 5 /\ x[5] = InAddrArpa
      BY <1>4, NameOfVersion4 DEF Reversed
    <2>2. PICK q \in Seq(Int), k \in Nat : Len(q) = k /\ Behind(x, q, <<Ip6Arpa>>, k)
      BY <1>4, <2>1, NameOfVersion6
    <2>3. Len(<<Ip6Arpa>>) = 1 /\ <<Ip6Arpa>>[1] = Ip6Arpa /\ 1 \in 1..1
      OBVIOUS
    <2>4. k + 1 = 5 /\ x[k + 1] = Ip6Arpa
      BY <2>1, <2>2, <2>3 DEF Behind
    <2>. QED BY <2>1, <2>4 DEF InAddrArpa, Ip6Arpa
  <1>. QED BY <1>1, <1>2, <1>3, <1>4

\* A page holds rows of what it is taken of.
LEMMA PageType ==
    ASSUME NEW T, NEW rows \in Seq(T), NEW limit \in Nat, NEW offset \in Nat
    PROVE  Page(rows, limit, offset) \in Seq(T)
  <1>1. PICK l \in Nat : l = Len(rows)
    OBVIOUS
  <1>2. PICK last \in Nat : last = IF offset + limit < l THEN offset + limit ELSE l
    OBVIOUS
  <1>3. Page(rows, limit, offset) = SubSeq(rows, offset + 1, last) /\ last <= l
    BY <1>1, <1>2 DEF Page
  <1>. QED BY <1>1, <1>3

\* Who asks for the name of an address gets records under that name only.
LEMMA AnswersAreNamed ==
    ASSUME NEW rows \in Seq(TableRow), NEW ip, NEW i \in DOMAIN ReverseDns(rows, ip)
    PROVE  /\ ReverseName(ip) # NoName
           /\ ReverseDns(rows, ip)[i].name = ReverseName(ip)
  <1>1. ReverseName(ip) # NoName
    BY DEF ReverseDns
  <1>. DEFINE S == [id : Nat, name : {ReverseName(ip)}, type : {"PTR"}]
  <1>2. PICK found \in Seq(TableRow \cap S) : found = Select(rows, S)
    BY SelectType
  <1>3. ReverseDns(rows, ip) = Page(found, 100, 0)
    BY <1>1, <1>2 DEF ReverseDns, QueryRecords
  <1>4. PICK page \in Seq(TableRow \cap S) : page = Page(found, 100, 0)
    BY PageType
  <1>5. page[i] \in S
    BY <1>3, <1>4
  <1>. QED BY <1>1, <1>3, <1>4, <1>5

\* A zone of reverse names holds one network, and no record answers for two
\* addresses, whatever numbers the addresses have and however long the table is.
THEOREM ReverseNamesCorrect == Spec => []ReverseNamesFollowNetworks
  <1>1. ASSUME Asked PROVE ReverseNamesFollowNetworks
    <2>. SUFFICES ASSUME question.about = "addresses" PROVE ReverseNamesFollowNetworks
      BY DEF ReverseNamesFollowNetworks
    <2>1. PICK rows \in Tables, a \in Addresses, b \in Addresses :
             question = [about |-> "addresses", rows |-> rows, a |-> a, b |-> b]
      BY <1>1, AboutTells DEF Addressed
    <2>2. question.rows = rows /\ question.a = a /\ question.b = b
      BY <2>1
    <2>3. rows \in Seq(TableRow) /\ a \in Address /\ b \in Address
      BY QuestionsAssumption
    <2>4. ASSUME a.version = 4, ReverseName(a) # NoName, b.version = 4, ReverseName(b) # NoName,
                 NEW n \in 1..4
          PROVE  SubSeq(a.parts, 1, n) = SubSeq(b.parts, 1, n)
                   <=> Last(ReverseName(a), n + 1) = Last(ReverseName(b), n + 1)
      <3>1. Reversed(ReverseName(a), a.parts) /\ Reversed(ReverseName(b), b.parts)
        BY <2>3, <2>4, NameOfVersion4
      <3>. QED BY <2>4, <3>1, SuffixesAreNetworks
    <2>5. ASSUME a # b, NEW i \in DOMAIN ReverseDns(rows, a), NEW j \in DOMAIN ReverseDns(rows, b)
          PROVE  ReverseDns(rows, a)[i] # ReverseDns(rows, b)[j]
      <3>1. ReverseName(a) # NoName /\ ReverseDns(rows, a)[i].name = ReverseName(a)
        BY <2>3, AnswersAreNamed
      <3>2. ReverseDns(rows, b)[j].name = ReverseName(b)
        BY <2>3, AnswersAreNamed
      <3>3. ReverseName(a) # ReverseName(b)
        BY <2>3, <2>5, <3>1, NamesTellApart
      <3>. QED BY <3>1, <3>2, <3>3
    <2>. QED BY <2>2, <2>4, <2>5 DEF ReverseNamesFollowNetworks
  <1>. QED BY <1>1, AlwaysAsked, PTL

=============================================================================
