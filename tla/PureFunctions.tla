--------------------------- MODULE PureFunctions ---------------------------
(***************************************************************************)
(* The functions of the repository that keep no state, asked one question  *)
(* after another: the checks of webmentions, the data of DNS records,      *)
(* hybrid signatures and the levels of users.                              *)
(***************************************************************************)
EXTENDS WebmentionValidator, RecordData, HybridSignature, Leveling

CONSTANTS
    Configs, Mentions,         \* validators and what they are asked
    Contents, Tables,          \* records, and tables of rows
    Addresses,                 \* what may be looked up
    Signatures, PublicKeys,    \* bytes that may be taken for either
    Points, Activities         \* what users have done

ASSUME QuestionsAssumption ==
    /\ Configs \subseteq ValidationConfig /\ Mentions \subseteq Mention
    /\ Contents \subseteq Content /\ Tables \subseteq Seq(TableRow)
    /\ Addresses \subseteq Address
    /\ Signatures \subseteq Seq(Byte) /\ PublicKeys \subseteq Seq(Byte)
    /\ Points \subseteq Nat /\ Activities \subseteq Activity

VARIABLE question

None == [about |-> "nothing"]

Init == question = None

\* A webmention to validate.
AskMention ==
    /\ question = None
    /\ \E c \in Configs, m \in Mentions :
          question' = [about |-> "mention", config |-> c, mention |-> m]

\* Two records that are anchored.
AskContents ==
    /\ question = None
    /\ \E x, y \in Contents : question' = [about |-> "contents", x |-> x, y |-> y]

\* The names of two addresses.
AskAddresses ==
    /\ question = None
    /\ \E rows \in Tables, a, b \in Addresses :
          question' = [about |-> "addresses", rows |-> rows, a |-> a, b |-> b]

\* A signature to verify.
AskSignature ==
    /\ question = None
    /\ \E m \in Message, sig \in Signatures, pk \in PublicKeys :
          question' = [about |-> "signature", message |-> m, sig |-> sig, pk |-> pk]

\* A user at two moments.
AskLevel ==
    /\ question = None
    /\ \E xp, more \in Points, a, b \in Activities :
          question' = [about |-> "level", xp |-> xp, more |-> more, a |-> a, b |-> b]

Answer == question # None /\ question' = None

Next ==
    \/ AskMention \/ AskContents \/ AskAddresses
    \/ AskSignature \/ AskLevel \/ Answer

Spec == Init /\ [][Next]_question

-----------------------------------------------------------------------------
\* With every check on, the self-ping check refuses what is within one site and
\* nothing else, whatever subdomains and two-part top levels the hosts have.
OnlySelfPingsAreBlocked ==
    LET m == question.mention
        without == [question.config EXCEPT !.block_self_ping = FALSE]
    IN  /\ question.about = "mention"
        /\ question.config.require_source_target
        /\ question.config.block_self_ping
        => (Validate(question.config, m).valid <=>
              Validate(without, m).valid /\ ~ SameSite(m.source.host, m.target.host))

\* Different records have different hashes, although names, types, times to live
\* and values of any length are put into one text: provided that no name has a
\* colon, which validate_dns_record does not ask.
HashTellsRecordsApart ==
    LET x == question.x
        y == question.y
    IN  /\ question.about = "contents"
        /\ ValidateDnsRecord(x) /\ ValidateDnsRecord(y)
        /\ ~ Has(x.name, Colon) /\ ~ Has(y.name, Colon)
        /\ Preimage(x) = Preimage(y)
        => x = y

\* The names of IPv4 addresses are below one suffix exactly when the addresses
\* are in one network, so that a zone holds a network; and no record answers for
\* two addresses.  (The names of IPv6 addresses keep their order and do not.)
ReverseNamesFollowNetworks ==
    LET q == question
        Named(ip) == ip.version = 4 /\ ReverseName(ip) # NoName
    IN  q.about = "addresses" =>
        /\ Named(q.a) /\ Named(q.b) =>
             \A n \in 1..4 :
                SubSeq(q.a.parts, 1, n) = SubSeq(q.b.parts, 1, n)
                  <=> Last(ReverseName(q.a), n + 1) = Last(ReverseName(q.b), n + 1)
        /\ q.a # q.b =>
             \A i \in DOMAIN ReverseDns(q.rows, q.a), j \in DOMAIN ReverseDns(q.rows, q.b) :
                ReverseDns(q.rows, q.a)[i] # ReverseDns(q.rows, q.b)[j]

\* Both implementations of the hybrid scheme accept the same bytes: those of a
\* key pair's two signatures of the message, under its two public keys.
HybridNeedsBoth ==
    LET q == question
    IN  q.about = "signature" =>
        /\ LibraryAccepts(q.message, q.sig, q.pk) <=> SignedByBoth(q.message, q.sig, q.pk)
        /\ DnssecAccepts(q.message, q.sig, q.pk) <=> SignedByBoth(q.message, q.sig, q.pk)

\* No level is lost by doing more, none is skipped, and nobody is stuck: what the
\* next level still asks of a user can be done at this one.
LevelsAreEarned ==
    LET q == question
        level == CalculateLevel(q.xp, q.a)
        next == Requirements[level + 1]
    IN  q.about = "level" =>
        /\ AtLeast(q.b, q.a) /\ q.more >= q.xp => CalculateLevel(q.more, q.b) >= level
        /\ \A L \in 1..level : MeetsRequirements(L, q.a) /\ q.xp >= Thresholds[L]
        /\ level < 5 => /\ next.organized > q.a.organized => CanCreateEvents(level)
                        /\ next.mentees > q.a.mentees => CanMentor(level)

=============================================================================
