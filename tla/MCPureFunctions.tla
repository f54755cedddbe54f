--------------------------- MODULE MCPureFunctions ---------------------------
(***************************************************************************)
(* Questions for PureFunctions, each set around the boundaries of the      *)
(* functions: one and two-part top levels and their subdomains, symbols    *)
(* that may be taken for a neighbouring field, halves and lengths of       *)
(* signatures that do not fit, points and activities at a threshold.       *)
(***************************************************************************)
EXTENDS PureFunctions

MCConfigs ==
    {[DefaultConfig EXCEPT !.require_source_target = require, !.block_self_ping = block] :
        require, block \in BOOLEAN}

Hosts ==
    {<<"example", "com">>, <<"www", "example", "com">>, <<"other", "com">>,
     <<"co", "uk">>, <<"a", "co", "uk">>, <<"b", "a", "co", "uk">>, <<"c", "co", "uk">>,
     <<"localhost">>}

Parameters ==
    {Absent, Blank, Garbage, Url("mailto", NoHost), Url("ftp", <<"example", "com">>)}
        \cup {Url("https", host) : host \in Hosts}

MCMentions ==
    [type : {"form", "json"}, source : Parameters, target : Parameters]

MCContents ==
    [name : {<<>>, <<7>>, <<7, 0>>, <<7, Colon>>}, type : {"A", "AAAA", "SRV"},
     ttl : {-1, 3, 5}, value : {<<>>, <<3>>, <<9>>, <<3, 9>>, <<300>>, <<Colon, 9>>}]

MCAddresses ==
    {Ip(4, <<10, 0, 0, 1>>), Ip(4, <<10, 0, 0, 2>>), Ip(4, <<10, 1, 0, 1>>),
     Ip(4, <<1, 0, 0, 10>>), Ip(4, <<10, 0, 0>>), Ip(6, <<10, 0, 0, 1>>), Ip(6, <<0, 0, 1>>)}

Row(id, ip, type) == [id |-> id, name |-> ReverseName(ip), type |-> type]

MCTables ==
    LET one == Ip(4, <<10, 0, 0, 1>>)
        two == Ip(4, <<1, 0, 0, 10>>)
        six == Ip(6, <<0, 0, 1>>)
    IN  {<<>>,
         <<Row(1, one, "PTR"), Row(2, one, "A"), Row(3, two, "PTR"), Row(4, one, "PTR")>>,
         <<Row(1, six, "PTR"), Row(2, two, "PTR"), Row(3, two, "A"), Row(4, one, "PTR"),
           Row(5, two, "PTR")>>}

\* One byte too few, one too many, and the halves in the other order.
Damaged(bytes, n) ==
    {bytes, First(bytes, Len(bytes) - 1), Append(bytes, bytes[1]),
     Rest(bytes, n) \o First(bytes, n)}

MCSignatures ==
    UNION {Damaged(Ed448Sign(k, m) \o Dil5Sign(l, n), ED448_SIG_LEN) :
              k, l \in Key, m, n \in Message}

MCPublicKeys ==
    UNION {Damaged(Ed448Vk(k) \o Dil5Pk(l), ED448_PK_LEN) : k, l \in Key}

MCPoints == {0, 99, 100, 500, 1499, 1500, 4000, 9999, 10000}

MCActivities ==
    {Requirements[L] : L \in LevelNumber}
        \cup {Requirement(20, 10, 10, 3), Requirement(20, 5, 10, 5),
              Requirement(3, 0, 0, 9), Requirement(10, 4, 5, 5)}

=============================================================================
