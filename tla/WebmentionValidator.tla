------------------------ MODULE WebmentionValidator ------------------------
(***************************************************************************)
(* The checks a webmention passes before it is rate limited: validator.rs  *)
(* in indieweb2-bastion/services/webmention-rate-limiter/src/.  There is   *)
(* no state: each is a function of the request and the configuration.      *)
(*                                                                         *)
(* A parameter is absent, blank, no URL, or a URL with its scheme and its  *)
(* host; a host is the sequence of its labels in lower case.  An address   *)
(* is a host of one label, as is any host without a dot.                   *)
(***************************************************************************)
EXTENDS Integers, Sequences

ValidationConfig ==
    [types : SUBSET STRING, require_source_target : BOOLEAN, block_self_ping : BOOLEAN]

DefaultConfig ==
    [types |-> {"form"}, require_source_target |-> TRUE, block_self_ping |-> TRUE]

\* No parameter, one of blanks only, and one that is not a URL.
Absent == [form |-> "absent"]
Blank == [form |-> "blank"]
Garbage == [form |-> "garbage"]

Url(scheme, host) == [form |-> "url", scheme |-> scheme, host |-> host]

NoHost == <<>>

Parameter ==
    {Absent, Blank, Garbage} \cup [form : {"url"}, scheme : STRING, host : Seq(STRING)]

Mention == [type : STRING, source : Parameter, target : Parameter]

Valid == [valid |-> TRUE]

Invalid(error, param) == [valid |-> FALSE, error |-> error, param |-> param]

-----------------------------------------------------------------------------
TWO_PART_TLDS ==
    ({"co", "org", "me"} \X {"uk"}) \cup ({"co"} \X {"nz", "jp", "kr", "za"})
        \cup ({"com", "net", "org"} \X {"au"}) \cup {<<"com", "br">>}

IsTwoPartTld(suffix) == suffix \in TWO_PART_TLDS

\* The last n labels.
Last(host, n) == SubSeq(host, Len(host) - n + 1, Len(host))

\* Variant: a two-part top level is taken for the domain.
RegistrableDomain_TwoLabels(host) == IF Len(host) <= 2 THEN host ELSE Last(host, 2)

\* extract_registrable_domain
RegistrableDomain(host) ==
    IF Len(host) <= 2 THEN host
    ELSE IF IsTwoPartTld(Last(host, 2)) THEN Last(host, 3) ELSE Last(host, 2)

-----------------------------------------------------------------------------
\* validate_content_type: the media type alone counts, without its parameters.
ValidateContentType(config, type) ==
    IF type \in config.types THEN Valid ELSE Invalid("InvalidContentType", "type")

Missing(parameter) == parameter.form \in {"absent", "blank"}

IsUrl(parameter) == parameter.form = "url"

\* Of an accepted scheme, with a host.
IsWeb(url) == url.scheme \in {"http", "https"} /\ url.host # NoHost

SelfPing(source, target) == RegistrableDomain(source.host) = RegistrableDomain(target.host)

\* validate_source_target: the first check that fails is reported.
ValidateSourceTarget(config, source, target) ==
    IF ~ config.require_source_target THEN Valid
    ELSE IF Missing(source) THEN Invalid("MissingParameter", "source")
    ELSE IF Missing(target) THEN Invalid("MissingParameter", "target")
    ELSE IF ~ IsUrl(source) THEN Invalid("InvalidUrl", "source")
    ELSE IF ~ IsUrl(target) THEN Invalid("InvalidUrl", "target")
    ELSE IF ~ IsWeb(source) THEN Invalid("InvalidUrl", "source")
    ELSE IF ~ IsWeb(target) THEN Invalid("InvalidUrl", "target")
    ELSE IF config.block_self_ping /\ SelfPing(source, target)
         THEN Invalid("SelfPingBlocked", "source")
    ELSE Valid

Validate(config, m) ==
    LET type == ValidateContentType(config, m.type)
    IN  IF type.valid THEN ValidateSourceTarget(config, m.source, m.target) ELSE type

-----------------------------------------------------------------------------
(***************************************************************************)
(* What the checks are for.                                                *)
(***************************************************************************)
\* What can be registered: a name below a top level of one or of two parts.
Registrable(name) ==
    \/ Len(name) = 2 /\ ~ IsTwoPartTld(name)
    \/ Len(name) = 3 /\ IsTwoPartTld(Last(name, 2))

\* Two hosts belong to one site when they are the same, or below one name that
\* can be registered.
SameSite(a, b) ==
    \/ a = b
    \/ \E n \in {2, 3} :
          /\ n <= Len(a) /\ n <= Len(b)
          /\ Last(a, n) = Last(b, n)
          /\ Registrable(Last(a, n))

=============================================================================
