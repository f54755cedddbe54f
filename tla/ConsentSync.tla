---------------------------- MODULE ConsentSync ----------------------------
(***************************************************************************)
(* The WordPress plugin (indieweb2-bastion/wordpress/indieweb2-consent.php)*)
(* in front of ConsentApi.  The preferences are kept twice: in the user's  *)
(* meta data, and in the consent table, to which every save, profile       *)
(* update and registration posts them once.  The table knows no users: a   *)
(* post names an identity, the URL in the user's profile, which the user   *)
(* may change at any time and two users may share.                         *)
(*                                                                         *)
(* A session is a PHP request.  Any number may run for the same user, what *)
(* one of them reads is kept until it posts, and no other client writes to *)
(* the consent service.                                                    *)
(***************************************************************************)
EXTENDS ConsentApi

CONSTANTS
    User,        \* accounts of the site
    Session,     \* PHP requests that may run at the same time
    Unreliable,  \* TRUE when a post may be lost or answered too late (10 s)
    MaxVisits    \* bound on the number of page requests

Nothing == "none"

ASSUME SyncAssumption ==
    Unreliable \in BOOLEAN /\ MaxVisits \in Nat /\ Nothing \notin Identity

VARIABLES
    url,      \* what get_user_identity returns, Nothing for one not registered
    meta,     \* indieweb2_dns_operations of each user
    sessions,
    visits,   \* page requests so far, bounded by MaxVisits
    held,     \* who has had which identity, history only
    given,    \* <<u, i>> when u had, or has had, identity i while the preference
              \* of u was "on", history only
    due       \* what the table may show of an identity after the posts for it
              \* that were answered and those that may still arrive, history only

pvars == <<url, meta, sessions, visits, held, given, due>>

svars == <<vars, pvars>>

\* since: what was posted for the identity while this session posts.  History only.
SessionState ==
    [pc : {"idle", "sync", "post", "wait"}, user : User \cup {Nothing},
     identity : Identity \cup {Nothing}, choice : Choice \cup {Nothing},
     call : Call \cup {Nothing}, since : SUBSET Choice]

Idle ==
    [pc |-> "idle", user |-> Nothing, identity |-> Nothing, choice |-> Nothing,
     call |-> Nothing, since |-> {}]

Default == "off"

\* Some users may have been there before the plugin.
SInit ==
    /\ Init
    /\ url \in [User -> Identity \cup {Nothing}]
    /\ meta = [u \in User |-> Default]
    /\ sessions = [s \in Session |-> Idle]
    /\ visits = 0
    /\ held = {p \in User \X Identity : url[p[1]] = p[2]}
    /\ given = {}
    /\ due = [i \in Identity |-> {Nothing}]

\* The next request for a page.
Visit == visits < MaxVisits /\ visits' = visits + 1

\* It calls sync_consent for user u.  The identity is that of the user's data that
\* WordPress has read or written in this request, and keeps until its end.
Begin(s, u, i) ==
    /\ sessions[s].pc = "idle"
    /\ sessions' = [sessions EXCEPT ![s] =
                      [Idle EXCEPT !.pc = "sync", !.user = u, !.identity = i]]

\* Variant: what is missing in the form is stored as it is.
SaveForm_NoDefault(s, u, choice) ==
    /\ url[u] # Nothing
    /\ Begin(s, u, url[u])
    /\ Visit
    /\ meta' = [meta EXCEPT ![u] = IF choice = "on" THEN choice ELSE ""]
    /\ given' = given \cup {p \in held : p[1] = u /\ choice = "on"}
    /\ UNCHANGED <<vars, url, held, due>>

\* render_user_consent_page, with a submitted form.
SaveForm(s, u, choice) ==
    /\ url[u] # Nothing
    /\ Begin(s, u, url[u])
    /\ Visit
    /\ meta' = [meta EXCEPT ![u] = choice]
    /\ given' = given \cup {p \in held : p[1] = u /\ choice = "on"}
    /\ UNCHANGED <<vars, url, held, due>>

\* User u has identity i from now on.
Move(u, i) ==
    /\ Visit
    /\ url' = [url EXCEPT ![u] = i]
    /\ held' = held \cup {<<u, i>>}
    /\ given' = IF meta[u] = "on" THEN given \cup {<<u, i>>} ELSE given
    /\ UNCHANGED <<vars, meta, due>>

\* sync_consent_on_profile_update: nothing is posted when the option is off, and
\* never anything for the identity that u had before.
UpdateProfile(s, u, i) ==
    /\ url[u] # Nothing
    /\ Move(u, i)
    /\ Begin(s, u, i) \/ UNCHANGED sessions

\* sync_consent_on_registration; the meta data of a new user are the defaults.
Register(s, u, i) ==
    /\ url[u] = Nothing
    /\ Move(u, i)
    /\ Begin(s, u, i)

\* Sessions about to post for i or not answered yet, and handlers that run for i,
\* their session having given them up or not.
Posting(i) == {t \in Session : sessions[t].pc \in {"post", "wait"} /\ sessions[t].identity = i}

Running(i) == {c \in Call : calls[c].pc # "idle" /\ calls[c].identity = i}

\* Session s is going to post choice for its identity.
Prepare(s, choice) ==
    LET i == sessions[s].identity
        saved == meta[sessions[s].user]
        pending == {sessions[t].choice : t \in Posting(i)} \cup {calls[c].choice : c \in Running(i)}
    IN  /\ sessions[s].pc = "sync"
        /\ sessions' = [t \in Session |->
                          IF t = s
                          THEN [sessions[s] EXCEPT !.pc = "post", !.choice = choice,
                                                   !.since = pending \cup {saved}]
                          ELSE IF t \in Posting(i)
                               THEN [sessions[t] EXCEPT !.since = @ \cup {saved}]
                               ELSE sessions[t]]
        /\ due' = [due EXCEPT ![i] = @ \cup {saved}]
        /\ UNCHANGED <<vars, url, meta, visits, held, given>>

\* Variant: the default is "on", as it is for the webmentions.
GetPreferences_DefaultOn(s) ==
    Prepare(s, IF meta[sessions[s].user] = Default THEN "on" ELSE meta[sessions[s].user])

\* sync_consent reads the user's meta data.
GetPreferences(s) == Prepare(s, meta[sessions[s].user])

\* Variant: wp_remote_post does not block, and reports success at once.
Post_NotBlocking(s, c) ==
    /\ sessions[s].pc = "post"
    /\ \A t \in Session : sessions[t].call # c
    /\ Receive(c, "store", sessions[s].identity, sessions[s].choice)
    /\ sessions' = [sessions EXCEPT ![s] = Idle]
    /\ due' = [due EXCEPT ![sessions[s].identity] = sessions[s].since]
    /\ UNCHANGED <<url, meta, visits, held, given>>

\* The post arrives at a handler that no session waits for.
Post(s, c) ==
    /\ sessions[s].pc = "post"
    /\ \A t \in Session : sessions[t].call # c
    /\ Receive(c, "store", sessions[s].identity, sessions[s].choice)
    /\ sessions' = [sessions EXCEPT ![s].pc = "wait", ![s].call = c]
    /\ UNCHANGED <<url, meta, visits, held, given, due>>

\* sync_consent returns, and the page prints its notice whatever it returned.
Return(s) == sessions' = [sessions EXCEPT ![s] = Idle]

\* Once a post is answered with success, what was there before it must not be
\* seen again.
Answered(s) ==
    LET call == calls[sessions[s].call]
    IN  /\ sessions[s].pc = "wait"
        /\ call.pc = "idle"
        /\ Return(s)
        /\ due' = IF call.status = "stored"
                  THEN [due EXCEPT ![sessions[s].identity] = sessions[s].since]
                  ELSE due
        /\ UNCHANGED <<vars, url, meta, visits, held, given>>

\* The post does not arrive, or its answer is late and the call runs on.
GiveUp(s) ==
    /\ Unreliable
    /\ sessions[s].pc \in {"post", "wait"}
    /\ Return(s)
    /\ UNCHANGED <<vars, url, meta, visits, held, given, due>>

Page(s) ==
    \/ \E u \in User, choice \in Choice : SaveForm(s, u, choice)
    \/ \E u \in User, i \in Identity : UpdateProfile(s, u, i) \/ Register(s, u, i)
    \/ GetPreferences(s)
    \/ \E c \in Call : Post(s, c)
    \/ Answered(s) \/ GiveUp(s)

Serve == (\E c \in Call : Step(c)) /\ UNCHANGED pvars

SNext == (\E s \in Session : Page(s)) \/ Serve

SSpec == SInit /\ [][SNext]_svars

-----------------------------------------------------------------------------
\* Type correctness.
STypeOK ==
    /\ TypeOK
    /\ url \in [User -> Identity \cup {Nothing}]
    /\ meta \in [User -> Choice] /\ visits \in 0..MaxVisits
    /\ sessions \in [Session -> SessionState]
    /\ held \subseteq User \X Identity /\ given \subseteq User \X Identity
    /\ due \in [Identity -> SUBSET (Choice \cup {Nothing})]

\* The consent table allows DNS operations for an identity only if somebody whose
\* identity it is or was has had the preference "on" since then: not for the new
\* URL of one who had turned it off before, and not by what is posted late, twice
\* or after a profile update.
ConsentWasGiven ==
    \A id \in DOMAIN records :
        records[id].dnsOperations = "on" =>
            \E u \in User : <<u, records[id].identity>> \in given

\* What the table says of an identity.
Shown(i) ==
    IF Of(i) = {} THEN {Nothing} ELSE {records[id].dnsOperations : id \in Of(i)}

\* README.adoc of the plugin: "Consent is automatically synced when: - User saves
\* their consent preferences page".  The table shows the choice that was posted
\* last for the identity, or one whose post overlapped with that: once a post has
\* been answered with success, no choice comes back whose post was over before.  A
\* post that was given up is not over while its handler runs.
LastSaveIsStored ==
    ~ Duplicates => \A i \in Identity : Shown(i) \subseteq due[i]

=============================================================================
