-------------------------- MODULE TimelockedQuorum --------------------------
(***************************************************************************)
(* What the governance of DNS mutations promises, whatever its statuses,   *)
(* lists and clocks: an item is opened with a quorum, a delay and an       *)
(* electorate; members of the electorate endorse it; it is carried out at  *)
(* most once, and only when the endorsers reach the quorum and the delay   *)
(* has passed since it was opened, on a clock that never goes back but may *)
(* leap ahead of real time.  A restart forgets every item.                 *)
(***************************************************************************)
EXTENDS Naturals, FiniteSets

CONSTANTS Item, Member

VARIABLES
    now,    \* real time and all leaps
    items   \* the items opened so far and what became of them

qvars == <<now, items>>

Forgotten == [stage |-> "forgotten"]

QInit ==
    /\ now = 0
    /\ items = [i \in {} |-> Forgotten]

OpenedNow ==
    [stage : {"open"}, opened : {now}, quorum : Nat, delay : Nat,
     electorate : SUBSET Member, endorsers : {{who} : who \in Member}]

\* The rule of an item is fixed when it is opened; its opener endorses it.
Open(i) ==
    /\ i \notin DOMAIN items
    /\ DOMAIN items' = DOMAIN items \cup {i}
    /\ \A j \in DOMAIN items : items'[j] = items[j]
    /\ items'[i] \in OpenedNow
    /\ items'[i].endorsers \subseteq items'[i].electorate
    /\ now' = now

Endorse(i, who) ==
    /\ i \in DOMAIN items
    /\ items[i].stage = "open"
    /\ who \in items[i].electorate \ items[i].endorsers
    /\ items' = [items EXCEPT ![i].endorsers = @ \cup {who}]
    /\ now' = now

CarryOut(i) ==
    /\ i \in DOMAIN items
    /\ items[i].stage = "open"
    /\ Cardinality(items[i].endorsers) >= items[i].quorum
    /\ now >= items[i].opened + items[i].delay
    /\ items' = [items EXCEPT ![i].stage = "done"]
    /\ now' = now

ForgetAll ==
    /\ items' = [i \in DOMAIN items |-> Forgotten]
    /\ now' = now

Pass ==
    /\ now' \in Nat /\ now' > now
    /\ items' = items

QNext ==
    \/ \E i \in Item : Open(i) \/ CarryOut(i)
    \/ \E i \in Item, who \in Member : Endorse(i, who)
    \/ ForgetAll
    \/ Pass

QSpec == QInit /\ [][QNext]_qvars

=============================================================================
