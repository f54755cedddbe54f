----------------------------- MODULE Governance -----------------------------
(***************************************************************************)
(* The mutation governance of the GraphQL DNS API: PolicyEnforcer in       *)
(* indieweb2-bastion/graphql-dns-api/src/policy.rs, its three resolvers    *)
(* (resolvers.rs) and its construction at start (main.rs).                 *)
(*                                                                         *)
(* Every resolver holds the enforcer's write lock for the whole call, so a *)
(* call is one action.  A call that returns an error changes nothing: it   *)
(* is a stuttering step and its condition appears, negated, as a guard.    *)
(*                                                                         *)
(* Two clocks are kept.  wallClock is SystemTime::now(), which the code    *)
(* reads and an administrator or NTP may set back or forward; uptime is    *)
(* the real time that has passed, and leaps the time by which the wall     *)
(* clock was set forward in all: the code sees neither.  One tick stands   *)
(* for the unit in which the timelocks are given.                          *)
(***************************************************************************)
EXTENDS Integers, Sequences, FiniteSets

CONSTANTS
    Identity,      \* the identities a request context may carry
    MutationName,  \* the mutation names a client may send
    ProposalId,    \* the UUIDs that may be drawn
    Policies,      \* the policies a start of the server may load
    MaxUptime,     \* bound on the modelled time
    MaxLeaps       \* bound on the time by which the wall clock is set forward

VARIABLES
    policy,        \* PolicyEnforcer.policy
    proposals,     \* PolicyEnforcer.proposals, a map from ids to proposals
    wallClock,     \* what SystemTime::now() returns
    uptime,        \* real time, history only
    leaps,         \* time by which the wall clock was set forward, history only
    bornAt,        \* the moment at which an id was proposed, history only
    executions     \* what was marked as executed, in order, history only

vars == <<policy, proposals, wallClock, uptime, leaps, bornAt, executions>>

Role == [members : SUBSET Identity, privileges : SUBSET MutationName]

MutationPolicy == [approvals : Nat, timelock : Nat]

\* A policy maps the names it governs to their requirements.
IsPolicy(p) ==
    /\ DOMAIN p.mutations \subseteq MutationName
    /\ p.mutations \in [DOMAIN p.mutations -> MutationPolicy]
    /\ p.roles \subseteq Role

\* The policy of main.rs when policy.ncl cannot be loaded: nothing is granted.
DefaultPolicy == [mutations |-> [m \in {} |-> 0], roles |-> {}]

Loadable == Policies \cup {DefaultPolicy}

ASSUME PoliciesAssumption == \A p \in Policies : IsPolicy(p)
ASSUME ClockAssumption == MaxUptime \in Nat /\ MaxLeaps \in Nat

\* Rejected exists in the enumeration; no code assigns it.
ProposalStatus == {"Pending", "TimelockActive", "Approved", "Rejected", "Executed"}

MutationProposal ==
    [mutation : MutationName, proposer : Identity, proposedAt : Nat,
     timelockUntil : Nat, approvals : Seq(Identity), requiredApprovals : Nat,
     status : ProposalStatus]

-----------------------------------------------------------------------------
Live == DOMAIN proposals

\* A moment of the history.
Moment == [uptime : Nat, leaps : Nat]
Now == [uptime |-> uptime, leaps |-> leaps]

\* The most the wall clock can have gained by then.
Elapsed(moment) == moment.uptime + moment.leaps

Approvers(p) == {p.approvals[i] : i \in 1..Len(p.approvals)}

HasPrivilege(who, privilege) ==
    \E r \in policy.roles : who \in r.members /\ privilege \in r.privileges

\* Variant: one approval is never enough when there is no timelock.
InitialStatus_AlwaysPending(rule) ==
    IF rule.timelock > 0 THEN "TimelockActive" ELSE "Pending"

InitialStatus(rule) ==
    IF rule.timelock > 0 THEN "TimelockActive"
    ELSE IF rule.approvals <= 1 THEN "Approved"
    ELSE "Pending"

\* Variant: the name is pushed where the proposer should be.
NewProposal_SwappedArguments(m, who) ==
    LET rule == policy.mutations[m]
    IN  [mutation |-> m, proposer |-> who, proposedAt |-> wallClock,
         timelockUntil |-> wallClock + rule.timelock,
         approvals |-> <<m>>,
         requiredApprovals |-> rule.approvals,
         status |-> InitialStatus(rule)]

NewProposal(m, who) ==
    LET rule == policy.mutations[m]
    IN  [mutation |-> m, proposer |-> who, proposedAt |-> wallClock,
         timelockUntil |-> wallClock + rule.timelock,
         approvals |-> <<who>>,
         requiredApprovals |-> rule.approvals,
         status |-> InitialStatus(rule)]

\* Variant: the status follows the approvals whatever it was.
WithApproval_AnyStatus(p, who) ==
    LET approvals == Append(p.approvals, who)
    IN  [p EXCEPT !.approvals = approvals,
                  !.status = IF Len(approvals) >= p.requiredApprovals
                             THEN "Approved" ELSE p.status]

\* Variant: one approval more than required is waited for.
WithApproval_OffByOne(p, who) ==
    LET approvals == Append(p.approvals, who)
    IN  [p EXCEPT !.approvals = approvals,
                  !.status = IF /\ Len(approvals) > p.requiredApprovals
                                /\ p.status = "Pending"
                             THEN "Approved" ELSE p.status]

\* The proposal after one more approval: the list grows, and only a proposal
\* that is still Pending becomes Approved when the list is long enough.
WithApproval(p, who) ==
    LET approvals == Append(p.approvals, who)
    IN  [p EXCEPT !.approvals = approvals,
                  !.status = IF /\ Len(approvals) >= p.requiredApprovals
                                /\ p.status = "Pending"
                             THEN "Approved" ELSE p.status]

\* Variant: the timelock ends one unit early.
CanExecute_Early(p) ==
    /\ p.status \in {"Approved", "TimelockActive"}
    /\ Len(p.approvals) >= p.requiredApprovals
    /\ wallClock + 1 >= p.timelockUntil

\* Variant: a served timelock is taken for consent.
CanExecute_NoQuorum(p) ==
    /\ p.status \in {"Approved", "TimelockActive"}
    /\ wallClock >= p.timelockUntil

CanExecute(p) ==
    /\ p.status \in {"Approved", "TimelockActive"}
    /\ Len(p.approvals) >= p.requiredApprovals
    /\ wallClock >= p.timelockUntil

-----------------------------------------------------------------------------
NoProposals == [id \in {} |-> 0]

Init ==
    /\ policy \in Loadable
    /\ proposals = NoProposals
    /\ wallClock = 0
    /\ uptime = 0
    /\ leaps = 0
    /\ bornAt = [id \in {} |-> 0]
    /\ executions = <<>>

ProposeMutation(who, m, id) ==
    /\ id \notin DOMAIN bornAt              \* a fresh version 4 UUID
    /\ HasPrivilege(who, m)
    /\ m \in DOMAIN policy.mutations
    /\ uptime + policy.mutations[m].timelock <= MaxUptime         \* bound
    /\ proposals' = [i \in Live \cup {id} |->
                        IF i = id THEN NewProposal(m, who) ELSE proposals[i]]
    /\ bornAt' = [i \in DOMAIN bornAt \cup {id} |->
                        IF i = id THEN Now ELSE bornAt[i]]
    /\ UNCHANGED <<policy, wallClock, uptime, leaps, executions>>

\* Variant: an identity may be listed twice.
ApproveProposal_Twice(who, id) ==
    /\ id \in Live
    /\ HasPrivilege(who, proposals[id].mutation)
    /\ Len(proposals[id].approvals) < 2
    /\ proposals' = [proposals EXCEPT ![id] = WithApproval(@, who)]
    /\ UNCHANGED <<policy, wallClock, uptime, leaps, bornAt, executions>>

\* There is no check of the status: an executed proposal can be approved too.
ApproveProposal(who, id) ==
    /\ id \in Live
    /\ HasPrivilege(who, proposals[id].mutation)
    /\ who \notin Approvers(proposals[id])
    /\ proposals' = [proposals EXCEPT ![id] = WithApproval(@, who)]
    /\ UNCHANGED <<policy, wallClock, uptime, leaps, bornAt, executions>>

\* Any caller may execute: the resolver asks for no identity.
ExecuteProposal(id) ==
    /\ id \in Live
    /\ CanExecute(proposals[id])
    /\ proposals' = [proposals EXCEPT ![id].status = "Executed"]
    /\ executions' = Append(executions,
                            [id |-> id, at |-> Now, under |-> policy,
                             mutation |-> proposals[id].mutation,
                             approvers |-> Approvers(proposals[id])])
    /\ UNCHANGED <<policy, wallClock, uptime, leaps, bornAt>>

\* Variant: the proposals outlive the policy they were made under.
Restart_KeepsProposals ==
    /\ policy' \in Loadable
    /\ UNCHANGED <<proposals, wallClock, uptime, leaps, bornAt, executions>>

\* The process ends and starts again: a policy is loaded, or the default taken
\* when that fails, and the proposals, kept in memory only, are gone.
Restart ==
    /\ policy' \in Loadable
    /\ proposals' = NoProposals
    /\ UNCHANGED <<wallClock, uptime, leaps, bornAt, executions>>

Tick ==
    /\ uptime < MaxUptime
    /\ uptime' = uptime + 1
    /\ wallClock' = wallClock + 1
    /\ UNCHANGED <<policy, proposals, leaps, bornAt, executions>>

SetClockBack ==
    /\ wallClock' \in 0 .. wallClock - 1
    /\ UNCHANGED <<policy, proposals, uptime, leaps, bornAt, executions>>

\* Also when that only corrects a clock which was set back.
SetClockForward ==
    /\ \E step \in 1 .. MaxLeaps - leaps :
          /\ wallClock' = wallClock + step
          /\ leaps' = leaps + step
    /\ UNCHANGED <<policy, proposals, uptime, bornAt, executions>>

Next ==
    \/ \E who \in Identity, m \in MutationName, id \in ProposalId :
            ProposeMutation(who, m, id)
    \/ \E who \in Identity, id \in ProposalId : ApproveProposal(who, id)
    \/ \E id \in ProposalId : ExecuteProposal(id)
    \/ Restart
    \/ Tick
    \/ SetClockBack
    \/ SetClockForward

Spec == Init /\ [][Next]_vars

\* Clients that keep calling executeMutation, on a clock that runs on.
FairSpec ==
    /\ Spec
    /\ WF_vars(Tick)
    /\ \A id \in ProposalId : WF_vars(ExecuteProposal(id))

-----------------------------------------------------------------------------
(***************************************************************************)
(* Properties.                                                             *)
(***************************************************************************)

Execution ==
    [id : ProposalId, at : Moment, under : Loadable, mutation : MutationName,
     approvers : SUBSET Identity]

\* Type correctness of the enforcer's fields and of the history.
TypeOK ==
    /\ policy \in Loadable
    /\ Live \subseteq ProposalId
    /\ proposals \in [Live -> MutationProposal]
    /\ wallClock \in Nat
    /\ uptime \in Nat
    /\ leaps \in Nat
    /\ DOMAIN bornAt \subseteq ProposalId
    /\ bornAt \in [DOMAIN bornAt -> Moment]
    /\ executions \in Seq(Execution)

\* The identities that a policy lets take part in deciding on a mutation.
Electorate(p, m) ==
    {who \in Identity :
        \E r \in p.roles : who \in r.members /\ m \in r.privileges}

\* Whatever was executed had been approved by as many different identities as
\* the policy in force asks for, each with the privilege under that policy.
\* The code counts a list: approve_proposal must keep it free of repetitions.
QuorumAtExecution ==
    \A n \in 1..Len(executions) :
        LET e == executions[n]
        IN  /\ e.mutation \in DOMAIN e.under.mutations
            /\ e.approvers \subseteq Electorate(e.under, e.mutation)
            /\ Cardinality(e.approvers) >= e.under.mutations[e.mutation].approvals

\* A mutation is executed before its timelock has passed in real time only if the
\* wall clock, which the code compares with timelock_until, was set forward since
\* the proposal, and no earlier than by what it was set forward: setting it back,
\* before or after, gains nothing.
TimelockServed ==
    \A n \in 1..Len(executions) :
        LET e == executions[n]
            born == bornAt[e.id]
            timelock == e.under.mutations[e.mutation].timelock
        IN  e.at.uptime - born.uptime >= timelock - (e.at.leaps - born.leaps)

\* No proposal is executed twice, although approvals may still arrive after
\* its execution and approve_proposal rewrites the status.
ExecutedOnce ==
    \A i, j \in 1..Len(executions) :
        executions[i].id = executions[j].id => i = j

\* A proposal is not stranded: Pending, from which nothing can execute, is left
\* as soon as the approvals suffice, and Approved is never entered before.
StatusFollowsApprovals ==
    \A id \in Live :
        LET p == proposals[id]
        IN  /\ p.status = "Pending" => Len(p.approvals) < p.requiredApprovals
            /\ p.status \in {"Approved", "Executed"}
                  => Len(p.approvals) >= p.requiredApprovals

\* A live proposal is held to the requirements of the policy that is loaded,
\* never to those of a policy of an earlier start of the server
\* (NICKEL-INTEGRATION.adoc: "Never reduce approvals below policy minimum").
PolicyMinimumKept ==
    \A id \in Live :
        LET p == proposals[id]
        IN  /\ p.mutation \in DOMAIN policy.mutations
            /\ p.requiredApprovals = policy.mutations[p.mutation].approvals
            /\ Approvers(p) \subseteq Electorate(policy, p.mutation)

\* While a proposal lives its approvals are only added to, its terms do not
\* change, and Executed is final.
ProposalsOnlyAdvance ==
    [][\A id \in Live \cap Live' :
          LET p == proposals[id]
              q == proposals'[id]
          IN  /\ SubSeq(q.approvals, 1, Len(p.approvals)) = p.approvals
              /\ [q EXCEPT !.approvals = <<>>, !.status = "Pending"]
                    = [p EXCEPT !.approvals = <<>>, !.status = "Pending"]
              /\ p.status = "Executed" => q.status = "Executed"]_vars

\* What keeps a live proposal in order: its list of approvals has no repetition,
\* its timelock is the policy's, and since it was made the wall clock has gained
\* no more than real time and what it was set forward by.
ProposalInOrder(id) ==
    LET p == proposals[id]
    IN  /\ id \in DOMAIN bornAt
        /\ \A i, j \in 1..Len(p.approvals) :
              p.approvals[i] = p.approvals[j] => i = j
        /\ p.timelockUntil = p.proposedAt + policy.mutations[p.mutation].timelock
        /\ wallClock + Elapsed(bornAt[id]) <= Elapsed(Now) + p.proposedAt

\* What was executed had been proposed and, if it still lives, says so.
HistoryInOrder ==
    \A n \in 1..Len(executions) :
        LET id == executions[n].id
        IN  /\ id \in DOMAIN bornAt
            /\ id \in Live => proposals[id].status = "Executed"

\* The inductive invariant behind the safety properties above.
InductiveInv ==
    /\ TypeOK
    /\ PolicyMinimumKept
    /\ \A id \in Live : ProposalInOrder(id)
    /\ HistoryInOrder
    /\ QuorumAtExecution
    /\ TimelockServed
    /\ ExecutedOnce

\* The wall clock, if it is left alone, reaches the end of the timelock within the
\* modelled time.
WillBeServed(id) == wallClock + (MaxUptime - uptime) >= proposals[id].timelockUntil

\* A proposal with enough approvals is executed in the end, unless a restart
\* forgets it or the wall clock is set back too far: no status can hold it for
\* ever, and no timelock on a clock that runs.
EnoughApprovalsLeadToExecution ==
    \A id \in ProposalId :
        /\ id \in Live
        /\ Len(proposals[id].approvals) >= proposals[id].requiredApprovals
        /\ WillBeServed(id)
        ~> \/ id \notin Live
           \/ proposals[id].status = "Executed"
           \/ ~ WillBeServed(id)

-----------------------------------------------------------------------------
(***************************************************************************)
(* The enforcer implements a timelocked quorum.  The endorsers of an       *)
(* executed proposal are the approvers it had when it was executed, so a   *)
(* later approval is a stuttering step.                                    *)
(***************************************************************************)
EndorsersOf(id) ==
    IF proposals[id].status = "Executed"
    THEN LET n == CHOOSE i \in 1..Len(executions) : executions[i].id = id
         IN  executions[n].approvers
    ELSE Approvers(proposals[id])

ItemOf(id) ==
    LET p == proposals[id]
    IN  [stage |-> IF p.status = "Executed" THEN "done" ELSE "open",
         opened |-> Elapsed(bornAt[id]),
         quorum |-> p.requiredApprovals,
         delay |-> p.timelockUntil - p.proposedAt,
         electorate |-> Electorate(policy, p.mutation),
         endorsers |-> EndorsersOf(id)]

Abstract ==
    INSTANCE TimelockedQuorum WITH
        Item <- ProposalId,
        Member <- Identity,
        now <- Elapsed(Now),
        items <- [id \in DOMAIN bornAt |->
                    IF id \in Live THEN ItemOf(id) ELSE [stage |-> "forgotten"]]

\* The enforcer is a timelocked quorum: see TimelockedQuorum.
ImplementsTimelockedQuorum == Abstract!QSpec

=============================================================================
